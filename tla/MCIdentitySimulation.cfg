CONSTANTS
  a1 = a1
  a2 = a2
  s1 = s1
  s2 = s2
  Accounts = {a1, a2, s1, s2}
  Forms = {"lower"}
  InvalidText = InvalidText
  Empty = Empty
  NoField = NoField
  SimAccounts = {a1, a2}
  SampleAccounts = {s1, s2}
  CccdDraws <- MCCccdDraws
  Times = {1700000000, 1700000001}
  MaxHeight = 3
  MaxOps = 4

SPECIFICATION Spec

\* The simulation ends after MaxOps operations and MaxHeight blocks.
CHECK_DEADLOCK FALSE

INVARIANT SimOpsSucceed
