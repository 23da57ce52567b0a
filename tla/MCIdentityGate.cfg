CONSTANTS
  a1 = a1
  a2 = a2
  cccd1 = cccd1
  Accounts = {a1, a2}
  Forms = {"lower", "upper"}
  InvalidText = InvalidText
  Empty = Empty
  NoField = NoField
  TxSpace <- MCTxSpace
  Heights <- MCHeights
  KeySets <- MCKeySets

SPECIFICATION Spec

\* One invocation returns and stops.
CHECK_DEADLOCK FALSE

INVARIANT TypeOK
PROPERTY ImplementsGateDecision
