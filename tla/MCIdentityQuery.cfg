CONSTANTS
  Hashes = {h1, h2}
  Limits = {0, 1, 2}
  DefaultLimit = 2
  All = All
  NoKey = NoKey
  Keys <- MCKeys
  InitKeys <- MCInitKeys

SPECIFICATION Spec

\* A scan ends when the client gets a nil NextKey.
CHECK_DEADLOCK FALSE

INVARIANT TypeOK ScanComplete NoDuplicates
PROPERTY ScanTerminates
