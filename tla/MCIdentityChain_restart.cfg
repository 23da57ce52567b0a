\* A node restarts after block 1 and admits a payment between unregistered accounts.
CONSTANTS
  a1 = a1
  a2 = a2
  c1 = c1
  c2 = c2
  Accounts = {a1, a2}
  Forms = {"lower"}
  InvalidText = InvalidText
  Empty = Empty
  NoField = NoField
  Nodes = {n1}
  Secrets = {c1, c2}
  Times = {1700000000, 1700000001}
  MaxHeight = 3
  TxPool <- MCTxPool
  Genesis <- MCGenesis
  CheckPool <- MCCheckPool

SPECIFICATION Spec

INVARIANT MempoolGated
