SPECIFICATION SyncFairSpec
CONSTANTS
  local = local
  remoteB = remoteB
  t1 = t1
  t2 = t2
  Node = {local, remoteB}
  Validator = local
  Links <- PairLinks
  ApiNodes = {remoteB}
  Tx = {t1, t2}
  MaxLength = 1
  MaxHeight = 2
  MaxOutside = 2
  MaxFailed = 1
INVARIANTS SyncTypeOK TxInOneBlock
PROPERTIES ChainsAreCopies CatchesUp
CHECK_DEADLOCK FALSE
