SPECIFICATION FairSpec
CONSTANTS
  alice = alice
  bob = bob
  carol = carol
  coinbase = coinbase
  Coinbase = coinbase
  None = None
  main = main
  loop = loop
  Goroutines = {main, loop}
  Validators = {loop}
  Addr <- MCAddr
  Modulus = 4
  Tx <- AnyTxs
  GenesisTx <- MCGenesisTx
  Bodies <- AnyBodies
  Funded <- RichFunded
  MaxBuilt = 3
INVARIANTS TypeOK ExecutionExclusive ParentLinked NoBlockTwice LedgerIsSerial
PROPERTY AddBlockReturns
CHECK_DEADLOCK FALSE
