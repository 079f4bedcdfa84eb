SPECIFICATION Spec
CONSTANTS
  alice = alice
  bob = bob
  carol = carol
  coinbase = coinbase
  Coinbase = coinbase
  None = None
  main = main
  loop = loop
  Goroutines = {main}
  Validators = {}
  Addr <- MCAddr
  Modulus = 16
  Tx <- Singles
  GenesisTx <- MCGenesisTx
  Bodies <- SingleBodies
  Funded <- MCFunded
  MaxBuilt = 3
INVARIANTS HeightIsIndex LedgerIsReplay SupplyConserved StoreFollowsChain
PROPERTY ImplementsChainLog
