SPECIFICATION Spec
CONSTANTS
  alice = alice
  bob = bob
  carol = carol
  coinbase = coinbase
  Coinbase = coinbase
  None = None
  main = main
  loop = loop
  Goroutines = {main, loop}
  Validators = {loop}
  Addr <- MCAddr
  Modulus = 16
  Tx <- PairTxs
  GenesisTx <- MCGenesisTx
  Bodies <- PairBodies
  Funded <- MCFunded
  MaxBuilt = 2
INVARIANT HeightIsIndex
