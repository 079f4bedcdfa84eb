SPECIFICATION HistorySpec
CONSTANTS
  alice = alice
  bob = bob
  coinbase = coinbase
  Coinbase = coinbase
  None = None
  Main = Main
  Loop = Loop
  Empty = Empty
  Goroutines = {Main, Loop}
  Validators = {Loop}
  Addr <- MCAddr
  Modulus = 16
  Tx <- ThreeTxs
  GenesisTx <- MCGenesisTx
  Bodies <- OnePeerBody
  Funded <- MCFunded
  MaxBuilt = 2
  MaxLength = 3
INVARIANTS ServerTypeOK ExecutesWhatIsHashed
PROPERTIES ForgetsOnlyExecuted LostOnlyLateOrSkipped
