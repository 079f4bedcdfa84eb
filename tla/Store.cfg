SPECIFICATION StoreSpec
CONSTANTS
  main = main
  other = other
  Goroutines = {main, other}
  Main = main
  genesis = genesis
  b1 = b1
  c1 = c1
  Block = {genesis, b1, c1}
  GenesisBlock = genesis
  HeightOf <- Heights
  None = None
  MaxParts = 6
INVARIANTS StoreTypeOK IndexBacked Durable NodeKnowsItsFile LookupNeverWrong
