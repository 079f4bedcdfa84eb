SPECIFICATION Spec
CONSTANTS
  t1 = t1
  t2 = t2
  t3 = t3
  Tx <- MCTx
  MaxLength = 2
  Empty = Empty
SYMMETRY TxSymmetry
INVARIANTS TypeOK PoolCoherent AllBounded TakenIntact
