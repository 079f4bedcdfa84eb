------------------------------ MODULE MCTxPool ------------------------------
(* Instances of TxPool for TLC.                                            *)
EXTENDS TxPool, TLC

CONSTANTS t1, t2, t3

MCTx == {t1, t2, t3}
TxSymmetry == Permutations(MCTx)

=============================================================================
