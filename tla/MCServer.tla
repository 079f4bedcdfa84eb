------------------------------ MODULE MCServer ------------------------------
(* Instances of Server for TLC.                                            *)
EXTENDS ServerProperties

CONSTANTS alice, bob, coinbase

MCAddr == {alice, bob, coinbase}

TxOf(id, from, to, value) ==
  [id |-> id, from |-> from, to |-> to, value |-> value,
   inner |-> "none", coll |-> 0, code |-> "none"]

MCGenesisTx == TxOf(0, coinbase, coinbase, 3)
Early == TxOf(1, alice, bob, 1)
Second == TxOf(2, alice, bob, 1)
Third  == TxOf(3, bob, alice, 8)   \* fails: bob never has that much

MCFunded == (alice :> 6 @@ bob :> 0)

TwoTxs == {Early, Second}
ThreeTxs == {Early, Second, Third}

NoBodies == {}
PeerBodies == {<<>>, <<Early>>, <<Second, Early>>}
=============================================================================
