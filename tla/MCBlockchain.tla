---------------------------- MODULE MCBlockchain ----------------------------
(* Instances of Blockchain for TLC.                                        *)
EXTENDS BlockchainProperties

CONSTANTS alice, bob, carol, coinbase, main, loop

MCAddr == {alice, bob, carol, coinbase}

TxOf(id, from, to, value, inner, coll, code) ==
  [id |-> id, from |-> from, to |-> to, value |-> value,
   inner |-> inner, coll |-> coll, code |-> code]

MCGenesisTx == TxOf(0, coinbase, coinbase, 3, "none", 0, "none")
Pay      == TxOf(1, alice, bob, 2, "none", 0, "none")
PayOn    == TxOf(2, bob, carol, 2, "none", 0, "none")         \* succeeds only after Pay
PayBack  == TxOf(3, bob, alice, 1, "none", 0, "none")         \* competes with PayOn
Collect  == TxOf(4, alice, bob, 9, "collection", 0, "none")   \* fails after creating the collection
Mint     == TxOf(5, bob, bob, 0, "mint", 4, "store")
Student  == TxOf(6, alice, alice, 0, "student", 0, "none")
Panic    == TxOf(7, alice, alice, 0, "none", 0, "panic")

MCFunded == (alice :> 2 @@ bob :> 0)
RichFunded == (alice :> 3 @@ bob :> 3)   \* with Modulus = 4, Pay overflows bob's balance

Singles == {Pay, PayOn, Collect, Mint}
SingleBodies == {<<>>, <<Pay>>, <<Pay, PayOn>>, <<Collect, Mint>>, <<PayOn, Pay, Mint>>}

PairTxs == {Pay, PayOn, PayBack}
PairBodies == {<<>>, <<Pay, PayOn>>, <<PayBack>>}

AnyTxs == {Pay, Student, Panic}
AnyBodies == {<<Pay>>, <<Student>>, <<Panic>>}   \* a second Pay fails
=============================================================================
