------------------------ MODULE BlockchainProperties ------------------------
(***************************************************************************)
(* What TLC checks of Blockchain beyond the properties it states itself:   *)
(* how the ledger relates to the chain.  These need folds over the chain.  *)
(***************************************************************************)
EXTENDS Blockchain, SequencesExt

Log == INSTANCE ChainLog WITH log <- chain, GenesisBlock <- Genesis

\* Nobody is between taking stateLock and appending the block.
Settled == stateLock = None /\ \A g \in Goroutines : pc[g] # "append"

(***************************************************************************)
(* A node with one writer is a ChainLog: blocks are appended one on top of *)
(* the other, and each one lists what succeeded in it.  This is what       *)
(* validating, executing and appending in separate steps has to amount to. *)
(***************************************************************************)
ImplementsChainLog == Log!LogSpec

(***************************************************************************)
(* The node's ledger is the one a fresh node would compute from the data   *)
(* of the chain: nothing is executed twice, skipped or out of order.       *)
(***************************************************************************)
LedgerIsReplay == Settled => ledger = Log!Replay(chain)

\* The orders in which a sequence can be rearranged.
Reorderings(seq) == {[i \in DOMAIN seq |-> seq[p[i]]] : p \in Bijection(DOMAIN seq, DOMAIN seq)}

(***************************************************************************)
(* With several writers the blocks may be executed in another order than   *)
(* they are appended (stateLock is released before bc.lock is taken), but  *)
(* still one whole block at a time.                                        *)
(***************************************************************************)
LedgerIsSerial == Settled => \E blocks \in Reorderings(chain) : ledger = Log!Replay(blocks)

\* Transfers move the tokens of genesis and of the funded accounts; none appear, vanish or wrap around.
SupplyConserved ==
  FoldFunction(+, 0, ledger.accounts) = FoldFunction(+, 0, GenesisLedger(Funded).accounts)

\* A block is written to disk only when it is in the chain, once, and in the chain's order.
StoreFollowsChain == store \in Sublists(chain)
=============================================================================
