-------------------------- MODULE ServerProperties --------------------------
(***************************************************************************)
(* What TLC checks of Server: how the pool, the blocks built from it and   *)
(* the chain fit together.                                                 *)
(***************************************************************************)
EXTENDS Server, BlockchainProperties

\* AddBlock never failed to write a block: each one of the chain is on disk or about to be.
DiskOk ==
  \A i \in DOMAIN chain :
    \/ \E k \in DOMAIN store : store[k].id = chain[i].id
    \/ \E g \in Goroutines : pc[g] = "put" /\ blk[g].id = chain[i].id

(***************************************************************************)
(* No transaction is executed twice on one chain.  Transactions carry no   *)
(* sequence number: only the pool's memory of what it has seen, and the    *)
(* removal of what a block contained, prevent it.                          *)
(***************************************************************************)
TxExecutedOnce ==
  \A i, j \in DOMAIN chain : \A k \in DOMAIN chain[i].txs, m \in DOMAIN chain[j].txs :
    chain[i].txs[k] = chain[j].txs[m] => i = j /\ k = m

\* The same for a node whose disk works: createNewBlock does not clear the pool after a failed Put.
TxExecutedOnceOnDisk == DiskOk => TxExecutedOnce

(***************************************************************************)
(* Blocks carry transactions in the order in which they entered the pool,  *)
(* each at most as often as it entered.                                    *)
(***************************************************************************)
ArrivalOrder ==
  DiskOk => FlattenSeq([i \in 1 .. Height |-> chain[i + 1].data]) \in Sublists(arrival)

(***************************************************************************)
(* What the validator's block executes is part of what its header commits  *)
(* to, although the transactions are read from the pool's slice after they *)
(* were hashed - unless a removal has moved the cells of the slice.        *)
(***************************************************************************)
ExecutesWhatIsHashed ==
  Loop \in Goroutines /\ pc[Loop] \in {"append", "put"} /\ ~taken.removed
    => blk[Loop].txs \in Sublists(blk[Loop].data)

ArrivedBefore(early, late) ==
  \E i, j \in DOMAIN arrival : i < j /\ arrival[i] = early /\ arrival[j] = late

(***************************************************************************)
(* createNewBlock drops from pending what it has put into its block, as    *)
(* its comment says (server.go:682): "Clear pending transactions that were *)
(* included in the block".  The code drops what has arrived since, too.    *)
(***************************************************************************)
ClearsOnlyIncluded ==
  [][ClearPending => pending.lookup \subseteq Range(blk[Loop].data)]_serverVars

(***************************************************************************)
(* As long as no pruning is needed, the pool forgets a transaction only    *)
(* when a block of the chain has executed it.                              *)
(***************************************************************************)
ForgetsOnlyExecuted ==
  [][\A tx \in all.lookup \ all'.lookup :
       \E i \in DOMAIN chain : tx \in Range(chain[i].txs)]_serverVars
=============================================================================
