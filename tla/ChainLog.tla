------------------------------ MODULE ChainLog ------------------------------
(***************************************************************************)
(* What one node's blockchain promises to the rest of the program,         *)
(* whatever goroutines and locks are inside: a log that only grows, one    *)
(* block on top of the last, in which each block lists exactly the         *)
(* transactions of its data that succeed when the whole log is executed in *)
(* order.  Blockchain is shown to implement it for a single writer.        *)
(***************************************************************************)
EXTENDS Ledger, SequencesExt

CONSTANTS
  GenesisBlock,  \* the first block
  Funded         \* balances of the accounts the embedding program created

VARIABLE log

\* Executing one transaction more: the ledger it leaves and, if it succeeds, its place in the list.
Executed(run, tx) ==
  [ledger |-> Effect(run.ledger, tx),
   ok |-> IF Outcome(run.ledger, tx) = "ok" THEN Append(run.ok, tx) ELSE run.ok]

(* Executing transactions one after another: the ledger they leave and     *)
(* which of them succeed.                                                  *)
ExecuteAll(s, txx) ==
  LET run[i \in 0 .. Len(txx)] ==
        IF i = 0 THEN [ledger |-> s, ok |-> <<>>] ELSE Executed(run[i - 1], txx[i])
  IN  run[Len(txx)]

\* The ledger that results from all data of a log.
Replay(blocks) ==
  LET after[i \in 0 .. Len(blocks)] ==
        IF i = 0 THEN GenesisLedger(Funded) ELSE ExecuteAll(after[i - 1], blocks[i].data).ledger
  IN  after[Len(blocks)]

LogInit == log = <<GenesisBlock>>

Extends(b) ==
  /\ b.height = Len(log)
  /\ b.prev = Last(log).id
  /\ \A i \in DOMAIN log : log[i].id # b.id
  /\ b.txs = ExecuteAll(Replay(log), b.data).ok

LogNext ==
  /\ Len(log') = Len(log) + 1
  /\ Front(log') = log
  /\ Extends(Last(log'))

LogSpec == LogInit /\ [][LogNext]_log
=============================================================================
