---------------------------- MODULE Replication ----------------------------
(***************************************************************************)
(* What a network with one validator promises: the validator's chain is a  *)
(* log that grows block by block, and each other node holds a copy of a    *)
(* beginning of it that only grows.  There are no messages here; Sync is   *)
(* shown to implement it.                                                  *)
(***************************************************************************)
EXTENDS Naturals, Sequences

CONSTANTS
  Node,
  Validator

VARIABLE copy  \* the chain of each node

Log == copy[Validator]

\* s is how t begins.
BeginningOf(s, t) == Len(s) <= Len(t) /\ \A i \in 1 .. Len(s) : s[i] = t[i]

RInit ==
  /\ \A n \in Node : copy[n] = Log
  /\ Len(Log) = 1

\* The validator puts one block on top of its chain.
Grow ==
  /\ Len(Log') = Len(Log) + 1
  /\ BeginningOf(Log, Log')
  /\ \A n \in Node \ {Validator} : copy'[n] = copy[n]

\* Another node takes over the next block.
Copy(n) ==
  /\ Len(copy'[n]) = Len(copy[n]) + 1
  /\ BeginningOf(copy[n], copy'[n])
  /\ BeginningOf(copy'[n], Log)
  /\ \A m \in Node \ {n} : copy'[m] = copy[m]

RNext == Grow \/ \E n \in Node \ {Validator} : Copy(n)

RSpec == RInit /\ [][RNext]_copy
=============================================================================
