----------------------------- MODULE LossyLink -----------------------------
(***************************************************************************)
(* What each direction of a connection promises, numbering its messages in *)
(* the order in which they are written.  Some are lost, some are replaced  *)
(* by a later one and some by a mixture of several; but nothing arrives    *)
(* that does not take the place of a message, and none is overtaken or     *)
(* delivered before it is sent.                                            *)
(***************************************************************************)
EXTENDS Naturals, Sequences

CONSTANT Direction

VARIABLES
  number,  \* how many messages have been sent
  queue,   \* those still to be delivered
  got      \* the message delivered last

\* A mixture of several messages, and what is delivered before the first.
Garbled == 0

linkVars == <<number, queue, got>>

LInit ==
  /\ number = [d \in Direction |-> 0]
  /\ queue = [d \in Direction |-> <<>>]
  /\ got = [d \in Direction |-> Garbled]

LSend(d) ==
  /\ number' = [number EXCEPT ![d] = @ + 1]
  /\ queue' = [queue EXCEPT ![d] = Append(@, number[d] + 1)]
  /\ UNCHANGED got

LDeliver(d) ==
  /\ queue[d] # <<>>
  /\ \E m \in {Head(queue[d]), Garbled} : got' = [got EXCEPT ![d] = m]
  /\ queue' = [queue EXCEPT ![d] = Tail(@)]
  /\ UNCHANGED number

\* r can be left of q: in the place of a message there is itself, a later one or a mixture, still in order.
Damaged(q, r) ==
  /\ Len(r) <= Len(q)
  /\ \A i \in DOMAIN r : r[i] = Garbled \/ \E j \in i .. Len(q) : r[i] = q[j]
  /\ \A i, j \in DOMAIN r : i <= j => r[j] = Garbled \/ r[i] <= r[j]

LDamage ==
  /\ UNCHANGED <<number, got>>
  /\ \E after \in {queue'} :
       /\ DOMAIN after = Direction
       /\ \A d \in Direction : queue[d] = after[d] \/ Damaged(queue[d], after[d])

LNext == LDamage \/ \E d \in Direction : LSend(d) \/ LDeliver(d)

LSpec == LInit /\ [][LNext]_linkVars
=============================================================================
