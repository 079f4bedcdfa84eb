---------------------------- MODULE QueueMachine ----------------------------
(***************************************************************************)
(* What the VM of a contract promises to the author of a program: named    *)
(* instructions, executed once each and in order, take values from the     *)
(* front of a queue and put their result at its back.  A run puts at most  *)
(* Budget values there, whatever it takes out again.                       *)
(***************************************************************************)
EXTENDS Integers, Sequences

CONSTANTS
  Instruction,
  Budget

VARIABLES
  todo,     \* instructions still to be executed
  queue,
  budget,   \* how many more values may enter the queue
  stored,   \* what Store has put: values by key
  status

queueVars == <<todo, queue, budget, stored, status>>

QInit ==
  /\ todo \in Seq(Instruction) \ {<<>>}
  /\ queue = <<>>
  /\ budget = Budget
  /\ stored = <<>>
  /\ status = "running"

Is(i, kind) == i <= Len(queue) /\ kind \in DOMAIN queue[i]

After(n) == SubSeq(queue, n + 1, Len(queue))

Enter(rest, value) ==
  /\ budget > 0
  /\ budget' = budget - 1
  /\ queue' = Append(rest, value)
  /\ UNCHANGED stored

QPush ==
  \/ Head(todo).op = "pushInt" /\ Enter(queue, [int |-> Head(todo).arg])
  \/ Head(todo).op = "pushByte" /\ Enter(queue, [byte |-> Head(todo).arg])

QArithmetic ==
  /\ Is(1, "int") /\ Is(2, "int")
  /\ \/ Head(todo).op = "add" /\ Enter(After(2), [int |-> queue[1].int + queue[2].int])
     \/ Head(todo).op = "sub" /\ Enter(After(2), [int |-> queue[1].int - queue[2].int])

QPack ==
  /\ Head(todo).op = "pack"
  /\ Is(1, "int")
  /\ LET n == queue[1].int
     IN  /\ n >= 0
         /\ \A i \in 1 .. n : Is(i + 1, "byte")
         /\ Enter(After(n + 1), [key |-> [i \in 1 .. n |-> queue[i + 1].byte]])

QStore ==
  /\ Head(todo).op = "store"
  /\ Is(1, "key") /\ Is(2, "int")
  /\ stored' = [k \in DOMAIN stored \cup {queue[1].key} |->
                  IF k = queue[1].key THEN queue[2].int ELSE stored[k]]
  /\ queue' = After(2)
  /\ UNCHANGED budget

QSkip == Head(todo).op = "skip" /\ UNCHANGED <<queue, budget, stored>>

Execute == QPush \/ QArithmetic \/ QPack \/ QStore \/ QSkip

QStep ==
  /\ Execute
  /\ todo' = Tail(todo)
  /\ status' = IF todo' = <<>> THEN "done" ELSE "running"

\* What cannot be executed ends the run.  Nothing stored before is undone.
QPanic ==
  /\ ~ENABLED Execute
  /\ status' = "panic"
  /\ UNCHANGED <<todo, queue, budget, stored>>

QNext == status = "running" /\ (QStep \/ QPanic)

QSpec == QInit /\ [][QNext]_queueVars
=============================================================================
