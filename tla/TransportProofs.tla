-------------------------- MODULE TransportProofs --------------------------
(***************************************************************************)
(* Proofs about Transport for pipes, reads and numbers of messages of any  *)
(* size: who holds the server's mu in which stage of a Send or a           *)
(* broadcast, also of one that fails; and that what the message loop       *)
(* decodes of the units in the pipe and in readLoop's buffer is what a     *)
(* LossyLink delivers.                                                     *)
(***************************************************************************)
EXTENDS Transport, FiniteSetTheorems, TLAPS

Label == {"idle", "decode", "rlock", "find", "send", "write", "lock", "update", "relock"}

\* The operations in which a thread comes to a label.
Fits(label, operation) ==
  /\ label \in {"idle", "decode"} => operation = "none"
  /\ label = "rlock" => operation \in {"reply", "cast"}
  /\ label = "find" => operation \in {"reply", "cast", "fetch"}
  /\ label \in {"send", "write"} => operation \in {"add", "reply", "cast", "fetch"}
  /\ label \in {"lock", "update"} => operation \in {"add", "cast"}
  /\ label = "relock" => operation = "cast"

\* Where a thread holds mu for reading.
Reads(label, operation) == label \in {"find", "send", "write"} /\ operation \in {"reply", "cast"}

ThreadInv ==
  /\ pc \in [Node -> [Thread -> Label]]
  /\ op \in [Node -> [Thread -> Operation]]
  /\ readers \in [Node -> SUBSET Thread]
  /\ writer \in [Node -> Thread \cup {None}]
  /\ \A n \in Node : \A t \in Thread :
       /\ Fits(pc[n][t], op[n][t])
       /\ writer[n] = t <=> pc[n][t] = "update"
       /\ t \in readers[n] <=> Reads(pc[n][t], op[n][t])

\* Whether a thread has a message to write: one that broadcasts and locks mu has tried already.
Owes(label, operation) ==
  IF label \in {"rlock", "find", "send"} \/ (label \in {"lock", "update"} /\ operation = "add")
  THEN 1 ELSE 0

Owed(n, t) == Owes(pc[n][t], op[n][t])

\* There is room for what threads have begun to send.
RoomInv == \A n \in Node : sent[n] + Owed(n, "loop") + Owed(n, "cast") <= MaxSent

DataInv ==
  /\ broken \in BOOLEAN
  /\ pipe \in [Node -> Seq(Unit)]
  /\ \A n \in Node : Len(pipe[n]) <= Capacity
  /\ sent \in [Node -> Nat]
  /\ known \in [Node -> BOOLEAN]
  /\ closed \in [Node -> BOOLEAN]
  /\ left \in [Node -> Seq(Unit)]
  /\ reader \in [Node -> {"off", "read", "hand", "ended"}]
  /\ buf \in [Node -> Seq(Unit)]
  /\ len \in [Node -> 0 .. ReadSize]
  /\ slice \in [Node -> 0 .. ReadSize]
  /\ got \in [Node -> 0 .. MaxSent]
  /\ \A n \in Node : len[n] <= Len(buf[n]) /\ slice[n] <= Len(buf[n])

TransportInv == ThreadInv /\ RoomInv /\ DataInv

USE TransportAssumption, NoneAssumption DEF Thread

LEMMA OtherIsNode == \A n \in Node : Other(n) \in Node /\ Other(n) # n
  BY DEF Other

LEMMA OwedIsOne == \A n \in Node, t \in Thread : Owed(n, t) \in {0, 1}
  BY DEF Owed, Owes

\* A thread that may begin to send has room for its message.
LEMMA RoomToSend ==
  ASSUME TransportInv, NEW n \in Node, MaySend(n)
  PROVE  sent[n] + Owed(n, "loop") + Owed(n, "cast") < MaxSent
<1> DEFINE T == {t \in Thread : pc[n][t] \in {"lock", "update", "rlock", "find", "send"}}
<1>1. sent[n] \in Nat /\ sent[n] + Cardinality(T) < MaxSent
  BY DEF MaySend, TransportInv, DataInv
<1>2. \A t \in Thread : Owed(n, t) = 1 => t \in T
  BY DEF Owed, Owes
<1>3. Owed(n, "loop") \in {0, 1} /\ Owed(n, "cast") \in {0, 1}
  BY OwedIsOne
<1>4. IsFiniteSet(Thread) /\ T \subseteq Thread
  <2>1. IsFiniteSet({"loop"})
    BY FS_Singleton
  <2>2. IsFiniteSet({"loop"} \cup {"cast"})
    BY <2>1, FS_AddElement
  <2> QED
    BY <2>2
<1>5. IsFiniteSet(T) /\ Cardinality(T) \in Nat
  BY <1>4, FS_Subset, FS_CardinalityType
<1>6. CASE Owed(n, "loop") = 1 /\ Owed(n, "cast") = 1
  <2>1. T = {"loop"} \cup {"cast"} /\ "cast" \notin {"loop"}
    BY <1>2, <1>6
  <2>2. IsFiniteSet({"loop"}) /\ Cardinality({"loop"}) = 1
    BY FS_Singleton
  <2>3. Cardinality({"loop"} \cup {"cast"}) = Cardinality({"loop"}) + 1
    BY <2>1, <2>2, FS_AddElement
  <2> QED
    BY <1>1, <1>6, <2>1, <2>2, <2>3
<1>7. CASE ~(Owed(n, "loop") = 1 /\ Owed(n, "cast") = 1)
  <2>1. CASE T = {}
    BY <1>1, <1>2, <1>3, <1>5, <2>1
  <2>2. CASE T # {}
    <3>1. Cardinality(T) # 0
      BY <1>5, <2>2, FS_EmptySet
    <3> QED
      BY <1>1, <1>3, <1>5, <1>7, <3>1
  <2> QED
    BY <2>1, <2>2
<1> QED
  BY <1>6, <1>7

LEMMA InitTransportInv == TransportInit => TransportInv
<1> SUFFICES ASSUME TransportInit PROVE TransportInv
  OBVIOUS
<1>1. ThreadInv
  BY DEF TransportInit, ThreadInv, Label, Operation, Fits, Reads
<1>2. RoomInv
  BY DEF TransportInit, RoomInv, Owed, Owes
<1>3. DataInv
  <2>1. <<>> \in Seq(Unit) /\ Len(<<>>) = 0
    OBVIOUS
  <2>2. \A n \in Node : /\ pipe[n] = <<>> /\ buf[n] = <<>> /\ len[n] = 0 /\ slice[n] = 0
    BY DEF TransportInit
  <2>3. \A n \in Node : /\ Len(pipe[n]) <= Capacity /\ len[n] <= Len(buf[n])
                         /\ slice[n] <= Len(buf[n])
    BY <2>1, <2>2
  <2>4. 0 \in 0 .. ReadSize /\ 0 \in 0 .. MaxSent
    OBVIOUS
  <2> QED
    BY <2>1, <2>3, <2>4 DEF TransportInit, DataInv, Garbled
<1> QED
  BY <1>1, <1>2, <1>3 DEF TransportInv

-----------------------------------------------------------------------------
(* Steps of threads *)

\* How a step of a thread to a label of an operation changes its operation and mu.
OpFollows(n, t, operation) ==
  \/ op' = [op EXCEPT ![n][t] = operation]
  \/ op' = op /\ operation = op[n][t]

ReadersFollow(n, t, label, operation) ==
  \/ readers' = [readers EXCEPT ![n] = @ \cup {t}] /\ Reads(label, operation)
  \/ readers' = [readers EXCEPT ![n] = @ \ {t}] /\ ~Reads(label, operation)
  \/ readers' = readers /\ (Reads(label, operation) <=> t \in readers[n])

WriterFollows(n, t, label) ==
  \/ writer' = [writer EXCEPT ![n] = t] /\ writer[n] = None /\ label = "update"
  \/ writer' = [writer EXCEPT ![n] = None] /\ writer[n] = t /\ label # "update"
  \/ writer' = writer /\ (label = "update" <=> writer[n] = t)

(***************************************************************************)
(* A thread goes to another label, in the same or another operation, and   *)
(* takes and gives up mu as the label demands.                             *)
(***************************************************************************)
LEMMA ThreadMoves ==
  ASSUME ThreadInv, NEW n \in Node, NEW t \in Thread,
         NEW label \in Label, NEW operation \in Operation, Fits(label, operation),
         Goto(n, t, label),
         OpFollows(n, t, operation), ReadersFollow(n, t, label, operation),
         WriterFollows(n, t, label)
  PROVE  /\ ThreadInv'
         /\ Owed(n, t)' = Owes(label, operation)
         /\ \A m \in Node, u \in Thread : m # n \/ u # t => Owed(m, u)' = Owed(m, u)
<1>1. /\ pc'[n][t] = label /\ op'[n][t] = operation
      /\ \A m \in Node, u \in Thread :
           m # n \/ u # t => pc'[m][u] = pc[m][u] /\ op'[m][u] = op[m][u]
      /\ pc' \in [Node -> [Thread -> Label]] /\ op' \in [Node -> [Thread -> Operation]]
  <2>1. /\ pc'[n][t] = label /\ pc' \in [Node -> [Thread -> Label]]
        /\ \A m \in Node, u \in Thread : m # n \/ u # t => pc'[m][u] = pc[m][u]
    BY DEF ThreadInv, Goto
  <2>2. /\ op'[n][t] = operation /\ op' \in [Node -> [Thread -> Operation]]
        /\ \A m \in Node, u \in Thread : m # n \/ u # t => op'[m][u] = op[m][u]
    <3>1. CASE op' = [op EXCEPT ![n][t] = operation]
      BY <3>1 DEF ThreadInv
    <3>2. CASE op' = op /\ operation = op[n][t]
      BY <3>2 DEF ThreadInv
    <3> QED
      BY <3>1, <3>2 DEF OpFollows
  <2> QED
    BY <2>1, <2>2
<1>2. /\ readers' \in [Node -> SUBSET Thread]
      /\ t \in readers'[n] <=> Reads(label, operation)
      /\ \A m \in Node, u \in Thread : m # n \/ u # t => (u \in readers'[m] <=> u \in readers[m])
  BY DEF ThreadInv, ReadersFollow
<1>3. /\ writer' \in [Node -> Thread \cup {None}]
      /\ writer'[n] = t <=> label = "update"
      /\ \A m \in Node, u \in Thread : m # n \/ u # t => (writer'[m] = u <=> writer[m] = u)
  <2>1. CASE writer' = [writer EXCEPT ![n] = t] /\ writer[n] = None /\ label = "update"
    BY <2>1 DEF ThreadInv
  <2>2. CASE writer' = [writer EXCEPT ![n] = None] /\ writer[n] = t /\ label # "update"
    BY <2>2 DEF ThreadInv
  <2>3. CASE writer' = writer /\ (label = "update" <=> writer[n] = t)
    BY <2>3 DEF ThreadInv
  <2> QED
    BY <2>1, <2>2, <2>3 DEF WriterFollows
<1>4. ASSUME NEW m \in Node, NEW u \in Thread
      PROVE  /\ Fits(pc'[m][u], op'[m][u])
             /\ writer'[m] = u <=> pc'[m][u] = "update"
             /\ u \in readers'[m] <=> Reads(pc'[m][u], op'[m][u])
  <2>1. CASE m = n /\ u = t
    BY <1>1, <1>2, <1>3, <2>1
  <2>2. CASE m # n \/ u # t
    BY <1>1, <1>2, <1>3, <2>2 DEF ThreadInv
  <2> QED
    BY <2>1, <2>2
<1>5. ThreadInv'
  BY <1>1, <1>2, <1>3, <1>4 DEF ThreadInv
<1> QED
  BY <1>1, <1>5 DEF Owed

\* A thread that moves without a Write has no more to send than before.
LEMMA RoomKept ==
  ASSUME RoomInv, DataInv, sent' = sent, NEW n \in Node, NEW t \in Thread,
         Owed(n, t)' \in {0, 1}, Owed(n, t)' <= Owed(n, t),
         \A m \in Node, u \in Thread : m # n \/ u # t => Owed(m, u)' = Owed(m, u)
  PROVE  RoomInv'
<1> SUFFICES ASSUME NEW m \in Node
             PROVE  sent[m] + Owed(m, "loop")' + Owed(m, "cast")' <= MaxSent
  BY DEF RoomInv
<1>1. /\ sent[m] \in Nat /\ Owed(m, "loop") \in {0, 1} /\ Owed(m, "cast") \in {0, 1}
      /\ sent[m] + Owed(m, "loop") + Owed(m, "cast") <= MaxSent
  BY OwedIsOne DEF RoomInv, DataInv
<1>2. Owed(m, "loop")' \in {0, 1} /\ Owed(m, "loop")' <= Owed(m, "loop")
  BY <1>1
<1>3. Owed(m, "cast")' \in {0, 1} /\ Owed(m, "cast")' <= Owed(m, "cast")
  BY <1>1
<1> QED
  BY <1>1, <1>2, <1>3

\* What a step of thread t of n leaves of the invariant if it does not increase what t owes.
Kept(n, t) ==
  /\ ThreadInv'
  /\ Owed(n, t)' \in {0, 1} /\ Owed(n, t)' <= Owed(n, t)
  /\ \A m \in Node, u \in Thread : m # n \/ u # t => Owed(m, u)' = Owed(m, u)

LEMMA KeptInv ==
  ASSUME TransportInv, NEW n \in Node, NEW t \in Thread, Kept(n, t), sent' = sent, DataInv'
  PROVE  TransportInv'
  BY RoomKept DEF Kept, TransportInv

LEMMA MovesKept ==
  ASSUME ThreadInv, NEW n \in Node, NEW t \in Thread, NEW label, NEW operation,
         ThreadInv', Owed(n, t)' = Owes(label, operation), Owes(label, operation) <= Owed(n, t),
         \A m \in Node, u \in Thread : m # n \/ u # t => Owed(m, u)' = Owed(m, u)
  PROVE  Kept(n, t)
  BY DEF Kept, Owes

LEMMA ThreadFacts ==
  ASSUME ThreadInv, NEW n \in Node, NEW t \in Thread
  PROVE  /\ pc[n][t] \in Label /\ op[n][t] \in Operation /\ Fits(pc[n][t], op[n][t])
         /\ writer[n] = t <=> pc[n][t] = "update"
         /\ t \in readers[n] <=> Reads(pc[n][t], op[n][t])
         /\ t # None
  BY DEF ThreadInv

\* A handler ends and gives up the read lock, if it has it.
LEMMA SentKept ==
  ASSUME ThreadInv, NEW n \in Node, NEW t \in Thread,
         pc[n][t] \in {"find", "send", "write"}, Sent(n, t)
  PROVE  Kept(n, t)
<1>1. /\ Goto(n, t, "idle") /\ op' = [op EXCEPT ![n][t] = "none"]
      /\ readers' = [readers EXCEPT ![n] = @ \ {t}] /\ writer' = writer
  BY DEF Sent, Finish, Begin, RUnlock
<1>2. "idle" \in Label /\ "none" \in Operation /\ Fits("idle", "none") /\ ~Reads("idle", "none")
      /\ Owes("idle", "none") = 0
  BY DEF Label, Operation, Fits, Reads, Owes
<1>3. writer[n] # t
  BY ThreadFacts
<1>4. /\ ThreadInv' /\ Owed(n, t)' = Owes("idle", "none")
      /\ \A m \in Node, u \in Thread : m # n \/ u # t => Owed(m, u)' = Owed(m, u)
  <2>1. OpFollows(n, t, "none")
    BY <1>1, <1>2, <1>3 DEF OpFollows
  <2>2. ReadersFollow(n, t, "idle", "none")
    BY <1>1, <1>2, <1>3 DEF ReadersFollow
  <2>3. WriterFollows(n, t, "idle")
    BY <1>1, <1>2, <1>3 DEF WriterFollows
  <2> QED
    BY <1>1, <1>2, <1>3, <2>1, <2>2, <2>3, ThreadMoves
<1> QED
  BY <1>2, <1>4, OwedIsOne, MovesKept

\* A broadcast that fails goes on to remove the peer.
LEMMA SendFailedKept ==
  ASSUME ThreadInv, NEW n \in Node, NEW t \in Thread,
         pc[n][t] \in {"send", "write"}, SendFailed(n, t)
  PROVE  Kept(n, t)
<1>1. CASE op[n][t] = "cast"
  <2>1. /\ Goto(n, t, "lock") /\ op' = op
        /\ readers' = [readers EXCEPT ![n] = @ \ {t}] /\ writer' = writer
    BY <1>1 DEF SendFailed, RUnlock
  <2>2. "lock" \in Label /\ "cast" \in Operation /\ Fits("lock", "cast") /\ ~Reads("lock", "cast")
        /\ Owes("lock", "cast") = 0
    BY DEF Label, Operation, Fits, Reads, Owes
  <2>3. writer[n] # t
    BY ThreadFacts
  <2>4. /\ ThreadInv' /\ Owed(n, t)' = Owes("lock", "cast")
        /\ \A m \in Node, u \in Thread : m # n \/ u # t => Owed(m, u)' = Owed(m, u)
    <3>1. OpFollows(n, t, "cast")
      BY <1>1, <2>1, <2>2, <2>3 DEF OpFollows
    <3>2. ReadersFollow(n, t, "lock", "cast")
      BY <1>1, <2>1, <2>2, <2>3 DEF ReadersFollow
    <3>3. WriterFollows(n, t, "lock")
      BY <1>1, <2>1, <2>2, <2>3 DEF WriterFollows
    <3> QED
      BY <1>1, <2>1, <2>2, <2>3, <3>1, <3>2, <3>3, ThreadMoves
  <2> QED
    BY <2>2, <2>4, OwedIsOne, MovesKept
<1>2. CASE op[n][t] # "cast"
  BY <1>2, SentKept DEF SendFailed
<1> QED
  BY <1>1, <1>2

\* A thread takes a step that changes neither mu nor its operation.
LEMMA GotoKept ==
  ASSUME ThreadInv, NEW n \in Node, NEW t \in Thread, NEW label \in Label,
         Goto(n, t, label), UNCHANGED <<op, readers, writer>>,
         Fits(label, op[n][t]), Reads(label, op[n][t]) <=> Reads(pc[n][t], op[n][t]),
         label # "update", pc[n][t] # "update",
         Owes(label, op[n][t]) <= Owed(n, t)
  PROVE  Kept(n, t)
<1>1. op[n][t] \in Operation /\ writer[n] # t /\ (Reads(label, op[n][t]) <=> t \in readers[n])
  BY ThreadFacts
<1>2. /\ ThreadInv' /\ Owed(n, t)' = Owes(label, op[n][t])
      /\ \A m \in Node, u \in Thread : m # n \/ u # t => Owed(m, u)' = Owed(m, u)
  <2>1. OpFollows(n, t, op[n][t])
    BY <1>1 DEF OpFollows
  <2>2. ReadersFollow(n, t, label, op[n][t])
    BY <1>1 DEF ReadersFollow
  <2>3. WriterFollows(n, t, label)
    BY <1>1 DEF WriterFollows
  <2> QED
    BY <1>1, <2>1, <2>2, <2>3, ThreadMoves
<1> QED
  BY <1>2, MovesKept

LEMMA DataKept ==
  ASSUME DataInv, UNCHANGED <<broken, pipe, sent, known, closed, left, reader, buf, len, slice, got>>
  PROVE  DataInv'
  BY DEF DataInv

\* The steps of a thread that leave what is sent and received alone.
LEMMA QuietSteps ==
  ASSUME TransportInv, NEW n \in Node, NEW t \in Thread,
         \/ Lock(n, t) \/ EnterReading(n, t) \/ Find(n, t)
         \/ SendToClosed(n, t) \/ Written(n, t) \/ Relock(n, t)
  PROVE  TransportInv'
<1>1. UNCHANGED <<broken, pipe, sent, known, closed, left, reader, buf, len, slice, got>>
  BY DEF Lock, EnterReading, Find, SendToClosed, Written, Relock, output, input
<1>2. DataInv' /\ sent' = sent
  BY <1>1, DataKept DEF TransportInv
<1>3. /\ pc[n][t] \in Label /\ op[n][t] \in Operation /\ Fits(pc[n][t], op[n][t])
      /\ writer[n] = t <=> pc[n][t] = "update"
      /\ t \in readers[n] <=> Reads(pc[n][t], op[n][t])
      /\ t # None /\ ThreadInv
  BY ThreadFacts DEF TransportInv
<1>4. CASE Lock(n, t)
  <2>1. /\ pc[n][t] = "lock" /\ writer[n] = None /\ writer' = [writer EXCEPT ![n] = t]
        /\ Goto(n, t, "update") /\ op' = op /\ readers' = readers
    BY <1>4 DEF Lock
  <2>2. /\ "update" \in Label /\ Fits("update", op[n][t]) /\ ~Reads("update", op[n][t])
        /\ t \notin readers[n] /\ Owes("update", op[n][t]) = Owed(n, t)
    BY <1>3, <2>1 DEF Label, Fits, Reads, Owes, Owed
  <2>3. /\ ThreadInv' /\ Owed(n, t)' = Owes("update", op[n][t])
        /\ \A m \in Node, u \in Thread : m # n \/ u # t => Owed(m, u)' = Owed(m, u)
    <3>1. OpFollows(n, t, op[n][t])
      BY <1>3, <2>1, <2>2 DEF OpFollows
    <3>2. ReadersFollow(n, t, "update", op[n][t])
      BY <1>3, <2>1, <2>2 DEF ReadersFollow
    <3>3. WriterFollows(n, t, "update")
      BY <1>3, <2>1, <2>2 DEF WriterFollows
    <3> QED
      BY <1>3, <2>1, <2>2, <3>1, <3>2, <3>3, ThreadMoves
  <2> QED
    BY <1>2, <1>3, <2>2, <2>3, OwedIsOne, MovesKept, KeptInv
<1>5. CASE EnterReading(n, t)
  <2>1. /\ pc[n][t] = "rlock" /\ readers' = [readers EXCEPT ![n] = @ \cup {t}] /\ writer' = writer
        /\ Goto(n, t, "find") /\ op' = op
    BY <1>5 DEF EnterReading, RLock
  <2>2. /\ "find" \in Label /\ Fits("find", op[n][t]) /\ Reads("find", op[n][t])
        /\ writer[n] # t /\ Owes("find", op[n][t]) = Owed(n, t)
    BY <1>3, <2>1 DEF Label, Fits, Reads, Owes, Owed
  <2>3. /\ ThreadInv' /\ Owed(n, t)' = Owes("find", op[n][t])
        /\ \A m \in Node, u \in Thread : m # n \/ u # t => Owed(m, u)' = Owed(m, u)
    <3>1. OpFollows(n, t, op[n][t])
      BY <1>3, <2>1, <2>2 DEF OpFollows
    <3>2. ReadersFollow(n, t, "find", op[n][t])
      BY <1>3, <2>1, <2>2 DEF ReadersFollow
    <3>3. WriterFollows(n, t, "find")
      BY <1>3, <2>1, <2>2 DEF WriterFollows
    <3> QED
      BY <1>3, <2>1, <2>2, <3>1, <3>2, <3>3, ThreadMoves
  <2> QED
    BY <1>2, <1>3, <2>2, <2>3, OwedIsOne, MovesKept, KeptInv
<1>6. CASE Find(n, t)
  <2>1. CASE known[n]
    <3>1. /\ pc[n][t] = "find" /\ Goto(n, t, "send")
          /\ UNCHANGED <<op, readers, writer>>
      BY <1>6, <2>1 DEF Find, mu
    <3>2. /\ "send" \in Label /\ Fits("send", op[n][t])
          /\ Reads("send", op[n][t]) <=> Reads(pc[n][t], op[n][t])
          /\ Owes("send", op[n][t]) <= Owed(n, t)
      BY <1>3, <3>1 DEF Label, Fits, Reads, Owes, Owed
    <3>3. Kept(n, t)
      BY <1>3, <3>1, <3>2, GotoKept
    <3> QED
      BY <1>2, <3>3, KeptInv
  <2>2. CASE ~known[n]
    BY <1>2, <1>3, <1>6, <2>2, SentKept, KeptInv DEF Find, Sent
  <2> QED
    BY <2>1, <2>2
<1>7. CASE SendToClosed(n, t)
  BY <1>2, <1>3, <1>7, SendFailedKept, KeptInv DEF SendToClosed
<1>8. CASE Written(n, t)
  BY <1>2, <1>3, <1>8, SentKept, KeptInv DEF Written
<1>9. CASE Relock(n, t)
  <2>1. /\ pc[n][t] = "relock" /\ UNCHANGED <<readers, writer>>
        /\ Goto(n, t, "idle") /\ op' = [op EXCEPT ![n][t] = "none"]
    BY <1>9 DEF Relock, Finish, Begin, mu
  <2>2. /\ "idle" \in Label /\ "none" \in Operation /\ Fits("idle", "none") /\ ~Reads("idle", "none")
        /\ t \notin readers[n] /\ writer[n] # t /\ Owes("idle", "none") = 0
    BY <1>3, <2>1 DEF Label, Operation, Fits, Reads, Owes
  <2>3. /\ ThreadInv' /\ Owed(n, t)' = Owes("idle", "none")
        /\ \A m \in Node, u \in Thread : m # n \/ u # t => Owed(m, u)' = Owed(m, u)
    <3>1. OpFollows(n, t, "none")
      BY <1>3, <2>1, <2>2 DEF OpFollows
    <3>2. ReadersFollow(n, t, "idle", "none")
      BY <1>3, <2>1, <2>2 DEF ReadersFollow
    <3>3. WriterFollows(n, t, "idle")
      BY <1>3, <2>1, <2>2 DEF WriterFollows
    <3> QED
      BY <1>3, <2>1, <2>2, <3>1, <3>2, <3>3, ThreadMoves
  <2> QED
    BY <1>2, <1>3, <2>2, <2>3, OwedIsOne, MovesKept, KeptInv
<1> QED
  BY <1>4, <1>5, <1>6, <1>7, <1>8, <1>9

-----------------------------------------------------------------------------
(* Writing *)

LEMMA UnitsType ==
  ASSUME NEW id \in 1 .. MaxSent, NEW size \in 1 .. 2
  PROVE  Head(UnitsOf(id, size)) \in Unit /\ Tail(UnitsOf(id, size)) \in Seq(Unit)
<1>1. UnitsOf(id, size) \in Seq(Unit) /\ UnitsOf(id, size) # <<>>
  <2>1. \A i \in 1 .. size : [id |-> id, part |-> i, of |-> size] \in Unit
    BY DEF Unit
  <2>2. UnitsOf(id, size) \in [1 .. size -> Unit]
    BY <2>1 DEF UnitsOf
  <2> QED
    BY <2>2
<1> QED
  BY <1>1

LEMMA WriteInv ==
  ASSUME TransportInv, NEW n \in Node, NEW t \in Thread, NEW size \in 1 .. 2, Write(n, t, size)
  PROVE  TransportInv'
<1>1. /\ pc[n][t] = "send" /\ Len(pipe[n]) < Capacity
      /\ pipe' = [pipe EXCEPT ![n] = Append(@, Head(UnitsOf(sent[n] + 1, size)))]
      /\ left' = [left EXCEPT ![n] = Tail(UnitsOf(sent[n] + 1, size))]
      /\ sent' = [sent EXCEPT ![n] = @ + 1]
      /\ Goto(n, t, "write")
      /\ UNCHANGED <<broken, known, closed, readers, writer, op, reader, buf, len, slice, got>>
  BY DEF Write, mu, input
<1>2. /\ pc[n][t] \in Label /\ op[n][t] \in Operation /\ Fits(pc[n][t], op[n][t])
      /\ writer[n] = t <=> pc[n][t] = "update"
      /\ t \in readers[n] <=> Reads(pc[n][t], op[n][t])
  BY ThreadFacts DEF TransportInv
<1>3. sent[n] \in Nat /\ sent[n] + Owed(n, "loop") + Owed(n, "cast") <= MaxSent
  BY DEF TransportInv, RoomInv, DataInv
<1>4. Owed(n, t) = 1 /\ Owes("write", op[n][t]) = 0
  BY <1>1 DEF Owed, Owes
<1>5. sent[n] + 1 \in 1 .. MaxSent
  BY <1>3, <1>4, OwedIsOne
<1>6. /\ ThreadInv' /\ Owed(n, t)' = Owes("write", op[n][t])
      /\ \A m \in Node, u \in Thread : m # n \/ u # t => Owed(m, u)' = Owed(m, u)
  <2>1. "write" \in Label /\ Fits("write", op[n][t])
    BY <1>1, <1>2 DEF Label, Fits
  <2>2. OpFollows(n, t, op[n][t])
    BY <1>1 DEF OpFollows
  <2>3. ReadersFollow(n, t, "write", op[n][t])
    BY <1>1, <1>2 DEF ReadersFollow, Reads
  <2>4. WriterFollows(n, t, "write")
    BY <1>1, <1>2 DEF WriterFollows
  <2> QED
    BY <1>1, <1>2, <2>1, <2>2, <2>3, <2>4, ThreadMoves DEF TransportInv
<1>7. RoomInv'
  <2> SUFFICES ASSUME NEW m \in Node
               PROVE  sent'[m] + Owed(m, "loop")' + Owed(m, "cast")' <= MaxSent
    BY DEF RoomInv
  <2>1. CASE m = n
    <3>1. sent'[n] = sent[n] + 1
      BY <1>1 DEF TransportInv, DataInv
    <3> QED
      BY <1>3, <1>4, <1>6, <2>1, <3>1, OwedIsOne
  <2>2. CASE m # n
    BY <1>1, <1>6, <2>2 DEF TransportInv, RoomInv, DataInv
  <2> QED
    BY <2>1, <2>2
<1>8. DataInv'
  <2>1. Head(UnitsOf(sent[n] + 1, size)) \in Unit /\ Tail(UnitsOf(sent[n] + 1, size)) \in Seq(Unit)
    BY <1>5, UnitsType
  <2>2. pipe' \in [Node -> Seq(Unit)] /\ left' \in [Node -> Seq(Unit)] /\ sent' \in [Node -> Nat]
    <3>1. /\ pipe \in [Node -> Seq(Unit)] /\ left \in [Node -> Seq(Unit)] /\ sent \in [Node -> Nat]
          /\ pipe[n] \in Seq(Unit)
      BY DEF TransportInv, DataInv
    <3>2. Append(pipe[n], Head(UnitsOf(sent[n] + 1, size))) \in Seq(Unit)
      BY <2>1, <3>1
    <3> QED
      BY <1>1, <2>1, <3>1, <3>2
  <2>3. \A m \in Node : Len(pipe'[m]) <= Capacity
    <3> TAKE m \in Node
    <3>1. pipe[m] \in Seq(Unit) /\ Len(pipe[m]) <= Capacity
      BY DEF TransportInv, DataInv
    <3>2. CASE m = n
      <4>1. pipe'[n] = Append(pipe[n], Head(UnitsOf(sent[n] + 1, size)))
        BY <1>1 DEF TransportInv, DataInv
      <4> QED
        BY <1>1, <2>1, <3>1, <3>2, <4>1
    <3>3. CASE m # n
      BY <1>1, <3>1, <3>3 DEF TransportInv, DataInv
    <3> QED
      BY <3>2, <3>3
  <2> QED
    BY <1>1, <2>2, <2>3 DEF TransportInv, DataInv
<1> QED
  BY <1>6, <1>7, <1>8 DEF TransportInv

\* A step that moves no thread.
LEMMA ThreadsStay ==
  ASSUME ThreadInv, RoomInv, UNCHANGED <<pc, op, readers, writer, sent>>
  PROVE  ThreadInv' /\ RoomInv'
  BY DEF ThreadInv, RoomInv, Owed

LEMMA WriteMoreInv ==
  ASSUME TransportInv, NEW n \in Node, NEW t \in Thread, WriteMore(n, t)
  PROVE  TransportInv'
<1>1. /\ left[n] # <<>> /\ Len(pipe[n]) < Capacity
      /\ pipe' = [pipe EXCEPT ![n] = Append(@, Head(left[n]))]
      /\ left' = [left EXCEPT ![n] = Tail(@)]
      /\ UNCHANGED <<broken, sent, known, closed, readers, writer, pc, op, reader, buf, len, slice, got>>
  BY DEF WriteMore, mu, input
<1>2. /\ pipe \in [Node -> Seq(Unit)] /\ left \in [Node -> Seq(Unit)]
      /\ Head(left[n]) \in Unit /\ Tail(left[n]) \in Seq(Unit)
      /\ \A m \in Node : Len(pipe[m]) <= Capacity
  <2>1. /\ pipe \in [Node -> Seq(Unit)] /\ left \in [Node -> Seq(Unit)]
        /\ \A m \in Node : Len(pipe[m]) <= Capacity
    BY DEF TransportInv, DataInv
  <2>2. left[n] \in Seq(Unit)
    BY <2>1
  <2>3. Head(left[n]) \in Unit /\ Tail(left[n]) \in Seq(Unit)
    BY <1>1, <2>2
  <2> QED
    BY <2>1, <2>3
<1>3. pipe' \in [Node -> Seq(Unit)] /\ left' \in [Node -> Seq(Unit)]
  BY <1>1, <1>2
<1>4. \A m \in Node : Len(pipe'[m]) <= Capacity
  <2> TAKE m \in Node
  <2>1. CASE m = n
    <3>1. pipe'[n] = Append(pipe[n], Head(left[n])) /\ pipe[n] \in Seq(Unit)
      BY <1>1, <1>2
    <3> QED
      BY <1>1, <1>2, <2>1, <3>1
  <2>2. CASE m # n
    BY <1>1, <1>2, <2>2
  <2> QED
    BY <2>1, <2>2
<1>5. DataInv'
  BY <1>1, <1>3, <1>4 DEF TransportInv, DataInv
<1> QED
  BY <1>1, <1>5, ThreadsStay DEF TransportInv

LEMMA WriteFailsInv ==
  ASSUME TransportInv, NEW n \in Node, NEW t \in Thread, WriteFails(n, t)
  PROVE  TransportInv'
<1>1. /\ pc[n][t] \in {"send", "write"} /\ SendFailed(n, t)
      /\ closed' = [closed EXCEPT ![n] = TRUE]
      /\ UNCHANGED <<broken, pipe, sent, left, known, reader, buf, len, slice, got>>
  BY DEF WriteFails, output, input
<1>2. DataInv'
  BY <1>1 DEF TransportInv, DataInv
<1> QED
  BY <1>1, <1>2, SendFailedKept, KeptInv DEF TransportInv

LEMMA RemovePeerInv ==
  ASSUME TransportInv, NEW n \in Node, NEW t \in Thread, RemovePeer(n, t)
  PROVE  TransportInv'
<1>1. /\ pc[n][t] = "update" /\ op[n][t] = "cast" /\ Goto(n, t, "relock")
      /\ known' = [known EXCEPT ![n] = FALSE] /\ writer' = [writer EXCEPT ![n] = None]
      /\ UNCHANGED <<broken, pipe, sent, left, closed, reader, buf, len, slice, got, readers, op>>
  BY DEF RemovePeer, At, Writing, Unlock, output, input
<1>2. DataInv'
  BY <1>1 DEF TransportInv, DataInv
<1>3. /\ ThreadInv' /\ Owed(n, t)' = Owes("relock", "cast")
      /\ \A m \in Node, u \in Thread : m # n \/ u # t => Owed(m, u)' = Owed(m, u)
  <2>1. "relock" \in Label /\ "cast" \in Operation /\ Fits("relock", "cast")
    BY DEF Label, Operation, Fits
  <2>2. OpFollows(n, t, "cast")
    BY <1>1 DEF OpFollows
  <2>3. ReadersFollow(n, t, "relock", "cast")
    BY <1>1, ThreadFacts DEF ReadersFollow, Reads, TransportInv
  <2>4. WriterFollows(n, t, "relock")
    BY <1>1, ThreadFacts DEF WriterFollows, TransportInv
  <2> QED
    BY <1>1, <2>1, <2>2, <2>3, <2>4, ThreadMoves DEF TransportInv
<1>4. Owes("relock", "cast") = 0
  BY DEF Owes
<1>5. Kept(n, t)
  BY <1>3, <1>4, OwedIsOne, MovesKept DEF TransportInv
<1> QED
  BY <1>1, <1>2, <1>5, KeptInv

-----------------------------------------------------------------------------
(* Beginning an operation *)

LEMMA BeginInv ==
  ASSUME TransportInv, NEW n \in Node, NEW t \in Thread, MaySend(n),
         NEW label \in Label, NEW operation \in Operation, Fits(label, operation),
         pc[n][t] \in {"idle", "decode"}, label \in {"lock", "rlock", "find"},
         ~Reads(label, operation), Begin(n, t, operation, label), UNCHANGED <<mu, sent>>
  PROVE  ThreadInv' /\ RoomInv'
<1>1. /\ Goto(n, t, label) /\ op' = [op EXCEPT ![n][t] = operation]
      /\ UNCHANGED <<readers, writer, sent>>
  BY DEF Begin, mu
<1>2. /\ ThreadInv' /\ Owed(n, t)' = Owes(label, operation)
      /\ \A m \in Node, u \in Thread : m # n \/ u # t => Owed(m, u)' = Owed(m, u)
  <2>1. OpFollows(n, t, operation)
    BY <1>1 DEF OpFollows
  <2>2. ReadersFollow(n, t, label, operation)
    BY <1>1, ThreadFacts DEF ReadersFollow, Reads, TransportInv
  <2>3. WriterFollows(n, t, label)
    BY <1>1, ThreadFacts DEF WriterFollows, TransportInv
  <2> QED
    BY <1>1, <2>1, <2>2, <2>3, ThreadMoves DEF TransportInv
<1>3. Owes(label, operation) \in {0, 1}
  BY DEF Owes
<1>4. sent[n] + Owed(n, "loop") + Owed(n, "cast") < MaxSent
  BY RoomToSend
<1>5. Owed(n, t) = 0
  BY DEF Owed, Owes
<1>6. RoomInv'
  <2> SUFFICES ASSUME NEW m \in Node
               PROVE  sent[m] + Owed(m, "loop")' + Owed(m, "cast")' <= MaxSent
    BY <1>1 DEF RoomInv
  <2>1. sent[m] \in Nat
    BY DEF TransportInv, DataInv
  <2>2. CASE m = n
    BY <1>2, <1>3, <1>4, <1>5, <2>1, <2>2, OwedIsOne
  <2>3. CASE m # n
    BY <1>2, <2>3 DEF TransportInv, RoomInv
  <2> QED
    BY <2>2, <2>3
<1> QED
  BY <1>2, <1>6

LEMMA AddPeerInv ==
  ASSUME TransportInv, NEW n \in Node, AddPeer(n)
  PROVE  TransportInv'
<1>1. "lock" \in Label /\ "add" \in Operation /\ Fits("lock", "add") /\ ~Reads("lock", "add")
  BY DEF Label, Operation, Fits, Reads
<1>2. /\ pc[n]["loop"] = "idle" /\ MaySend(n) /\ Begin(n, "loop", "add", "lock")
      /\ UNCHANGED <<broken, pipe, sent, known, closed, left, reader, buf, len, slice, got, mu>>
  BY DEF AddPeer, output, input
<1>3. ThreadInv' /\ RoomInv'
  BY <1>1, <1>2, BeginInv
<1> QED
  BY <1>2, <1>3, DataKept DEF TransportInv

LEMMA CastInv ==
  ASSUME TransportInv, NEW n \in Node, Cast(n)
  PROVE  TransportInv'
<1>1. "rlock" \in Label /\ "cast" \in Operation /\ Fits("rlock", "cast") /\ ~Reads("rlock", "cast")
  BY DEF Label, Operation, Fits, Reads
<1>2. /\ pc[n]["cast"] = "idle" /\ MaySend(n) /\ Begin(n, "cast", "cast", "rlock")
      /\ UNCHANGED <<broken, pipe, sent, known, closed, left, reader, buf, len, slice, got, mu>>
  BY DEF Cast, output, input
<1>3. ThreadInv' /\ RoomInv'
  BY <1>1, <1>2, BeginInv
<1> QED
  BY <1>2, <1>3, DataKept DEF TransportInv

LEMMA PeerAddedInv ==
  ASSUME TransportInv, NEW n \in Node, PeerAdded(n)
  PROVE  TransportInv'
<1>1. /\ pc[n]["loop"] = "update" /\ op[n]["loop"] = "add" /\ Goto(n, "loop", "send")
      /\ known' = [known EXCEPT ![n] = TRUE] /\ reader' = [reader EXCEPT ![n] = "read"]
      /\ writer' = [writer EXCEPT ![n] = None]
      /\ UNCHANGED <<broken, pipe, sent, left, closed, buf, len, slice, got, readers, op>>
  BY DEF PeerAdded, At, Writing, Unlock, output
<1>2. DataInv'
  BY <1>1 DEF TransportInv, DataInv
<1>3. /\ ThreadInv' /\ Owed(n, "loop")' = Owes("send", "add")
      /\ \A m \in Node, u \in Thread : m # n \/ u # "loop" => Owed(m, u)' = Owed(m, u)
  <2>1. "send" \in Label /\ "add" \in Operation /\ Fits("send", "add") /\ "loop" \in Thread
    BY DEF Label, Operation, Fits
  <2>2. OpFollows(n, "loop", "add")
    BY <1>1 DEF OpFollows
  <2>3. ReadersFollow(n, "loop", "send", "add")
    BY <1>1, <2>1, ThreadFacts DEF ReadersFollow, Reads, TransportInv
  <2>4. WriterFollows(n, "loop", "send")
    BY <1>1, <2>1, ThreadFacts DEF WriterFollows, TransportInv
  <2> QED
    BY <1>1, <2>1, <2>2, <2>3, <2>4, ThreadMoves DEF TransportInv
<1>4. Owes("send", "add") = Owed(n, "loop") /\ Owed(n, "loop") \in {0, 1} /\ "loop" \in Thread
  BY <1>1, OwedIsOne DEF Owed, Owes
<1>5. Kept(n, "loop")
  BY <1>3, <1>4, MovesKept DEF TransportInv
<1> QED
  BY <1>1, <1>2, <1>4, <1>5, KeptInv

-----------------------------------------------------------------------------
(* Receiving *)

LEMMA ReadInv ==
  ASSUME TransportInv, NEW n \in Node, NEW k \in 1 .. ReadSize, Read(n, k)
  PROVE  TransportInv'
<1> DEFINE m == Other(n)
<1>1. /\ k <= Len(pipe[m])
      /\ buf' = [buf EXCEPT ![n] = SubSeq(pipe[m], 1, k) \o SubSeq(@, k + 1, slice[n])]
      /\ len' = [len EXCEPT ![n] = k]
      /\ pipe' = [pipe EXCEPT ![m] = SubSeq(@, k + 1, Len(@))]
      /\ reader' = [reader EXCEPT ![n] = "hand"]
      /\ UNCHANGED <<broken, sent, left, known, closed, readers, writer, pc, op, slice, got>>
  BY DEF Read, mu
<1>2. m \in Node
  BY OtherIsNode
<1> HIDE DEF m
<1>3. /\ pipe \in [Node -> Seq(Unit)] /\ buf \in [Node -> Seq(Unit)]
      /\ \A u \in Node : Len(pipe[u]) <= Capacity
      /\ slice[n] \in Nat /\ slice[n] <= Len(buf[n])
  BY DEF TransportInv, DataInv
<1>4. pipe[m] \in Seq(Unit) /\ buf[n] \in Seq(Unit) /\ Len(pipe[m]) \in Nat /\ k \in Nat
  BY <1>2, <1>3
<1> DEFINE front == SubSeq(pipe[m], 1, k)
           rest  == SubSeq(buf[n], k + 1, slice[n])
           tail  == SubSeq(pipe[m], k + 1, Len(pipe[m]))
<1>5. front \in Seq(Unit) /\ Len(front) = k
  BY <1>1, <1>4
<1>6. rest \in Seq(Unit) /\ Len(rest) = IF k + 1 <= slice[n] THEN slice[n] - k ELSE 0
  BY <1>3, <1>4
<1>7. tail \in Seq(Unit) /\ Len(tail) <= Len(pipe[m])
  BY <1>1, <1>4
<1>8. buf'[n] = front \o rest /\ \A u \in Node \ {n} : buf'[u] = buf[u]
  BY <1>1, <1>3
<1>9. pipe' = [pipe EXCEPT ![m] = tail]
  BY <1>1
<1> HIDE DEF front, rest, tail
<1>10. front \o rest \in Seq(Unit) /\ k <= Len(front \o rest) /\ slice[n] <= Len(front \o rest)
  BY <1>3, <1>4, <1>5, <1>6
<1>11. buf' \in [Node -> Seq(Unit)]
  BY <1>1, <1>3, <1>8, <1>10
<1>12. pipe' \in [Node -> Seq(Unit)] /\ \A u \in Node : Len(pipe'[u]) <= Capacity
  <2>1. pipe' \in [Node -> Seq(Unit)]
    BY <1>3, <1>7, <1>9
  <2>2. ASSUME NEW u \in Node PROVE Len(pipe'[u]) <= Capacity
    <3>1. CASE u = m
      <4>1. pipe'[m] = tail
        BY <1>2, <1>3, <1>9
      <4>2. Len(tail) \in Nat /\ Len(pipe[m]) <= Capacity
        BY <1>2, <1>3, <1>7
      <4> QED
        BY <1>4, <1>7, <3>1, <4>1, <4>2
    <3>2. CASE u # m
      BY <1>3, <1>9, <3>2
    <3> QED
      BY <3>1, <3>2
  <2> QED
    BY <2>1, <2>2
<1>13. len' \in [Node -> 0 .. ReadSize] /\ reader' \in [Node -> {"off", "read", "hand", "ended"}]
  <2>1. k \in 0 .. ReadSize
    OBVIOUS
  <2>2. len' \in [Node -> 0 .. ReadSize]
    BY <1>1, <2>1 DEF TransportInv, DataInv
  <2>3. reader' \in [Node -> {"off", "read", "hand", "ended"}]
    BY <1>1 DEF TransportInv, DataInv
  <2> QED
    BY <2>2, <2>3
<1>14. \A u \in Node : len'[u] <= Len(buf'[u]) /\ slice[u] <= Len(buf'[u])
  <2> TAKE u \in Node
  <2>1. CASE u = n
    BY <1>1, <1>8, <1>10, <2>1 DEF TransportInv, DataInv
  <2>2. CASE u # n
    BY <1>1, <1>8, <2>2 DEF TransportInv, DataInv
  <2> QED
    BY <2>1, <2>2
<1>15. DataInv'
  BY <1>1, <1>11, <1>12, <1>13, <1>14 DEF TransportInv, DataInv
<1> QED
  BY <1>1, <1>15, ThreadsStay DEF TransportInv

LEMMA ReadFailsInv ==
  ASSUME TransportInv, NEW n \in Node, ReadFails(n)
  PROVE  TransportInv'
<1>1. /\ closed' = [closed EXCEPT ![n] = TRUE] /\ reader' = [reader EXCEPT ![n] = "ended"]
      /\ UNCHANGED <<broken, pipe, sent, left, known, readers, writer, pc, op, buf, len, slice, got>>
  BY DEF ReadFails, output, mu
<1>2. DataInv'
  BY <1>1 DEF TransportInv, DataInv
<1> QED
  BY <1>1, <1>2, ThreadsStay DEF TransportInv

LEMMA TakeRPCInv ==
  ASSUME TransportInv, NEW n \in Node, TakeRPC(n)
  PROVE  TransportInv'
<1>1. /\ pc[n]["loop"] = "idle" /\ Goto(n, "loop", "decode")
      /\ slice' = [slice EXCEPT ![n] = len[n]] /\ len' = [len EXCEPT ![n] = 0]
      /\ reader' = [reader EXCEPT ![n] = "read"]
      /\ UNCHANGED <<broken, pipe, sent, left, known, closed, readers, writer, op, buf, got>>
  BY DEF TakeRPC, output, mu
<1>2. DataInv'
  <2>1. /\ slice' \in [Node -> 0 .. ReadSize] /\ len' \in [Node -> 0 .. ReadSize]
        /\ reader' \in [Node -> {"off", "read", "hand", "ended"}]
    BY <1>1 DEF TransportInv, DataInv
  <2>2. \A u \in Node : len'[u] <= Len(buf[u]) /\ slice'[u] <= Len(buf[u])
    <3> TAKE u \in Node
    <3>1. /\ buf[u] \in Seq(Unit) /\ len[u] <= Len(buf[u]) /\ slice[u] <= Len(buf[u])
          /\ len \in [Node -> 0 .. ReadSize] /\ slice \in [Node -> 0 .. ReadSize]
      BY DEF TransportInv, DataInv
    <3> QED
      BY <1>1, <3>1
  <2> QED
    BY <1>1, <2>1, <2>2 DEF TransportInv, DataInv
<1>3. "loop" \in Thread /\ "decode" \in Label /\ op[n]["loop"] = "none"
  BY <1>1, ThreadFacts DEF Label, Fits, TransportInv
<1>4. /\ Fits("decode", "none") /\ ~Reads("decode", "none") /\ ~Reads("idle", "none")
      /\ Owes("decode", "none") <= Owed(n, "loop")
  BY <1>1, <1>3 DEF Fits, Reads, Owes, Owed
<1>5. Kept(n, "loop")
  BY <1>1, <1>3, <1>4, GotoKept DEF TransportInv
<1> QED
  BY <1>1, <1>2, <1>3, <1>5, KeptInv

LEMMA DecodedType ==
  ASSUME NEW units \in Seq(Unit), Decoded(units) # <<>>
  PROVE  Decoded(units)[1] \in 1 .. MaxSent
<1>1. units # <<>> /\ Decoded(units) = <<units[1].id>>
  BY DEF Decoded
<1>2. units[1] \in Unit
  BY <1>1
<1> QED
  BY <1>1, <1>2 DEF Unit

LEMMA DecodeInv ==
  ASSUME TransportInv, NEW n \in Node, Decode(n)
  PROVE  TransportInv'
<1>1. /\ pc[n]["loop"] = "decode"
      /\ slice' = [slice EXCEPT ![n] = 0] /\ buf' = [buf EXCEPT ![n] = SubSeq(@, 1, len[n])]
      /\ UNCHANGED <<broken, pipe, sent, left, known, closed, readers, writer, reader, len>>
      /\ UNCHANGED mu
  BY DEF Decode, output, mu
<1>2. /\ buf \in [Node -> Seq(Unit)] /\ buf[n] \in Seq(Unit) /\ len[n] \in Nat /\ slice[n] \in Nat
      /\ len[n] <= Len(buf[n]) /\ slice[n] <= Len(buf[n]) /\ got \in [Node -> 0 .. MaxSent]
  BY DEF TransportInv, DataInv
<1>3. got' \in [Node -> 0 .. MaxSent]
  <2>1. PICK message \in Outcomes(n) :
          IF message = <<>> THEN got' = got ELSE got' = [got EXCEPT ![n] = message[1]]
    BY DEF Decode
  <2>2. CASE message = <<>>
    BY <1>2, <2>1, <2>2
  <2>3. CASE message # <<>> /\ message = InSlice(n)
    <3>1. SubSeq(buf[n], 1, slice[n]) \in Seq(Unit)
      BY <1>2
    <3>2. message[1] \in 1 .. MaxSent
      BY <2>3, <3>1, DecodedType DEF InSlice
    <3>3. message[1] \in 0 .. MaxSent
      BY <3>2
    <3> QED
      BY <1>2, <2>1, <2>3, <3>3
  <2>4. CASE message = <<Garbled>>
    <3>1. message # <<>> /\ message[1] = 0 /\ 0 \in 0 .. MaxSent
      BY <2>4, TransportAssumption DEF Garbled
    <3> QED
      BY <1>2, <2>1, <3>1
  <2> QED
    BY <2>1, <2>2, <2>3, <2>4 DEF Outcomes
<1>4. SubSeq(buf[n], 1, len[n]) \in Seq(Unit) /\ Len(SubSeq(buf[n], 1, len[n])) = len[n]
  BY <1>2
<1>5. DataInv'
  <2>1. buf' \in [Node -> Seq(Unit)] /\ slice' \in [Node -> 0 .. ReadSize]
    <3>1. buf' \in [Node -> Seq(Unit)]
      BY <1>1, <1>2, <1>4
    <3>2. slice \in [Node -> 0 .. ReadSize] /\ 0 \in 0 .. ReadSize
      BY DEF TransportInv, DataInv
    <3> QED
      BY <1>1, <3>1, <3>2
  <2>2. \A u \in Node : len[u] <= Len(buf'[u]) /\ slice'[u] <= Len(buf'[u])
    <3> TAKE u \in Node
    <3>1. CASE u = n
      <4>1. buf'[n] = SubSeq(buf[n], 1, len[n]) /\ slice'[n] = 0
        BY <1>1, <1>2 DEF TransportInv, DataInv
      <4> QED
        BY <1>2, <1>4, <3>1, <4>1
    <3>2. CASE u # n
      BY <1>1, <3>2 DEF TransportInv, DataInv
    <3> QED
      BY <3>1, <3>2
  <2> QED
    BY <1>1, <1>3, <2>1, <2>2 DEF TransportInv, DataInv
<1>6. "loop" \in Thread /\ op[n]["loop"] = "none"
  BY <1>1, ThreadFacts DEF Fits, TransportInv
<1>7. CASE Finish(n, "loop")
  <2>1. Goto(n, "loop", "idle") /\ op' = [op EXCEPT ![n]["loop"] = "none"]
    BY <1>7 DEF Finish, Begin
  <2>2. "idle" \in Label /\ "none" \in Operation /\ Fits("idle", "none")
        /\ Owes("idle", "none") <= Owed(n, "loop")
    BY <1>1, <1>6 DEF Label, Operation, Fits, Owes, Owed
  <2>3. OpFollows(n, "loop", "none")
    BY <2>1 DEF OpFollows
  <2>4. ReadersFollow(n, "loop", "idle", "none")
    BY <1>1, <1>6, ThreadFacts DEF ReadersFollow, Reads, TransportInv
  <2>5. WriterFollows(n, "loop", "idle")
    BY <1>1, <1>6, ThreadFacts DEF WriterFollows, TransportInv
  <2>6. /\ ThreadInv' /\ Owed(n, "loop")' = Owes("idle", "none")
        /\ \A m \in Node, u \in Thread : m # n \/ u # "loop" => Owed(m, u)' = Owed(m, u)
    BY <1>6, <2>1, <2>2, <2>3, <2>4, <2>5, ThreadMoves DEF TransportInv
  <2>7. Kept(n, "loop")
    BY <1>6, <2>2, <2>6, MovesKept DEF TransportInv
  <2> QED
    BY <1>1, <1>5, <1>6, <2>7, KeptInv
<1>8. CASE ~Finish(n, "loop")
  <2>1. /\ MaySend(n)
        /\ \/ Begin(n, "loop", "reply", "rlock")
           \/ Begin(n, "loop", "cast", "rlock")
           \/ Begin(n, "loop", "fetch", "find")
    BY <1>8 DEF Decode, Handle
  <2>2. "rlock" \in Label /\ "find" \in Label /\ {"reply", "cast", "fetch"} \subseteq Operation
    BY DEF Label, Operation
  <2>3. /\ Fits("rlock", "reply") /\ Fits("rlock", "cast") /\ Fits("find", "fetch")
        /\ ~Reads("rlock", "reply") /\ ~Reads("rlock", "cast") /\ ~Reads("find", "fetch")
    BY DEF Fits, Reads
  <2>4. ThreadInv' /\ RoomInv'
    BY <1>1, <1>6, <2>1, <2>2, <2>3, BeginInv
  <2> QED
    BY <1>5, <2>4 DEF TransportInv
<1> QED
  BY <1>7, <1>8

-----------------------------------------------------------------------------
(* Every step *)

LEMMA NextTransportInv == TransportInv /\ [TransportNext]_transportVars => TransportInv'
<1> SUFFICES ASSUME TransportInv, [TransportNext]_transportVars PROVE TransportInv'
  OBVIOUS
<1>1. CASE UNCHANGED transportVars
  <2>1. /\ UNCHANGED <<pc, op, readers, writer>>
        /\ UNCHANGED <<broken, pipe, sent, known, closed, left, reader, buf, len, slice, got>>
    BY <1>1 DEF transportVars, output, mu, input
  <2> QED
    BY <2>1, ThreadsStay, DataKept DEF TransportInv
<1>2. CASE Break
  <2>1. broken' = TRUE /\ UNCHANGED <<pc, op, readers, writer, pipe, sent, known, closed, left>>
        /\ UNCHANGED <<reader, buf, len, slice, got>>
    BY <1>2 DEF Break, output, mu, input
  <2> QED
    BY <2>1, ThreadsStay DEF TransportInv, DataInv
<1>3. ASSUME NEW n \in Node, NEW t \in Thread, Step(n, t)
      PROVE  TransportInv'
  BY <1>3, QuietSteps, WriteInv, WriteMoreInv, WriteFailsInv, RemovePeerInv DEF Step
<1>4. ASSUME NEW n \in Node, \E k \in 1 .. ReadSize : Read(n, k)
      PROVE  TransportInv'
  BY <1>4, ReadInv
<1>5. ASSUME NEW n \in Node,
             AddPeer(n) \/ PeerAdded(n) \/ TakeRPC(n) \/ Decode(n) \/ ReadFails(n) \/ Cast(n)
      PROVE  TransportInv'
  BY <1>5, AddPeerInv, PeerAddedInv, TakeRPCInv, DecodeInv, ReadFailsInv, CastInv
<1> QED
  BY <1>1, <1>2, <1>3, <1>4, <1>5 DEF TransportNext, Internal

(***************************************************************************)
(* Every variable keeps its type.  In particular a thread holds mu exactly *)
(* where it should: whatever way a Send ends, its handler gives mu up.     *)
(***************************************************************************)
THEOREM TransportTypeCorrect == TransportSpec => []TransportTypeOK
<1>1. TransportInv => TransportTypeOK
  <2> SUFFICES ASSUME TransportInv PROVE TransportTypeOK
    OBVIOUS
  <2>1. sent \in [Node -> 0 .. MaxSent]
    <3> SUFFICES ASSUME NEW n \in Node PROVE sent[n] <= MaxSent
      BY DEF TransportInv, DataInv
    <3>1. sent[n] \in Nat /\ sent[n] + Owed(n, "loop") + Owed(n, "cast") <= MaxSent
      BY DEF TransportInv, RoomInv, DataInv
    <3> QED
      BY <3>1, OwedIsOne
  <2>2. ASSUME NEW n \in Node, NEW t \in Thread
        PROVE  /\ pc[n][t] \in {"idle", "decode", "rlock", "find", "send", "write", "lock", "update", "relock"}
               /\ writer[n] = t <=> pc[n][t] = "update"
               /\ t \in readers[n] <=>
                    pc[n][t] \in {"find", "send", "write"} /\ op[n][t] \in {"reply", "cast"}
    BY ThreadFacts DEF TransportInv, Label, Reads
  <2> QED
    BY <2>1, <2>2 DEF TransportInv, ThreadInv, DataInv, TransportTypeOK
<1> QED
  BY <1>1, InitTransportInv, NextTransportInv, PTL DEF TransportSpec

(***************************************************************************)
(* peerMap is not changed while another thread reads it under mu: also     *)
(* when a broadcast gives mu up half-way to remove a peer and takes it     *)
(* again.                                                                  *)
(***************************************************************************)
THEOREM MapIsGuarded == TransportSpec => []MapGuarded
<1>1. TransportInv => MapGuarded
  <2> SUFFICES ASSUME TransportInv, NEW n \in Node, NEW t \in Thread, NEW u \in Thread,
                      Writing(n, t), pc[n][u] \in {"find", "send", "write"}
               PROVE  op[n][u] \in {"fetch", "add"}
    BY DEF MapGuarded
  <2>1. u \notin readers[n]
    BY DEF Writing
  <2> QED
    BY <2>1, ThreadFacts DEF TransportInv, Fits, Reads
<1> QED
  BY <1>1, InitTransportInv, NextTransportInv, PTL DEF TransportSpec

-----------------------------------------------------------------------------
(* What is under way                                                       *)

\* Of what has been read, the units that follow each other as they were sent.
Seen(m) == SubSeq(buf[m], 1, IF reader[m] = "hand" THEN len[m] ELSE slice[m])

\* What n has sent and the message loop of the other side has not finished.
Stream(n) == Seen(Other(n)) \o pipe[n]

Before(u, v) == u.id < v.id \/ (u.id = v.id /\ u.part < v.part /\ u.of = v.of)

\* Units as they were sent; a message begins only after the last unit of another.
InOrder(s) ==
  /\ \A i \in DOMAIN s : s[i].part <= s[i].of
  /\ \A i, j \in DOMAIN s : i < j => Before(s[i], s[j])
  /\ \A i \in DOMAIN s : i < Len(s) /\ s[i].part # s[i].of => s[i + 1].part # 1

\* s ends where l, the rest of the last message, begins.
EndsAt(s, l, last) ==
  /\ l = <<>> \/ l = <<[id |-> last, part |-> 2, of |-> 2]>>
  /\ \A i \in DOMAIN s : s[i].id <= last
  /\ l = <<>> /\ s # <<>> => s[Len(s)].part = s[Len(s)].of
  /\ l # <<>> => \A i \in DOMAIN s : Before(s[i], l[1])

StreamInv == \A n \in Node : InOrder(Stream(n)) /\ EndsAt(Stream(n), left[n], sent[n])

\* A message is cut short only by a reset.
CutInv == \A n \in Node : left[n] # <<>> /\ ~broken => InWrite(n)

BufInv ==
  \A n \in Node :
    /\ reader[n] # "hand" => len[n] = 0
    /\ pc[n]["loop"] # "decode" => slice[n] = 0
    /\ pc[n]["loop"] \in {"lock", "update"} /\ op[n]["loop"] = "add" => reader[n] = "off"

LinkInv == StreamInv /\ CutInv /\ BufInv

LEMMA OthersOther == \A n, m \in Node : Other(Other(n)) = n /\ (m # n => m = Other(n))
<1> SUFFICES ASSUME NEW n \in Node, NEW m \in Node
             PROVE  Other(Other(n)) = n /\ (m # n => m = Other(n))
  OBVIOUS
<1>1. PICK o \in Node : Node = {n, o} /\ n # o
  OBVIOUS
<1>2. Other(n) \in Node /\ Other(n) # n /\ Other(Other(n)) \in Node /\ Other(Other(n)) # Other(n)
  BY OtherIsNode
<1> QED
  BY <1>1, <1>2

\* What has been sent stays in order where its beginning is cut off.
LEMMA SuffixInOrder ==
  ASSUME NEW s \in Seq(Unit), NEW k \in 0 .. Len(s), InOrder(s), NEW l, NEW last, EndsAt(s, l, last)
  PROVE  InOrder(SubSeq(s, k + 1, Len(s))) /\ EndsAt(SubSeq(s, k + 1, Len(s)), l, last)
<1> DEFINE t == SubSeq(s, k + 1, Len(s))
<1>1. /\ t \in Seq(Unit) /\ Len(t) = Len(s) - k /\ Len(s) \in Nat /\ Len(t) \in Nat /\ k \in Nat
      /\ DOMAIN t = 1 .. Len(t) /\ DOMAIN s = 1 .. Len(s)
  OBVIOUS
<1>2. \A i \in 1 .. Len(t) : i + k \in DOMAIN s /\ t[i] = s[i + k]
  OBVIOUS
<1> HIDE DEF t
<1>3. \A i \in DOMAIN t : t[i].part <= t[i].of
  BY <1>1, <1>2 DEF InOrder
<1>4. \A i, j \in DOMAIN t : i < j => Before(t[i], t[j])
  <2> SUFFICES ASSUME NEW i \in DOMAIN t, NEW j \in DOMAIN t, i < j PROVE Before(t[i], t[j])
    OBVIOUS
  <2>1. i + k < j + k /\ i + k \in DOMAIN s /\ j + k \in DOMAIN s /\ t[i] = s[i + k] /\ t[j] = s[j + k]
    BY <1>1, <1>2
  <2> QED
    BY <2>1 DEF InOrder
<1>5. \A i \in DOMAIN t : i < Len(t) /\ t[i].part # t[i].of => t[i + 1].part # 1
  <2> SUFFICES ASSUME NEW i \in DOMAIN t, i < Len(t), t[i].part # t[i].of PROVE t[i + 1].part # 1
    OBVIOUS
  <2>1. /\ i + k \in DOMAIN s /\ i + k < Len(s) /\ t[i] = s[i + k]
        /\ i + 1 \in 1 .. Len(t) /\ (i + 1) + k = (i + k) + 1
    BY <1>1, <1>2
  <2>2. t[i + 1] = s[(i + k) + 1]
    BY <1>2, <2>1
  <2> QED
    BY <2>1, <2>2 DEF InOrder
<1>6. t # <<>> => Len(t) \in 1 .. Len(t) /\ Len(t) + k = Len(s) /\ s # <<>>
  BY <1>1
<1>7. t # <<>> => t[Len(t)] = s[Len(s)] /\ s # <<>>
  BY <1>2, <1>6
<1>8. EndsAt(t, l, last)
  BY <1>1, <1>2, <1>7 DEF EndsAt
<1> QED
  BY <1>3, <1>4, <1>5, <1>8 DEF InOrder, t

\* What is sent next comes after what has been sent.
LEMMA AppendInOrder ==
  ASSUME NEW s \in Seq(Unit), NEW u \in Unit, InOrder(s), u.part <= u.of,
         \A i \in DOMAIN s : Before(s[i], u),
         s # <<>> /\ s[Len(s)].part # s[Len(s)].of => u.part # 1
  PROVE  InOrder(Append(s, u))
<1> DEFINE t == Append(s, u)
<1>1. /\ Len(s) \in Nat /\ Len(t) = Len(s) + 1 /\ t[Len(s) + 1] = u
      /\ \A i \in 1 .. Len(s) : t[i] = s[i]
      /\ DOMAIN t = 1 .. Len(s) + 1 /\ DOMAIN s = 1 .. Len(s)
  OBVIOUS
<1> HIDE DEF t
<1>2. \A i \in DOMAIN t : t[i].part <= t[i].of
  BY <1>1 DEF InOrder
<1>3. \A i, j \in DOMAIN t : i < j => Before(t[i], t[j])
  <2> SUFFICES ASSUME NEW i \in DOMAIN t, NEW j \in DOMAIN t, i < j PROVE Before(t[i], t[j])
    OBVIOUS
  <2>1. i \in DOMAIN s /\ t[i] = s[i]
    BY <1>1
  <2>2. CASE j = Len(s) + 1
    BY <1>1, <2>1, <2>2
  <2>3. CASE j # Len(s) + 1
    <3>1. j \in DOMAIN s /\ t[j] = s[j]
      BY <1>1, <2>3
    <3> QED
      BY <2>1, <3>1 DEF InOrder
  <2> QED
    BY <2>2, <2>3
<1>4. \A i \in DOMAIN t : i < Len(t) /\ t[i].part # t[i].of => t[i + 1].part # 1
  <2> SUFFICES ASSUME NEW i \in DOMAIN t, i < Len(t), t[i].part # t[i].of PROVE t[i + 1].part # 1
    OBVIOUS
  <2>1. i \in DOMAIN s /\ t[i] = s[i] /\ i <= Len(s) /\ i \in Nat
    BY <1>1
  <2>2. CASE i = Len(s)
    <3>1. s # <<>>
      BY <2>1
    <3> QED
      BY <1>1, <2>1, <2>2, <3>1
  <2>3. CASE i # Len(s)
    <3>1. i < Len(s) /\ i + 1 \in 1 .. Len(s)
      BY <1>1, <2>1, <2>3
    <3>2. t[i + 1] = s[i + 1]
      BY <1>1, <3>1
    <3> QED
      BY <2>1, <3>1, <3>2 DEF InOrder
  <2> QED
    BY <2>2, <2>3
<1> QED
  BY <1>2, <1>3, <1>4 DEF InOrder, t

LEMMA WrittenInOrder ==
  ASSUME NEW s \in Seq(Unit), NEW last \in Nat, InOrder(s), EndsAt(s, <<>>, last),
         NEW u \in Unit, u.id = last + 1, u.part = 1, NEW l,
         \/ u.of = 1 /\ l = <<>>
         \/ u.of = 2 /\ l = <<[id |-> last + 1, part |-> 2, of |-> 2]>>
  PROVE  InOrder(Append(s, u)) /\ EndsAt(Append(s, u), l, last + 1)
<1>1. \A i \in DOMAIN s : s[i].id <= last /\ s[i].id \in Nat
  <2>1. \A i \in DOMAIN s : s[i] \in Unit
    OBVIOUS
  <2> QED
    BY <2>1 DEF EndsAt, Unit
<1>2. \A i \in DOMAIN s : s[i].id < last + 1
  BY <1>1
<1>3. InOrder(Append(s, u))
  <2>1. \A i \in DOMAIN s : Before(s[i], u)
    BY <1>2 DEF Before
  <2>2. s # <<>> => s[Len(s)].part = s[Len(s)].of
    BY DEF EndsAt
  <2>3. u.part <= u.of
    OBVIOUS
  <2> QED
    BY <2>1, <2>2, <2>3, AppendInOrder
<1> DEFINE t == Append(s, u)
<1>4. /\ Len(s) \in Nat /\ Len(t) = Len(s) + 1 /\ t[Len(s) + 1] = u
      /\ \A i \in 1 .. Len(s) : t[i] = s[i]
      /\ DOMAIN t = 1 .. Len(s) + 1 /\ DOMAIN s = 1 .. Len(s)
  OBVIOUS
<1> HIDE DEF t
<1>5. \A i \in DOMAIN t : t[i].id <= last + 1
  BY <1>1, <1>2, <1>4
<1>6. t[Len(t)] = u
  BY <1>4
<1>7. l # <<>> => \A i \in DOMAIN t : Before(t[i], l[1])
  <2> SUFFICES ASSUME l # <<>>, NEW i \in DOMAIN t PROVE Before(t[i], l[1])
    OBVIOUS
  <2>1. l[1].id = last + 1 /\ l[1].part = 2 /\ l[1].of = 2 /\ u.of = 2
    OBVIOUS
  <2>2. CASE i = Len(s) + 1
    BY <1>4, <2>1, <2>2 DEF Before
  <2>3. CASE i # Len(s) + 1
    BY <1>2, <1>4, <2>1, <2>3 DEF Before
  <2> QED
    BY <2>2, <2>3
<1>8. /\ l = <<>> \/ l = <<[id |-> last + 1, part |-> 2, of |-> 2]>>
      /\ l = <<>> => t[Len(t)].part = t[Len(t)].of
  <2>1. CASE u.of = 1 /\ l = <<>>
    BY <1>6, <2>1
  <2>2. CASE u.of = 2 /\ l = <<[id |-> last + 1, part |-> 2, of |-> 2]>>
    <3>1. l # <<>>
      BY <2>2
    <3> QED
      BY <2>2, <3>1, Zenon
  <2> QED
    BY <2>1, <2>2
<1>9. EndsAt(t, l, last + 1)
  BY <1>5, <1>7, <1>8 DEF EndsAt
<1> QED
  BY <1>3, <1>9 DEF t

LEMMA CompletedInOrder ==
  ASSUME NEW s \in Seq(Unit), NEW last \in Nat, NEW l \in Seq(Unit), InOrder(s), EndsAt(s, l, last), l # <<>>
  PROVE  InOrder(Append(s, l[1])) /\ EndsAt(Append(s, l[1]), <<>>, last) /\ Tail(l) = <<>>
<1> DEFINE u == l[1]
<1>1. l = <<[id |-> last, part |-> 2, of |-> 2]>> /\ \A i \in DOMAIN s : Before(s[i], u)
  BY DEF EndsAt
<1>2. u \in Unit /\ u.id = last /\ u.part = 2 /\ u.of = 2 /\ Tail(l) = <<>>
  BY <1>1
<1> HIDE DEF u
<1>3. InOrder(Append(s, u))
  BY <1>1, <1>2, AppendInOrder
<1> DEFINE t == Append(s, u)
<1>4. /\ Len(s) \in Nat /\ Len(t) = Len(s) + 1 /\ t[Len(s) + 1] = u
      /\ \A i \in 1 .. Len(s) : t[i] = s[i]
      /\ DOMAIN t = 1 .. Len(s) + 1 /\ DOMAIN s = 1 .. Len(s)
  OBVIOUS
<1> HIDE DEF t
<1>5. \A i \in DOMAIN t : t[i].id <= last
  <2>1. \A i \in DOMAIN s : s[i].id <= last
    BY DEF EndsAt
  <2> QED
    BY <1>2, <1>4, <2>1
<1>6. t[Len(t)] = u
  BY <1>4
<1>7. EndsAt(t, <<>>, last)
  BY <1>2, <1>5, <1>6 DEF EndsAt
<1> QED
  BY <1>2, <1>3, <1>7 DEF t, u

\* A sequence and its end; a sequence is its beginning and its rest.
LEMMA Concatenations ==
  ASSUME NEW S, NEW s \in Seq(S), NEW t \in Seq(S), NEW u \in S
  PROVE  /\ s \o t \in Seq(S) /\ Len(s \o t) = Len(s) + Len(t)
         /\ s \o Append(t, u) = Append(s \o t, u)
         /\ SubSeq(s \o t, Len(s) + 1, Len(s \o t)) = t
  OBVIOUS

LEMMA HeadOfAppend ==
  ASSUME NEW S, NEW s \in Seq(S), NEW u \in S
  PROVE  /\ Append(s, u) # <<>>
         /\ s = <<>> => Append(s, u)[1] = u
         /\ s # <<>> => Append(s, u)[1] = s[1]
<1> DEFINE t == Append(s, u)
<1>1. /\ Len(t) = Len(s) + 1 /\ t[Len(s) + 1] = u /\ Len(s) \in Nat
      /\ \A i \in 1 .. Len(s) : t[i] = s[i]
  OBVIOUS
<1>2. t \in Seq(S) /\ Len(<<>>) = 0 /\ (s # <<>> => Len(s) # 0)
  OBVIOUS
<1> HIDE DEF t
<1>3. t # <<>>
  BY <1>1, <1>2
<1>4. s = <<>> => t[1] = u
  BY <1>1, <1>2
<1>5. s # <<>> => 1 \in 1 .. Len(s)
  BY <1>1, <1>2
<1> QED
  BY <1>1, <1>3, <1>4, <1>5 DEF t

LEMMA SplitAt ==
  ASSUME NEW S, NEW s \in Seq(S), NEW t \in Seq(S)
  PROVE  /\ s \o t \in Seq(S) /\ Len(s) \in 0 .. Len(s \o t)
         /\ SubSeq(s \o t, Len(s) + 1, Len(s \o t)) = t
<1>1. s \o t \in Seq(S) /\ Len(s \o t) = Len(s) + Len(t) /\ Len(s) \in Nat /\ Len(t) \in Nat
  OBVIOUS
<1> QED
  BY <1>1, Concatenations

LEMMA Halves ==
  ASSUME NEW S, NEW t \in Seq(S), NEW k \in 1 .. Len(t)
  PROVE  SubSeq(t, 1, k) \o SubSeq(t, k + 1, Len(t)) = t
  OBVIOUS

-----------------------------------------------------------------------------
(* Steps of a LossyLink                                                    *)

\* n numbers from a on.
From(a, n) == [i \in 1 .. n |-> a + i - 1]

First(n) == IF pipe[n] = <<>> THEN Complete(n) + 1 ELSE pipe[n][1].id

LEMMA FromType ==
  ASSUME NEW a \in Nat, NEW n \in Nat
  PROVE  /\ From(a, n) \in Seq(Nat) /\ Len(From(a, n)) = n
         /\ \A i \in 1 .. n : From(a, n)[i] = a + i - 1
  BY DEF From

LEMMA FromGrows ==
  ASSUME NEW a \in Nat, NEW n \in Nat
  PROVE  Append(From(a, n), a + n) = From(a, n + 1)
<1> DEFINE r == Append(From(a, n), a + n)
           q == From(a, n + 1)
<1>1. n + 1 \in Nat
  OBVIOUS
<1>2. q \in Seq(Nat) /\ Len(q) = n + 1 /\ \A i \in 1 .. n + 1 : q[i] = a + i - 1
  BY <1>1, FromType
<1>3. /\ r \in Seq(Nat) /\ Len(r) = n + 1 /\ r[n + 1] = a + n
      /\ \A i \in 1 .. n : r[i] = a + i - 1
  <2> DEFINE s == From(a, n)
  <2>1. s \in Seq(Nat) /\ Len(s) = n /\ (\A i \in 1 .. n : s[i] = a + i - 1) /\ a + n \in Nat
    BY FromType
  <2> HIDE DEF s
  <2>2. /\ Append(s, a + n) \in Seq(Nat) /\ Len(Append(s, a + n)) = n + 1
        /\ Append(s, a + n)[n + 1] = a + n
        /\ \A i \in 1 .. n : Append(s, a + n)[i] = s[i]
    BY <2>1
  <2> QED
    BY <2>1, <2>2 DEF s
<1> HIDE DEF r, q
<1>4. \A i \in 1 .. n + 1 : r[i] = q[i]
  BY <1>2, <1>3
<1>5. r = q
  BY <1>2, <1>3, <1>4
<1> QED
  BY <1>5 DEF r, q

\* A sequence that begins with x elements and goes on with n numbers from a on.
GoesOn(q, x, a, n) ==
  /\ q \in Seq(Nat) /\ Len(q) = x + n
  /\ \A i \in 1 .. n : q[x + i] = a + i - 1

LEMMA PlaceCases ==
  ASSUME NEW n \in Nat, NEW y \in Nat, NEW i \in 1 .. y + n
  PROVE  i \in 1 .. y \/ (i - y \in 1 .. n /\ y + (i - y) = i)
  OBVIOUS

\* d of the numbers are given up, and of x elements and them y are left, the first of the numbers or garbled.
LEMMA PlacesDamage ==
  ASSUME NEW a \in Nat, NEW d \in Nat, NEW n \in Nat, NEW x \in 0 .. 1, NEW y \in 0 .. 2,
         y <= x + d, y <= x + 1,
         NEW q, NEW r, GoesOn(q, x, a, n + d), GoesOn(r, y, a + d, n),
         \A i \in 1 .. y : r[i] = Links!Garbled \/ (r[i] = a /\ d > 0)
  PROVE  Links!Damaged(q, r)
<1>0. Links!Garbled = 0
  BY DEF Links!Garbled
<1>1. Len(q) = x + (n + d) /\ Len(r) = y + n /\ DOMAIN r = 1 .. y + n
  BY DEF GoesOn
<1>2. Len(r) <= Len(q)
  BY <1>1
<1>3. \A k \in 1 .. n : r[y + k] = (a + d) + k - 1
  BY DEF GoesOn
<1>4. \A k \in 1 .. n + d : q[x + k] = a + k - 1
  BY DEF GoesOn
<1>5. ASSUME NEW i \in 1 .. y + n
      PROVE  \/ i \in 1 .. y /\ r[i] = Links!Garbled
             \/ i \in 1 .. y /\ r[i] = a /\ d > 0
             \/ i - y \in 1 .. n /\ y + (i - y) = i /\ r[i] = (a + d) + (i - y) - 1
  <2>1. i \in 1 .. y \/ (i - y \in 1 .. n /\ y + (i - y) = i)
    BY PlaceCases
  <2>2. CASE i \in 1 .. y
    BY <2>2
  <2>3. CASE i - y \in 1 .. n /\ y + (i - y) = i
    <3>1. r[y + (i - y)] = (a + d) + (i - y) - 1
      BY <1>3, <2>3
    <3> QED
      BY <2>3, <3>1
  <2> QED
    BY <2>1, <2>2, <2>3
<1>6. ASSUME NEW i \in 1 .. y + n
      PROVE  r[i] = Links!Garbled \/ \E j \in i .. x + (n + d) : r[i] = q[j]
  <2>1. CASE i \in 1 .. y /\ r[i] = a /\ d > 0
    <3>1. 1 \in 1 .. n + d /\ x + 1 \in i .. x + (n + d) /\ a + 1 - 1 = a
      BY <2>1
    <3>2. q[x + 1] = a + 1 - 1
      BY <1>4, <3>1
    <3> QED
      BY <2>1, <3>1, <3>2
  <2>2. CASE i - y \in 1 .. n /\ y + (i - y) = i /\ r[i] = (a + d) + (i - y) - 1
    <3> DEFINE k == d + (i - y)
    <3>1. k \in 1 .. n + d /\ x + k \in i .. x + (n + d) /\ a + k - 1 = (a + d) + (i - y) - 1
      BY <2>2
    <3> HIDE DEF k
    <3>2. q[x + k] = a + k - 1
      BY <1>4, <3>1
    <3> QED
      BY <2>2, <3>1, <3>2
  <2> QED
    BY <1>5, <2>1, <2>2
<1>7. ASSUME NEW i \in 1 .. y + n, NEW j \in 1 .. y + n, i <= j
      PROVE  r[j] = Links!Garbled \/ r[i] <= r[j]
  <2>1. CASE i \in 1 .. y /\ (r[i] = a \/ r[i] = Links!Garbled)
    <3>1. r[j] = Links!Garbled \/ r[j] = a \/ (j - y \in 1 .. n /\ r[j] = (a + d) + (j - y) - 1)
      BY <1>5
    <3> QED
      BY <1>0, <2>1, <3>1
  <2>2. CASE i - y \in 1 .. n /\ y + (i - y) = i /\ r[i] = (a + d) + (i - y) - 1
    <3>1. ~(j \in 1 .. y)
      BY <1>7, <2>2
    <3>2. r[j] = (a + d) + (j - y) - 1
      BY <1>5, <3>1
    <3> QED
      BY <1>7, <2>2, <3>2
  <2> QED
    BY <1>5, <2>1, <2>2
<1> QED
  BY <1>1, <1>2, <1>6, <1>7 DEF Links!Damaged

LEMMA Concatenated ==
  ASSUME NEW A \in Seq(Nat), NEW s \in Seq(Nat)
  PROVE  /\ A \o s \in Seq(Nat) /\ Len(A \o s) = Len(A) + Len(s)
         /\ \A i \in 1 .. Len(A) : (A \o s)[i] = A[i]
         /\ \A i \in 1 .. Len(s) : (A \o s)[Len(A) + i] = s[i]
  OBVIOUS

LEMMA FromGoesOn ==
  ASSUME NEW a \in Nat, NEW n \in Nat, NEW A \in Seq(Nat)
  PROVE  /\ GoesOn(A \o From(a, n), Len(A), a, n)
         /\ \A i \in 1 .. Len(A) : (A \o From(a, n))[i] = A[i]
<1> DEFINE s == From(a, n)
<1>1. s \in Seq(Nat) /\ Len(s) = n /\ \A i \in 1 .. n : s[i] = a + i - 1
  BY FromType
<1> HIDE DEF s
<1>2. /\ A \o s \in Seq(Nat) /\ Len(A \o s) = Len(A) + Len(s)
      /\ \A i \in 1 .. Len(A) : (A \o s)[i] = A[i]
      /\ \A i \in 1 .. Len(s) : (A \o s)[Len(A) + i] = s[i]
  BY <1>1, Concatenated
<1>3. GoesOn(A \o s, Len(A), a, n) /\ \A i \in 1 .. Len(A) : (A \o s)[i] = A[i]
  BY <1>1, <1>2 DEF GoesOn
<1> QED
  BY <1>3 DEF s

\* What is first is lost from what is in order.
LEMMA FirstLost ==
  ASSUME NEW u \in Nat, NEW y \in Seq(Nat), Len(y) \in 0 .. 1, NEW a \in Nat, NEW e \in Nat,
         e > 0 /\ y # <<>> => y[1] <= a
  PROVE  Links!Damaged(<<u>> \o (y \o From(a, e)), y \o From(a, e))
<1> DEFINE r == y \o From(a, e)
           x == Len(y)
           h == <<u>>
           q == h \o r
<1>1. GoesOn(r, x, a, e) /\ \A i \in 1 .. x : r[i] = y[i]
  BY FromGoesOn
<1> HIDE DEF r
<1>2. /\ r \in Seq(Nat) /\ Len(r) = x + e /\ x \in 0 .. 1
      /\ \A i \in 1 .. e : r[x + i] = a + i - 1
      /\ x = 1 => y # <<>> /\ r[1] = y[1] /\ r[1] \in Nat
  <2>1. /\ r \in Seq(Nat) /\ Len(r) = x + e /\ x \in 0 .. 1
        /\ \A i \in 1 .. e : r[x + i] = a + i - 1
    BY <1>1 DEF GoesOn
  <2>2. ASSUME x = 1 PROVE y # <<>> /\ r[1] = y[1] /\ y[1] \in Nat
    <3>1. 1 \in 1 .. x
      BY <2>2
    <3>2. r[1] = y[1]
      BY <1>1, <3>1
    <3> QED
      BY <2>2, <3>2
  <2> QED
    BY <2>1, <2>2
<1>3. h \in Seq(Nat) /\ Len(h) = 1
  OBVIOUS
<1> HIDE DEF x, h
<1>4. q \in Seq(Nat) /\ Len(q) = 1 + Len(r) /\ \A i \in 1 .. Len(r) : q[1 + i] = r[i]
  <2>1. r \in Seq(Nat)
    BY <1>2
  <2>2. q \in Seq(Nat) /\ Len(q) = Len(h) + Len(r) /\ \A i \in 1 .. Len(r) : q[Len(h) + i] = r[i]
    BY <1>3, <2>1, Concatenated
  <2> HIDE DEF q
  <2> QED
    BY <1>3, <2>2
<1> HIDE DEF q
<1>5. Len(r) <= Len(q) /\ DOMAIN r = 1 .. Len(r) /\ Len(r) \in Nat
  BY <1>2, <1>4
<1>6. ASSUME NEW i \in 1 .. Len(r) PROVE \E j \in i .. Len(q) : r[i] = q[j]
  <2>1. 1 + i \in i .. Len(q) /\ r[i] = q[1 + i]
    BY <1>4, <1>5
  <2> QED
    BY <2>1
<1>7. ASSUME NEW i \in 1 .. Len(r)
      PROVE  (i = 1 /\ x = 1) \/ (i - x \in 1 .. e /\ r[i] = a + (i - x) - 1)
  <2>1. (i = 1 /\ x = 1) \/ (i - x \in 1 .. e /\ x + (i - x) = i)
    BY <1>2
  <2> QED
    BY <1>2, <2>1
<1>8. ASSUME NEW i \in 1 .. Len(r), NEW j \in 1 .. Len(r), i <= j PROVE r[i] <= r[j]
  <2>1. CASE i = 1 /\ x = 1
    <3>1. CASE j = 1
      BY <1>2, <2>1, <3>1
    <3>2. CASE j # 1
      <4>1. j - 1 \in 1 .. e /\ r[j] = a + (j - 1) - 1
        BY <1>7, <2>1, <3>2
      <4>2. e > 0 /\ r[1] <= a /\ r[1] \in Nat
        BY <1>2, <2>1, <4>1
      <4> QED
        BY <2>1, <4>1, <4>2
    <3> QED
      BY <3>1, <3>2
  <2>2. CASE i - x \in 1 .. e /\ r[i] = a + (i - x) - 1
    <3>1. x \in 0 .. 1 /\ ~(j = 1 /\ x = 1)
      BY <1>2, <1>8, <2>2
    <3>2. j - x \in 1 .. e /\ r[j] = a + (j - x) - 1
      BY <1>7, <3>1
    <3> QED
      BY <1>8, <2>2, <3>1, <3>2
  <2> QED
    BY <1>7, <2>1, <2>2
<1>9. Links!Damaged(q, r)
  BY <1>5, <1>6, <1>8 DEF Links!Damaged
<1> QED
  BY <1>9 DEF q, r, h

\* What B leaves of A and of n + d numbers, of which it takes the place of d.
LEMMA LossDamages ==
  ASSUME NEW a \in Nat, NEW d \in Nat, NEW n \in Nat,
         NEW A \in Seq(Nat), Len(A) \in 0 .. 1, NEW B \in Seq(Nat),
         \/ B = <<>>
         \/ d > 0 /\ B = <<a>>
         \/ d > 0 /\ B = <<a, a>> /\ A # <<>>
         \/ B = << 0 >> /\ A # <<>>
         \/ d > 0 /\ B = <<0, a>> /\ A # <<>>
  PROVE  Links!Damaged(A \o From(a, n + d), B \o From(a + d, n))
<1> DEFINE x == Len(A)
           y == Len(B)
           q == A \o From(a, n + d)
           r == B \o From(a + d, n)
<1>1. x \in 0 .. 1 /\ (A # <<>> => x = 1)
  OBVIOUS
<1>2. /\ y \in 0 .. 2 /\ y <= x + d /\ y <= x + 1
      /\ \A i \in 1 .. y : B[i] = 0 \/ (B[i] = a /\ d > 0)
  <2>1. CASE B = <<>>
    <3>1. y = 0
      BY <2>1
    <3> QED
      BY <1>1, <3>1
  <2>2. CASE d > 0 /\ B = <<a>>
    <3>1. y = 1 /\ B[1] = a
      BY <2>2
    <3> QED
      BY <1>1, <2>2, <3>1
  <2>3. CASE B = <<0>> /\ A # <<>>
    <3>1. y = 1 /\ B[1] = 0
      BY <2>3
    <3> QED
      BY <1>1, <2>3, <3>1
  <2>4. CASE d > 0 /\ (B = <<a, a>> \/ B = <<0, a>>) /\ A # <<>>
    <3>1. y = 2 /\ (B[1] = a \/ B[1] = 0) /\ B[2] = a
      BY <2>4
    <3>2. \A i \in 1 .. 2 : i = 1 \/ i = 2
      OBVIOUS
    <3> QED
      BY <1>1, <2>4, <3>1, <3>2
  <2> QED
    BY <2>1, <2>2, <2>3, <2>4
<1>3. n + d \in Nat /\ a + d \in Nat
  OBVIOUS
<1>4. GoesOn(q, x, a, n + d)
  BY <1>3, FromGoesOn
<1>5. GoesOn(r, y, a + d, n) /\ \A i \in 1 .. y : r[i] = B[i]
  BY <1>3, FromGoesOn
<1> HIDE DEF x, y, q, r
<1>6. \A i \in 1 .. y : r[i] = Links!Garbled \/ (r[i] = a /\ d > 0)
  BY <1>2, <1>5 DEF Links!Garbled
<1>7. Links!Damaged(q, r)
  BY <1>1, <1>2, <1>4, <1>5, <1>6, PlacesDamage
<1> QED
  BY <1>7 DEF q, r

\* What a step leaves of a direction.
DirectionKept(d) == Complete(d)' = Complete(d) /\ InTransit(d)' = InTransit(d)

OthersKept(n) == \A d \in Node \ {n} : DirectionKept(d)

LEMMA SendStep ==
  ASSUME NEW n \in Node, got' = got, OthersKept(n),
         Complete(n)' = Complete(n) + 1, InTransit(n)' = Append(InTransit(n), Complete(n) + 1)
  PROVE  Links!LNext
<1>1. [d \in Node |-> Complete(d)]' = [[d \in Node |-> Complete(d)] EXCEPT ![n] = @ + 1]
  BY DEF OthersKept, DirectionKept
<1>2. [d \in Node |-> InTransit(d)]'
        = [[d \in Node |-> InTransit(d)] EXCEPT ![n] = Append(@, Complete(n) + 1)]
  BY DEF OthersKept, DirectionKept
<1>3. [d \in Node |-> got[Other(d)]]' = [d \in Node |-> got[Other(d)]]
  OBVIOUS
<1>4. [d \in Node |-> Complete(d)][n] = Complete(n)
  OBVIOUS
<1>5. Links!LSend(n)
  BY <1>1, <1>2, <1>3, <1>4 DEF Links!LSend
<1> QED
  BY <1>5 DEF Links!LNext

LEMMA DamageStep ==
  ASSUME NEW n \in Node, got' = got, OthersKept(n), Complete(n)' = Complete(n),
         InTransit(n)' = InTransit(n) \/ Links!Damaged(InTransit(n), InTransit(n)')
  PROVE  Links!LNext
<1>1. [d \in Node |-> Complete(d)]' = [d \in Node |-> Complete(d)]
  BY DEF OthersKept, DirectionKept
<1>2. [d \in Node |-> got[Other(d)]]' = [d \in Node |-> got[Other(d)]]
  OBVIOUS
<1> DEFINE before == [d \in Node |-> InTransit(d)]
           after == [d \in Node |-> InTransit(d)']
<1>3. /\ DOMAIN after = Node
      /\ \A d \in Node : before[d] = after[d] \/ Links!Damaged(before[d], after[d])
  BY DEF OthersKept, DirectionKept
<1>4. Links!LDamage
  BY <1>1, <1>2, <1>3 DEF Links!LDamage
<1> QED
  BY <1>4 DEF Links!LNext

LEMMA DeliverStep ==
  ASSUME NEW n \in Node, OthersKept(n), Complete(n)' = Complete(n),
         got \in [Node -> 0 .. MaxSent],
         InTransit(n) # <<>>, NEW message \in {Head(InTransit(n)), Garbled},
         got' = [got EXCEPT ![Other(n)] = message],
         InTransit(n)' = Tail(InTransit(n))
  PROVE  Links!LNext
<1>1. [d \in Node |-> Complete(d)]' = [d \in Node |-> Complete(d)]
  BY DEF OthersKept, DirectionKept
<1>2. [d \in Node |-> InTransit(d)]' = [[d \in Node |-> InTransit(d)] EXCEPT ![n] = Tail(@)]
  BY DEF OthersKept, DirectionKept
<1>3. \A d \in Node : d # n => Other(d) # Other(n)
  BY OthersOther
<1>4. \A d \in Node : got'[Other(d)] = IF d = n THEN message ELSE got[Other(d)]
  BY <1>3, OtherIsNode
<1>5. [d \in Node |-> got[Other(d)]]'
        = [[d \in Node |-> got[Other(d)]] EXCEPT ![n] = message]
  BY <1>4
<1>6. [d \in Node |-> InTransit(d)][n] = InTransit(n)
  OBVIOUS
<1>7. message \in {Head(InTransit(n)), Links!Garbled}
  BY DEF Garbled, Links!Garbled
<1>8. Links!LDeliver(n)
  BY <1>1, <1>2, <1>5, <1>6, <1>7 DEF Links!LDeliver
<1> QED
  BY <1>8 DEF Links!LNext

-----------------------------------------------------------------------------
(* What a step does to the two directions                                  *)

SameOut(d) == pipe'[d] = pipe[d] /\ left'[d] = left[d] /\ sent'[d] = sent[d]

SameIn(o) ==
  /\ reader'[o] = "hand" <=> reader[o] = "hand"
  /\ buf'[o] = buf[o] /\ len'[o] = len[o] /\ slice'[o] = slice[o]

StreamOk(n) == InOrder(Stream(n)) /\ EndsAt(Stream(n), left[n], sent[n])

LinkMoves == StreamInv' /\ (Links!LNext \/ UNCHANGED Links!linkVars)

LEMMA DirectionStays ==
  ASSUME NEW d \in Node, SameOut(d), SameIn(Other(d))
  PROVE  DirectionKept(d) /\ Stream(d)' = Stream(d)
<1>1. Complete(d)' = Complete(d)
  BY DEF SameOut, Complete
<1>2. Piped(d)' = Piped(d)
  BY <1>1 DEF SameOut, Piped
<1>3. Expected(Other(d))' = Expected(Other(d))
  BY DEF SameIn, Expected, InSlice, WrittenOver
<1>4. InTransit(d)' = InTransit(d)
  BY <1>2, <1>3 DEF SameIn, InTransit
<1>5. Stream(d)' = Stream(d)
  BY DEF SameIn, SameOut, Stream, Seen
<1> QED
  BY <1>1, <1>4, <1>5 DEF DirectionKept

LEMMA QuietMoves ==
  ASSUME StreamInv, \A d \in Node : SameOut(d) /\ SameIn(d), got' = got
  PROVE  LinkMoves
<1>1. \A d \in Node : DirectionKept(d) /\ Stream(d)' = Stream(d)
  BY OtherIsNode, DirectionStays
<1>2. StreamInv'
  BY <1>1 DEF StreamInv, SameOut
<1>3. UNCHANGED Links!linkVars
  BY <1>1 DEF DirectionKept, Links!linkVars
<1> QED
  BY <1>2, <1>3 DEF LinkMoves

\* A step in one direction leaves the other one's stream alone.
LEMMA OneStream ==
  ASSUME StreamInv, NEW n \in Node, StreamOk(n)',
         \A d \in Node \ {n} : SameOut(d) /\ SameIn(Other(d))
  PROVE  StreamInv' /\ OthersKept(n)
<1>1. \A d \in Node \ {n} : DirectionKept(d) /\ Stream(d)' = Stream(d)
  BY DirectionStays
<1>2. \A d \in Node \ {n} : StreamOk(d)'
  BY <1>1 DEF StreamInv, StreamOk, SameOut
<1> QED
  BY <1>1, <1>2 DEF StreamInv, StreamOk, OthersKept

LEMMA StreamTypes ==
  ASSUME TransportInv, NEW n \in Node
  PROVE  /\ Seen(Other(n)) \in Seq(Unit) /\ pipe[n] \in Seq(Unit) /\ Stream(n) \in Seq(Unit)
         /\ left[n] \in Seq(Unit) /\ sent[n] \in Nat
         /\ Len(Seen(Other(n))) = IF reader[Other(n)] = "hand" THEN len[Other(n)] ELSE slice[Other(n)]
<1> DEFINE m == Other(n)
           k == IF reader[m] = "hand" THEN len[m] ELSE slice[m]
<1>1. m \in Node
  BY OtherIsNode
<1> HIDE DEF m
<1>2. /\ buf[m] \in Seq(Unit) /\ k \in Nat /\ k <= Len(buf[m])
      /\ pipe[n] \in Seq(Unit) /\ left[n] \in Seq(Unit) /\ sent[n] \in Nat
  BY <1>1 DEF TransportInv, DataInv
<1> HIDE DEF k
<1>3. SubSeq(buf[m], 1, k) \in Seq(Unit) /\ Len(SubSeq(buf[m], 1, k)) = k
  BY <1>2
<1>4. Seen(m) \in Seq(Unit) /\ Len(Seen(m)) = k
  BY <1>3 DEF Seen, k
<1>5. Stream(n) \in Seq(Unit)
  BY <1>2, <1>4 DEF Stream, m
<1> QED
  BY <1>2, <1>4, <1>5 DEF m, k

\* The pipe is the end of the stream.
LEMMA PipeInOrder ==
  ASSUME TransportInv, StreamInv, NEW n \in Node
  PROVE  InOrder(pipe[n]) /\ EndsAt(pipe[n], left[n], sent[n])
<1> DEFINE s == Seen(Other(n))
           t == pipe[n]
<1>1. s \in Seq(Unit) /\ t \in Seq(Unit) /\ Stream(n) = s \o t
  BY StreamTypes DEF Stream
<1>2. InOrder(s \o t) /\ EndsAt(s \o t, left[n], sent[n])
  BY <1>1 DEF StreamInv
<1> HIDE DEF s, t
<1>3. /\ s \o t \in Seq(Unit) /\ Len(s) \in 0 .. Len(s \o t)
      /\ SubSeq(s \o t, Len(s) + 1, Len(s \o t)) = t
  BY <1>1, SplitAt
<1> DEFINE w == s \o t
           k == Len(s)
           l == left[n]
           last == sent[n]
<1>4. /\ w \in Seq(Unit) /\ k \in 0 .. Len(w) /\ InOrder(w) /\ EndsAt(w, l, last)
      /\ SubSeq(w, k + 1, Len(w)) = t
  BY <1>2, <1>3
<1> HIDE DEF w, k, l, last
<1>5. InOrder(SubSeq(w, k + 1, Len(w))) /\ EndsAt(SubSeq(w, k + 1, Len(w)), l, last)
  BY <1>4, SuffixInOrder
<1> QED
  BY <1>4, <1>5 DEF t, l, last

\* A message that is not written to its end is the last one.
LEMMA CompleteFacts ==
  ASSUME TransportInv, StreamInv, NEW n \in Node
  PROVE  /\ Complete(n) \in Nat
         /\ left[n] = <<>> => Complete(n) = sent[n]
         /\ left[n] # <<>> => Complete(n) + 1 = sent[n]
         /\ \A i \in DOMAIN pipe[n] :
              /\ pipe[n][i].id <= Complete(n) + 1
              /\ pipe[n][i].part = pipe[n][i].of => pipe[n][i].id <= Complete(n)
         /\ First(n) \in Nat /\ First(n) <= Complete(n) + 1
         /\ Piped(n) = From(First(n), Complete(n) + 1 - First(n))
<1>1. /\ pipe[n] \in Seq(Unit) /\ left[n] \in Seq(Unit) /\ sent[n] \in Nat
      /\ EndsAt(pipe[n], left[n], sent[n])
  BY StreamTypes, PipeInOrder
<1>2. /\ Complete(n) \in Nat
      /\ left[n] = <<>> => Complete(n) = sent[n]
      /\ left[n] # <<>> => /\ Complete(n) + 1 = sent[n]
                           /\ left[n][1].id = sent[n] /\ left[n][1].part = 2 /\ left[n][1].of = 2
  <2>1. CASE left[n] = <<>>
    BY <1>1, <2>1 DEF Complete
  <2>2. CASE left[n] # <<>>
    <3>1. left[n] = <<[id |-> sent[n], part |-> 2, of |-> 2]>>
      BY <1>1, <2>2 DEF EndsAt
    <3>2. left[n][1] \in Unit
      BY <1>1, <2>2
    <3>3. left[n][1].id = sent[n] /\ left[n][1].part = 2 /\ left[n][1].of = 2
      BY <3>1
    <3>4. sent[n] \in 1 .. MaxSent
      BY <3>2, <3>3 DEF Unit
    <3> QED
      BY <1>1, <2>2, <3>3, <3>4 DEF Complete
  <2> QED
    BY <2>1, <2>2
<1>3. ASSUME NEW i \in DOMAIN pipe[n]
      PROVE  /\ pipe[n][i].id <= Complete(n) + 1 /\ pipe[n][i].id \in Nat
             /\ pipe[n][i].part = pipe[n][i].of => pipe[n][i].id <= Complete(n)
  <2>1. pipe[n][i] \in Unit
    BY <1>1
  <2>2. pipe[n][i].id <= sent[n] /\ pipe[n][i].id \in Nat
    BY <1>1, <2>1 DEF EndsAt, Unit
  <2>3. left[n] # <<>> => Before(pipe[n][i], left[n][1])
    BY <1>1 DEF EndsAt
  <2>4. pipe[n][i].part \in 1 .. 2 /\ pipe[n][i].of \in 1 .. 2
    BY <2>1 DEF Unit
  <2> QED
    BY <1>1, <1>2, <2>2, <2>3, <2>4 DEF Before
<1>4. First(n) \in Nat /\ First(n) <= Complete(n) + 1
  <2>1. CASE pipe[n] = <<>>
    BY <1>2, <2>1 DEF First
  <2>2. CASE pipe[n] # <<>>
    <3>1. 1 \in DOMAIN pipe[n]
      BY <1>1, <2>2
    <3> QED
      BY <1>3, <2>2, <3>1 DEF First
  <2> QED
    BY <2>1, <2>2
<1>5. Piped(n) = From(First(n), Complete(n) + 1 - First(n))
  BY DEF Piped, First, From
<1> QED
  BY <1>2, <1>3, <1>4, <1>5

-----------------------------------------------------------------------------
(* Sending: what is under way                                              *)

\* What is under way before the pipe.
Ahead(n) == Expected(Other(n)) \o Awaited(SubSeq(buf[Other(n)], 1, len[Other(n)]))

LEMMA AheadType ==
  ASSUME TransportInv, NEW m \in Node, NEW k \in Nat, k <= Len(buf[m])
  PROVE  /\ Awaited(SubSeq(buf[m], 1, k)) \in Seq(Nat) /\ Decoded(SubSeq(buf[m], 1, k)) \in Seq(Nat)
         /\ Len(Awaited(SubSeq(buf[m], 1, k))) \in 0 .. 1
         /\ k = 0 => Awaited(SubSeq(buf[m], 1, k)) = <<>> /\ Decoded(SubSeq(buf[m], 1, k)) = <<>>
<1> DEFINE u == SubSeq(buf[m], 1, k)
<1>1. buf[m] \in Seq(Unit)
  BY DEF TransportInv, DataInv
<1>2. u \in Seq(Unit) /\ Len(u) = k
  BY <1>1
<1> HIDE DEF u
<1>3. k = 0 => u = <<>>
  BY <1>2
<1>4. Awaited(u) = <<>> \/ (Awaited(u) = <<u[1].id>> /\ DOMAIN u # {})
  BY DEF Awaited
<1>5. Decoded(u) = <<>> \/ (Decoded(u) = <<u[1].id>> /\ u # <<>>)
  BY DEF Decoded
<1>6. u # <<>> => u[1].id \in Nat
  <2>1. u # <<>> => u[1] \in Unit
    BY <1>2
  <2> QED
    BY <2>1 DEF Unit
<1>7. DOMAIN u # {} => u # <<>>
  BY <1>2
<1>8. Awaited(u) \in Seq(Nat) /\ Len(Awaited(u)) \in 0 .. 1
  <2>1. CASE Awaited(u) = <<>>
    BY <2>1
  <2>2. CASE Awaited(u) = <<u[1].id>> /\ u # <<>>
    BY <1>6, <2>2
  <2> QED
    BY <1>4, <1>7, <2>1, <2>2
<1>9. Decoded(u) \in Seq(Nat)
  <2>1. CASE Decoded(u) = <<>>
    BY <2>1
  <2>2. CASE Decoded(u) = <<u[1].id>> /\ u # <<>>
    BY <1>6, <2>2
  <2> QED
    BY <1>5, <2>1, <2>2
<1>10. k = 0 => Awaited(u) = <<>> /\ Decoded(u) = <<>>
  <2>1. DOMAIN <<>> = {}
    OBVIOUS
  <2> QED
    BY <1>3, <2>1 DEF Awaited, Decoded
<1> QED
  BY <1>8, <1>9, <1>10 DEF u

LEMMA ExpectedType ==
  ASSUME TransportInv, NEW m \in Node
  PROVE  Expected(m) \in Seq(Nat)
<1>1. slice[m] \in Nat /\ slice[m] <= Len(buf[m])
  BY DEF TransportInv, DataInv
<1>2. InSlice(m) \in Seq(Nat) /\ Awaited(SubSeq(buf[m], 1, slice[m])) \in Seq(Nat)
  BY <1>1, AheadType DEF InSlice
<1>3. <<Garbled>> \in Seq(Nat)
  BY DEF Garbled
<1> QED
  BY <1>2, <1>3 DEF Expected

LEMMA AheadIsSeq ==
  ASSUME TransportInv, NEW n \in Node
  PROVE  Ahead(n) \in Seq(Nat) /\ InTransit(n) = Ahead(n) \o Piped(n)
<1> DEFINE m == Other(n)
<1>1. m \in Node
  BY OtherIsNode
<1>2. len[m] \in Nat /\ len[m] <= Len(buf[m])
  BY <1>1 DEF TransportInv, DataInv
<1>3. Awaited(SubSeq(buf[m], 1, len[m])) \in Seq(Nat) /\ Expected(m) \in Seq(Nat)
  BY <1>1, <1>2, AheadType, ExpectedType
<1>4. InTransit(n) = Ahead(n) \o Piped(n)
  BY DEF InTransit, Ahead
<1> QED
  BY <1>3, <1>4 DEF Ahead

\* A unit is written: of the next message, which it may complete.
LEMMA UnitWritten ==
  ASSUME TransportInv, StreamInv, NEW n \in Node, NEW u \in Unit, u.id = Complete(n) + 1,
         pipe'[n] = Append(pipe[n], u), SameIn(Other(n)), StreamOk(n)', got' = got,
         \A d \in Node \ {n} : SameOut(d) /\ SameIn(Other(d)),
         Complete(n)' = Complete(n) \/ Complete(n)' = Complete(n) + 1
  PROVE  LinkMoves
<1>1. StreamInv' /\ OthersKept(n)
  BY OneStream
<1>2. /\ Complete(n) \in Nat /\ First(n) \in Nat /\ First(n) <= Complete(n) + 1
      /\ Piped(n) = From(First(n), Complete(n) + 1 - First(n))
  BY CompleteFacts
<1>3. Piped(n)' = From(First(n)', Complete(n)' + 1 - First(n)')
  BY DEF Piped, First, From
<1>4. First(n)' = First(n)
  <2>1. pipe[n] \in Seq(Unit)
    BY StreamTypes
  <2>2. /\ pipe'[n] # <<>>
        /\ pipe[n] = <<>> => pipe'[n][1] = u
        /\ pipe[n] # <<>> => pipe'[n][1] = pipe[n][1]
    BY <2>1, HeadOfAppend
  <2>3. First(n)' = pipe'[n][1].id
    BY <2>2 DEF First
  <2>4. CASE pipe[n] = <<>>
    BY <2>2, <2>3, <2>4 DEF First
  <2>5. CASE pipe[n] # <<>>
    BY <2>2, <2>3, <2>5 DEF First
  <2> QED
    BY <2>4, <2>5
<1>5. Ahead(n)' = Ahead(n)
  BY DEF Ahead, SameIn, Expected, InSlice, WrittenOver
<1>6. InTransit(n) = Ahead(n) \o Piped(n) /\ InTransit(n)' = Ahead(n)' \o Piped(n)' /\ Ahead(n) \in Seq(Nat)
  BY AheadIsSeq DEF InTransit, Ahead
<1>7. CASE Complete(n)' = Complete(n)
  <2>1. InTransit(n)' = InTransit(n)
    BY <1>2, <1>3, <1>4, <1>5, <1>6, <1>7
  <2>2. Links!LNext
    BY <1>1, <1>7, <2>1, DamageStep
  <2> QED
    BY <1>1, <2>2 DEF LinkMoves
<1>8. CASE Complete(n)' = Complete(n) + 1
  <2> DEFINE a == First(n)
             c == Complete(n)
             k == c + 1 - a
  <2>1. k \in Nat /\ c + 1 + 1 - a = k + 1 /\ a + k = c + 1
    BY <1>2
  <2>2. Piped(n)' = Append(Piped(n), c + 1)
    <3>1. Piped(n) = From(a, k) /\ Piped(n)' = From(a, k + 1)
      BY <1>2, <1>3, <1>4, <1>8, <2>1
    <3>2. a \in Nat /\ k \in Nat /\ a + k = c + 1
      BY <1>2, <2>1
    <3> HIDE DEF a, c, k
    <3>3. Append(From(a, k), a + k) = From(a, k + 1)
      BY <3>2, FromGrows
    <3> QED
      BY <3>1, <3>2, <3>3
  <2>3. InTransit(n)' = Append(InTransit(n), c + 1)
    <3>0. a \in Nat /\ c \in Nat /\ Piped(n) = From(a, k)
      BY <1>2
    <3> HIDE DEF a, c, k
    <3>1. Piped(n) \in Seq(Nat) /\ c + 1 \in Nat
      BY <2>1, <3>0, FromType
    <3> DEFINE p == Piped(n)
               q == Ahead(n)
               e == c + 1
    <3>2. q \o Append(p, e) = Append(q \o p, e)
      <4>1. p \in Seq(Nat) /\ q \in Seq(Nat) /\ e \in Nat
        BY <1>6, <3>1
      <4> HIDE DEF p, q, e
      <4> QED
        BY <4>1, Concatenations
    <3> QED
      BY <1>5, <1>6, <2>2, <3>2
  <2>4. Links!LNext
    BY <1>1, <1>8, <2>3, SendStep
  <2> QED
    BY <1>1, <2>4 DEF LinkMoves
<1> QED
  BY <1>7, <1>8

LEMMA SmallTuples ==
  ASSUME NEW S, NEW u \in S, NEW v \in S
  PROVE  /\ <<u>> \in Seq(S) /\ Head(<<u>>) = u /\ Tail(<<u>>) = <<>>
         /\ Head(<<u, v>>) = u /\ Tail(<<u, v>>) = <<v>>
  OBVIOUS

LEMMA EmptyJoins ==
  ASSUME NEW S, NEW s \in Seq(S)
  PROVE  <<>> \o s = s
<1> DEFINE e == <<>>
<1>1. e \in Seq(S) /\ Len(e) = 0
  OBVIOUS
<1> HIDE DEF e
<1>2. e \o s \in Seq(S) /\ Len(e \o s) = Len(s) /\ \A i \in 1 .. Len(s) : (e \o s)[i] = s[i]
  BY <1>1
<1>3. e \o s = s
  BY <1>2
<1> QED
  BY <1>3 DEF e

LEMMA Joined ==
  ASSUME NEW S, NEW s \in Seq(S), NEW t \in Seq(S)
  PROVE  /\ s \o t \in Seq(S) /\ Len(s \o t) = Len(s) + Len(t)
         /\ \A i \in 1 .. Len(s) : (s \o t)[i] = s[i]
         /\ \A i \in 1 .. Len(t) : (s \o t)[Len(s) + i] = t[i]
  OBVIOUS

LEMMA SmallJoins ==
  ASSUME NEW S, NEW u \in S, NEW v \in S
  PROVE  /\ <<>> \o <<>> = <<>> /\ <<>> \o <<u>> = <<u>> /\ <<u>> \o <<>> = <<u>>
         /\ <<u>> \o <<v>> = <<u, v>>
         /\ <<>> \in Seq(S) /\ <<u>> \in Seq(S) /\ <<u, v>> \in Seq(S)
<1>1. <<>> \in Seq(S) /\ <<u>> \in Seq(S) /\ <<u, v>> \in Seq(S)
  OBVIOUS
<1>2. <<>> \o <<>> = <<>> /\ <<>> \o <<u>> = <<u>>
  BY <1>1, EmptyJoins
<1> DEFINE s == <<u>>
           t == <<v>>
           d == <<u, v>>
<1>3. /\ s \in Seq(S) /\ Len(s) = 1 /\ s[1] = u /\ t \in Seq(S) /\ Len(t) = 1 /\ t[1] = v
      /\ d \in Seq(S) /\ Len(d) = 2 /\ d[1] = u /\ d[2] = v
  OBVIOUS
<1>4. s \o t = d
  <2> HIDE DEF s, t, d
  <2> DEFINE q == s \o t
  <2>1. q \in Seq(S) /\ Len(q) = 2 /\ q[1] = s[1] /\ q[2] = t[1]
    <3>1. s \in Seq(S) /\ t \in Seq(S) /\ 1 \in 1 .. Len(s) /\ 1 \in 1 .. Len(t) /\ Len(s) = 1 /\ Len(t) = 1
      BY <1>3
    <3>2. /\ q \in Seq(S) /\ Len(q) = Len(s) + Len(t)
          /\ \A i \in 1 .. Len(s) : q[i] = s[i]
          /\ \A i \in 1 .. Len(t) : q[Len(s) + i] = t[i]
      BY <3>1, Joined
    <3>3. q[1] = s[1] /\ q[Len(s) + 1] = t[1] /\ Len(s) + 1 = 2
      BY <3>1, <3>2
    <3> QED
      BY <3>1, <3>2, <3>3
  <2> HIDE DEF q
  <2>2. \A i \in 1 .. 2 : q[i] = d[i]
    BY <1>3, <2>1
  <2>3. q = d
    BY <1>3, <2>1, <2>2
  <2> QED
    BY <2>3 DEF q
<1>5. s \o <<>> = s
  <2> HIDE DEF s
  <2> QED
    BY <1>3
<1> QED
  BY <1>1, <1>2, <1>4, <1>5

LEMMA HeadAndRest ==
  ASSUME NEW id \in 1 .. MaxSent, NEW size \in 1 .. 2
  PROVE  /\ Head(UnitsOf(id, size)) = [id |-> id, part |-> 1, of |-> size]
         /\ \/ size = 1 /\ Tail(UnitsOf(id, size)) = <<>>
            \/ size = 2 /\ Tail(UnitsOf(id, size)) = <<[id |-> id, part |-> 2, of |-> 2]>>
<1>1. CASE size = 1
  <2> DEFINE u == [id |-> id, part |-> 1, of |-> 1]
  <2>0. u \in Unit
    BY DEF Unit
  <2>1. UnitsOf(id, 1) = <<u>>
    BY DEF UnitsOf
  <2> HIDE DEF u
  <2>2. Head(UnitsOf(id, 1)) = u /\ Tail(UnitsOf(id, 1)) = <<>>
    BY <2>0, <2>1, SmallTuples
  <2> QED
    BY <1>1, <2>2 DEF u
<1>2. CASE size = 2
  <2> DEFINE u == [id |-> id, part |-> 1, of |-> 2]
             v == [id |-> id, part |-> 2, of |-> 2]
  <2>0. u \in Unit /\ v \in Unit
    BY DEF Unit
  <2>1. UnitsOf(id, 2) = <<u, v>>
    BY DEF UnitsOf
  <2> HIDE DEF u, v
  <2>2. Head(<<u, v>>) = u /\ Tail(<<u, v>>) = <<v>>
    BY <2>0, SmallTuples
  <2>3. Head(UnitsOf(id, 2)) = u /\ Tail(UnitsOf(id, 2)) = <<v>>
    BY <2>1, <2>2
  <2> QED
    BY <1>2, <2>3 DEF u, v
<1> QED
  BY <1>1, <1>2

LEMMA StreamGrows ==
  ASSUME TransportInv, NEW n \in Node, NEW u \in Unit, pipe'[n] = Append(pipe[n], u), SameIn(Other(n))
  PROVE  Stream(n)' = Append(Stream(n), u)
<1> DEFINE s == Seen(Other(n))
           t == pipe[n]
<1>1. s \in Seq(Unit) /\ t \in Seq(Unit) /\ Stream(n) = s \o t
  BY StreamTypes DEF Stream
<1>2. Stream(n)' = s \o Append(t, u)
  BY DEF Stream, Seen, SameIn
<1> HIDE DEF s, t
<1>3. s \o Append(t, u) = Append(s \o t, u)
  BY <1>1, Concatenations
<1> QED
  BY <1>1, <1>2, <1>3

\* The message that is first in the pipe when k units of t have been read, c being complete.
RestFirst(t, k, c) == IF SubSeq(t, k + 1, Len(t)) = <<>> THEN c + 1 ELSE t[k + 1].id

\* None of t is later than c and the message after it, of which there is no last unit.
UpTo(t, c) == \A i \in DOMAIN t : t[i].id <= c + 1 /\ (t[i].part = t[i].of => t[i].id <= c)

\* What ends in the first k units of t is not in the rest.
EndBefore(t, k, b) == \A i \in 1 .. k : t[i].part = t[i].of => t[1].id < b

\* What is left in the pipe is of the same message or of later ones.
LEMMA RestIsLater ==
  ASSUME NEW t \in Seq(Unit), NEW k \in 1 .. Len(t), InOrder(t), NEW c \in Nat, UpTo(t, c)
  PROVE  /\ RestFirst(t, k, c) \in Nat /\ t[1].id <= RestFirst(t, k, c) /\ RestFirst(t, k, c) <= c + 1
         /\ EndBefore(t, k, RestFirst(t, k, c))
<1> DEFINE b == RestFirst(t, k, c)
<1>0. /\ b = IF SubSeq(t, k + 1, Len(t)) = <<>> THEN c + 1 ELSE t[k + 1].id
      /\ \A i \in DOMAIN t : t[i].id <= c + 1 /\ (t[i].part = t[i].of => t[i].id <= c)
  BY DEF RestFirst, UpTo
<1> HIDE DEF b
<1>1. \A i \in DOMAIN t : t[i].id \in Nat /\ t[i].part \in 1 .. 2 /\ t[i].of \in 1 .. 2
  <2>1. \A i \in DOMAIN t : t[i] \in Unit
    OBVIOUS
  <2> QED
    BY <2>1 DEF Unit
<1>2. /\ 1 \in DOMAIN t /\ Len(t) \in Nat /\ k \in Nat /\ DOMAIN t = 1 .. Len(t)
      /\ \A i \in 1 .. k : i \in DOMAIN t
  OBVIOUS
<1>3. \A i \in 1 .. k : t[1].id <= t[i].id
  <2> SUFFICES ASSUME NEW i \in 1 .. k PROVE t[1].id <= t[i].id
    OBVIOUS
  <2>1. CASE i = 1
    BY <1>1, <1>2, <2>1
  <2>2. CASE i # 1
    <3>1. 1 < i /\ i \in DOMAIN t
      BY <1>2, <2>2
    <3>2. Before(t[1], t[i])
      BY <1>2, <3>1 DEF InOrder
    <3> QED
      BY <1>1, <1>2, <3>1, <3>2 DEF Before
  <2> QED
    BY <2>1, <2>2
<1>4. CASE SubSeq(t, k + 1, Len(t)) = <<>>
  <2>1. b = c + 1
    BY <1>0, <1>4
  <2>2. ASSUME NEW i \in 1 .. k, t[i].part = t[i].of PROVE t[1].id < b
    <3>1. t[i].id <= c /\ t[1].id <= t[i].id
      BY <1>0, <1>2, <1>3, <2>2
    <3> QED
      BY <1>1, <1>2, <2>1, <3>1
  <2>3. t[1].id <= b /\ b \in Nat /\ b <= c + 1
    BY <1>0, <1>1, <1>2, <2>1
  <2> QED
    BY <2>2, <2>3 DEF EndBefore, b
<1>5. CASE SubSeq(t, k + 1, Len(t)) # <<>>
  <2>1. k + 1 \in DOMAIN t
    <3>1. k + 1 > Len(t) => SubSeq(t, k + 1, Len(t)) = <<>>
      BY <1>2
    <3> QED
      BY <1>2, <1>5, <3>1
  <2>2. b = t[k + 1].id
    BY <1>0, <1>5
  <2>3. ASSUME NEW i \in 1 .. k
        PROVE  t[i].id <= b /\ (t[i].part = t[i].of => t[i].id < b)
    <3>1. i < k + 1 /\ i \in DOMAIN t
      BY <1>2
    <3>2. Before(t[i], t[k + 1]) /\ t[k + 1].part <= t[k + 1].of
      BY <2>1, <3>1 DEF InOrder
    <3> QED
      BY <1>1, <2>1, <2>2, <3>1, <3>2 DEF Before
  <2>4. 1 \in 1 .. k
    BY <1>2
  <2>5. t[1].id <= b
    BY <2>3, <2>4
  <2>6. ASSUME NEW i \in 1 .. k, t[i].part = t[i].of PROVE t[1].id < b
    <3>1. t[i].id < b /\ t[1].id <= t[i].id
      BY <1>3, <2>3, <2>6
    <3>2. i \in DOMAIN t
      BY <1>2
    <3>3. t[i].id \in Nat /\ t[1].id \in Nat /\ b \in Nat
      BY <1>1, <1>2, <2>1, <2>2, <3>2
    <3> QED
      BY <3>1, <3>3
  <2> QED
    BY <1>0, <1>1, <1>2, <2>1, <2>2, <2>5, <2>6 DEF EndBefore, b
<1> QED
  BY <1>4, <1>5

\* front is k units long, those with which t begins.
IsFront(front, t, k) == front \in Seq(Unit) /\ Len(front) = k /\ \A i \in 1 .. k : front[i] = t[i]

\* old is what is left of s when k units have been written over.
IsRest(old, s, k) ==
  /\ old \in Seq(Unit)
  /\ Len(old) = IF k + 1 <= Len(s) THEN Len(s) - k ELSE 0
  /\ \A i \in 1 .. Len(s) - k : old[i] = s[i + k]

\* A message begins only after the last unit of another.
LEMMA BeginsAfterEnd ==
  ASSUME NEW s \in Seq(Unit), NEW t \in Seq(Unit), InOrder(s \o t), s # <<>>, t # <<>>, t[1].part = 1
  PROVE  Awaited(s) # <<>>
<1> DEFINE both == s \o t
           n == Len(s)
<1>1. /\ n \in Nat /\ n >= 1 /\ n \in DOMAIN s /\ Len(t) >= 1
      /\ n \in DOMAIN both /\ n < Len(both) /\ both[n] = s[n] /\ both[n + 1] = t[1]
  OBVIOUS
<1>2. InOrder(both)
  OBVIOUS
<1> HIDE DEF both, n
<1>3. both[n].part # both[n].of => both[n + 1].part # 1
  BY <1>1, <1>2 DEF InOrder
<1>4. s[n].part = s[n].of
  BY <1>1, <1>3
<1>5. Awaited(s) = <<s[1].id>>
  BY <1>1, <1>4 DEF Awaited
<1> QED
  BY <1>5

(***************************************************************************)
(* When a Read writes over what is still to be decoded, the loop can only  *)
(* decode the message at the head of the pipe, which it then meets again;  *)
(* and something ends in what was to be decoded before.                    *)
(***************************************************************************)
LEMMA NewDecoded ==
  ASSUME NEW s \in Seq(Unit), NEW t \in Seq(Unit), InOrder(s \o t), NEW k \in 1 .. Len(t),
         NEW front, IsFront(front, t, k), NEW old, IsRest(old, s, k)
  PROVE  \/ Decoded(SubSeq(front \o old, 1, Len(s))) = <<>>
         \/ /\ Decoded(SubSeq(front \o old, 1, Len(s))) = <<t[1].id>>
            /\ Awaited(front) = <<t[1].id>> /\ Awaited(s) # <<>>
<1> DEFINE w == SubSeq(front \o old, 1, Len(s))
           n == Len(s)
<1> SUFFICES ASSUME Decoded(w) # <<>>
             PROVE  Decoded(w) = <<t[1].id>> /\ Awaited(front) = <<t[1].id>> /\ Awaited(s) # <<>>
  OBVIOUS
<1>0. /\ front \in Seq(Unit) /\ Len(front) = k /\ (\A i \in 1 .. k : front[i] = t[i])
      /\ old \in Seq(Unit) /\ Len(old) = IF k + 1 <= Len(s) THEN Len(s) - k ELSE 0
      /\ \A i \in 1 .. Len(s) - k : old[i] = s[i + k]
  BY DEF IsFront, IsRest
<1>1. n \in Nat /\ k \in Nat /\ k >= 1 /\ n <= Len(front \o old) /\ front \o old \in Seq(Unit)
  BY <1>0
<1>2. w \in Seq(Unit) /\ Len(w) = n /\ \A i \in 1 .. n : w[i] = (front \o old)[i]
  BY <1>1
<1>3. /\ \A i \in 1 .. k : (front \o old)[i] = t[i]
      /\ \A i \in 1 .. n : i > k => (front \o old)[i] = s[i]
  <2>1. \A i \in 1 .. k : (front \o old)[i] = front[i]
    BY <1>0
  <2>2. ASSUME NEW i \in 1 .. n, i > k PROVE (front \o old)[i] = s[i]
    <3>1. i - k \in 1 .. n - k /\ Len(old) = n - k /\ (i - k) + k = i /\ k + (i - k) = i
      BY <1>0, <1>1, <2>2
    <3>2. (front \o old)[k + (i - k)] = old[i - k]
      BY <1>0, <3>1
    <3>3. old[i - k] = s[(i - k) + k]
      BY <1>0, <3>1
    <3> QED
      BY <3>1, <3>2, <3>3
  <2> QED
    BY <1>0, <2>1, <2>2
<1> HIDE DEF w, n
<1>4. /\ w # <<>> /\ w[1].part = 1 /\ w[1].of <= Len(w)
      /\ w[w[1].of] = [w[1] EXCEPT !.part = w[1].of]
      /\ Decoded(w) = <<w[1].id>>
  BY DEF Decoded
<1>5. n >= 1 /\ w[1] = t[1] /\ t[1] \in Unit
  <2>1. n >= 1
    BY <1>1, <1>2, <1>4
  <2>2. 1 \in 1 .. n /\ 1 \in 1 .. k
    BY <1>1, <2>1
  <2>3. w[1] = t[1]
    <3> DEFINE q == front \o old
    <3>1. w[1] = q[1]
      BY <1>2, <2>2
    <3>2. q[1] = t[1]
      <4> HIDE DEF q
      <4>1. \A i \in 1 .. k : q[i] = t[i]
        BY <1>3 DEF q
      <4> QED
        BY <2>2, <4>1
    <3> QED
      BY <3>1, <3>2
  <2>4. t[1] \in Unit
    <3>1. 1 \in 1 .. Len(t)
      OBVIOUS
    <3> QED
      BY <3>1
  <2> QED
    BY <2>1, <2>3, <2>4
<1>6. t[1].part = 1 /\ t[1].of \in 1 .. 2 /\ t[1].of <= n
  BY <1>2, <1>4, <1>5 DEF Unit
<1> DEFINE both == s \o t
<1>7. /\ both \in Seq(Unit) /\ Len(both) = n + Len(t)
      /\ \A i \in 1 .. n : both[i] = s[i]
      /\ both[n + 1] = t[1]
      /\ DOMAIN both = 1 .. n + Len(t) /\ Len(t) \in Nat /\ Len(t) >= 1
  BY DEF n
<1>8. InOrder(both)
  OBVIOUS
<1> HIDE DEF both
<1>9. \E i \in 1 .. k : front[i].part = front[i].of
  <2>1. CASE t[1].of = 1
    <3>1. 1 \in 1 .. k
      BY <1>1
    <3> QED
      BY <1>0, <1>6, <2>1, <3>1
  <2>2. CASE t[1].of = 2
    <3>1. n >= 2 /\ 2 \in 1 .. n /\ w[2] = [t[1] EXCEPT !.part = 2]
      BY <1>1, <1>4, <1>5, <1>6, <2>2
    <3>2. w[2].part = 2 /\ w[2].of = 2 /\ w[2].id = t[1].id
      BY <1>5, <2>2, <3>1 DEF Unit
    <3>3. CASE k >= 2
      <4>1. 2 \in 1 .. k
        BY <1>1, <3>3
      <4>2. w[2] = t[2]
        BY <1>2, <1>3, <3>1, <4>1
      <4>3. front[2].part = front[2].of
        BY <1>0, <3>2, <4>1, <4>2
      <4> QED
        BY <4>1, <4>3
    <3>4. CASE k < 2
      <4>1. w[2] = s[2] /\ both[2] = s[2]
        BY <1>1, <1>2, <1>3, <1>7, <3>1, <3>4
      <4>2. 2 \in DOMAIN both /\ n + 1 \in DOMAIN both /\ 2 < n + 1
        <5>1. n \in Nat /\ n >= 2 /\ Len(t) \in Nat /\ Len(t) >= 1
          BY <1>1, <1>7, <3>1
        <5>2. 2 \in 1 .. n + Len(t) /\ n + 1 \in 1 .. n + Len(t) /\ 2 < n + 1
          BY <5>1
        <5> QED
          BY <1>7, <5>2
      <4>3. Before(both[2], both[n + 1])
        BY <1>8, <4>2 DEF InOrder
      <4>4. both[2].id = t[1].id /\ both[2].part = 2 /\ both[n + 1] = t[1] /\ t[1].part = 1 /\ t[1].id \in Nat
        BY <1>5, <1>6, <1>7, <3>2, <4>1 DEF Unit
      <4> QED
        BY <4>3, <4>4 DEF Before
    <3> QED
      BY <1>1, <3>3, <3>4
  <2> QED
    BY <1>6, <2>1, <2>2
<1>10. Awaited(front) = <<t[1].id>>
  <2>1. DOMAIN front = 1 .. k /\ front[1] = t[1]
    BY <1>0, <1>1
  <2> QED
    BY <1>9, <2>1 DEF Awaited
<1>11. Awaited(s) # <<>>
  <2>1. s # <<>> /\ t # <<>>
    <3>1. Len(s) >= 1 /\ Len(t) >= 1
      BY <1>5, <1>7 DEF n
    <3> QED
      BY <3>1
  <2> QED
    BY <1>6, <2>1, BeginsAfterEnd
<1>12. Decoded(w) = <<t[1].id>>
  BY <1>4, <1>5
<1> QED
  BY <1>10, <1>11, <1>12

LEMMA WriteMoves ==
  ASSUME TransportInv, StreamInv, CutInv,
         NEW n \in Node, NEW t \in Thread, NEW size \in 1 .. 2, Write(n, t, size)
  PROVE  LinkMoves
<1> DEFINE units == UnitsOf(sent[n] + 1, size)
           u == Head(units)
           l == Tail(units)
<1>1. /\ pc[n][t] = "send" /\ ~broken /\ ~InWrite(n)
      /\ pipe' = [pipe EXCEPT ![n] = Append(@, u)]
      /\ left' = [left EXCEPT ![n] = l]
      /\ sent' = [sent EXCEPT ![n] = @ + 1]
      /\ UNCHANGED <<reader, buf, len, slice, got>>
  BY DEF Write, input
<1>2. /\ pipe \in [Node -> Seq(Unit)] /\ left \in [Node -> Seq(Unit)] /\ sent \in [Node -> Nat]
      /\ sent[n] + Owed(n, "loop") + Owed(n, "cast") <= MaxSent
  BY DEF TransportInv, DataInv, RoomInv
<1>3. sent[n] + 1 \in 1 .. MaxSent
  <2>1. Owed(n, t) = 1
    BY <1>1 DEF Owed, Owes
  <2>2. /\ Owed(n, "loop") \in {0, 1} /\ Owed(n, "cast") \in {0, 1}
        /\ Owed(n, "loop") = 1 \/ Owed(n, "cast") = 1
    BY <2>1, OwedIsOne
  <2>3. sent[n] \in Nat
    BY <1>2
  <2> QED
    BY <1>2, <2>2, <2>3
<1>4. u \in Unit
  BY <1>3, UnitsType
<1>5. /\ u = [id |-> sent[n] + 1, part |-> 1, of |-> size]
      /\ \/ size = 1 /\ l = <<>>
         \/ size = 2 /\ l = <<[id |-> sent[n] + 1, part |-> 2, of |-> 2]>>
  BY <1>3, HeadAndRest
<1> HIDE DEF units, u, l
<1>6. left[n] = <<>> /\ Complete(n) = sent[n]
  <2>1. left[n] = <<>>
    BY <1>1 DEF CutInv
  <2> QED
    BY <2>1 DEF Complete
<1>7. pipe'[n] = Append(pipe[n], u) /\ left'[n] = l /\ sent'[n] = sent[n] + 1
  BY <1>1, <1>2
<1>8. \A d \in Node \ {n} : SameOut(d) /\ SameIn(Other(d))
  BY <1>1, <1>2 DEF SameOut, SameIn
<1>9. SameIn(Other(n))
  BY <1>1 DEF SameIn
<1>10. Stream(n)' = Append(Stream(n), u)
  BY <1>4, <1>7, <1>9, StreamGrows
<1>11. StreamOk(n)'
  <2> DEFINE s == Stream(n)
             last == sent[n]
  <2>1. s \in Seq(Unit) /\ last \in Nat /\ InOrder(s) /\ EndsAt(s, <<>>, last)
    BY <1>2, <1>6, StreamTypes DEF StreamInv
  <2>2. /\ u.id = last + 1 /\ u.part = 1
        /\ \/ u.of = 1 /\ l = <<>>
           \/ u.of = 2 /\ l = <<[id |-> last + 1, part |-> 2, of |-> 2]>>
    BY <1>5
  <2> HIDE DEF s, last
  <2>3. InOrder(Append(s, u)) /\ EndsAt(Append(s, u), l, last + 1)
    BY <1>4, <2>1, <2>2, WrittenInOrder
  <2> QED
    BY <1>7, <1>10, <2>3 DEF StreamOk, s, last
<1>12. Complete(n)' = Complete(n) \/ Complete(n)' = Complete(n) + 1
  <2>1. sent[n] \in Nat
    BY <1>2
  <2>2. CASE l = <<>>
    BY <1>6, <1>7, <2>2 DEF Complete
  <2>3. CASE l # <<>>
    <3>1. Complete(n)' = sent'[n] - 1
      BY <1>7, <2>3 DEF Complete
    <3> QED
      BY <1>6, <1>7, <2>1, <3>1
  <2> QED
    BY <2>2, <2>3
<1>13. u.id = Complete(n) + 1 /\ got' = got
  BY <1>1, <1>5, <1>6
<1> QED
  BY <1>4, <1>7, <1>8, <1>9, <1>11, <1>12, <1>13, UnitWritten

LEMMA WriteMoreMoves ==
  ASSUME TransportInv, StreamInv, NEW n \in Node, NEW t \in Thread, WriteMore(n, t)
  PROVE  LinkMoves
<1> DEFINE u == left[n][1]
           l == left[n]
<1>1. /\ l # <<>>
      /\ pipe' = [pipe EXCEPT ![n] = Append(@, Head(left[n]))]
      /\ left' = [left EXCEPT ![n] = Tail(@)]
      /\ UNCHANGED <<sent, reader, buf, len, slice, got>>
  BY DEF WriteMore, input
<1>2. /\ pipe \in [Node -> Seq(Unit)] /\ left \in [Node -> Seq(Unit)] /\ sent \in [Node -> Nat]
  BY DEF TransportInv, DataInv
<1>3. l \in Seq(Unit) /\ Head(l) = u /\ u \in Unit
  BY <1>1, <1>2
<1>4. pipe'[n] = Append(pipe[n], u) /\ left'[n] = Tail(l) /\ sent'[n] = sent[n]
  BY <1>1, <1>2, <1>3
<1>5. \A d \in Node \ {n} : SameOut(d) /\ SameIn(Other(d))
  BY <1>1, <1>2 DEF SameOut, SameIn
<1>6. SameIn(Other(n))
  BY <1>1 DEF SameIn
<1>7. Stream(n)' = Append(Stream(n), u)
  <2> HIDE DEF u
  <2> QED
    BY <1>3, <1>4, <1>6, StreamGrows
<1>8. InOrder(Append(Stream(n), u)) /\ EndsAt(Append(Stream(n), u), <<>>, sent[n]) /\ Tail(l) = <<>>
  <2> DEFINE s == Stream(n)
             last == sent[n]
  <2>1. s \in Seq(Unit) /\ last \in Nat /\ InOrder(s) /\ EndsAt(s, l, last)
    BY <1>2, StreamTypes DEF StreamInv
  <2>2. u = l[1]
    OBVIOUS
  <2> HIDE DEF s, last, l, u
  <2>3. InOrder(Append(s, l[1])) /\ EndsAt(Append(s, l[1]), <<>>, last) /\ Tail(l) = <<>>
    BY <1>1, <1>3, <2>1, CompletedInOrder
  <2> QED
    BY <2>2, <2>3 DEF s, last
<1>9. StreamOk(n)'
  BY <1>4, <1>7, <1>8 DEF StreamOk
<1>10. Complete(n) \in Nat /\ Complete(n) + 1 = sent[n]
  BY <1>1, CompleteFacts
<1>11. u.id = sent[n]
  <2>1. EndsAt(Stream(n), l, sent[n])
    BY DEF StreamInv
  <2>2. l = <<[id |-> sent[n], part |-> 2, of |-> 2]>>
    BY <1>1, <2>1 DEF EndsAt
  <2> QED
    BY <2>2
<1>12. Complete(n)' = Complete(n) + 1
  BY <1>4, <1>8, <1>10 DEF Complete
<1> HIDE DEF u, l
<1> QED
  BY <1>1, <1>3, <1>4, <1>5, <1>6, <1>9, <1>10, <1>11, <1>12, UnitWritten

-----------------------------------------------------------------------------
(* Receiving: what is under way                                            *)

LEMMA Shifted ==
  ASSUME NEW S, NEW b \in Seq(S), NEW n \in Nat, n <= Len(b), NEW k \in Nat
  PROVE  /\ SubSeq(b, k + 1, n) \in Seq(S)
         /\ Len(SubSeq(b, k + 1, n)) = IF k + 1 <= n THEN n - k ELSE 0
         /\ \A i \in 1 .. n - k : SubSeq(b, k + 1, n)[i] = SubSeq(b, 1, n)[i + k]
<1>1. /\ SubSeq(b, k + 1, n) \in Seq(S)
      /\ Len(SubSeq(b, k + 1, n)) = IF k + 1 <= n THEN n - k ELSE 0
  OBVIOUS
<1>2. \A i \in 1 .. n - k : SubSeq(b, k + 1, n)[i] = b[i + k]
  OBVIOUS
<1>3. \A i \in 1 .. n : SubSeq(b, 1, n)[i] = b[i]
  OBVIOUS
<1>4. \A i \in 1 .. n - k : i + k \in 1 .. n
  OBVIOUS
<1> QED
  BY <1>1, <1>2, <1>3, <1>4

LEMMA RestBegins ==
  ASSUME NEW t \in Seq(Unit), NEW k \in 1 .. Len(t), SubSeq(t, k + 1, Len(t)) # <<>>
  PROVE  SubSeq(t, k + 1, Len(t))[1] = t[k + 1]
<1>1. k + 1 <= Len(t)
  <2>1. k + 1 > Len(t) => SubSeq(t, k + 1, Len(t)) = <<>>
    OBVIOUS
  <2> QED
    BY <2>1
<1> QED
  BY <1>1

\* What Read puts into the buffer is the beginning of the pipe.
LEMMA ReadMoves ==
  ASSUME TransportInv, StreamInv, BufInv, NEW m \in Node, NEW k \in 1 .. ReadSize, Read(m, k)
  PROVE  LinkMoves
<1> DEFINE n == Other(m)
           t == pipe[n]
           front == SubSeq(t, 1, k)
           rest == SubSeq(t, k + 1, Len(t))
           s == Seen(m)
           old == SubSeq(buf[m], k + 1, slice[m])
           new == SubSeq(front \o old, 1, slice[m])
<1>1. n \in Node /\ Other(n) = m /\ n # m /\ \A d \in Node \ {n} : d = m /\ Other(d) = n
  BY OtherIsNode, OthersOther
<1> HIDE DEF n
<1>2. /\ reader[m] = "read" /\ k <= Len(t)
      /\ buf' = [buf EXCEPT ![m] = front \o old]
      /\ len' = [len EXCEPT ![m] = k]
      /\ pipe' = [pipe EXCEPT ![n] = rest]
      /\ reader' = [reader EXCEPT ![m] = "hand"]
      /\ UNCHANGED <<sent, left, slice, got>>
  BY DEF Read, n
<1>3. /\ pipe \in [Node -> Seq(Unit)] /\ buf \in [Node -> Seq(Unit)]
      /\ reader \in [Node -> {"off", "read", "hand", "ended"}]
      /\ len \in [Node -> 0 .. ReadSize] /\ slice \in [Node -> 0 .. ReadSize]
      /\ buf[m] \in Seq(Unit) /\ slice[m] \in Nat /\ slice[m] <= Len(buf[m])
  <2>1. /\ pipe \in [Node -> Seq(Unit)] /\ buf \in [Node -> Seq(Unit)]
        /\ reader \in [Node -> {"off", "read", "hand", "ended"}]
        /\ len \in [Node -> 0 .. ReadSize] /\ slice \in [Node -> 0 .. ReadSize]
        /\ slice[m] <= Len(buf[m])
    BY DEF TransportInv, DataInv
  <2>2. slice[m] \in 0 .. ReadSize /\ buf[m] \in Seq(Unit)
    BY <2>1
  <2>3. slice[m] \in Nat
    BY <2>2
  <2> QED
    BY <2>1, <2>2, <2>3
<1>4. /\ buf'[m] = front \o old /\ len'[m] = k /\ pipe'[n] = rest /\ reader'[m] = "hand"
      /\ slice'[m] = slice[m] /\ left'[n] = left[n] /\ sent'[n] = sent[n]
      /\ SameOut(m) /\ SameIn(n)
  BY <1>1, <1>2, <1>3 DEF SameOut, SameIn
<1>5. len[m] = 0
  BY <1>2 DEF BufInv
<1>6. t \in Seq(Unit) /\ k \in 1 .. Len(t) /\ t # <<>>
  BY <1>1, <1>2, <1>3
<1>7. s \in Seq(Unit) /\ Len(s) = slice[m] /\ s = SubSeq(buf[m], 1, slice[m]) /\ Stream(n) = s \o t
  BY <1>1, <1>2, StreamTypes DEF Stream, Seen
<1>8. InOrder(t) /\ EndsAt(t, left[n], sent[n])
  BY <1>1, PipeInOrder
<1>9. /\ front \in Seq(Unit) /\ Len(front) = k /\ \A i \in 1 .. k : front[i] = t[i]
      /\ front \o rest = t
  BY <1>6, Halves
<1>10. /\ old \in Seq(Unit)
       /\ Len(old) = IF k + 1 <= slice[m] THEN slice[m] - k ELSE 0
       /\ \A i \in 1 .. slice[m] - k : old[i] = s[i + k]
  <2> DEFINE w == buf[m]
             j == slice[m]
  <2>1. w \in Seq(Unit) /\ j \in Nat /\ j <= Len(w) /\ k \in Nat
    BY <1>3
  <2> HIDE DEF w, j
  <2>2. /\ SubSeq(w, k + 1, j) \in Seq(Unit)
        /\ Len(SubSeq(w, k + 1, j)) = IF k + 1 <= j THEN j - k ELSE 0
        /\ \A i \in 1 .. j - k : SubSeq(w, k + 1, j)[i] = SubSeq(w, 1, j)[i + k]
    BY <2>1, Shifted
  <2> QED
    BY <1>7, <2>2 DEF w, j
<1> HIDE DEF t, front, old, s
<1>11. SubSeq(front \o old, 1, k) = front
  BY <1>9, <1>10
<1>12. Stream(n)' = t
  BY <1>1, <1>4, <1>9, <1>11 DEF Stream, Seen
<1>13. StreamOk(n)'
  BY <1>4, <1>8, <1>12 DEF StreamOk
<1>14. StreamInv' /\ OthersKept(n)
  BY <1>1, <1>4, <1>13, OneStream
<1>15. Complete(n)' = Complete(n)
  BY <1>4 DEF Complete
<1> DEFINE a == First(n)
           c == Complete(n)
           b == First(n)'
<1>16. /\ a \in Nat /\ c \in Nat /\ a <= c + 1 /\ Piped(n) = From(a, c + 1 - a)
       /\ Piped(n)' = From(b, c + 1 - b)
       /\ a = t[1].id /\ UpTo(t, c)
  <2>1. Piped(n)' = From(b, Complete(n)' + 1 - b)
    BY DEF Piped, First, From
  <2>2. a = t[1].id
    BY <1>6 DEF First, t
  <2> QED
    BY <1>1, <1>15, <2>1, <2>2, CompleteFacts DEF t, UpTo
<1>17. b = RestFirst(t, k, c)
  <2>1. rest # <<>> => rest[1] = t[k + 1]
    BY <1>6, RestBegins
  <2>2. b = IF rest = <<>> THEN c + 1 ELSE rest[1].id
    BY <1>4, <1>15 DEF First
  <2> QED
    BY <2>1, <2>2 DEF RestFirst
<1> HIDE DEF a, b, c
<1>18. b \in Nat /\ a <= b /\ b <= c + 1 /\ EndBefore(t, k, b)
  <2>1. /\ RestFirst(t, k, c) \in Nat /\ t[1].id <= RestFirst(t, k, c) /\ RestFirst(t, k, c) <= c + 1
        /\ EndBefore(t, k, RestFirst(t, k, c))
    BY <1>6, <1>8, <1>16, RestIsLater
  <2> QED
    BY <1>16, <1>17, <2>1
<1>19. Awaited(front) = <<>> \/ (a < b /\ Awaited(front) = <<a>>)
  <2>1. DOMAIN front = 1 .. k /\ 1 \in 1 .. k
    BY <1>6, <1>9
  <2>2. front[1].id = a
    BY <1>9, <1>16, <2>1
  <2>3. CASE \E i \in 1 .. k : front[i].part = front[i].of
    <3>1. a < b
      BY <1>9, <1>16, <1>18, <2>3 DEF EndBefore
    <3> QED
      BY <2>1, <2>2, <2>3, <3>1 DEF Awaited
  <2>4. CASE ~(\E i \in 1 .. k : front[i].part = front[i].of)
    BY <2>1, <2>4 DEF Awaited
  <2> QED
    BY <2>3, <2>4
<1>20. \/ Decoded(new) = <<>>
       \/ Decoded(new) = <<a>> /\ Awaited(front) = <<a>> /\ Awaited(s) # <<>>
  <2>1. InOrder(Stream(n))
    BY <1>1 DEF StreamInv
  <2>2. InOrder(s \o t)
    BY <1>7, <2>1
  <2>3. IsRest(old, s, k) /\ IsFront(front, t, k)
    BY <1>7, <1>9, <1>10 DEF IsRest, IsFront
  <2>4. \/ Decoded(SubSeq(front \o old, 1, Len(s))) = <<>>
        \/ /\ Decoded(SubSeq(front \o old, 1, Len(s))) = <<t[1].id>>
           /\ Awaited(front) = <<t[1].id>> /\ Awaited(s) # <<>>
    BY <1>6, <1>7, <2>2, <2>3, NewDecoded
  <2> QED
    BY <1>7, <1>16, <2>4
<1> DEFINE A == Awaited(s)
           over == WrittenOver(m)'
           X == IF Decoded(new) = <<>> /\ over THEN <<0>> ELSE Decoded(new)
           B == X \o Awaited(front)
<1>21. InTransit(n) = A \o Piped(n) /\ A \in Seq(Nat) /\ Len(A) \in 0 .. 1
  <2>1. /\ Awaited(SubSeq(buf[m], 1, slice[m])) \in Seq(Nat)
        /\ Len(Awaited(SubSeq(buf[m], 1, slice[m]))) \in 0 .. 1
        /\ Awaited(SubSeq(buf[m], 1, len[m])) = <<>>
    BY <1>3, <1>5, AheadType
  <2>2. InTransit(n) = (A \o Awaited(SubSeq(buf[m], 1, len[m]))) \o Piped(n)
    BY <1>1, <1>2, <1>7 DEF InTransit, Expected
  <2>3. A \in Seq(Nat) /\ Len(A) \in 0 .. 1
    BY <1>7, <2>1
  <2> HIDE DEF A
  <2>4. A \o <<>> = A
    BY <2>3
  <2> QED
    BY <2>1, <2>2, <2>3, <2>4
<1>22. InTransit(n)' = B \o Piped(n)'
  <2>1. InSlice(m)' = Decoded(new)
    BY <1>4 DEF InSlice
  <2>2. Expected(m)' = X
    BY <1>4, <2>1 DEF Expected, Garbled
  <2> HIDE DEF X
  <2> QED
    BY <1>1, <1>4, <1>11, <2>2 DEF InTransit
<1>23. over => A # <<>>
  <2> SUFFICES ASSUME over PROVE A # <<>>
    OBVIOUS
  <2>1. slice[m] # 0 /\ (front \o old)[1].part = 1
    BY <1>4 DEF WrittenOver
  <2>2. (front \o old)[1] = t[1]
    <3>1. 1 \in 1 .. k /\ (front \o old)[1] = front[1]
      BY <1>6, <1>9, <1>10
    <3> QED
      BY <1>9, <3>1
  <2>3. s # <<>>
    BY <1>7, <2>1
  <2>4. InOrder(s \o t)
    <3>1. InOrder(Stream(n))
      BY <1>1 DEF StreamInv
    <3> QED
      BY <1>7, <3>1
  <2>5. t[1].part = 1
    BY <2>1, <2>2
  <2> QED
    BY <1>6, <1>7, <2>3, <2>4, <2>5, BeginsAfterEnd
<1>24. /\ B \in Seq(Nat)
       /\ \/ B = <<>>
          \/ a < b /\ B = <<a>>
          \/ a < b /\ B = <<a, a>> /\ A # <<>>
          \/ B = <<0>> /\ A # <<>>
          \/ a < b /\ B = <<0, a>> /\ A # <<>>
  <2> DEFINE y == Awaited(front)
  <2>1. /\ <<>> \o <<>> = <<>> /\ <<>> \o <<a>> = <<a>> /\ <<0>> \o <<>> = <<0>>
        /\ <<a>> \o <<a>> = <<a, a>> /\ <<0>> \o <<a>> = <<0, a>>
        /\ <<>> \in Seq(Nat) /\ <<a>> \in Seq(Nat) /\ <<0>> \in Seq(Nat)
        /\ <<a, a>> \in Seq(Nat) /\ <<0, a>> \in Seq(Nat)
    <3>1. 0 \in Nat
      OBVIOUS
    <3> QED
      BY <1>16, <3>1, SmallJoins
  <2>2. /\ X = <<>> \/ (X = <<a>> /\ a < b /\ y = <<a>> /\ A # <<>>) \/ (X = <<0>> /\ A # <<>>)
        /\ y = <<>> \/ (a < b /\ y = <<a>>)
    <3>1. <<a>> # <<>>
      OBVIOUS
    <3> HIDE DEF over
    <3> QED
      BY <1>19, <1>20, <1>23, <3>1
  <2> HIDE DEF X, y, A
  <2>3. /\ X \o y \in Seq(Nat)
        /\ \/ X \o y = <<>>
           \/ a < b /\ X \o y = <<a>>
           \/ a < b /\ X \o y = <<a, a>> /\ A # <<>>
           \/ X \o y = <<0>> /\ A # <<>>
           \/ a < b /\ X \o y = <<0, a>> /\ A # <<>>
    <3>1. CASE X = <<>>
      BY <2>1, <2>2, <3>1
    <3>2. CASE X = <<a>> /\ a < b /\ y = <<a>> /\ A # <<>>
      BY <2>1, <3>2
    <3>3. CASE X = <<0>> /\ A # <<>> /\ y = <<>>
      BY <2>1, <3>3
    <3>4. CASE X = <<0>> /\ A # <<>> /\ a < b /\ y = <<a>>
      BY <2>1, <3>4
    <3> QED
      BY <2>2, <3>1, <3>2, <3>3, <3>4
  <2> QED
    BY <2>3 DEF y
<1> DEFINE d == b - a
           e == c + 1 - b
<1>25. d \in Nat /\ e \in Nat /\ c + 1 - a = e + d /\ b = a + d /\ (a < b => d > 0)
  BY <1>16, <1>18
<1> HIDE DEF X
<1>26. InTransit(n) = A \o From(a, e + d) /\ InTransit(n)' = B \o From(a + d, e)
  BY <1>16, <1>21, <1>22, <1>25
<1> HIDE DEF d, e, A, B
<1>27. Links!Damaged(A \o From(a, e + d), B \o From(a + d, e))
  BY <1>16, <1>21, <1>24, <1>25, LossDamages
<1>28. Links!LNext
  BY <1>1, <1>2, <1>14, <1>15, <1>26, <1>27, DamageStep
<1> QED
  BY <1>14, <1>28 DEF LinkMoves

\* A number before others is the first of them.
LEMMA OneAhead ==
  ASSUME NEW u \in Nat, NEW s \in Seq(Nat)
  PROVE  <<u>> \o s # <<>> /\ Head(<<u>> \o s) = u /\ Tail(<<u>> \o s) = s
<1> DEFINE e == <<u>>
<1>1. e \in Seq(Nat) /\ Len(e) = 1 /\ e[1] = u
  OBVIOUS
<1> HIDE DEF e
<1>2. /\ e \o s \in Seq(Nat) /\ Len(e \o s) = Len(e) + Len(s)
      /\ \A i \in 1 .. Len(e) : (e \o s)[i] = e[i]
      /\ \A i \in 1 .. Len(s) : (e \o s)[Len(e) + i] = s[i]
  BY <1>1, Concatenated
<1> DEFINE q == e \o s
<1>3. q \in Seq(Nat) /\ Len(q) = Len(s) + 1 /\ q[1] = u /\ \A i \in 1 .. Len(s) : q[i + 1] = s[i]
  <2>1. 1 \in 1 .. Len(e) /\ \A i \in 1 .. Len(s) : Len(e) + i = i + 1
    BY <1>1
  <2> QED
    BY <1>1, <1>2, <2>1
<1> HIDE DEF q
<1>4. Len(s) \in Nat /\ q # <<>>
  BY <1>3
<1>5. /\ Tail(q) \in Seq(Nat) /\ Len(Tail(q)) = Len(s) /\ Head(q) = q[1]
      /\ \A i \in 1 .. Len(s) : Tail(q)[i] = q[i + 1]
  BY <1>3, <1>4
<1>6. \A i \in 1 .. Len(s) : Tail(q)[i] = s[i]
  BY <1>3, <1>5
<1>7. Tail(q) = s
  <2> DEFINE r == Tail(q)
  <2>1. r \in Seq(Nat) /\ Len(r) = Len(s) /\ \A i \in 1 .. Len(s) : r[i] = s[i]
    BY <1>5, <1>6
  <2> HIDE DEF r
  <2>2. r = s
    BY <2>1
  <2> QED
    BY <2>2 DEF r
<1> QED
  BY <1>3, <1>4, <1>5, <1>7 DEF q, e

LEMMA Regrouped ==
  ASSUME NEW r \in Seq(Nat), NEW s \in Seq(Nat), NEW t \in Seq(Nat)
  PROVE  (r \o s) \o t = r \o (s \o t)
  OBVIOUS

LeadsOn(q, u, rest) == q # <<>> /\ Head(q) = u /\ Tail(q) = rest

LEMMA OneAheadOfTwo ==
  ASSUME NEW u \in Nat, NEW s \in Seq(Nat), NEW t \in Seq(Nat)
  PROVE  LeadsOn((<<u>> \o s) \o t, u, s \o t)
<1>1. <<u>> \in Seq(Nat) /\ s \o t \in Seq(Nat)
  OBVIOUS
<1> DEFINE e == <<u>>
<1>2. (e \o s) \o t = e \o (s \o t)
  <2>1. e \in Seq(Nat)
    BY <1>1
  <2> HIDE DEF e
  <2> QED
    BY <2>1, Regrouped
<1> QED
  BY <1>1, <1>2, OneAhead DEF LeadsOn

\* The loop takes what has been read: what was in hand is now what it decodes.
LEMMA TakeRPCMoves ==
  ASSUME TransportInv, StreamInv, BufInv, NEW m \in Node, TakeRPC(m)
  PROVE  LinkMoves
<1> DEFINE n == Other(m)
           x == Awaited(SubSeq(buf[m], 1, len[m]))
<1>1. n \in Node /\ Other(n) = m /\ n # m /\ \A d \in Node \ {n} : d = m /\ Other(d) = n
  BY OtherIsNode, OthersOther
<1> HIDE DEF n
<1>2. /\ pc[m]["loop"] = "idle" /\ reader[m] = "hand"
      /\ slice' = [slice EXCEPT ![m] = len[m]] /\ len' = [len EXCEPT ![m] = 0]
      /\ reader' = [reader EXCEPT ![m] = "read"]
      /\ UNCHANGED <<pipe, sent, left, buf, got>>
  BY DEF TakeRPC, output
<1>3. /\ reader \in [Node -> {"off", "read", "hand", "ended"}]
      /\ len \in [Node -> 0 .. ReadSize] /\ slice \in [Node -> 0 .. ReadSize]
      /\ len[m] \in Nat /\ len[m] <= Len(buf[m]) /\ 0 <= Len(buf[m]) /\ 0 \in Nat
  <2>1. buf[m] \in Seq(Unit) /\ len[m] \in 0 .. ReadSize /\ len[m] <= Len(buf[m])
    BY DEF TransportInv, DataInv
  <2> QED
    BY <2>1 DEF TransportInv, DataInv
<1>4. /\ slice'[m] = len[m] /\ len'[m] = 0 /\ reader'[m] = "read" /\ buf'[m] = buf[m]
      /\ SameOut(n) /\ SameOut(m) /\ SameIn(n)
  BY <1>1, <1>2, <1>3 DEF SameOut, SameIn
<1>5. slice[m] = 0
  BY <1>2 DEF BufInv
<1>6. /\ x \in Seq(Nat)
      /\ Awaited(SubSeq(buf[m], 1, 0)) = <<>> /\ Decoded(SubSeq(buf[m], 1, 0)) = <<>>
  BY <1>3, AheadType
<1>7. Stream(n)' = Stream(n)
  BY <1>1, <1>2, <1>4 DEF Stream, Seen, SameOut
<1>8. StreamOk(n)'
  BY <1>1, <1>4, <1>7 DEF StreamOk, StreamInv, SameOut
<1>9. StreamInv' /\ OthersKept(n)
  BY <1>1, <1>4, <1>8, OneStream
<1>10. Complete(n)' = Complete(n) /\ Piped(n)' = Piped(n)
  <2>1. Complete(n)' = Complete(n)
    BY <1>4 DEF Complete, SameOut
  <2> QED
    BY <1>4, <2>1 DEF Piped, SameOut
<1>11. InTransit(n) = (<<>> \o x) \o Piped(n) /\ InTransit(n)' = (x \o <<>>) \o Piped(n)'
  <2>1. Expected(m) = <<>>
    BY <1>2, <1>5, <1>6 DEF Expected, InSlice, WrittenOver
  <2>2. InTransit(n) = (<<>> \o x) \o Piped(n)
    BY <1>1, <1>2, <2>1 DEF InTransit
  <2>3. InTransit(n)' = (x \o <<>>) \o Piped(n)'
    BY <1>1, <1>4, <1>6 DEF InTransit, Expected
  <2> QED
    BY <2>2, <2>3
<1>12. <<>> \o x = x /\ x \o <<>> = x
  <2> HIDE DEF x
  <2> QED
    BY <1>6, EmptyJoins
<1>13. InTransit(n)' = InTransit(n)
  BY <1>10, <1>11, <1>12
<1>14. Links!LNext
  BY <1>1, <1>2, <1>9, <1>10, <1>13, DamageStep
<1> QED
  BY <1>9, <1>14 DEF LinkMoves

\* What is decoded is awaited; nothing else is there to be decoded.
LEMMA DecodedIsAwaited ==
  ASSUME NEW u \in Seq(Unit), Decoded(u) # <<>>
  PROVE  Decoded(u) = <<u[1].id>> /\ Awaited(u) = <<u[1].id>> /\ u[1].id \in Nat
<1>1. /\ u # <<>> /\ u[1].of <= Len(u) /\ Decoded(u) = <<u[1].id>>
      /\ u[u[1].of] = [u[1] EXCEPT !.part = u[1].of]
  BY DEF Decoded
<1>2. u[1] \in Unit /\ Len(u) \in Nat /\ DOMAIN u = 1 .. Len(u)
  BY <1>1
<1>3. u[1].of \in 1 .. 2 /\ u[1].id \in Nat
  BY <1>2 DEF Unit
<1> DEFINE i == u[1].of
<1>4. i \in DOMAIN u
  BY <1>1, <1>2, <1>3
<1>5. u[i].part = u[i].of
  BY <1>1, <1>2 DEF Unit
<1>6. Awaited(u) = <<u[1].id>>
  BY <1>4, <1>5 DEF Awaited
<1> QED
  BY <1>1, <1>3, <1>6

LEMMA CutAgain ==
  ASSUME NEW b \in Seq(Unit), NEW k \in Nat, k <= Len(b)
  PROVE  SubSeq(SubSeq(b, 1, k), 1, k) = SubSeq(b, 1, k) /\ SubSeq(SubSeq(b, 1, k), 1, 0) = <<>>
  OBVIOUS

\* What ends in the units in hand is not later than what is in the pipe.
LEMMA HandFirst ==
  ASSUME TransportInv, StreamInv, NEW m \in Node, reader[m] = "hand"
  PROVE  \E a \in Nat, e \in Nat :
           /\ Piped(Other(m)) = From(a, e)
           /\ e > 0 /\ Awaited(SubSeq(buf[m], 1, len[m])) # <<>> =>
                Awaited(SubSeq(buf[m], 1, len[m]))[1] <= a
<1> DEFINE n == Other(m)
           s == SubSeq(buf[m], 1, len[m])
           t == pipe[n]
           a == First(n)
           e == Complete(n) + 1 - a
<1>1. n \in Node /\ Other(n) = m
  BY OtherIsNode, OthersOther
<1>2. a \in Nat /\ e \in Nat /\ Piped(n) = From(a, e)
  <2>1. Complete(n) \in Nat /\ a \in Nat /\ a <= Complete(n) + 1 /\ Piped(n) = From(a, e)
    BY <1>1, CompleteFacts
  <2> QED
    BY <2>1
<1>3. e > 0 /\ Awaited(s) # <<>> => Awaited(s)[1] <= a
  <2> SUFFICES ASSUME e > 0, Awaited(s) # <<>> PROVE Awaited(s)[1] <= a
    OBVIOUS
  <2>0. Awaited(s) # <<>>
    OBVIOUS
  <2>1. s \in Seq(Unit) /\ t \in Seq(Unit) /\ Stream(n) = s \o t
    BY <1>1, StreamTypes DEF Stream, Seen
  <2>2. InOrder(s \o t)
    BY <1>1, <2>1 DEF StreamInv
  <2>3. t # <<>> /\ a = t[1].id
    <3>1. t = <<>> => a = Complete(n) + 1
      BY DEF First
    <3>2. Complete(n) \in Nat
      BY <1>1, CompleteFacts
    <3>3. t # <<>>
      BY <3>1, <3>2
    <3> QED
      BY <3>3 DEF First
  <2>4. Awaited(s) = <<s[1].id>> /\ s # <<>>
    <3>1. DOMAIN <<>> = {}
      OBVIOUS
    <3> HIDE DEF s
    <3>2. s = <<>> => Awaited(s) = <<>>
      BY <3>1 DEF Awaited
    <3>3. Awaited(s) = <<>> \/ Awaited(s) = <<s[1].id>>
      BY DEF Awaited
    <3>4. Awaited(s) # <<>>
      BY <2>0
    <3> QED
      BY <3>2, <3>3, <3>4
  <2> HIDE DEF s, t, a, e
  <2>5. 1 \in DOMAIN s /\ 1 \in DOMAIN t /\ s[1] \in Unit /\ t[1] \in Unit
    BY <2>1, <2>3, <2>4
  <2> DEFINE both == s \o t
             k == Len(s) + 1
  <2>6. /\ 1 \in DOMAIN both /\ k \in DOMAIN both /\ 1 < k
        /\ both[1] = s[1] /\ both[k] = t[1]
    BY <2>1, <2>5
  <2> HIDE DEF both, k
  <2>7. Before(s[1], t[1])
    BY <2>2, <2>6 DEF InOrder, both
  <2>8. s[1].id <= t[1].id
    BY <2>5, <2>7 DEF Before, Unit
  <2>9. Awaited(s)[1] = s[1].id
    BY <2>4
  <2> QED
    BY <2>3, <2>8, <2>9
<1> QED
  BY <1>2, <1>3

\* The loop takes the first message of what is under way, or a mixture for it, or a cut message is given up.
LEMMA DecodeMoves ==
  ASSUME TransportInv, StreamInv, BufInv, NEW m \in Node, Decode(m)
  PROVE  LinkMoves
<1> DEFINE n == Other(m)
           x == SubSeq(buf[m], 1, slice[m])
           y == Awaited(SubSeq(buf[m], 1, len[m]))
           p == Piped(n)
<1>1. n \in Node /\ Other(n) = m /\ n # m /\ \A d \in Node \ {n} : d = m /\ Other(d) = n
  BY OtherIsNode, OthersOther
<1> HIDE DEF n
<1>0. PICK message \in Outcomes(m) :
        IF message = <<>> THEN got' = got ELSE got' = [got EXCEPT ![m] = message[1]]
  BY DEF Decode
<1>2. /\ slice' = [slice EXCEPT ![m] = 0]
      /\ buf' = [buf EXCEPT ![m] = SubSeq(buf[m], 1, len[m])]
      /\ UNCHANGED <<pipe, sent, left, reader, len>>
  BY DEF Decode, output
<1>3. /\ buf \in [Node -> Seq(Unit)] /\ slice \in [Node -> 0 .. ReadSize] /\ got \in [Node -> 0 .. MaxSent]
      /\ buf[m] \in Seq(Unit) /\ len[m] \in Nat /\ slice[m] \in Nat
      /\ len[m] <= Len(buf[m]) /\ slice[m] <= Len(buf[m])
  BY DEF TransportInv, DataInv
<1>4. /\ slice'[m] = 0 /\ buf'[m] = SubSeq(buf[m], 1, len[m]) /\ len'[m] = len[m] /\ reader'[m] = reader[m]
      /\ SameOut(n) /\ SameOut(m) /\ SameIn(n)
  BY <1>1, <1>2, <1>3 DEF SameOut, SameIn
<1>5. /\ SubSeq(buf'[m], 1, len'[m]) = SubSeq(buf[m], 1, len[m])
      /\ SubSeq(buf'[m], 1, slice'[m]) = <<>>
  <2> DEFINE b == buf[m]
             k == len[m]
  <2>1. b \in Seq(Unit) /\ k \in Nat /\ k <= Len(b)
    BY <1>3
  <2> HIDE DEF b, k
  <2>2. SubSeq(SubSeq(b, 1, k), 1, k) = SubSeq(b, 1, k) /\ SubSeq(SubSeq(b, 1, k), 1, 0) = <<>>
    BY <2>1, CutAgain
  <2> QED
    BY <1>4, <2>2 DEF b, k
<1>6. Awaited(<<>>) = <<>> /\ Decoded(<<>>) = <<>>
  <2>1. DOMAIN <<>> = {}
    OBVIOUS
  <2> QED
    BY <2>1 DEF Awaited, Decoded
<1>7. x \in Seq(Unit) /\ y \in Seq(Nat) /\ Awaited(x) \in Seq(Nat) /\ Len(Awaited(x)) \in 0 .. 1
  BY <1>3, AheadType
<1>8. Decoded(x) # <<>> => Decoded(x) = <<x[1].id>> /\ Awaited(x) = <<x[1].id>> /\ x[1].id \in Nat
  BY <1>7, DecodedIsAwaited
<1>9. Complete(n)' = Complete(n) /\ Piped(n)' = p
  <2>1. Complete(n)' = Complete(n)
    BY <1>4 DEF Complete, SameOut
  <2> QED
    BY <1>4, <2>1 DEF Piped, SameOut
<1>10. \E a \in Nat : \E e \in Nat : p = From(a, e)
  <2>1. /\ Complete(n) \in Nat /\ First(n) \in Nat /\ First(n) <= Complete(n) + 1
        /\ p = From(First(n), Complete(n) + 1 - First(n))
    BY <1>1, CompleteFacts
  <2>2. Complete(n) + 1 - First(n) \in Nat
    BY <2>1
  <2> QED
    BY <2>1, <2>2
<1>11. p \in Seq(Nat)
  BY <1>10, FromType
<1>12. y = Awaited(SubSeq(buf[m], 1, len[m])) /\ InSlice(m) = Decoded(x) /\ Expected(m)' = <<>>
  BY <1>4, <1>5, <1>6 DEF Expected, InSlice, WrittenOver
<1>13. CASE reader[m] = "hand"
  <2> DEFINE E == Expected(m)
  <2>1. InTransit(n) = (E \o y) \o p
    BY <1>1, <1>13 DEF InTransit
  <2>2. InTransit(n)' = y \o p
    <3>1. InTransit(n)' = (<<>> \o y) \o p
      BY <1>1, <1>4, <1>5, <1>9, <1>12 DEF InTransit
    <3> HIDE DEF y
    <3> QED
      BY <1>7, <3>1, EmptyJoins
  <2>3. Stream(n)' = Stream(n)
    BY <1>1, <1>4, <1>5, <1>13 DEF Stream, Seen, SameOut
  <2>4. StreamOk(n)'
    BY <1>1, <1>4, <2>3 DEF StreamOk, StreamInv, SameOut
  <2>5. StreamInv' /\ OthersKept(n)
    BY <1>1, <1>4, <2>4, OneStream
  <2>6. \/ message = <<>> /\ E = <<>>
        \/ message = <<>> /\ \E u \in Nat : E = <<u>>
        \/ \E u \in Nat : E = <<u>> /\ (message = <<u>> \/ message = <<Garbled>>)
    <3>1. CASE Decoded(x) # <<>>
      <4>1. E = <<x[1].id>> /\ x[1].id \in Nat
        BY <1>8, <1>12, <1>13, <3>1 DEF Expected
      <4>2. message \in {<<x[1].id>>, <<Garbled>>, <<>>}
        BY <1>8, <1>12, <3>1 DEF Outcomes
      <4> HIDE DEF E
      <4> QED
        BY <4>1, <4>2
    <3>2. CASE Decoded(x) = <<>> /\ WrittenOver(m)
      <4>1. E = <<Garbled>> /\ Garbled \in Nat
        BY <1>12, <1>13, <3>2 DEF Expected, Garbled
      <4>2. message \in {<<Garbled>>, <<>>}
        BY <1>12, <3>2 DEF Outcomes
      <4> HIDE DEF E
      <4> QED
        BY <4>1, <4>2
    <3>3. CASE Decoded(x) = <<>> /\ ~WrittenOver(m)
      BY <1>12, <1>13, <3>3 DEF Expected, Outcomes
    <3> QED
      BY <3>1, <3>2, <3>3
  <2>7. CASE message = <<>> /\ E = <<>>
    <3>1. got' = got
      BY <1>0, <2>7
    <3>2. InTransit(n)' = InTransit(n)
      <4> HIDE DEF y, E
      <4>1. <<>> \o y = y
        BY <1>7, EmptyJoins
      <4> QED
        BY <2>1, <2>2, <2>7, <4>1
    <3>3. Links!LNext
      BY <1>1, <1>9, <2>5, <3>1, <3>2, DamageStep
    <3> QED
      BY <2>5, <3>3 DEF LinkMoves
  <2>8. ASSUME NEW u \in Nat, E = <<u>>, message = <<>>
        PROVE  LinkMoves
    <3>1. got' = got
      BY <1>0, <2>8
    <3>2. Links!Damaged(InTransit(n), InTransit(n)')
      <4>1. PICK a \in Nat, e \in Nat : p = From(a, e) /\ (e > 0 /\ y # <<>> => y[1] <= a)
        BY <1>1, <1>13, HandFirst
      <4> HIDE DEF E, y, p
      <4>2. y \in Seq(Nat) /\ Len(y) \in 0 .. 1 /\ p \in Seq(Nat)
        BY <1>3, <1>7, <1>11, AheadType DEF y
      <4>3. Links!Damaged(<<u>> \o (y \o p), y \o p)
        BY <4>1, <4>2, FirstLost
      <4>4. (<<u>> \o y) \o p = <<u>> \o (y \o p)
        <5> DEFINE h == <<u>>
        <5>1. h \in Seq(Nat)
          OBVIOUS
        <5> HIDE DEF h
        <5>2. (h \o y) \o p = h \o (y \o p)
          BY <4>2, <5>1, Regrouped
        <5> QED
          BY <5>2 DEF h
      <4> QED
        BY <2>1, <2>2, <2>8, <4>3, <4>4
    <3>3. Links!LNext
      BY <1>1, <1>9, <2>5, <3>1, <3>2, DamageStep
    <3> QED
      BY <2>5, <3>3 DEF LinkMoves
  <2>9. ASSUME NEW u \in Nat, E = <<u>>, message = <<u>> \/ message = <<Garbled>>
        PROVE  LinkMoves
    <3> DEFINE q == (<<u>> \o y) \o p
               v == message[1]
    <3>1. InTransit(n) = q /\ got' = [got EXCEPT ![m] = v] /\ v \in {u, Garbled}
      <4>1. message # <<>> /\ v \in {u, Garbled}
        BY <2>9
      <4> HIDE DEF E, y, p
      <4> QED
        BY <1>0, <2>1, <2>9, <4>1
    <3>2. q # <<>> /\ Head(q) = u /\ Tail(q) = y \o p
      <4> HIDE DEF y, p
      <4> QED
        <5>1. y \in Seq(Nat) /\ p \in Seq(Nat)
          BY <1>7, <1>11 DEF y, p
        <5> QED
          BY <5>1, OneAheadOfTwo DEF LeadsOn
    <3> HIDE DEF v, q, y, p
    <3>3. v \in {Head(InTransit(n)), Garbled}
      BY <3>1, <3>2
    <3>4. Links!LNext
      BY <1>1, <1>3, <1>9, <2>2, <2>5, <3>1, <3>2, <3>3, DeliverStep
    <3> QED
      BY <2>5, <3>4 DEF LinkMoves
  <2> HIDE DEF E
  <2> QED
    BY <2>6, <2>7, <2>8, <2>9
<1>14. CASE reader[m] # "hand"
  <2> DEFINE A == Awaited(x)
  <2>1. len[m] = 0 /\ y = <<>>
    <3>1. len[m] = 0
      BY <1>14 DEF BufInv
    <3> QED
      BY <1>3, <3>1, AheadType
  <2>2. InTransit(n) = A \o p
    <3>1. InTransit(n) = (A \o y) \o p
      BY <1>1, <1>14 DEF InTransit, Expected
    <3> HIDE DEF A
    <3>2. A \o <<>> = A
      BY <1>7 DEF A
    <3> QED
      BY <2>1, <3>1, <3>2
  <2>3. InTransit(n)' = p
    <3>1. InTransit(n)' = (<<>> \o y) \o p
      BY <1>1, <1>4, <1>5, <1>6, <1>9, <1>12 DEF InTransit
    <3> HIDE DEF p
    <3>2. <<>> \o <<>> = <<>> /\ <<>> \o p = p
      BY <1>11, EmptyJoins, SmallJoins
    <3> QED
      BY <2>1, <3>1, <3>2
  <2>4. Stream(n)' = pipe[n]
    <3>1. Stream(n)' = <<>> \o pipe[n]
      BY <1>1, <1>4, <1>5, <1>14 DEF Stream, Seen, SameOut
    <3>2. pipe[n] \in Seq(Unit)
      BY <1>1, StreamTypes
    <3> QED
      BY <3>1, <3>2, EmptyJoins
  <2>5. StreamOk(n)'
    <3>1. InOrder(pipe[n]) /\ EndsAt(pipe[n], left[n], sent[n])
      BY <1>1, PipeInOrder
    <3> QED
      BY <1>4, <2>4, <3>1 DEF StreamOk, SameOut
  <2>6. StreamInv' /\ OthersKept(n)
    BY <1>1, <1>4, <2>5, OneStream
  <2>0. message = Decoded(x)
    BY <1>12, <2>1 DEF Outcomes, WrittenOver
  <2>7. CASE Decoded(x) = <<>>
    <3>1. got' = got
      BY <1>0, <2>0, <2>7
    <3>2. PICK a \in Nat, e \in Nat : p = From(a, e)
      BY <1>10
    <3> HIDE DEF A, p
    <3>3. A \in Seq(Nat) /\ Len(A) \in 0 .. 1 /\ <<>> \in Seq(Nat) /\ e + 0 = e /\ a + 0 = a /\ 0 \in Nat
      BY <1>7 DEF A
    <3>4. Links!Damaged(A \o From(a, e + 0), <<>> \o From(a + 0, e))
      BY <3>3, LossDamages
    <3>5. <<>> \o p = p
      BY <1>11, EmptyJoins
    <3>6. Links!Damaged(A \o p, p)
      BY <3>2, <3>3, <3>4, <3>5
    <3>7. Links!Damaged(InTransit(n), InTransit(n)')
      BY <2>2, <2>3, <3>6
    <3>8. Links!LNext
      BY <1>1, <1>9, <2>6, <3>1, <3>7, DamageStep
    <3> QED
      BY <2>6, <3>8 DEF LinkMoves
  <2>8. CASE Decoded(x) # <<>>
    <3> DEFINE u == x[1].id
               q == <<u>> \o p
    <3>1. u \in Nat /\ InTransit(n) = q
      BY <1>8, <2>2, <2>8
    <3>4. got' = [got EXCEPT ![m] = u]
      <4>1. message # <<>> /\ message[1] = u
        <5>1. message = <<u>>
          BY <1>8, <2>0, <2>8
        <5> HIDE DEF u
        <5> QED
          BY <5>1
      <4> QED
        BY <1>0, <4>1
    <3>2. q # <<>> /\ Head(q) = u /\ Tail(q) = p
      <4> HIDE DEF u, p
      <4> QED
        BY <1>11, <3>1, OneAhead
    <3> HIDE DEF u, q, p
    <3>3. Links!LNext
      BY <1>1, <1>3, <1>9, <2>3, <2>6, <3>1, <3>2, <3>4, DeliverStep
    <3> QED
      BY <2>6, <3>3 DEF LinkMoves
  <2> QED
    BY <2>7, <2>8
<1> QED
  BY <1>13, <1>14

-----------------------------------------------------------------------------
(* What LinkInv needs of threads                                           *)

OthersStay(n, t) ==
  \A m \in Node, u \in Thread : m # n \/ u # t => pc'[m][u] = pc[m][u] /\ op'[m][u] = op[m][u]

\* A thread goes on, and does not begin to add a peer that has been added.
GoesOnWith(n, t, label, operation) ==
  /\ Goto(n, t, label)
  /\ OpFollows(n, t, operation)
  /\ label \in {"lock", "update"} /\ operation = "add" => t # "loop" \/ reader[n] = "off"

LEMMA ThreadGoes ==
  ASSUME ThreadInv, NEW n \in Node, NEW t \in Thread, NEW label, NEW operation,
         Goto(n, t, label), OpFollows(n, t, operation)
  PROVE  pc'[n][t] = label /\ op'[n][t] = operation /\ OthersStay(n, t)
<1>1. pc \in [Node -> [Thread -> Label]] /\ op \in [Node -> [Thread -> Operation]]
  BY DEF ThreadInv
<1>2. /\ pc'[n][t] = label
      /\ \A m \in Node, u \in Thread : m # n \/ u # t => pc'[m][u] = pc[m][u]
  BY <1>1 DEF Goto
<1>3. /\ op'[n][t] = operation
      /\ \A m \in Node, u \in Thread : m # n \/ u # t => op'[m][u] = op[m][u]
  <2>1. CASE op' = [op EXCEPT ![n][t] = operation]
    BY <1>1, <2>1
  <2>2. CASE op' = op /\ operation = op[n][t]
    BY <2>2
  <2> QED
    BY <2>1, <2>2 DEF OpFollows
<1> QED
  BY <1>2, <1>3 DEF OthersStay

\* A thread leaves a Write when the message is written, or the connection broken.
LEMMA CutKept ==
  ASSUME CutInv, NEW n \in Node, NEW t \in Thread, OthersStay(n, t), left' = left,
         broken => broken', pc[n][t] = "write" => left[n] = <<>> \/ broken'
  PROVE  CutInv'
<1> SUFFICES ASSUME NEW m \in Node, left[m] # <<>>, ~broken' PROVE InWrite(m)'
  BY DEF CutInv
<1>1. PICK u \in Thread : pc[m][u] = "write"
  BY DEF CutInv, InWrite
<1>2. m # n \/ u # t
  BY <1>1
<1>3. pc'[m][u] = "write"
  BY <1>1, <1>2 DEF OthersStay
<1> QED
  BY <1>3 DEF InWrite

LEMMA GoesOnKept ==
  ASSUME TransportInv, CutInv, BufInv, NEW n \in Node, NEW t \in Thread, NEW label, NEW operation,
         GoesOnWith(n, t, label, operation), pc[n][t] # "decode",
         UNCHANGED <<reader, len, slice, left>>,
         broken => broken', pc[n][t] = "write" => left[n] = <<>> \/ broken'
  PROVE  CutInv' /\ BufInv'
<1>1. pc'[n][t] = label /\ op'[n][t] = operation /\ OthersStay(n, t)
  BY ThreadGoes DEF GoesOnWith, TransportInv
<1>2. CutInv'
  BY <1>1, CutKept
<1>3. BufInv'
  <2> SUFFICES ASSUME NEW m \in Node
               PROVE  /\ reader[m] # "hand" => len[m] = 0
                      /\ pc'[m]["loop"] # "decode" => slice[m] = 0
                      /\ pc'[m]["loop"] \in {"lock", "update"} /\ op'[m]["loop"] = "add" => reader[m] = "off"
    BY DEF BufInv
  <2>1. /\ reader[m] # "hand" => len[m] = 0
        /\ pc[m]["loop"] # "decode" => slice[m] = 0
        /\ pc[m]["loop"] \in {"lock", "update"} /\ op[m]["loop"] = "add" => reader[m] = "off"
    BY DEF BufInv
  <2>2. CASE m = n /\ t = "loop"
    BY <1>1, <2>1, <2>2 DEF GoesOnWith
  <2>3. CASE m # n \/ t # "loop"
    <3>1. pc'[m]["loop"] = pc[m]["loop"] /\ op'[m]["loop"] = op[m]["loop"]
      BY <1>1, <2>3 DEF OthersStay
    <3> QED
      BY <2>1, <3>1
  <2> QED
    BY <2>2, <2>3
<1> QED
  BY <1>2, <1>3

LEMMA SendFailedGoesOn ==
  ASSUME NEW n \in Node, NEW t \in Thread, SendFailed(n, t)
  PROVE  GoesOnWith(n, t, "lock", "cast") \/ GoesOnWith(n, t, "idle", "none")
<1>1. CASE op[n][t] = "cast"
  BY <1>1 DEF SendFailed, GoesOnWith, OpFollows
<1>2. CASE op[n][t] # "cast"
  BY <1>2 DEF SendFailed, Sent, Finish, Begin, GoesOnWith, OpFollows
<1> QED
  BY <1>1, <1>2

\* The steps of threads in which nothing is written.
LEMMA QuietLinkInv ==
  ASSUME TransportInv, LinkInv, NEW n \in Node, NEW t \in Thread,
         \/ Lock(n, t) \/ EnterReading(n, t) \/ Find(n, t) \/ SendToClosed(n, t)
         \/ Written(n, t) \/ WriteFails(n, t) \/ RemovePeer(n, t) \/ Relock(n, t)
  PROVE  LinkMoves /\ CutInv' /\ BufInv'
<1>1. UNCHANGED <<broken, pipe, sent, left, reader, buf, len, slice, got>>
  BY DEF Lock, EnterReading, Find, SendToClosed, Written, WriteFails, RemovePeer, Relock, output, input
<1>2. LinkMoves
  BY <1>1, QuietMoves DEF LinkInv, SameOut, SameIn
<1>3. /\ pc[n][t] # "decode"
      /\ pc[n][t] = "write" => left[n] = <<>> \/ broken
  BY DEF Lock, EnterReading, Find, SendToClosed, Written, WriteFails, RemovePeer, Relock, At
<1>4. \E label, operation : GoesOnWith(n, t, label, operation)
  <2>1. CASE Lock(n, t)
    <3>1. Goto(n, t, "update") /\ op' = op /\ pc[n][t] = "lock"
      BY <2>1 DEF Lock
    <3>2. GoesOnWith(n, t, "update", op[n][t])
      BY <3>1 DEF GoesOnWith, OpFollows, LinkInv, BufInv
    <3> QED
      BY <3>2
  <2>2. CASE EnterReading(n, t)
    <3>1. GoesOnWith(n, t, "find", op[n][t])
      BY <2>2 DEF EnterReading, GoesOnWith, OpFollows
    <3> QED
      BY <3>1
  <2>3. CASE Find(n, t)
    <3>1. GoesOnWith(n, t, "send", op[n][t]) \/ GoesOnWith(n, t, "idle", "none")
      BY <2>3 DEF Find, Finish, Begin, GoesOnWith, OpFollows
    <3> QED
      BY <3>1
  <2>4. CASE SendToClosed(n, t) \/ WriteFails(n, t)
    <3>1. SendFailed(n, t)
      BY <2>4 DEF SendToClosed, WriteFails
    <3> QED
      BY <3>1, SendFailedGoesOn
  <2>5. CASE Written(n, t) \/ Relock(n, t)
    <3>1. GoesOnWith(n, t, "idle", "none")
      BY <2>5 DEF Written, Relock, Sent, Finish, Begin, GoesOnWith, OpFollows
    <3> QED
      BY <3>1
  <2>6. CASE RemovePeer(n, t)
    <3>1. GoesOnWith(n, t, "relock", op[n][t])
      BY <2>6 DEF RemovePeer, GoesOnWith, OpFollows
    <3> QED
      BY <3>1
  <2> QED
    BY <2>1, <2>2, <2>3, <2>4, <2>5, <2>6
<1>5. PICK label, operation : GoesOnWith(n, t, label, operation)
  BY <1>4
<1>6. CutInv /\ BufInv
  BY DEF LinkInv
<1>7. CutInv' /\ BufInv'
  BY <1>1, <1>3, <1>5, <1>6, GoesOnKept
<1> QED
  BY <1>2, <1>7

LEMMA BeginLinkInv ==
  ASSUME TransportInv, LinkInv, NEW n \in Node, AddPeer(n) \/ Cast(n)
  PROVE  LinkMoves /\ CutInv' /\ BufInv'
<1>1. UNCHANGED <<broken, pipe, sent, left, reader, buf, len, slice, got>>
  BY DEF AddPeer, Cast, output, input
<1>2. LinkMoves
  BY <1>1, QuietMoves DEF LinkInv, SameOut, SameIn
<1>3. CutInv /\ BufInv
  BY DEF LinkInv
<1>4. CASE AddPeer(n)
  <2>1. GoesOnWith(n, "loop", "lock", "add") /\ pc[n]["loop"] = "idle" /\ "loop" \in Thread
    BY <1>4 DEF AddPeer, Begin, GoesOnWith, OpFollows
  <2> QED
    BY <1>1, <1>2, <1>3, <2>1, GoesOnKept
<1>5. CASE Cast(n)
  <2>1. GoesOnWith(n, "cast", "rlock", "cast") /\ pc[n]["cast"] = "idle" /\ "cast" \in Thread
    BY <1>5 DEF Cast, Begin, GoesOnWith, OpFollows
  <2> QED
    BY <1>1, <1>2, <1>3, <2>1, GoesOnKept
<1> QED
  BY <1>4, <1>5

\* BufInv depends on no more than this.
LEMMA BufStays ==
  ASSUME BufInv, UNCHANGED <<reader, len, slice, pc, op>>
  PROVE  BufInv'
  BY DEF BufInv

LEMMA WriteLinkInv ==
  ASSUME TransportInv, LinkInv, NEW n \in Node, NEW t \in Thread, NEW size \in 1 .. 2, Write(n, t, size)
  PROVE  LinkMoves /\ CutInv' /\ BufInv'
<1>1. StreamInv /\ CutInv /\ BufInv
  BY DEF LinkInv
<1>2. LinkMoves
  BY <1>1, WriteMoves
<1>3. /\ pc[n][t] = "send" /\ Goto(n, t, "write") /\ op' = op /\ broken' = broken
      /\ left' = [left EXCEPT ![n] = Tail(UnitsOf(sent[n] + 1, size))]
      /\ UNCHANGED <<reader, len, slice>>
  BY DEF Write, input
<1>4. pc'[n][t] = "write" /\ OthersStay(n, t) /\ op'[n][t] = op[n][t]
  <2>1. OpFollows(n, t, op[n][t])
    BY <1>3 DEF OpFollows
  <2> QED
    BY <1>3, <2>1, ThreadGoes DEF TransportInv
<1>5. CutInv'
  <2> SUFFICES ASSUME NEW m \in Node, left'[m] # <<>>, ~broken' PROVE InWrite(m)'
    BY DEF CutInv
  <2>1. CASE m = n
    BY <1>4, <2>1 DEF InWrite
  <2>2. CASE m # n
    <3>1. left'[m] = left[m]
      BY <1>3, <2>2 DEF TransportInv, DataInv
    <3>2. PICK u \in Thread : pc[m][u] = "write"
      BY <1>1, <1>3, <3>1 DEF CutInv, InWrite
    <3>3. pc'[m][u] = "write"
      BY <1>4, <2>2, <3>2 DEF OthersStay
    <3> QED
      BY <3>3 DEF InWrite
  <2> QED
    BY <2>1, <2>2
<1>6. BufInv'
  <2> SUFFICES ASSUME NEW m \in Node
               PROVE  /\ reader[m] # "hand" => len[m] = 0
                      /\ pc'[m]["loop"] # "decode" => slice[m] = 0
                      /\ pc'[m]["loop"] \in {"lock", "update"} /\ op'[m]["loop"] = "add" => reader[m] = "off"
    BY <1>3 DEF BufInv
  <2>1. /\ reader[m] # "hand" => len[m] = 0
        /\ pc[m]["loop"] # "decode" => slice[m] = 0
        /\ pc[m]["loop"] \in {"lock", "update"} /\ op[m]["loop"] = "add" => reader[m] = "off"
    BY <1>1 DEF BufInv
  <2>2. CASE m = n /\ t = "loop"
    BY <1>3, <1>4, <2>1, <2>2
  <2>3. CASE m # n \/ t # "loop"
    <3>1. pc'[m]["loop"] = pc[m]["loop"] /\ op'[m]["loop"] = op[m]["loop"]
      BY <1>4, <2>3 DEF OthersStay
    <3> QED
      BY <2>1, <3>1
  <2> QED
    BY <2>2, <2>3
<1> QED
  BY <1>2, <1>5, <1>6

LEMMA WriteMoreLinkInv ==
  ASSUME TransportInv, LinkInv, NEW n \in Node, NEW t \in Thread, WriteMore(n, t)
  PROVE  LinkMoves /\ CutInv' /\ BufInv'
<1>1. StreamInv /\ CutInv /\ BufInv
  BY DEF LinkInv
<1>2. LinkMoves
  BY <1>1, WriteMoreMoves
<1>3. /\ pc[n][t] = "write" /\ broken' = broken /\ left' = [left EXCEPT ![n] = Tail(@)]
      /\ UNCHANGED <<reader, len, slice, pc, op>>
  BY DEF WriteMore, input
<1>4. CutInv'
  <2> SUFFICES ASSUME NEW m \in Node, left'[m] # <<>>, ~broken' PROVE InWrite(m)
    BY <1>3 DEF CutInv, InWrite
  <2>1. CASE m = n
    BY <1>3, <2>1 DEF InWrite
  <2>2. CASE m # n
    <3>1. left'[m] = left[m]
      BY <1>3, <2>2 DEF TransportInv, DataInv
    <3> QED
      BY <1>1, <1>3, <3>1 DEF CutInv
  <2> QED
    BY <2>1, <2>2
<1> QED
  BY <1>1, <1>2, <1>3, <1>4, BufStays

LEMMA PeerAddedLinkInv ==
  ASSUME TransportInv, LinkInv, NEW n \in Node, PeerAdded(n)
  PROVE  LinkMoves /\ CutInv' /\ BufInv'
<1>1. StreamInv /\ CutInv /\ BufInv
  BY DEF LinkInv
<1>2. /\ pc[n]["loop"] = "update" /\ op[n]["loop"] = "add" /\ Goto(n, "loop", "send") /\ op' = op
      /\ reader' = [reader EXCEPT ![n] = "read"]
      /\ UNCHANGED <<broken, pipe, sent, left, buf, len, slice, got>>
  BY DEF PeerAdded, At, output
<1>3. reader[n] = "off" /\ reader \in [Node -> {"off", "read", "hand", "ended"}]
  BY <1>1, <1>2 DEF BufInv, TransportInv, DataInv
<1>4. LinkMoves
  <2>1. \A d \in Node : SameOut(d) /\ SameIn(d)
    BY <1>2, <1>3 DEF SameOut, SameIn
  <2> QED
    BY <1>1, <1>2, <2>1, QuietMoves
<1>5. pc'[n]["loop"] = "send" /\ OthersStay(n, "loop") /\ "loop" \in Thread
  <2>1. OpFollows(n, "loop", op[n]["loop"])
    BY <1>2 DEF OpFollows
  <2> QED
    BY <1>2, <2>1, ThreadGoes DEF TransportInv
<1>6. CutInv'
  BY <1>1, <1>2, <1>5, CutKept
<1>7. BufInv'
  <2> SUFFICES ASSUME NEW m \in Node
               PROVE  /\ reader'[m] # "hand" => len[m] = 0
                      /\ pc'[m]["loop"] # "decode" => slice[m] = 0
                      /\ pc'[m]["loop"] \in {"lock", "update"} /\ op'[m]["loop"] = "add" => reader'[m] = "off"
    BY <1>2 DEF BufInv
  <2>1. /\ reader[m] # "hand" => len[m] = 0
        /\ pc[m]["loop"] # "decode" => slice[m] = 0
        /\ pc[m]["loop"] \in {"lock", "update"} /\ op[m]["loop"] = "add" => reader[m] = "off"
    BY <1>1 DEF BufInv
  <2>2. CASE m = n
    BY <1>2, <1>3, <1>5, <2>1, <2>2
  <2>3. CASE m # n
    <3>1. pc'[m]["loop"] = pc[m]["loop"] /\ op'[m]["loop"] = op[m]["loop"] /\ reader'[m] = reader[m]
      BY <1>2, <1>3, <1>5, <2>3 DEF OthersStay
    <3> QED
      BY <2>1, <3>1
  <2> QED
    BY <2>2, <2>3
<1> QED
  BY <1>4, <1>6, <1>7

LEMMA ReadLinkInv ==
  ASSUME TransportInv, LinkInv, NEW n \in Node, NEW k \in 1 .. ReadSize, Read(n, k)
  PROVE  LinkMoves /\ CutInv' /\ BufInv'
<1>1. StreamInv /\ CutInv /\ BufInv
  BY DEF LinkInv
<1>2. LinkMoves
  BY <1>1, ReadMoves
<1>3. /\ reader[n] = "read" /\ reader' = [reader EXCEPT ![n] = "hand"]
      /\ len' = [len EXCEPT ![n] = k]
      /\ UNCHANGED <<broken, left, pc, op, slice>>
  BY DEF Read
<1>4. CutInv'
  BY <1>1, <1>3 DEF CutInv, InWrite
<1>5. /\ reader \in [Node -> {"off", "read", "hand", "ended"}] /\ len \in [Node -> 0 .. ReadSize]
  BY DEF TransportInv, DataInv
<1>6. \A m \in Node : reader'[m] = (IF m = n THEN "hand" ELSE reader[m]) /\ (m # n => len'[m] = len[m])
  BY <1>3, <1>5
<1>7. BufInv'
  BY <1>1, <1>3, <1>6 DEF BufInv
<1> QED
  BY <1>2, <1>4, <1>7

LEMMA ReadFailsLinkInv ==
  ASSUME TransportInv, LinkInv, NEW n \in Node, ReadFails(n)
  PROVE  LinkMoves /\ CutInv' /\ BufInv'
<1>1. StreamInv /\ CutInv /\ BufInv
  BY DEF LinkInv
<1>2. /\ reader[n] = "read" /\ reader' = [reader EXCEPT ![n] = "ended"]
      /\ UNCHANGED <<broken, pipe, sent, left, pc, op, buf, len, slice, got>>
  BY DEF ReadFails, output
<1>3. \A m \in Node : reader'[m] = (IF m = n THEN "ended" ELSE reader[m])
  BY <1>2 DEF TransportInv, DataInv
<1>4. LinkMoves
  <2>1. \A d \in Node : SameOut(d) /\ SameIn(d)
    BY <1>2, <1>3 DEF SameOut, SameIn
  <2> QED
    BY <1>1, <1>2, <2>1, QuietMoves
<1>5. CutInv'
  BY <1>1, <1>2 DEF CutInv, InWrite
<1>6. BufInv'
  BY <1>1, <1>2, <1>3 DEF BufInv
<1> QED
  BY <1>4, <1>5, <1>6

LEMMA TakeRPCLinkInv ==
  ASSUME TransportInv, LinkInv, NEW n \in Node, TakeRPC(n)
  PROVE  LinkMoves /\ CutInv' /\ BufInv'
<1>1. StreamInv /\ CutInv /\ BufInv
  BY DEF LinkInv
<1>2. LinkMoves
  BY <1>1, TakeRPCMoves
<1>3. /\ pc[n]["loop"] = "idle" /\ reader[n] = "hand"
      /\ slice' = [slice EXCEPT ![n] = len[n]] /\ len' = [len EXCEPT ![n] = 0]
      /\ reader' = [reader EXCEPT ![n] = "read"] /\ Goto(n, "loop", "decode")
      /\ UNCHANGED <<broken, left, op>>
  BY DEF TakeRPC, output
<1>4. pc'[n]["loop"] = "decode" /\ OthersStay(n, "loop") /\ "loop" \in Thread
  <2>1. OpFollows(n, "loop", op[n]["loop"])
    BY <1>3 DEF OpFollows
  <2> QED
    BY <1>3, <2>1, ThreadGoes DEF TransportInv
<1>5. CutInv'
  BY <1>1, <1>3, <1>4, CutKept
<1>6. \A m \in Node : /\ m = n => reader'[m] = "read" /\ len'[m] = 0
                      /\ m # n => reader'[m] = reader[m] /\ len'[m] = len[m] /\ slice'[m] = slice[m]
  BY <1>3 DEF TransportInv, DataInv
<1>7. \A m \in Node : m # n => pc'[m]["loop"] = pc[m]["loop"] /\ op'[m]["loop"] = op[m]["loop"]
  BY <1>4 DEF OthersStay
<1>8. BufInv'
  BY <1>1, <1>4, <1>6, <1>7 DEF BufInv
<1> QED
  BY <1>2, <1>5, <1>8

LEMMA DecodeLinkInv ==
  ASSUME TransportInv, LinkInv, NEW n \in Node, Decode(n)
  PROVE  LinkMoves /\ CutInv' /\ BufInv'
<1>1. StreamInv /\ CutInv /\ BufInv
  BY DEF LinkInv
<1>2. LinkMoves
  BY <1>1, DecodeMoves
<1>3. /\ pc[n]["loop"] = "decode" /\ slice' = [slice EXCEPT ![n] = 0]
      /\ UNCHANGED <<broken, left, reader, len>>
  BY DEF Decode, output
<1>4. \E label \in {"idle", "rlock", "find"} : \E operation : Begin(n, "loop", operation, label)
  BY DEF Decode, Handle, Finish
<1>5. PICK label \in {"idle", "rlock", "find"} : \E operation : Begin(n, "loop", operation, label)
  BY <1>4
<1>6. pc'[n]["loop"] = label /\ OthersStay(n, "loop") /\ "loop" \in Thread
  <2>1. PICK operation : Begin(n, "loop", operation, label)
    BY <1>5
  <2>2. Goto(n, "loop", label) /\ OpFollows(n, "loop", operation)
    BY <2>1 DEF Begin, OpFollows
  <2> QED
    BY <2>2, ThreadGoes DEF TransportInv
<1>7. CutInv'
  BY <1>1, <1>3, <1>6, CutKept
<1>8. \A m \in Node : slice'[m] = IF m = n THEN 0 ELSE slice[m]
  BY <1>3 DEF TransportInv, DataInv
<1>9. \A m \in Node : m # n => pc'[m]["loop"] = pc[m]["loop"] /\ op'[m]["loop"] = op[m]["loop"]
  BY <1>6 DEF OthersStay
<1>10. BufInv'
  BY <1>1, <1>3, <1>6, <1>8, <1>9 DEF BufInv
<1> QED
  BY <1>2, <1>7, <1>10

LEMMA InitLinkInv == TransportInit => LinkInv /\ Links!LInit
<1> SUFFICES ASSUME TransportInit PROVE LinkInv /\ Links!LInit
  OBVIOUS
<1>1. \A n \in Node :
        /\ pipe[n] = <<>> /\ left[n] = <<>> /\ buf[n] = <<>> /\ sent[n] = 0 /\ got[n] = Garbled
        /\ len[n] = 0 /\ slice[n] = 0 /\ reader[n] = "off" /\ pc[n]["loop"] = "idle"
  BY DEF TransportInit
<1>2. /\ <<>> \o <<>> = <<>> /\ SubSeq(<<>>, 1, 0) = <<>> /\ DOMAIN <<>> = {}
      /\ [i \in 1 .. 0 |-> 0 + 1 + i - 1] = <<>>
  OBVIOUS
<1>3. ASSUME NEW n \in Node
      PROVE  Stream(n) = <<>> /\ Complete(n) = 0 /\ InTransit(n) = <<>> /\ got[Other(n)] = Garbled
  <2>1. Other(n) \in Node
    BY OtherIsNode
  <2>2. Stream(n) = <<>>
    BY <1>1, <1>2, <2>1 DEF Stream, Seen
  <2>3. Complete(n) = 0
    BY <1>1 DEF Complete
  <2>4. Piped(n) = <<>>
    <3>1. Piped(n) = [i \in 1 .. 0 + 1 - (0 + 1) |-> 0 + 1 + i - 1]
      BY <1>1, <2>3 DEF Piped
    <3> QED
      BY <3>1
  <2>5. Awaited(<<>>) = <<>>
    BY <1>2 DEF Awaited
  <2>6. InTransit(n) = (<<>> \o <<>>) \o <<>>
    BY <1>1, <1>2, <2>1, <2>4, <2>5 DEF InTransit, Expected
  <2> QED
    BY <1>1, <1>2, <2>1, <2>2, <2>3, <2>6
<1>4. StreamInv
  BY <1>1, <1>2, <1>3 DEF StreamInv, InOrder, EndsAt
<1>5. CutInv /\ BufInv
  BY <1>1 DEF CutInv, BufInv
<1>6. Links!LInit
  BY <1>3 DEF Links!LInit, Links!Garbled, Garbled
<1> QED
  BY <1>4, <1>5, <1>6 DEF LinkInv

LEMMA NextLinkInv ==
  TransportInv /\ LinkInv /\ [TransportNext]_transportVars => LinkInv' /\ [Links!LNext]_Links!linkVars
<1> SUFFICES ASSUME TransportInv, LinkInv, [TransportNext]_transportVars
             PROVE  LinkMoves /\ CutInv' /\ BufInv'
  BY DEF LinkMoves, LinkInv
<1>1. CASE UNCHANGED transportVars \/ Break
  <2>1. /\ UNCHANGED <<pipe, sent, left, reader, buf, len, slice, got, pc, op>>
        /\ broken => broken'
    BY <1>1 DEF transportVars, Break, output, input
  <2>2. LinkMoves
    BY <2>1, QuietMoves DEF LinkInv, SameOut, SameIn
  <2>3. CutInv' /\ BufInv'
    BY <2>1, BufStays DEF LinkInv, CutInv, InWrite
  <2> QED
    BY <2>2, <2>3
<1>2. ASSUME NEW n \in Node, NEW t \in Thread, Step(n, t)
      PROVE  LinkMoves /\ CutInv' /\ BufInv'
  BY <1>2, QuietLinkInv, WriteLinkInv, WriteMoreLinkInv DEF Step
<1>3. ASSUME NEW n \in Node, \E k \in 1 .. ReadSize : Read(n, k)
      PROVE  LinkMoves /\ CutInv' /\ BufInv'
  BY <1>3, ReadLinkInv
<1>4. ASSUME NEW n \in Node,
             AddPeer(n) \/ PeerAdded(n) \/ TakeRPC(n) \/ Decode(n) \/ ReadFails(n) \/ Cast(n)
      PROVE  LinkMoves /\ CutInv' /\ BufInv'
  BY <1>4, BeginLinkInv, PeerAddedLinkInv, TakeRPCLinkInv, DecodeLinkInv, ReadFailsLinkInv
<1> QED
  BY <1>1, <1>2, <1>3, <1>4 DEF TransportNext, Internal

(***************************************************************************)
(* Each direction of the connection is a LossyLink, for pipes, reads and   *)
(* numbers of messages of any size: a message that is cut, joined to       *)
(* another or written over in readLoop's buffer is lost, or a later one or *)
(* a mixture of both takes its place, and nothing else is decoded; what is *)
(* decoded never goes back.                                                *)
(***************************************************************************)
THEOREM TransportImplementsLossyLinks == TransportSpec => DirectionsAreLossyLinks
<1>1. TransportInit => TransportInv /\ LinkInv /\ Links!LInit
  BY InitTransportInv, InitLinkInv
<1>2. TransportInv /\ LinkInv /\ [TransportNext]_transportVars
        => (TransportInv /\ LinkInv)' /\ [Links!LNext]_Links!linkVars
  BY NextTransportInv, NextLinkInv
<1> QED
  BY <1>1, <1>2, PTL DEF TransportSpec, DirectionsAreLossyLinks, Links!LSpec
=============================================================================
