----------------------------- MODULE Transport -----------------------------
(***************************************************************************)
(* One TCP connection between two servers (network/tcp_transport.go,       *)
(* network/rpc.go and the sending half of network/server.go): two          *)
(* bounded pipes, at each end a readLoop, the message loop, and a          *)
(* goroutine that broadcasts (the validator loop, or "go broadcastTx").    *)
(*                                                                         *)
(* A message is its number in its direction; it is one or two units long,  *)
(* of which one Read returns at most ReadSize.  What a message asks for is *)
(* any of the things a message can make the loop do.                       *)
(***************************************************************************)
EXTENDS Naturals, Sequences, FiniteSets

CONSTANTS
  Node,      \* the two servers
  None,
  Capacity,  \* units that a pipe (the buffers of the kernels) holds
  ReadSize,  \* units that fit into the 4096 bytes of readLoop's buffer
  MaxSent    \* bound: messages in each direction

ASSUME TransportAssumption ==
  /\ \A n \in Node : \E m \in Node : Node = {n, m} /\ n # m
  /\ Capacity \in Nat \ {0}
  /\ ReadSize \in Nat \ {0}
  /\ MaxSent \in Nat

Thread == {"loop", "cast"}

ASSUME NoneAssumption == None \notin Thread

VARIABLES
  broken,   \* the connection has been reset
  pipe,     \* pipe[n]: units that n has written and the other side has not read
  sent,     \* how many messages n has begun to write
  known,    \* peerMap has the peer
  closed,   \* TCPPeer.closed
  readers, writer,  \* the server's mu; a writer that waits for readers to leave keeps new ones out
  pc, op,   \* where each thread is, and in which operation
  left,     \* what is still to be written of the message in the middle of a Write
  reader,   \* readLoop: "off", "read", "hand" (sends on rpcCh) or "ended"
  buf,      \* its buffer
  len,      \* how much of it the last Read has filled
  slice,    \* how much of it the message loop takes for the message it decodes
  got       \* history: the last message that has been decoded

mu == <<readers, writer>>
input == <<reader, buf, len, slice, got>>
output == <<pipe, sent, left>>
transportVars == <<broken, output, known, closed, mu, pc, op, input>>

Other(n) == CHOOSE m \in Node : m # n

\* Decoded from a buffer that holds parts of several messages; also before the first message.
Garbled == 0

\* A message takes "of" units, of which this is number "part".
Unit == [id : 1 .. MaxSent, part : 1 .. 2, of : 1 .. 2]

Operation == {"none", "add", "reply", "fetch", "cast"}

TransportInit ==
  /\ broken = FALSE
  /\ pipe = [n \in Node |-> <<>>]
  /\ sent = [n \in Node |-> 0]
  /\ known = [n \in Node |-> FALSE]
  /\ closed = [n \in Node |-> FALSE]
  /\ readers = [n \in Node |-> {}]
  /\ writer = [n \in Node |-> None]
  /\ pc = [n \in Node |-> [t \in Thread |-> "idle"]]
  /\ op = [n \in Node |-> [t \in Thread |-> "none"]]
  /\ left = [n \in Node |-> <<>>]
  /\ reader = [n \in Node |-> "off"]
  /\ buf = [n \in Node |-> <<>>]
  /\ len = [n \in Node |-> 0]
  /\ slice = [n \in Node |-> 0]
  /\ got = [n \in Node |-> Garbled]

Goto(n, t, label) == pc' = [pc EXCEPT ![n][t] = label]

At(n, t, label, operations) == pc[n][t] = label /\ op[n][t] \in operations

Begin(n, t, operation, label) ==
  /\ op' = [op EXCEPT ![n][t] = operation]
  /\ Goto(n, t, label)

Finish(n, t) == Begin(n, t, "none", "idle")

\* The bound allows one message more from n than its threads are about to send.
MaySend(n) ==
  sent[n] + Cardinality({t \in Thread : 
                            pc[n][t] \in {"lock", "update", "rlock", "find", "send"}}) < MaxSent

-----------------------------------------------------------------------------
(* The server's mu *)

RLock(n, t) ==
  /\ writer[n] = None
  /\ readers' = [readers EXCEPT ![n] = @ \cup {t}]
  /\ UNCHANGED writer

RUnlock(n, t) ==
  /\ readers' = [readers EXCEPT ![n] = @ \ {t}]
  /\ UNCHANGED writer

\* Lock: a thread becomes the writer, and waits until the readers have left.
Lock(n, t) ==
  /\ pc[n][t] = "lock"
  /\ writer[n] = None
  /\ writer' = [writer EXCEPT ![n] = t]
  /\ Goto(n, t, "update")
  /\ UNCHANGED <<broken, output, known, closed, readers, op, input>>

Writing(n, t) == pc[n][t] = "update" /\ readers[n] = {}

Unlock(n) ==
  /\ writer' = [writer EXCEPT ![n] = None]
  /\ UNCHANGED readers

-----------------------------------------------------------------------------
(* What a thread does: Start adds the peer, the handlers reply, fetch blocks or pass something on,
   and goroutines broadcast. *)

AddPeer(n) ==
  /\ pc[n]["loop"] = "idle"
  /\ reader[n] = "off"
  /\ MaySend(n)
  /\ Begin(n, "loop", "add", "lock")
  /\ UNCHANGED <<broken, output, known, closed, mu, input>>

\* The peer is entered, readLoop started, and the status asked for.
PeerAdded(n) ==
  /\ At(n, "loop", "update", {"add"})
  /\ Writing(n, "loop")
  /\ known' = [known EXCEPT ![n] = TRUE]
  /\ reader' = [reader EXCEPT ![n] = "read"]
  /\ Unlock(n)
  /\ Goto(n, "loop", "send")
  /\ UNCHANGED <<broken, output, closed, op, buf, len, slice, got>>

\* broadcastTx, or broadcastBlock in a goroutine other than the message loop.
Cast(n) ==
  /\ pc[n]["cast"] = "idle"
  /\ MaySend(n)
  /\ Begin(n, "cast", "cast", "rlock")
  /\ UNCHANGED <<broken, output, known, closed, mu, input>>

\* Faulty variant of EnterReading, see the README.
EnterWithoutLock(n, t) ==
  /\ pc[n][t] = "rlock"
  /\ Goto(n, t, "find")
  /\ UNCHANGED <<broken, output, known, closed, mu, op, input>>

EnterReading(n, t) ==
  /\ pc[n][t] = "rlock"
  /\ RLock(n, t)
  /\ Goto(n, t, "find")
  /\ UNCHANGED <<broken, output, known, closed, op, input>>

\* The peer is looked up in peerMap, without mu in sendGetBlocksMessage.
Find(n, t) ==
  /\ pc[n][t] = "find"
  /\ IF known[n] THEN Goto(n, t, "send") /\ UNCHANGED <<op, mu>> ELSE Finish(n, t) /\ RUnlock(n, t)
  /\ UNCHANGED <<broken, output, known, closed, input>>

-----------------------------------------------------------------------------
(* TCPPeer.Send *)

\* Faulty variant of Sent, see the README.
SentWithoutUnlock(n, t) == Finish(n, t) /\ UNCHANGED mu

\* The handler is done with the peer, however Send has ended.
Sent(n, t) == Finish(n, t) /\ RUnlock(n, t)

\* Faulty variant of SendFailed, see the README.
SendFailedHoldingLock(n, t) ==
  IF op[n][t] = "cast" THEN Goto(n, t, "lock") /\ UNCHANGED <<op, mu>> ELSE Sent(n, t)

\* A broadcast gives up its read lock to remove the peer.
SendFailed(n, t) ==
  IF op[n][t] = "cast" THEN Goto(n, t, "lock") /\ RUnlock(n, t) /\ UNCHANGED op ELSE Sent(n, t)

SendToClosed(n, t) ==
  /\ pc[n][t] = "send"
  /\ closed[n]
  /\ SendFailed(n, t)
  /\ UNCHANGED <<broken, output, known, closed, input>>

\* The connection lets in one Write at a time.
InWrite(n) == \E t \in Thread : pc[n][t] = "write"

UnitsOf(id, size) == [i \in 1 .. size |-> [id |-> id, part |-> i, of |-> size]]

\* A Write of conn begins: its first unit goes into the pipe.
Write(n, t, size) ==
  /\ pc[n][t] = "send"
  /\ ~closed[n] /\ ~broken
  /\ ~InWrite(n)
  /\ Len(pipe[n]) < Capacity
  /\ LET units == UnitsOf(sent[n] + 1, size)
     IN  /\ pipe' = [pipe EXCEPT ![n] = Append(@, Head(units))]
         /\ left' = [left EXCEPT ![n] = Tail(units)]
  /\ sent' = [sent EXCEPT ![n] = @ + 1]
  /\ Goto(n, t, "write")
  /\ UNCHANGED <<broken, known, closed, mu, op, input>>

WriteMore(n, t) ==
  /\ pc[n][t] = "write"
  /\ left[n] # <<>>
  /\ Len(pipe[n]) < Capacity
  /\ ~broken
  /\ pipe' = [pipe EXCEPT ![n] = Append(@, Head(left[n]))]
  /\ left' = [left EXCEPT ![n] = Tail(@)]
  /\ UNCHANGED <<broken, sent, known, closed, mu, pc, op, input>>

Written(n, t) ==
  /\ pc[n][t] = "write"
  /\ left[n] = <<>>
  /\ Sent(n, t)
  /\ UNCHANGED <<broken, output, known, closed, input>>

\* The connection is marked, and not closed.
WriteFails(n, t) ==
  /\ broken
  /\ \/ pc[n][t] = "send" /\ ~closed[n] /\ ~InWrite(n)
     \/ pc[n][t] = "write" /\ left[n] # <<>>
  /\ closed' = [closed EXCEPT ![n] = TRUE]
  /\ SendFailed(n, t)
  /\ UNCHANGED <<broken, output, known, input>>

\* The peer that has refused a broadcast is removed.  Close finds it marked and does nothing.
RemovePeer(n, t) ==
  /\ At(n, t, "update", {"cast"})
  /\ Writing(n, t)
  /\ known' = [known EXCEPT ![n] = FALSE]
  /\ Unlock(n)
  /\ Goto(n, t, "relock")
  /\ UNCHANGED <<broken, output, closed, op, input>>

\* The read lock is taken again for the deferred RUnlock.
Relock(n, t) ==
  /\ pc[n][t] = "relock"
  /\ writer[n] = None
  /\ Finish(n, t)
  /\ UNCHANGED <<broken, output, known, closed, mu, input>>

-----------------------------------------------------------------------------
(* Receiving *)

\* Faulty variant of Read, see the README.
ReadAppending(n, k) ==
  LET m == Other(n) IN
  /\ reader[n] = "read"
  /\ k <= ReadSize /\ k <= Len(pipe[m])
  /\ buf' = [buf EXCEPT ![n] = SubSeq(@, 1, slice[n]) \o SubSeq(pipe[m], 1, k)]
  /\ len' = [len EXCEPT ![n] = k]
  /\ pipe' = [pipe EXCEPT ![m] = SubSeq(@, k + 1, Len(@))]
  /\ reader' = [reader EXCEPT ![n] = "hand"]
  /\ UNCHANGED <<broken, sent, left, known, closed, mu, pc, op, slice, got>>

\* One Read, over the beginning of the buffer; the rest of what is being decoded stays.
Read(n, k) ==
  LET m == Other(n) IN
  /\ reader[n] = "read"
  /\ k <= ReadSize /\ k <= Len(pipe[m])
  /\ buf' = [buf EXCEPT ![n] = SubSeq(pipe[m], 1, k) \o SubSeq(@, k + 1, slice[n])]
  /\ len' = [len EXCEPT ![n] = k]
  /\ pipe' = [pipe EXCEPT ![m] = SubSeq(@, k + 1, Len(@))]
  /\ reader' = [reader EXCEPT ![n] = "hand"]
  /\ UNCHANGED <<broken, sent, left, known, closed, mu, pc, op, slice, got>>

ReadFails(n) ==
  /\ reader[n] = "read"
  /\ broken
  /\ closed' = [closed EXCEPT ![n] = TRUE]
  /\ reader' = [reader EXCEPT ![n] = "ended"]
  /\ UNCHANGED <<broken, output, known, mu, pc, op, buf, len, slice, got>>

\* The message loop takes what readLoop has read; readLoop goes on with the same buffer.
TakeRPC(n) ==
  /\ pc[n]["loop"] = "idle"
  /\ reader[n] = "hand"
  /\ slice' = [slice EXCEPT ![n] = len[n]]
  /\ len' = [len EXCEPT ![n] = 0]
  /\ reader' = [reader EXCEPT ![n] = "read"]
  /\ Goto(n, "loop", "decode")
  /\ UNCHANGED <<broken, output, known, closed, mu, op, buf, got>>

\* What the decoder makes of some units: the message that begins there, if it is complete.
Decoded(units) ==
  IF units # <<>> /\ units[1].part = 1 /\ units[1].of <= Len(units)
       /\ units[units[1].of] = [units[1] EXCEPT !.part = units[1].of]
  THEN <<units[1].id>>
  ELSE <<>>

InSlice(n) == Decoded(SubSeq(buf[n], 1, slice[n]))

(***************************************************************************)
(* readLoop has written the beginning of a message over the slice that is  *)
(* being decoded.  Units say nothing of the bytes in them, and a message   *)
(* carries no checksum: what is decoded may be that message, a mixture of  *)
(* it and of what was there, or nothing.                                   *)
(***************************************************************************)
WrittenOver(n) == slice[n] # 0 /\ len[n] # 0 /\ buf[n][1].part = 1

Outcomes(n) == {InSlice(n)} \cup (IF WrittenOver(n) THEN {<<Garbled>>, <<>>} ELSE {})

\* What the message has the loop do, unless nothing.
Handle(n) ==
  \/ Finish(n, "loop")
  \/ MaySend(n) /\ Begin(n, "loop", "reply", "rlock")
  \/ MaySend(n) /\ Begin(n, "loop", "cast", "rlock")
  \/ MaySend(n) /\ Begin(n, "loop", "fetch", "find")

Decode(n) ==
  /\ pc[n]["loop"] = "decode"
  /\ \E message \in Outcomes(n) :
       IF message = <<>>
       THEN Finish(n, "loop") /\ UNCHANGED got
       ELSE Handle(n) /\ got' = [got EXCEPT ![n] = message[1]]
  /\ slice' = [slice EXCEPT ![n] = 0]
  /\ buf' = [buf EXCEPT ![n] = SubSeq(@, 1, len[n])]
  /\ UNCHANGED <<broken, output, known, closed, mu, reader, len>>

\* The connection is reset, or the process at the other end is gone.
Break ==
  /\ ~broken
  /\ broken' = TRUE
  /\ UNCHANGED <<output, known, closed, mu, pc, op, input>>

-----------------------------------------------------------------------------
Step(n, t) ==
  \/ Lock(n, t) \/ EnterReading(n, t) \/ Find(n, t)
  \/ SendToClosed(n, t) \/ (\E size \in 1 .. 2 : Write(n, t, size)) \/ WriteMore(n, t)
  \/ Written(n, t) \/ WriteFails(n, t) \/ RemovePeer(n, t) \/ Relock(n, t)

\* What happens once it can: threads run, readLoop reads and hands over.
Internal ==
  \E n \in Node :
    \/ AddPeer(n) \/ PeerAdded(n) \/ TakeRPC(n) \/ Decode(n) \/ ReadFails(n)
    \/ \E k \in 1 .. ReadSize : Read(n, k)
    \/ \E t \in Thread : Step(n, t)

TransportNext ==
  \/ Internal
  \/ Break
  \/ \E n \in Node : Cast(n)

TransportSpec == TransportInit /\ [][TransportNext]_transportVars

-----------------------------------------------------------------------------
(* Properties *)

\* Every variable keeps its type, and mu is held as sync.RWMutex allows: by those who should hold it.
TransportTypeOK ==
  /\ broken \in BOOLEAN
  /\ pipe \in [Node -> Seq(Unit)]
  /\ \A n \in Node : Len(pipe[n]) <= Capacity
  /\ sent \in [Node -> 0 .. MaxSent]
  /\ known \in [Node -> BOOLEAN]
  /\ closed \in [Node -> BOOLEAN]
  /\ readers \in [Node -> SUBSET Thread]
  /\ writer \in [Node -> Thread \cup {None}]
  /\ op \in [Node -> [Thread -> Operation]]
  /\ left \in [Node -> Seq(Unit)]
  /\ reader \in [Node -> {"off", "read", "hand", "ended"}]
  /\ buf \in [Node -> Seq(Unit)]
  /\ len \in [Node -> 0 .. ReadSize]
  /\ slice \in [Node -> 0 .. ReadSize]
  /\ got \in [Node -> 0 .. MaxSent]
  /\ \A n \in Node : \A t \in Thread :
       /\ pc[n][t] \in {"idle", "decode", "rlock", "find", "send", "write", "lock", "update", "relock"}
       /\ writer[n] = t <=> pc[n][t] = "update"
       /\ t \in readers[n] <=> pc[n][t] \in {"find", "send", "write"} /\ op[n][t] \in {"reply", "cast"}

(***************************************************************************)
(* While a thread changes peerMap no other thread reads it, except for     *)
(* sendGetBlocksMessage, which takes no lock.  A thread that broadcasts    *)
(* reads the map until its last Send has returned.                         *)
(***************************************************************************)
MapGuarded ==
  \A n \in Node : \A t, u \in Thread :
    (t # u /\ Writing(n, t) /\ pc[n][u] \in {"find", "send", "write"}) => op[n][u] \in {"fetch", "add"}

\* Messages of n of which all units have been written.
Complete(n) == IF left[n] = <<>> THEN sent[n] ELSE sent[n] - 1

\* Those of which units are in the pipe, in the order in which they were sent.
Piped(n) ==
  LET first == IF pipe[n] = <<>> THEN Complete(n) + 1 ELSE pipe[n][1].id
  IN  [i \in 1 .. Complete(n) + 1 - first |-> first + i - 1]

\* A last unit stands for a message until it is certain that none is decoded.
Awaited(units) == IF \E i \in DOMAIN units : units[i].part = units[i].of THEN <<units[1].id>> ELSE <<>>

\* What may be decoded of the slice.
Expected(m) ==
  IF reader[m] # "hand" THEN Awaited(SubSeq(buf[m], 1, slice[m]))
  ELSE IF InSlice(m) = <<>> /\ WrittenOver(m) THEN <<Garbled>>
  ELSE InSlice(m)

\* What may still be decoded of the messages of n.
InTransit(n) ==
  LET m == Other(n)
  IN  Expected(m)
        \o Awaited(SubSeq(buf[m], 1, len[m]))
        \o Piped(n)

Links == INSTANCE LossyLink
  WITH Direction <- Node, number <- [n \in Node |-> Complete(n)], queue <- [n \in Node |-> InTransit(n)],
       got <- [n \in Node |-> got[Other(n)]]

(***************************************************************************)
(* However messages are cut, joined and written over in the shared buffer, *)
(* each direction of the connection is a LossyLink: what is decoded never  *)
(* goes back, and a mixture takes the place of a message.  Sync takes from *)
(* here what may happen to an answer.                                      *)
(***************************************************************************)
DirectionsAreLossyLinks == Links!LSpec

\* Each loop writes into a full pipe and so does not take what would empty the other one.
Jammed == \A n \in Node : pc[n]["loop"] \in {"send", "write"} /\ Len(pipe[n]) = Capacity

(***************************************************************************)
(* When nothing moves by itself any more, every thread has finished what   *)
(* it was doing, whatever has been refused, cut or reset meanwhile - or    *)
(* both message loops write into full pipes.                               *)
(***************************************************************************)
StopsOnlyJammed ==
  ~ENABLED Internal => Jammed \/ \A n \in Node : \A t \in Thread : pc[n][t] = "idle"
=============================================================================
