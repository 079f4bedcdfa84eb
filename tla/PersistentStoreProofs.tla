----------------------- MODULE PersistentStoreProofs -----------------------
(***************************************************************************)
(* Proofs about PersistentStore for any goroutines and any blocks: what    *)
(* the index, the file and the answers of look-ups have to do with each    *)
(* other, through any sequence of crashes, failed writes and restarts.     *)
(***************************************************************************)
EXTENDS PersistentStore, SequenceTheorems, TLAPS

Putting == {"seek", "types", "value", "index", "sync"}
Looking == {"lookup", "decode"}

-----------------------------------------------------------------------------
(* Records of a file *)

TypesOf(b) == [block |-> b, kind |-> "types"]
ValueOf(b) == [block |-> b, kind |-> "value"]

LEMMA RecordAtParts ==
  ASSUME NEW f \in Seq(Part), NEW i \in Nat \ {0}, NEW b
  PROVE  RecordAt(f, i, b) <=> i < Len(f) /\ f[i] = TypesOf(b) /\ f[i + 1] = ValueOf(b)
<1> DEFINE s == SubSeq(f, i, i + 1)
           t == <<f[i], f[i + 1]>>
<1>1. CASE i < Len(f)
  <2>1. /\ s \in Seq(Part) /\ Len(s) = 2
        /\ s[1] = f[i] /\ s[2] = f[i + 1]
    BY <1>1
  <2>2. /\ t \in Seq(Part) /\ Len(t) = 2
        /\ t[1] = f[i] /\ t[2] = f[i + 1]
    BY <1>1
  <2> HIDE DEF s, t
  <2>3. \A j \in 1 .. Len(s) : s[j] = t[j]
    BY <2>1, <2>2
  <2>4. s = t
    BY <2>1, <2>2, <2>3, SeqEqual
  <2> QED
    BY <1>1, <2>4 DEF s, t, RecordAt, Record, TypesOf, ValueOf
<1>2. CASE ~(i < Len(f))
  BY <1>2 DEF RecordAt
<1> QED
  BY <1>1, <1>2

\* A write at the end of the file leaves the records that are there.
LEMMA RecordAtAppend ==
  ASSUME NEW f \in Seq(Part), NEW p \in Part, NEW i \in Nat \ {0}, NEW b
  PROVE  RecordAt(Append(f, p), i, b) <=>
           \/ RecordAt(f, i, b)
           \/ i = Len(f) /\ f[i] = TypesOf(b) /\ p = ValueOf(b)
<1>1. Append(f, p) \in Seq(Part) /\ Len(Append(f, p)) = Len(f) + 1
  OBVIOUS
<1>2. /\ i <= Len(f) => Append(f, p)[i] = f[i]
      /\ i < Len(f) => Append(f, p)[i + 1] = f[i + 1]
      /\ i = Len(f) => Append(f, p)[i + 1] = p
  OBVIOUS
<1>3. Len(f) \in Nat
  OBVIOUS
<1>4. RecordAt(Append(f, p), i, b) <=>
        i < Len(f) + 1 /\ Append(f, p)[i] = TypesOf(b) /\ Append(f, p)[i + 1] = ValueOf(b)
  BY <1>1, RecordAtParts
<1>5. RecordAt(f, i, b) <=> i < Len(f) /\ f[i] = TypesOf(b) /\ f[i + 1] = ValueOf(b)
  BY RecordAtParts
<1>6. i < Len(f) \/ i = Len(f) \/ ~(i < Len(f) + 1)
  BY <1>3
<1> QED
  BY <1>2, <1>3, <1>4, <1>5, <1>6

\* What is left of a file has the records that ended before the cut.
LEMMA RecordAtPrefix ==
  ASSUME NEW f \in Seq(Part), NEW k \in 0 .. Len(f), NEW i \in Nat \ {0}, NEW b
  PROVE  RecordAt(SubSeq(f, 1, k), i, b) <=> i < k /\ RecordAt(f, i, b)
<1>1. SubSeq(f, 1, k) \in Seq(Part) /\ Len(SubSeq(f, 1, k)) = k
  OBVIOUS
<1>2. i < k => SubSeq(f, 1, k)[i] = f[i] /\ SubSeq(f, 1, k)[i + 1] = f[i + 1]
  OBVIOUS
<1>3. RecordAt(SubSeq(f, 1, k), i, b) <=>
        i < k /\ SubSeq(f, 1, k)[i] = TypesOf(b) /\ SubSeq(f, 1, k)[i + 1] = ValueOf(b)
  BY <1>1, RecordAtParts
<1>4. RecordAt(f, i, b) <=> i < Len(f) /\ f[i] = TypesOf(b) /\ f[i + 1] = ValueOf(b)
  BY RecordAtParts
<1> QED
  BY <1>2, <1>3, <1>4

-----------------------------------------------------------------------------
(* Types, the lock and the stages of a process *)

USE StoreAssumption DEF disk, process, lock, lookup, Kinds, Putting, Looking

\* mu is held by the goroutine that puts, or by those that look up.
MuHeld ==
  /\ \A g \in Goroutines : pc[g] \in Putting <=> writer = g
  /\ \A g \in Goroutines : pc[g] \in Looking <=> g \in readers
  /\ writer # None => readers = {}

BlockGiven == \A g \in Goroutines : pc[g] # "idle" => block[g] \in Block

\* NewBlockchain puts the genesis block before there is anybody else; cmd/inspect puts nothing.
Stages ==
  \A g \in Goroutines :
    /\ mode = "down" => pc[g] = "idle"
    /\ mode \in {"down", "boot"} => answer[g] = NoAnswer
    /\ mode = "boot" /\ pc[g] # "idle" => pc[g] \in Putting /\ g = Main /\ block[g] = GenesisBlock
    /\ mode = "inspect" => pc[g] \notin Putting

\* Only an open file is written; the bound leaves room for the record.
Writable ==
  \A g \in Goroutines :
    /\ pc[g] \in Putting \ {"seek"} => handle = "open"
    /\ pc[g] = "seek" /\ handle = "open" => Len(file) + 2 <= MaxParts
    /\ pc[g] = "types" => Len(file) + 2 <= MaxParts
    /\ pc[g] = "value" => Len(file) + 1 <= MaxParts

TypeInv == StoreTypeOK /\ BlockGiven /\ Stages /\ Writable

LEMMA LockFacts == StoreTypeOK => MuHeld
  BY DEF StoreTypeOK, MuHeld

\* The parts of StoreTypeOK that are about values, and the lock's in the form of MuHeld.
Values ==
  /\ file \in Seq(Part) /\ Len(file) <= MaxParts
  /\ synced \in 0 .. Len(file)
  /\ mode \in {"down", "boot", "node", "inspect"}
  /\ handle \in {"open", "closed"}
  /\ pos \in 0 .. Len(file)
  /\ index \subseteq Block
  /\ readers \subseteq Goroutines
  /\ writer \in Goroutines \cup {None}
  /\ pc \in [Goroutines -> {"idle", "seek", "index", "sync", "lookup", "decode"} \cup Kinds]
  /\ block \in [Goroutines -> Block \cup {None}]
  /\ dec \in [Goroutines -> [buf : Seq(Part), typed : BOOLEAN]]
  /\ answer \in [Goroutines -> [asked : Block \cup {None}, got : Block \cup {None}]]
  /\ alone \in [Goroutines -> BOOLEAN]
  /\ stored \subseteq Block

LEMMA TypeParts == StoreTypeOK <=> Values /\ MuHeld
<1>1. StoreTypeOK => Values /\ MuHeld
  BY LockFacts DEF StoreTypeOK, Values
<1>2. ASSUME Values, MuHeld PROVE StoreTypeOK
  <2>1. readers = {g \in Goroutines : pc[g] \in {"lookup", "decode"}}
    BY <1>2 DEF MuHeld, Values
  <2>2. {g \in Goroutines : pc[g] \in {"seek", "index", "sync"} \cup Kinds} = {writer} \ {None}
    BY <1>2 DEF MuHeld, Values
  <2> QED
    BY <1>2, <2>1, <2>2 DEF MuHeld, Values, StoreTypeOK
<1> QED
  BY <1>1, <1>2

LEMMA InitTypeInv == StoreInit => TypeInv
<1> SUFFICES ASSUME StoreInit PROVE TypeInv
  OBVIOUS
<1>1. Values
  <2>1. FreshDecoder \in [buf : Seq(Part), typed : BOOLEAN]
    BY DEF FreshDecoder
  <2>2. NoAnswer \in [asked : Block \cup {None}, got : Block \cup {None}]
    BY DEF NoAnswer
  <2> QED
    BY <2>1, <2>2 DEF StoreInit, Values
<1>2. MuHeld /\ BlockGiven /\ Stages /\ Writable
  BY DEF StoreInit, MuHeld, BlockGiven, Stages, Writable
<1> QED
  BY <1>1, <1>2, TypeParts DEF TypeInv

\* The end of a process, whatever it leaves of the file.
LEMMA EndedType ==
  ASSUME TypeInv, Ended, file' \in Seq(Part), Len(file') <= MaxParts,
         synced' \in 0 .. Len(file'), stored' = stored
  PROVE  TypeInv'
<1>1. FreshDecoder \in [buf : Seq(Part), typed : BOOLEAN]
  BY DEF FreshDecoder
<1>2. NoAnswer \in [asked : Block \cup {None}, got : Block \cup {None}]
  BY DEF NoAnswer
<1>3. Values'
  BY <1>1, <1>2 DEF TypeInv, StoreTypeOK, Ended, Values
<1>4. MuHeld' /\ BlockGiven' /\ Stages' /\ Writable'
  BY DEF Ended, MuHeld, BlockGiven, Stages, Writable
<1>5. StoreTypeOK'
  BY <1>3, <1>4, TypeParts, PTL
<1> QED
  BY <1>4, <1>5 DEF TypeInv

\* Put returns, with or without an error, and the rest of the process goes on.
LEMMA PutReturnsType ==
  ASSUME TypeInv, NEW g \in Goroutines, pc[g] \in Putting, PutReturns(g),
         file' = file, synced' \in 0 .. Len(file), stored' \subseteq Block,
         mode' = "node" \/ mode' = mode,
         UNCHANGED <<handle, index, pos, dec, answer, alone>>
  PROVE  TypeInv'
<1> USE DEF PutReturns, Goto
<1>1. Values /\ MuHeld
  BY TypeParts DEF TypeInv
<1>2. Values'
  BY <1>1 DEF Values
<1>3. writer = g /\ g # None
  BY <1>1 DEF MuHeld
<1>4. MuHeld'
  BY <1>1, <1>3 DEF MuHeld, Values
<1>5. BlockGiven' /\ Stages' /\ Writable'
  BY <1>1 DEF TypeInv, Values, BlockGiven, Stages, Writable
<1>6. StoreTypeOK'
  BY <1>2, <1>4, TypeParts, PTL
<1> QED
  BY <1>5, <1>6 DEF TypeInv

LEMMA PutFailsType ==
  ASSUME TypeInv, NEW g \in Goroutines, pc[g] \in Putting, PutFails(g)
  PROVE  TypeInv'
<1>1. CASE mode = "boot"
  <2>1. Ended /\ UNCHANGED <<file, synced, stored>>
    BY <1>1 DEF PutFails
  <2> QED
    BY <2>1, EndedType DEF TypeInv, StoreTypeOK
<1>2. CASE mode # "boot"
  <2>1. PutReturns(g) /\ UNCHANGED <<disk, process, pos, lookup>>
    BY <1>2 DEF PutFails
  <2> QED
    BY <2>1, PutReturnsType DEF TypeInv, StoreTypeOK
<1> QED
  BY <1>1, <1>2

\* GetBlockByHash returns.
LEMMA AnswerType ==
  ASSUME TypeInv, NEW g \in Goroutines, pc[g] \in Looking, NEW b \in Block \cup {None}, Answer(g, b)
  PROVE  TypeInv'
<1> USE DEF Answer, Goto
<1>1. Values /\ MuHeld
  BY TypeParts DEF TypeInv
<1>2. FreshDecoder \in [buf : Seq(Part), typed : BOOLEAN]
  BY DEF FreshDecoder
<1>3. (IF alone[g] THEN [asked |-> block[g], got |-> b] ELSE NoAnswer)
        \in [asked : Block \cup {None}, got : Block \cup {None}]
  BY <1>1 DEF NoAnswer, Values
<1>4. Values'
  BY <1>1, <1>2, <1>3 DEF Values
<1>5. MuHeld'
  BY <1>1 DEF MuHeld, Values
<1>6. mode # "down" /\ mode # "boot"
  BY DEF TypeInv, Stages
<1>7. BlockGiven' /\ Stages' /\ Writable'
  BY <1>1, <1>6 DEF TypeInv, Values, BlockGiven, Stages, Writable
<1>8. StoreTypeOK'
  BY <1>4, <1>5, TypeParts, PTL
<1> QED
  BY <1>7, <1>8 DEF TypeInv

LEMMA NextTypeInv == TypeInv /\ [StoreNext]_storeVars => TypeInv'
<1> SUFFICES ASSUME TypeInv, [StoreNext]_storeVars PROVE TypeInv'
  OBVIOUS
<1> USE DEF Goto
<1>1. Values /\ MuHeld /\ BlockGiven /\ Stages /\ Writable
  BY TypeParts DEF TypeInv
<1>2. ASSUME Values', MuHeld', BlockGiven', Stages', Writable'
      PROVE  TypeInv'
  <2>1. StoreTypeOK'
    BY <1>2, TypeParts, PTL
  <2> QED
    BY <1>2, <2>1 DEF TypeInv
<1>3. CASE UNCHANGED storeVars
  BY <1>3 DEF storeVars, TypeInv, StoreTypeOK, BlockGiven, Stages, Writable
<1>4. ASSUME NEW m \in {"boot", "inspect"}, Start(m)
      PROVE  TypeInv'
  <2>1. Values'
    BY <1>1, <1>4 DEF Start, Values, HandleAfterLoad, LoadedIndex
  <2>2. MuHeld' /\ BlockGiven' /\ Stages' /\ Writable'
    BY <1>1, <1>4 DEF Start, MuHeld, BlockGiven, Stages, Writable
  <2> QED
    BY <1>2, <2>1, <2>2
<1>5. ASSUME NEW k \in 0 .. MaxParts, Crash(k)
      PROVE  TypeInv'
  <2>1. /\ k \in synced .. Len(file) /\ file' = SubSeq(file, 1, k) /\ synced' = synced
        /\ stored' = stored /\ Ended
    BY <1>5 DEF Crash
  <2>2. file' \in Seq(Part) /\ Len(file') = k
    BY <1>1, <2>1 DEF Values
  <2>3. synced' \in 0 .. Len(file') /\ Len(file') <= MaxParts
    BY <1>1, <2>1, <2>2 DEF Values
  <2> QED
    BY <2>1, <2>2, <2>3, EndedType
<1>6. CASE Close
  BY <1>1, <1>6, EndedType DEF Close, Values
<1>7. ASSUME NEW g \in Goroutines, NEW b \in Block, PutLock(g, b)
      PROVE  TypeInv'
  <2>1. Values'
    BY <1>1, <1>7 DEF PutLock, Values, NoAnswer
  <2>2. MuHeld'
    BY <1>1, <1>7 DEF PutLock, MuHeld, Values
  <2>3. BlockGiven' /\ Stages' /\ Writable'
    BY <1>1, <1>7 DEF PutLock, MayPut, Values, BlockGiven, Stages, Writable
  <2> QED
    BY <1>2, <2>1, <2>2, <2>3
<1>8. ASSUME NEW g \in Goroutines, Seek(g)
      PROVE  TypeInv'
  <2>1. CASE handle = "closed"
    BY <1>8, <2>1, PutFailsType DEF Seek
  <2>2. CASE handle # "closed"
    <3>1. /\ pos' = Len(file) /\ pc' = [pc EXCEPT ![g] = "types"] /\ pc[g] = "seek"
          /\ handle = "open"
          /\ UNCHANGED <<disk, process, lock, block, lookup>>
      BY <1>1, <1>8, <2>2 DEF Seek, Values
    <3>2. Values' /\ MuHeld' /\ BlockGiven' /\ Stages' /\ Writable'
      BY <1>1, <3>1 DEF Values, MuHeld, BlockGiven, Stages, Writable
    <3> QED
      BY <1>2, <3>2
  <2> QED
    BY <2>1, <2>2
<1>9. ASSUME NEW g \in Goroutines, Write(g)
      PROVE  TypeInv'
  <2>1. [block |-> block[g], kind |-> pc[g]] \in Part
    BY <1>1, <1>9 DEF Write, BlockGiven, Values, Part
  <2>2. file' \in Seq(Part) /\ Len(file') = Len(file) + 1
    BY <1>1, <1>9, <2>1 DEF Write, Values
  <2>3. Len(file') <= MaxParts
    BY <1>1, <1>9, <2>2 DEF Write, Writable, Values
  <2>4. /\ pc' = [pc EXCEPT ![g] = IF pc[g] = "types" THEN "value" ELSE "index"]
        /\ pc[g] \in Kinds /\ pos' = Len(file) + 1
        /\ UNCHANGED <<synced, process, lock, block, lookup>>
    BY <1>9 DEF Write
  <2>5. Values'
    BY <1>1, <2>2, <2>3, <2>4 DEF Values
  <2>6. MuHeld' /\ BlockGiven' /\ Stages'
    BY <1>1, <2>4 DEF Values, MuHeld, BlockGiven, Stages
  <2>7. \A h \in Goroutines : pc[h] \in Putting => h = g
    BY <1>1, <2>4 DEF MuHeld, Values
  <2>8. Writable'
    BY <1>1, <2>2, <2>4, <2>7 DEF Values, Writable
  <2> QED
    BY <1>2, <2>5, <2>6, <2>8
<1>10. ASSUME NEW g \in Goroutines, WriteFails(g) \/ SyncFails(g)
       PROVE  TypeInv'
  BY <1>10, PutFailsType DEF WriteFails, SyncFails
<1>11. ASSUME NEW g \in Goroutines, StoreHash(g)
       PROVE  TypeInv'
  <2>1. Values'
    BY <1>1, <1>11 DEF StoreHash, Values, BlockGiven
  <2>2. MuHeld' /\ BlockGiven' /\ Stages' /\ Writable'
    BY <1>1, <1>11 DEF StoreHash, Values, MuHeld, BlockGiven, Stages, Writable
  <2> QED
    BY <1>2, <2>1, <2>2
<1>12. ASSUME NEW g \in Goroutines, Sync(g)
       PROVE  TypeInv'
  <2>1. synced' \in 0 .. Len(file) /\ stored' \subseteq Block
    BY <1>1, <1>12 DEF Sync, Values, BlockGiven
  <2> QED
    BY <1>12, <2>1, PutReturnsType DEF Sync
<1>13. ASSUME NEW g \in Goroutines, NEW b \in Block, LookupLock(g, b)
       PROVE  TypeInv'
  <2>1. Values'
    BY <1>1, <1>13 DEF LookupLock, Values, NoAnswer
  <2>2. MuHeld'
    BY <1>1, <1>13 DEF LookupLock, MuHeld, Values
  <2>3. BlockGiven' /\ Stages' /\ Writable'
    BY <1>1, <1>13 DEF LookupLock, Values, BlockGiven, Stages, Writable
  <2> QED
    BY <1>2, <2>1, <2>2, <2>3
<1>14. ASSUME NEW g \in Goroutines, Rewind(g)
       PROVE  TypeInv'
  <2>1. CASE block[g] \notin index \/ handle = "closed"
    BY <1>14, <2>1, AnswerType DEF Rewind
  <2>2. CASE ~(block[g] \notin index \/ handle = "closed")
    <3>1. /\ pc[g] = "lookup" /\ pos' = 0 /\ pc' = [pc EXCEPT ![g] = "decode"]
          /\ UNCHANGED <<disk, process, lock, block, lookup>>
      BY <1>14, <2>2 DEF Rewind
    <3>2. Values' /\ MuHeld' /\ BlockGiven' /\ Stages' /\ Writable'
      BY <1>1, <3>1 DEF Values, MuHeld, BlockGiven, Stages, Writable
    <3> QED
      BY <1>2, <3>2
  <2> QED
    BY <2>1, <2>2
<1>15. ASSUME NEW g \in Goroutines, NEW k \in 1 .. MaxParts, Read(g, k)
       PROVE  TypeInv'
  <2> DEFINE ahead == SubSeq(file, pos + 1, k)
  <2>1. /\ file \in Seq(Part) /\ pos \in Nat /\ k \in pos + 1 .. Len(file)
        /\ dec' = [dec EXCEPT ![g].buf = ahead] /\ pos' = k
        /\ UNCHANGED <<disk, process, lock, pc, block, answer, alone>>
    BY <1>1, <1>15 DEF Read, Values
  <2>2. ahead \in Seq(Part)
    BY <2>1
  <2> HIDE DEF ahead
  <2>3. [dec[g] EXCEPT !.buf = ahead] \in [buf : Seq(Part), typed : BOOLEAN]
    <3>1. dec[g] \in [buf : Seq(Part), typed : BOOLEAN]
      BY <1>1 DEF Values
    <3> QED
      BY <2>2, <3>1
  <2>4. dec' \in [Goroutines -> [buf : Seq(Part), typed : BOOLEAN]]
    BY <1>1, <2>1, <2>3 DEF Values
  <2>5. Values'
    BY <1>1, <2>1, <2>4 DEF Values
  <2>6. MuHeld' /\ BlockGiven' /\ Stages' /\ Writable'
    BY <1>1, <2>1 DEF MuHeld, BlockGiven, Stages, Writable
  <2> QED
    BY <1>2, <2>5, <2>6
<1>16. ASSUME NEW g \in Goroutines, ReadEOF(g)
       PROVE  TypeInv'
  BY <1>16, AnswerType DEF ReadEOF
<1>17. ASSUME NEW g \in Goroutines, DecodePart(g)
       PROVE  TypeInv'
  <2> DEFINE part == Head(dec[g].buf)
             wants == IF dec[g].typed THEN "value" ELSE "types"
  <2>1. pc[g] = "decode" /\ dec[g].buf # <<>> /\ dec[g].buf \in Seq(Part)
    BY <1>1, <1>17 DEF DecodePart, Values
  <2>2. part \in Part /\ Tail(dec[g].buf) \in Seq(Part)
    BY <2>1
  <2>3. CASE part.kind # wants
    BY <1>17, <2>1, <2>3, AnswerType DEF DecodePart
  <2>4. CASE part.kind = wants /\ wants = "value" /\ SameHeight(part.block, block[g])
    <3>1. Answer(g, part.block) /\ part.block \in Block
      BY <1>17, <2>2, <2>4 DEF DecodePart, Part
    <3> QED
      BY <2>1, <3>1, AnswerType
  <2>5. CASE part.kind = wants /\ ~(wants = "value" /\ SameHeight(part.block, block[g]))
    <3>1. /\ dec' = [dec EXCEPT ![g] = [buf |-> Tail(@.buf), typed |-> TRUE]]
          /\ UNCHANGED <<disk, process, pos, lock, pc, block, answer, alone>>
      BY <1>17, <2>5 DEF DecodePart
    <3>2. Values'
      BY <1>1, <2>2, <3>1 DEF Values
    <3>3. MuHeld' /\ BlockGiven' /\ Stages' /\ Writable'
      BY <1>1, <3>1 DEF MuHeld, BlockGiven, Stages, Writable
    <3> QED
      BY <1>2, <3>2, <3>3
  <2> QED
    BY <2>3, <2>4, <2>5
<1> QED
  BY <1>3, <1>4, <1>5, <1>6, <1>7, <1>8, <1>9, <1>10, <1>11, <1>12, <1>13, <1>14, <1>15, <1>16, <1>17
  DEF StoreNext

(***************************************************************************)
(* Through any crashes and restarts every variable keeps its type, and mu  *)
(* has one writer and no reader, or readers and no writer.                 *)
(***************************************************************************)
THEOREM StoreTypeCorrect == StoreSpec => []StoreTypeOK
<1>1. TypeInv => StoreTypeOK
  BY DEF TypeInv
<1> QED
  BY <1>1, InitTypeInv, NextTypeInv, PTL DEF StoreSpec

-----------------------------------------------------------------------------
(* The file and the index *)

(***************************************************************************)
(* The file begins with the genesis block, and a value follows only the    *)
(* types of its own record, whatever has been cut short.                   *)
(***************************************************************************)
PartsOrdered ==
  /\ file # <<>> => file[1] = TypesOf(GenesisBlock)
  /\ \A i \in 1 .. Len(file) : \A b :
       i < Len(file) /\ file[i + 1] = ValueOf(b) => file[i] = TypesOf(b)

\* What the goroutine that puts has written so far is at the end of the file.
PartsWritten ==
  \A g \in Goroutines :
    /\ pc[g] = "value" => Len(file) > 0 /\ file[Len(file)] = TypesOf(block[g])
    /\ pc[g] \in {"index", "sync"} => Len(file) > 1 /\ RecordAt(file, Len(file) - 1, block[g])

\* Blocks that have been stored are in the part of the file that no crash takes away.
StoredSynced == \A b \in stored : \E i \in 1 .. synced : i < synced /\ RecordAt(file, i, b)

Indexed == handle = "open" =>
  \A b \in Block : OnFile(b) => b \in index \/ \E g \in Goroutines : block[g] = b /\ pc[g] = "index"

NodeRuns == mode = "node" => handle = "open" /\ Len(file) > 1

FileInv == PartsOrdered /\ PartsWritten /\ StoredSynced /\ IndexBacked /\ Indexed /\ NodeRuns

LEMMA InitFileInv == StoreInit => FileInv
  BY DEF StoreInit, FileInv, PartsOrdered, PartsWritten, StoredSynced, IndexBacked, Indexed, NodeRuns

\* A step that leaves the file, the index and the goroutine that puts alone.
LEMMA FileUndisturbed ==
  ASSUME FileInv, UNCHANGED <<file, synced, mode, handle, index, stored>>,
         \A g \in Goroutines :
           /\ pc'[g] \in {"value", "index", "sync"} => pc'[g] = pc[g] /\ block'[g] = block[g]
           /\ pc[g] = "index" => pc'[g] = pc[g] /\ block'[g] = block[g]
  PROVE  FileInv'
  BY DEF FileInv, PartsOrdered, PartsWritten, StoredSynced, IndexBacked, Indexed, NodeRuns, OnFile

\* The end of a process, which leaves at least what has been synced.
LEMMA EndedFile ==
  ASSUME TypeInv, FileInv, Ended, UNCHANGED <<synced, stored>>,
         NEW k \in synced .. Len(file), file' = SubSeq(file, 1, k)
  PROVE  FileInv'
<1>1. file \in Seq(Part) /\ Len(file) \in Nat /\ synced \in 0 .. Len(file) /\ k \in 0 .. Len(file)
  BY DEF TypeInv, StoreTypeOK
<1>2. Len(file') = k /\ \A i \in 1 .. k : file'[i] = file[i]
  BY <1>1
<1>3. PartsOrdered'
  <2>1. file' # <<>> => file'[1] = TypesOf(GenesisBlock)
    <3>1. CASE k = 0
      BY <1>2, <3>1
    <3>2. CASE k > 0
      BY <1>1, <1>2, <3>2 DEF FileInv, PartsOrdered
    <3> QED
      BY <1>1, <3>1, <3>2
  <2>2. ASSUME NEW i \in 1 .. k, NEW b, i < k, file'[i + 1] = ValueOf(b)
        PROVE  file'[i] = TypesOf(b)
    <3>1. i \in 1 .. Len(file) /\ i < Len(file) /\ i + 1 \in 1 .. k
      BY <1>1, <2>2
    <3> QED
      BY <1>2, <2>2, <3>1 DEF FileInv, PartsOrdered
  <2> QED
    BY <1>2, <2>1, <2>2 DEF PartsOrdered
<1>4. StoredSynced'
  <2> SUFFICES ASSUME NEW b \in stored
               PROVE  \E i \in 1 .. synced : i < synced /\ RecordAt(file', i, b)
    BY DEF StoredSynced
  <2>1. PICK i \in 1 .. synced : i < synced /\ RecordAt(file, i, b)
    BY DEF FileInv, StoredSynced
  <2>2. i \in Nat \ {0} /\ i < k
    BY <1>1, <2>1
  <2> QED
    BY <1>1, <2>1, <2>2, RecordAtPrefix
<1>5. PartsWritten' /\ IndexBacked' /\ Indexed' /\ NodeRuns'
  BY DEF Ended, PartsWritten, IndexBacked, Indexed, NodeRuns
<1> QED
  BY <1>3, <1>4, <1>5 DEF FileInv

LEMMA PutFailsFile ==
  ASSUME TypeInv, FileInv, NEW g \in Goroutines, pc[g] # "index", PutFails(g)
  PROVE  FileInv'
<1>1. CASE mode = "boot"
  <2>1. Ended /\ UNCHANGED <<file, synced, stored>>
    BY <1>1 DEF PutFails
  <2>2. Len(file) \in synced .. Len(file) /\ file' = SubSeq(file, 1, Len(file))
    BY <2>1 DEF TypeInv, StoreTypeOK
  <2> QED
    BY <2>1, <2>2, EndedFile
<1>2. CASE mode # "boot"
  <2>1. /\ UNCHANGED <<file, synced, mode, handle, index, stored>>
        /\ pc' = [pc EXCEPT ![g] = "idle"] /\ block' = [block EXCEPT ![g] = None]
    BY <1>2 DEF PutFails, PutReturns, Goto
  <2> QED
    BY <2>1, FileUndisturbed DEF TypeInv, StoreTypeOK
<1> QED
  BY <1>1, <1>2

LEMMA AnswerFile ==
  ASSUME TypeInv, FileInv, NEW g \in Goroutines, pc[g] \in Looking, NEW b, Answer(g, b)
  PROVE  FileInv'
<1>1. /\ UNCHANGED <<file, synced, mode, handle, index, stored>>
      /\ pc' = [pc EXCEPT ![g] = "idle"] /\ block' = [block EXCEPT ![g] = None]
  BY DEF Answer, Goto
<1> QED
  BY <1>1, FileUndisturbed DEF TypeInv, StoreTypeOK

\* A step of the encoder, which puts its part at the end of the file.
LEMMA WriteFile ==
  ASSUME TypeInv, FileInv, NEW g \in Goroutines, Write(g)
  PROVE  FileInv'
<1> DEFINE p == [block |-> block[g], kind |-> pc[g]]
<1>1. /\ file \in Seq(Part) /\ Len(file) \in Nat /\ synced \in 0 .. Len(file)
      /\ pc[g] \in {"types", "value"} /\ block[g] \in Block /\ p \in Part
      /\ pc' = [pc EXCEPT ![g] = IF pc[g] = "types" THEN "value" ELSE "index"]
      /\ file' = Append(file, p) /\ UNCHANGED <<synced, mode, handle, index, stored, block>>
      /\ pc \in [Goroutines -> {"idle", "seek", "index", "sync", "lookup", "decode"} \cup Kinds]
  BY DEF Write, Goto, TypeInv, BlockGiven, StoreTypeOK, Part
<1>2. \A h \in Goroutines : pc[h] \in Putting => h = g
  BY <1>1, LockFacts DEF TypeInv, MuHeld
<1>3. p = IF pc[g] = "types" THEN TypesOf(block[g]) ELSE ValueOf(block[g])
  BY <1>1 DEF TypesOf, ValueOf
<1> HIDE DEF p
<1>4. /\ Len(file') = Len(file) + 1 /\ file'[Len(file) + 1] = p
      /\ \A i \in 1 .. Len(file) : file'[i] = file[i]
  BY <1>1
<1>5. \A b, c : TypesOf(b) # ValueOf(c) /\ (ValueOf(b) = ValueOf(c) => b = c)
                /\ (TypesOf(b) = TypesOf(c) => b = c)
  BY DEF TypesOf, ValueOf
<1>6. \A i \in Nat \ {0} : \A b :
        RecordAt(file', i, b) <=> RecordAt(file, i, b) \/ (i = Len(file) /\ file[i] = TypesOf(b) /\ p = ValueOf(b))
  BY <1>1, RecordAtAppend
<1>7. pc[g] = "value" => Len(file) > 0 /\ file[Len(file)] = TypesOf(block[g])
  BY DEF FileInv, PartsWritten
<1>8. PartsOrdered'
  <2>1. file'[1] = TypesOf(GenesisBlock)
    <3>1. CASE file = <<>>
      <4>1. pc[g] = "types" /\ Len(file) = 0
        BY <1>1, <1>7, <3>1
      <4>2. mode = "boot"
        BY <1>1, <4>1 DEF TypeInv, StoreTypeOK, Stages, FileInv, NodeRuns
      <4>3. block[g] = GenesisBlock
        BY <1>1, <4>2 DEF TypeInv, Stages
      <4> QED
        BY <1>3, <1>4, <4>1, <4>3
    <3>2. CASE file # <<>>
      BY <1>1, <1>4, <3>2 DEF FileInv, PartsOrdered
    <3> QED
      BY <3>1, <3>2
  <2>2. ASSUME NEW i \in 1 .. Len(file'), NEW b, i < Len(file'), file'[i + 1] = ValueOf(b)
        PROVE  file'[i] = TypesOf(b)
    <3>1. CASE i < Len(file)
      <4>1. i \in 1 .. Len(file) /\ i + 1 \in 1 .. Len(file)
        BY <1>1, <2>2, <3>1
      <4> QED
        BY <1>4, <2>2, <3>1, <4>1 DEF FileInv, PartsOrdered
    <3>2. CASE i = Len(file)
      <4>1. p = ValueOf(b)
        BY <1>4, <2>2, <3>2
      <4>2. pc[g] = "value" /\ b = block[g]
        BY <1>1, <1>3, <1>5, <4>1
      <4> QED
        BY <1>1, <1>4, <1>7, <3>2, <4>2
    <3> QED
      BY <1>1, <1>4, <2>2, <3>1, <3>2
  <2> QED
    BY <2>1, <2>2 DEF PartsOrdered
<1>9. PartsWritten'
  <2> SUFFICES ASSUME NEW h \in Goroutines, pc'[h] \in {"value", "index", "sync"}
               PROVE  /\ pc'[h] = "value" => Len(file') > 0 /\ file'[Len(file')] = TypesOf(block[h])
                      /\ pc'[h] \in {"index", "sync"} =>
                           Len(file') > 1 /\ RecordAt(file', Len(file') - 1, block[h])
    BY <1>1 DEF PartsWritten
  <2>1. h = g
    BY <1>1, <1>2
  <2>2. CASE pc[g] = "types"
    BY <1>1, <1>3, <1>4, <2>1, <2>2
  <2>3. CASE pc[g] = "value"
    <3>1. Len(file) \in Nat \ {0} /\ Len(file') - 1 = Len(file)
      BY <1>1, <1>4, <1>7, <2>3
    <3>2. RecordAt(file', Len(file), block[g])
      BY <1>3, <1>6, <1>7, <2>3, <3>1
    <3>3. Len(file') > 1 /\ RecordAt(file', Len(file') - 1, block[g])
      BY <1>4, <3>1, <3>2
    <3> QED
      BY <1>1, <2>1, <2>3, <3>3
  <2> QED
    BY <1>1, <2>2, <2>3
<1>10. \A b : OnFile(b) => OnFile(b)'
  BY <1>1, <1>4, <1>6 DEF OnFile
<1>11. StoredSynced' /\ IndexBacked'
  <2>1. StoredSynced'
    <3> SUFFICES ASSUME NEW b \in stored
                 PROVE  \E i \in 1 .. Len(file') : i < synced /\ RecordAt(file', i, b)
      BY <1>1 DEF StoredSynced
    <3>1. PICK i \in 1 .. synced : i < synced /\ RecordAt(file, i, b)
      BY DEF FileInv, StoredSynced
    <3>2. RecordAt(file', i, b)
      BY <1>1, <1>6, <3>1
    <3>3. i \in 1 .. Len(file')
      BY <1>1, <1>4
    <3> QED
      BY <3>1, <3>2, <3>3
  <2>2. IndexBacked'
    BY <1>1, <1>10 DEF FileInv, IndexBacked
  <2> QED
    BY <2>1, <2>2
<1>12. Indexed'
  <2> SUFFICES ASSUME handle = "open", NEW b \in Block, OnFile(b)'
               PROVE  b \in index \/ \E h \in Goroutines : block[h] = b /\ pc'[h] = "index"
    BY <1>1 DEF Indexed
  <2>1. OnFile(b) \/ (pc[g] = "value" /\ b = block[g])
    <3>1. PICK i \in 1 .. Len(file') : RecordAt(file', i, b)
      BY DEF OnFile
    <3>2. CASE RecordAt(file, i, b)
      <4>1. i \in 1 .. Len(file)
        BY <1>1, <1>4, <3>1, <3>2 DEF RecordAt
      <4> QED
        BY <3>2, <4>1 DEF OnFile
    <3>3. CASE p = ValueOf(b)
      BY <1>1, <1>3, <1>5, <3>3
    <3> QED
      BY <1>4, <1>6, <3>1, <3>2, <3>3
  <2>2. CASE pc[g] = "value" /\ b = block[g]
    BY <1>1, <2>2
  <2>3. CASE OnFile(b)
    <3>1. b \in index \/ \E h \in Goroutines : block[h] = b /\ pc[h] = "index"
      BY <2>3 DEF FileInv, Indexed
    <3>2. \A h \in Goroutines : pc[h] # "index"
      BY <1>1, <1>2
    <3> QED
      BY <3>1, <3>2
  <2> QED
    BY <2>1, <2>2, <2>3
<1>13. NodeRuns'
  BY <1>1, <1>4 DEF FileInv, NodeRuns
<1> QED
  BY <1>8, <1>9, <1>11, <1>12, <1>13 DEF FileInv

LEMMA NextFileInv == TypeInv /\ FileInv /\ [StoreNext]_storeVars => FileInv'
<1> SUFFICES ASSUME TypeInv, FileInv, [StoreNext]_storeVars PROVE FileInv'
  OBVIOUS
<1> USE DEF Goto
<1>1. /\ file \in Seq(Part) /\ Len(file) \in Nat /\ synced \in 0 .. Len(file)
      /\ pc \in [Goroutines -> {"idle", "seek", "index", "sync", "lookup", "decode"} \cup Kinds]
      /\ block \in [Goroutines -> Block \cup {None}]
      /\ MuHeld
  BY LockFacts DEF TypeInv, StoreTypeOK
<1>2. CASE UNCHANGED storeVars
  BY <1>2, FileUndisturbed DEF storeVars
<1>3. ASSUME NEW m \in {"boot", "inspect"}, Start(m)
      PROVE  FileInv'
  <2>1. /\ mode = "down" /\ mode' = m /\ handle' = HandleAfterLoad(file) /\ index' = LoadedIndex(file)
        /\ UNCHANGED <<file, synced, stored, pc, block>>
    BY <1>3 DEF Start
  <2>2. IndexBacked'
    <3> SUFFICES ASSUME NEW b \in LoadedIndex(file) PROVE OnFile(b)
      BY <2>1 DEF IndexBacked, OnFile
    <3>1. RecordAt(file, 1, b)
      BY DEF LoadedIndex
    <3>2. 1 \in 1 .. Len(file)
      BY <1>1, <3>1 DEF RecordAt
    <3> QED
      BY <3>1, <3>2 DEF OnFile
  <2>3. Indexed'
    <3> SUFFICES ASSUME HandleAfterLoad(file) = "open", NEW b \in Block, OnFile(b)
                 PROVE  b \in LoadedIndex(file)
      BY <2>1 DEF Indexed, OnFile
    <3>1. PICK i \in 1 .. Len(file) : RecordAt(file, i, b)
      BY DEF OnFile
    <3>2. Len(file) = 0 \/ Len(file) = 2
      <4>1. CASE file = <<>>
        BY <4>1
      <4>2. CASE file # <<>>
        BY <4>2 DEF HandleAfterLoad, Readable
      <4> QED
        BY <4>1, <4>2
    <3>3. i < Len(file)
      BY <3>1 DEF RecordAt
    <3>4. i \in Nat /\ 1 <= i
      BY <1>1
    <3>5. i = 1
      <4>1. Len(file) = 2
        BY <1>1, <3>2, <3>3, <3>4
      <4>2. i < 2
        BY <3>3, <4>1
      <4> QED
        BY <3>4, <4>2
    <3> QED
      BY <3>1, <3>5 DEF LoadedIndex
  <2>4. PartsOrdered' /\ PartsWritten' /\ StoredSynced' /\ NodeRuns'
    BY <2>1 DEF FileInv, PartsOrdered, PartsWritten, StoredSynced, NodeRuns
  <2> QED
    BY <2>2, <2>3, <2>4 DEF FileInv
<1>4. ASSUME NEW k \in 0 .. MaxParts, Crash(k)
      PROVE  FileInv'
  BY <1>4, EndedFile DEF Crash
<1>5. CASE Close
  <2>1. Len(file) \in synced .. Len(file) /\ file' = SubSeq(file, 1, Len(file))
    BY <1>1, <1>5 DEF Close
  <2> QED
    BY <1>5, <2>1, EndedFile DEF Close
<1>6. ASSUME NEW g \in Goroutines, NEW b \in Block, PutLock(g, b) \/ LookupLock(g, b)
      PROVE  FileInv'
  <2>1. /\ pc[g] = "idle" /\ \E l \in {"seek", "lookup"} : pc' = [pc EXCEPT ![g] = l]
        /\ block' = [block EXCEPT ![g] = b]
        /\ UNCHANGED <<file, synced, mode, handle, index, stored>>
    BY <1>6 DEF PutLock, LookupLock
  <2> QED
    BY <1>1, <2>1, FileUndisturbed
<1>7. ASSUME NEW g \in Goroutines, Seek(g)
      PROVE  FileInv'
  <2>1. CASE handle = "closed"
    BY <1>7, <2>1, PutFailsFile DEF Seek
  <2>2. CASE handle # "closed"
    BY <1>1, <1>7, <2>2, FileUndisturbed DEF Seek
  <2> QED
    BY <2>1, <2>2
<1>8. ASSUME NEW g \in Goroutines, Write(g)
      PROVE  FileInv'
  BY <1>8, WriteFile
<1>9. ASSUME NEW g \in Goroutines, WriteFails(g) \/ SyncFails(g)
      PROVE  FileInv'
  BY <1>9, PutFailsFile DEF WriteFails, SyncFails
<1>10. ASSUME NEW g \in Goroutines, StoreHash(g)
       PROVE  FileInv'
  <2>1. /\ pc[g] = "index" /\ pc' = [pc EXCEPT ![g] = "sync"] /\ index' = index \cup {block[g]}
        /\ UNCHANGED <<file, synced, mode, handle, stored, block>>
    BY <1>10 DEF StoreHash
  <2>2. Len(file) > 1 /\ RecordAt(file, Len(file) - 1, block[g])
    BY <2>1 DEF FileInv, PartsWritten
  <2>3. OnFile(block[g])
    BY <1>1, <2>2 DEF OnFile
  <2>4. IndexBacked'
    BY <2>1, <2>3 DEF FileInv, IndexBacked, OnFile
  <2>5. PartsWritten' /\ Indexed'
    BY <1>1, <2>1 DEF FileInv, PartsWritten, Indexed, OnFile
  <2>6. PartsOrdered' /\ StoredSynced' /\ NodeRuns'
    BY <2>1 DEF FileInv, PartsOrdered, StoredSynced, NodeRuns
  <2> QED
    BY <2>4, <2>5, <2>6 DEF FileInv
<1>11. ASSUME NEW g \in Goroutines, Sync(g)
       PROVE  FileInv'
  <2>1. /\ pc[g] = "sync" /\ synced' = Len(file) /\ stored' = stored \cup {block[g]} /\ mode' = "node"
        /\ pc' = [pc EXCEPT ![g] = "idle"] /\ block' = [block EXCEPT ![g] = None]
        /\ UNCHANGED <<file, handle, index>>
    BY <1>11 DEF Sync, PutReturns
  <2>2. Len(file) > 1 /\ RecordAt(file, Len(file) - 1, block[g])
    BY <2>1 DEF FileInv, PartsWritten
  <2>3. StoredSynced'
    <3> SUFFICES ASSUME NEW b \in stored'
                 PROVE  \E i \in 1 .. Len(file) : i < Len(file) /\ RecordAt(file, i, b)
      BY <2>1 DEF StoredSynced
    <3>1. CASE b \in stored
      BY <1>1, <3>1 DEF FileInv, StoredSynced
    <3>2. CASE b = block[g]
      <4>1. Len(file) - 1 \in 1 .. Len(file) /\ Len(file) - 1 < Len(file)
        BY <1>1, <2>2
      <4> QED
        BY <2>2, <3>2, <4>1
    <3> QED
      BY <2>1, <3>1, <3>2
  <2>4. NodeRuns'
    BY <2>1, <2>2 DEF TypeInv, Writable, NodeRuns
  <2>5. PartsOrdered' /\ PartsWritten' /\ IndexBacked' /\ Indexed'
    BY <1>1, <2>1 DEF FileInv, PartsOrdered, PartsWritten, IndexBacked, Indexed, OnFile
  <2> QED
    BY <2>3, <2>4, <2>5 DEF FileInv
<1>12. ASSUME NEW g \in Goroutines, Rewind(g)
       PROVE  FileInv'
  <2>1. CASE block[g] \notin index \/ handle = "closed"
    BY <1>12, <2>1, AnswerFile DEF Rewind
  <2>2. CASE ~(block[g] \notin index \/ handle = "closed")
    BY <1>1, <1>12, <2>2, FileUndisturbed DEF Rewind
  <2> QED
    BY <2>1, <2>2
<1>13. ASSUME NEW g \in Goroutines, NEW k \in 1 .. MaxParts, Read(g, k)
       PROVE  FileInv'
  BY <1>13, FileUndisturbed DEF Read
<1>14. ASSUME NEW g \in Goroutines, ReadEOF(g)
       PROVE  FileInv'
  BY <1>14, AnswerFile DEF ReadEOF
<1>15. ASSUME NEW g \in Goroutines, DecodePart(g)
       PROVE  FileInv'
  <2>1. pc[g] = "decode" /\ ((\E b : Answer(g, b)) \/ UNCHANGED <<disk, process, pc, block>>)
    BY <1>15 DEF DecodePart
  <2> QED
    BY <2>1, AnswerFile, FileUndisturbed
<1> QED
  BY <1>2, <1>3, <1>4, <1>5, <1>6, <1>7, <1>8, <1>9, <1>10, <1>11, <1>12, <1>13, <1>14, <1>15
  DEF StoreNext

(***************************************************************************)
(* blockHashes names only blocks that the file holds completely: Put makes *)
(* the entry after the write, and loading after a crash reads no further   *)
(* than the records go.                                                    *)
(***************************************************************************)
THEOREM IndexIsBacked == StoreSpec => []IndexBacked
<1>1. FileInv => IndexBacked
  BY DEF FileInv
<1> QED
  BY <1>1, InitTypeInv, NextTypeInv, InitFileInv, NextFileInv, PTL DEF StoreSpec

(***************************************************************************)
(* A block whose Put has returned nil is never lost again: no crash cuts   *)
(* what has been synced, no failed write touches what is there.            *)
(***************************************************************************)
THEOREM StoredIsDurable == StoreSpec => []Durable
<1>1. TypeInv /\ FileInv => Durable
  <2> SUFFICES ASSUME TypeInv, FileInv, NEW b \in stored PROVE OnFile(b)
    BY DEF Durable
  <2>1. PICK i \in 1 .. synced : i < synced /\ RecordAt(file, i, b)
    BY DEF FileInv, StoredSynced
  <2>2. i \in 1 .. Len(file)
    BY <2>1 DEF TypeInv, StoreTypeOK
  <2> QED
    BY <2>1, <2>2 DEF OnFile
<1> QED
  BY <1>1, InitTypeInv, NextTypeInv, InitFileInv, NextFileInv, PTL DEF StoreSpec

(***************************************************************************)
(* A node that runs has an open file all of whose records are in its       *)
(* index, although NewPersistentStore hides the error of loading them.     *)
(***************************************************************************)
THEOREM NodesKnowTheirFiles == StoreSpec => []NodeKnowsItsFile
<1>1. FileInv => NodeKnowsItsFile
  BY DEF FileInv, NodeRuns, Indexed, NodeKnowsItsFile
<1> QED
  BY <1>1, InitTypeInv, NextTypeInv, InitFileInv, NextFileInv, PTL DEF StoreSpec

-----------------------------------------------------------------------------
(* Look-ups *)

\* A reader that is undisturbed is the only one.
AloneReads == \A g \in Goroutines : alone[g] /\ g \in readers => readers = {g}

(***************************************************************************)
(* An undisturbed look-up finds the first block of the file and no other   *)
(* one.                                                                    *)
(***************************************************************************)
LookupAnswers ==
  \A g \in Goroutines : LET a == answer[g] IN a.asked # None =>
    a.got = IF handle = "open" /\ RecordAt(file, 1, a.asked) THEN a.asked ELSE None

(***************************************************************************)
(* A decoder has consumed c parts.  It does not get past the second one:   *)
(* either that ends it, or a value of another height comes before types,   *)
(* which it refuses.                                                       *)
(***************************************************************************)
Consumed(g, c) ==
  /\ Len(dec[g].buf) = pos - c
  /\ \A i \in 1 .. pos - c : dec[g].buf[i] = file[c + i]
  /\ dec[g].typed <=> c # 0
  /\ c = 2 => file[2].kind = "value" /\ ~SameHeight(file[2].block, block[g])

LookupInv ==
  /\ AloneReads
  /\ \A g \in Goroutines : pc[g] # "decode" => dec[g] = FreshDecoder
  /\ \A g \in Goroutines : pc[g] = "decode" =>
       handle = "open" /\ (alone[g] => \E c \in 0 .. 2 : c <= pos /\ Consumed(g, c))
  /\ LookupAnswers

\* The end of a process leaves no look-up and no answer.
LEMMA EndedLookup == Ended => LookupInv'
  BY DEF Ended, LookupInv, AloneReads, LookupAnswers, NoAnswer

\* A step of Put: there is no look-up, and the answers stay true.
LEMMA PutLookup ==
  ASSUME LookupInv, MuHeld', readers = {}, UNCHANGED <<readers, handle, dec>>,
         \A g \in Goroutines : pc[g] \notin Looking,
         \A g \in Goroutines : answer'[g] \in {answer[g], NoAnswer},
         \A g \in Goroutines, b \in Block : answer[g].asked = b =>
           (RecordAt(file', 1, b) <=> RecordAt(file, 1, b)),
         \A g \in Goroutines : answer[g].asked \in Block \cup {None}
  PROVE  LookupInv'
<1>1. \A g \in Goroutines : pc'[g] \notin Looking
  BY DEF MuHeld
<1>2. LookupAnswers'
  <2> SUFFICES ASSUME NEW g \in Goroutines, answer'[g].asked # None
               PROVE  answer'[g].got =
                        IF handle' = "open" /\ RecordAt(file', 1, answer'[g].asked)
                        THEN answer'[g].asked ELSE None
    BY DEF LookupAnswers
  <2>1. answer'[g] = answer[g] /\ answer[g].asked \in Block
    BY DEF NoAnswer
  <2> QED
    BY <2>1 DEF LookupInv, LookupAnswers
<1> QED
  BY <1>1, <1>2 DEF LookupInv, AloneReads

\* A look-up ends with what LookupAnswers says if it was undisturbed.
LEMMA AnswerLookup ==
  ASSUME TypeInv, LookupInv, NEW g \in Goroutines, pc[g] \in Looking, NEW b, Answer(g, b),
         alone[g] => b = IF handle = "open" /\ RecordAt(file, 1, block[g]) THEN block[g] ELSE None
  PROVE  LookupInv'
<1> USE DEF Answer, Goto
<1>1. Values /\ MuHeld
  BY TypeParts DEF TypeInv
<1>2. AloneReads'
  BY <1>1 DEF Values, LookupInv, AloneReads
<1>3. LookupAnswers'
  <2> SUFFICES ASSUME NEW h \in Goroutines, answer'[h].asked # None
               PROVE  answer'[h].got =
                        IF handle = "open" /\ RecordAt(file, 1, answer'[h].asked)
                        THEN answer'[h].asked ELSE None
    BY DEF LookupAnswers
  <2>1. CASE h = g
    BY <1>1, <2>1 DEF Values, NoAnswer
  <2>2. CASE h # g
    BY <1>1, <2>2 DEF Values, LookupInv, LookupAnswers
  <2> QED
    BY <2>1, <2>2
<1>4. ASSUME NEW h \in Goroutines, pc'[h] # "decode" PROVE dec'[h] = FreshDecoder
  BY <1>1, <1>4 DEF Values, LookupInv
<1>5. ASSUME NEW h \in Goroutines, pc'[h] = "decode"
      PROVE  handle' = "open" /\ (alone'[h] => \E c \in 0 .. 2 : c <= pos' /\ Consumed(h, c)')
  <2>1. h # g /\ pc[h] = "decode" /\ alone'[h] = alone[h] /\ dec'[h] = dec[h] /\ block'[h] = block[h]
    BY <1>1, <1>5 DEF Values
  <2> QED
    BY <2>1 DEF LookupInv, Consumed
<1> QED
  BY <1>2, <1>3, <1>4, <1>5 DEF LookupInv

\* The next part that an undisturbed decoder takes.
LEMMA DecodeLookup ==
  ASSUME TypeInv, FileInv, LookupInv, NEW g \in Goroutines, DecodePart(g)
  PROVE  LookupInv'
<1>1. /\ Values /\ MuHeld /\ file \in Seq(Part) /\ Len(file) \in Nat /\ pos \in 0 .. Len(file)
      /\ block[g] \in Block /\ dec[g].buf \in Seq(Part) /\ dec[g].typed \in BOOLEAN
      /\ pc[g] = "decode" /\ dec[g].buf # <<>> /\ handle = "open"
  BY TypeParts DEF TypeInv, BlockGiven, Values, DecodePart, LookupInv
<1> DEFINE part  == Head(dec[g].buf)
           wants == IF dec[g].typed THEN "value" ELSE "types"
           fits  == part.kind = wants /\ ~(wants = "value" /\ SameHeight(part.block, block[g]))
           Ends(b) == b = IF handle = "open" /\ RecordAt(file, 1, block[g]) THEN block[g] ELSE None
<1>2. part \in Part /\ part = dec[g].buf[1] /\ Len(dec[g].buf) > 0
  BY <1>1
<1>3. ASSUME NEW b, Answer(g, b), alone[g] => Ends(b) PROVE LookupInv'
  BY <1>1, <1>3, AnswerLookup
\* Where an undisturbed decoder is.
<1>4. ASSUME alone[g]
      PROVE  \E c \in 0 .. 2 : /\ c <= pos /\ Consumed(g, c) /\ c + 1 \in 1 .. Len(file)
                              /\ part = file[c + 1]
  <2>1. PICK c \in 0 .. 2 : c <= pos /\ Consumed(g, c)
    BY <1>1, <1>4 DEF LookupInv
  <2>2. pos - c > 0
    BY <1>1, <1>2, <2>1 DEF Consumed
  <2>3. 1 \in 1 .. pos - c
    BY <1>1, <2>1, <2>2
  <2>4. dec[g].buf[1] = file[c + 1] /\ c + 1 \in 1 .. Len(file)
    BY <1>1, <2>1, <2>2, <2>3 DEF Consumed
  <2> QED
    BY <1>2, <2>1, <2>4
<1>5. file # <<>> => file[1] = TypesOf(GenesisBlock)
  BY DEF FileInv, PartsOrdered
<1>6. RecordAt(file, 1, block[g]) <=>
        1 < Len(file) /\ file[1] = TypesOf(block[g]) /\ file[2] = ValueOf(block[g])
  BY <1>1, RecordAtParts
<1>7. ASSUME NEW i \in 1 .. Len(file), i < Len(file), file[i + 1].kind = "value"
      PROVE  file[i] = TypesOf(file[i + 1].block)
  <2>1. file[i + 1] \in Part
    BY <1>1, <1>7
  <2>2. file[i + 1] = ValueOf(file[i + 1].block)
    BY <1>7, <2>1 DEF Part, ValueOf
  <2> QED
    BY <1>7, <2>2 DEF FileInv, PartsOrdered
<1> HIDE DEF part, wants, fits
<1>8. CASE part.kind # wants
  <2>1. Answer(g, None)
    BY <1>8 DEF DecodePart, part, wants
  <2>2. ASSUME alone[g] PROVE ~RecordAt(file, 1, block[g])
    <3>1. PICK c \in 0 .. 2 : c <= pos /\ Consumed(g, c) /\ c + 1 \in 1 .. Len(file) /\ part = file[c + 1]
      BY <1>4, <2>2
    <3>2. CASE c = 0
      <4>1. part.kind = "types"
        BY <1>5, <3>1, <3>2 DEF TypesOf
      <4> QED
        BY <1>8, <3>1, <3>2, <4>1 DEF Consumed, wants
    <3>3. CASE c = 1
      BY <1>1, <1>6, <1>8, <3>1, <3>3 DEF Consumed, wants, ValueOf
    <3>4. CASE c = 2
      BY <1>1, <1>6, <3>1, <3>4 DEF Consumed, SameHeight, ValueOf
    <3> QED
      BY <3>1, <3>2, <3>3, <3>4
  <2> QED
    BY <1>3, <2>1, <2>2
<1>9. CASE part.kind = wants /\ wants = "value" /\ SameHeight(part.block, block[g])
  <2>1. Answer(g, part.block)
    BY <1>9 DEF DecodePart, part, wants
  <2>2. ASSUME alone[g] PROVE part.block = block[g] /\ RecordAt(file, 1, block[g])
    <3>1. PICK c \in 0 .. 2 : c <= pos /\ Consumed(g, c) /\ c + 1 \in 1 .. Len(file) /\ part = file[c + 1]
      BY <1>4, <2>2
    <3>2. CASE c = 0
      BY <1>9, <3>1, <3>2 DEF Consumed, wants
    <3>3. CASE c = 1
      <4>1. 1 \in 1 .. Len(file) /\ 1 < Len(file) /\ file[1 + 1].kind = "value" /\ part = file[2]
        BY <1>1, <1>9, <3>1, <3>3
      <4>2. file[1] = TypesOf(part.block) /\ file[1] = TypesOf(GenesisBlock)
        BY <1>5, <1>7, <4>1
      <4>3. part.block = GenesisBlock
        BY <4>2 DEF TypesOf
      <4>4. block[g] = GenesisBlock
        BY <1>1, <1>9, <4>3 DEF SameHeight
      <4>5. part = ValueOf(GenesisBlock)
        BY <1>2, <1>9, <4>3 DEF Part, ValueOf
      <4> QED
        BY <1>6, <4>1, <4>2, <4>3, <4>4, <4>5
    <3>4. CASE c = 2
      <4>1. 2 \in 1 .. Len(file) /\ 2 < Len(file) /\ file[2 + 1].kind = "value"
        BY <1>1, <1>9, <3>1, <3>4
      <4>2. file[2].kind = "types"
        <5>1. file[2] = TypesOf(file[2 + 1].block)
          BY <1>7, <4>1
        <5> QED
          BY <5>1 DEF TypesOf
      <4> QED
        BY <3>1, <3>4, <4>2 DEF Consumed
    <3> QED
      BY <3>1, <3>2, <3>3, <3>4
  <2> QED
    BY <1>1, <1>3, <2>1, <2>2
<1>10. CASE fits
  <2>1. /\ dec' = [dec EXCEPT ![g] = [buf |-> Tail(dec[g].buf), typed |-> TRUE]]
        /\ UNCHANGED <<disk, process, pos, lock, pc, block, answer, alone>>
    BY <1>10 DEF DecodePart, part, wants, fits
  <2>2. dec'[g] = [buf |-> Tail(dec[g].buf), typed |-> TRUE]
    BY <1>1, <2>1 DEF Values
  <2>3. ASSUME alone[g] PROVE \E c \in 0 .. 2 : c <= pos' /\ Consumed(g, c)'
    <3>1. PICK c \in 0 .. 2 : c <= pos /\ Consumed(g, c) /\ c + 1 \in 1 .. Len(file) /\ part = file[c + 1]
      BY <1>4, <2>3
    <3>2. c # 2
      <4> SUFFICES ASSUME c = 2 PROVE FALSE
        OBVIOUS
      <4>1. 2 \in 1 .. Len(file) /\ 2 < Len(file) /\ file[2 + 1].kind = "value"
        BY <1>1, <1>10, <3>1 DEF Consumed, fits, wants
      <4>2. file[2].kind = "types"
        <5>1. file[2] = TypesOf(file[2 + 1].block)
          BY <1>7, <4>1
        <5> QED
          BY <5>1 DEF TypesOf
      <4> QED
        BY <3>1, <4>2 DEF Consumed
    <3>3. Len(Tail(dec[g].buf)) = pos - (c + 1) /\ c + 1 <= pos
      BY <1>1, <1>2, <3>1 DEF Consumed
    <3>4. \A i \in 1 .. pos - (c + 1) : Tail(dec[g].buf)[i] = file[(c + 1) + i]
      <4> TAKE i \in 1 .. pos - (c + 1)
      <4>1. i \in 1 .. Len(Tail(dec[g].buf)) /\ i + 1 \in 1 .. pos - c /\ c + (i + 1) = (c + 1) + i
        BY <1>1, <3>1, <3>3
      <4>2. Tail(dec[g].buf)[i] = dec[g].buf[i + 1]
        BY <1>1, <4>1
      <4> QED
        BY <3>1, <4>1, <4>2 DEF Consumed
    <3>5. c + 1 = 2 => file[2].kind = "value" /\ ~SameHeight(file[2].block, block[g])
      BY <1>10, <3>1 DEF Consumed, fits, wants
    <3>6. Consumed(g, c + 1)'
      BY <2>1, <2>2, <3>1, <3>3, <3>4, <3>5 DEF Consumed
    <3>7. c + 1 \in 0 .. 2
      BY <3>1, <3>2
    <3> QED
      BY <2>1, <3>3, <3>6, <3>7
  <2>4. ASSUME NEW h \in Goroutines, h # g PROVE dec'[h] = dec[h]
    BY <1>1, <2>1, <2>4 DEF Values
  <2>5. ASSUME NEW h \in Goroutines, h # g, pc[h] = "decode", alone[h]
        PROVE  \E c \in 0 .. 2 : c <= pos' /\ Consumed(h, c)'
    BY <2>1, <2>4, <2>5 DEF LookupInv, Consumed
  <2>6. AloneReads' /\ LookupAnswers'
    BY <2>1 DEF LookupInv, AloneReads, LookupAnswers
  <2> QED
    BY <1>1, <2>1, <2>3, <2>4, <2>5, <2>6 DEF LookupInv
<1> QED
  BY <1>8, <1>9, <1>10 DEF fits

LEMMA InitLookupInv == StoreInit => LookupInv
  BY DEF StoreInit, LookupInv, AloneReads, LookupAnswers, NoAnswer

LEMMA PutFailsLookup ==
  ASSUME TypeInv, TypeInv', LookupInv, NEW g \in Goroutines, pc[g] \in Putting, PutFails(g)
  PROVE  LookupInv'
<1>1. CASE mode = "boot"
  BY <1>1, EndedLookup DEF PutFails
<1>2. CASE mode # "boot"
  <2>1. UNCHANGED <<file, handle, readers, dec, answer>>
    BY <1>2 DEF PutFails, PutReturns
  <2>2. Values /\ MuHeld
    BY TypeParts DEF TypeInv
  <2>3. MuHeld'
    BY TypeParts, PTL DEF TypeInv
  <2> QED
    BY <2>1, <2>2, <2>3, PutLookup DEF MuHeld, Values
<1> QED
  BY <1>1, <1>2

LEMMA NextLookupInv == TypeInv /\ TypeInv' /\ FileInv /\ LookupInv /\ [StoreNext]_storeVars => LookupInv'
<1> SUFFICES ASSUME TypeInv, TypeInv', FileInv, LookupInv, [StoreNext]_storeVars PROVE LookupInv'
  OBVIOUS
<1> USE DEF Goto
<1>1. Values /\ MuHeld /\ file \in Seq(Part) /\ Len(file) \in Nat
  BY TypeParts DEF TypeInv, Values
<1>2. MuHeld'
  BY TypeParts, PTL DEF TypeInv
<1>3. CASE UNCHANGED storeVars
  BY <1>3 DEF storeVars, LookupInv, AloneReads, Consumed, LookupAnswers
<1>4. ASSUME NEW m \in {"boot", "inspect"}, Start(m)
      PROVE  LookupInv'
  <2>1. UNCHANGED <<lock, pc, block, lookup>> /\ mode = "down"
    BY <1>4 DEF Start
  <2>2. \A g \in Goroutines : pc[g] = "idle" /\ answer[g] = NoAnswer
    BY <2>1 DEF TypeInv, Stages
  <2> QED
    BY <2>1, <2>2 DEF LookupInv, AloneReads, LookupAnswers, NoAnswer
<1>5. ASSUME (\E k \in 0 .. MaxParts : Crash(k)) \/ Close
      PROVE  LookupInv'
  BY <1>5, EndedLookup DEF Crash, Close
\* The steps of Put.
<1>6. ASSUME NEW g \in Goroutines, NEW b \in Block, PutLock(g, b)
      PROVE  LookupInv'
  <2>1. /\ readers = {} /\ UNCHANGED <<file, handle, readers, dec>>
        /\ answer' = [answer EXCEPT ![g] = NoAnswer]
    BY <1>6 DEF PutLock
  <2>2. \A h \in Goroutines : answer'[h] \in {answer[h], NoAnswer} /\ pc[h] \notin Looking
    BY <1>1, <2>1 DEF Values, MuHeld
  <2> QED
    BY <1>1, <1>2, <2>1, <2>2, PutLookup DEF Values
<1>7. ASSUME NEW g \in Goroutines, WriteFails(g) \/ SyncFails(g)
      PROVE  LookupInv'
  BY <1>7, PutFailsLookup DEF WriteFails, SyncFails
<1>8. ASSUME NEW g \in Goroutines, Seek(g) \/ StoreHash(g) \/ Sync(g)
      PROVE  LookupInv'
  <2>1. pc[g] \in Putting
    BY <1>8 DEF Seek, StoreHash, Sync
  <2>2. readers = {} /\ \A h \in Goroutines : pc[h] \notin Looking
    BY <1>1, <2>1 DEF MuHeld
  <2>3. CASE PutFails(g)
    BY <2>1, <2>3, PutFailsLookup
  <2>4. CASE ~PutFails(g)
    <3>1. UNCHANGED <<file, handle, readers, dec, answer>>
      BY <1>8, <2>4 DEF Seek, StoreHash, Sync, PutReturns
    <3> QED
      BY <1>1, <1>2, <2>2, <3>1, PutLookup DEF Values
  <2> QED
    BY <2>3, <2>4
<1>9. ASSUME NEW g \in Goroutines, Write(g)
      PROVE  LookupInv'
  <2>1. /\ pc[g] \in {"types", "value"} /\ file' = Append(file, [block |-> block[g], kind |-> pc[g]])
        /\ UNCHANGED <<handle, readers, dec, answer>>
    BY <1>9 DEF Write
  <2>2. readers = {} /\ (\A h \in Goroutines : pc[h] \notin Looking) /\ pc[g] # "idle"
    BY <1>1, <2>1 DEF MuHeld
  <2>3. [block |-> block[g], kind |-> pc[g]] \in Part
    BY <2>1, <2>2 DEF TypeInv, BlockGiven, Part
  <2>4. ASSUME NEW h \in Goroutines, NEW b \in Block, answer[h].asked = b
        PROVE  RecordAt(file', 1, b) <=> RecordAt(file, 1, b)
    <3>1. answer[h] # NoAnswer
      BY <2>4 DEF NoAnswer
    <3>2. mode = "node"
      BY <2>1, <3>1, <1>1 DEF TypeInv, Stages, Values
    <3>3. Len(file) > 1
      BY <3>2 DEF FileInv, NodeRuns
    <3> QED
      BY <1>1, <2>1, <2>3, <3>3, RecordAtAppend
  <2> QED
    BY <1>1, <1>2, <2>1, <2>2, <2>4, PutLookup DEF Values
\* The steps of a look-up.
<1>10. ASSUME NEW g \in Goroutines, NEW b \in Block, LookupLock(g, b)
       PROVE  LookupInv'
  <2>1. /\ pc[g] = "idle" /\ pc' = [pc EXCEPT ![g] = "lookup"]
        /\ readers' = readers \cup {g} /\ block' = [block EXCEPT ![g] = b]
        /\ answer' = [answer EXCEPT ![g] = NoAnswer]
        /\ alone' = [h \in Goroutines |-> IF h = g THEN readers = {} ELSE alone[h] /\ h \notin readers]
        /\ UNCHANGED <<file, handle, pos, dec>>
    BY <1>10 DEF LookupLock
  <2>2. AloneReads'
    BY <1>1, <2>1 DEF AloneReads
  <2>3. LookupAnswers'
    <3> SUFFICES ASSUME NEW h \in Goroutines, answer'[h].asked # None
                 PROVE  answer'[h].got =
                          IF handle = "open" /\ RecordAt(file, 1, answer'[h].asked)
                          THEN answer'[h].asked ELSE None
      BY <2>1 DEF LookupAnswers
    <3>1. answer'[h] = answer[h]
      BY <1>1, <2>1 DEF Values, NoAnswer
    <3> QED
      BY <3>1 DEF LookupInv, LookupAnswers
  <2>4. ASSUME NEW h \in Goroutines
        PROVE  /\ pc'[h] # "decode" => dec'[h] = FreshDecoder
               /\ pc'[h] = "decode" => handle' = "open" /\ ~alone'[h]
    BY <1>1, <2>1 DEF Values, MuHeld, LookupInv
  <2> QED
    BY <2>2, <2>3, <2>4 DEF LookupInv
<1>11. ASSUME NEW g \in Goroutines, Rewind(g)
       PROVE  LookupInv'
  <2>1. pc[g] = "lookup" /\ pc[g] \in Looking /\ block[g] \in Block /\ readers # {}
    BY <1>1, <1>11 DEF Rewind, TypeInv, BlockGiven, MuHeld
  <2>2. CASE block[g] \notin index \/ handle = "closed"
    <3>1. Answer(g, None)
      BY <1>11, <2>2 DEF Rewind
    <3>2. ~(handle = "open" /\ RecordAt(file, 1, block[g]))
      <4> SUFFICES ASSUME handle = "open", RecordAt(file, 1, block[g]) PROVE FALSE
        OBVIOUS
      <4>1. 1 \in 1 .. Len(file)
        BY <1>1 DEF RecordAt
      <4>2. OnFile(block[g])
        BY <4>1 DEF OnFile
      <4>3. PICK h \in Goroutines : pc[h] = "index"
        BY <2>1, <2>2, <4>2 DEF FileInv, Indexed
      <4> QED
        BY <1>1, <2>1, <4>3 DEF MuHeld
    <3> QED
      BY <2>1, <3>1, <3>2, AnswerLookup
  <2>3. CASE block[g] \in index /\ handle # "closed"
    <3>1. /\ pos' = 0 /\ pc' = [pc EXCEPT ![g] = "decode"]
          /\ UNCHANGED <<disk, process, lock, block, lookup>>
      BY <1>11, <2>3 DEF Rewind
    <3>2. handle = "open" /\ dec[g] = FreshDecoder
      BY <1>1, <2>1, <2>3 DEF Values, LookupInv
    <3>3. Consumed(g, 0)' /\ 0 \in 0 .. 2 /\ 0 <= pos'
      BY <3>1, <3>2 DEF Consumed, FreshDecoder
    <3>4. \A h \in Goroutines : pc'[h] = "decode" => h = g \/ ~alone'[h]
      BY <1>1, <2>1, <3>1 DEF Values, MuHeld, LookupInv, AloneReads
    <3>5. \A h \in Goroutines : pc'[h] = "decode" => handle' = "open"
      BY <3>1, <3>2
    <3>6. \A h \in Goroutines : pc'[h] # "decode" => dec'[h] = FreshDecoder
      BY <1>1, <3>1 DEF Values, LookupInv
    <3>7. AloneReads' /\ LookupAnswers'
      BY <3>1 DEF LookupInv, AloneReads, LookupAnswers
    <3> QED
      BY <3>3, <3>4, <3>5, <3>6, <3>7 DEF LookupInv
  <2> QED
    BY <2>2, <2>3
<1>12. ASSUME NEW g \in Goroutines, NEW k \in 1 .. MaxParts, Read(g, k)
       PROVE  LookupInv'
  <2>1. /\ pc[g] = "decode" /\ dec[g].buf = <<>> /\ k \in pos + 1 .. Len(file) /\ pos' = k
        /\ dec' = [dec EXCEPT ![g].buf = SubSeq(file, pos + 1, k)]
        /\ UNCHANGED <<disk, process, lock, pc, block, answer, alone>>
    BY <1>12 DEF Read
  <2>2. pos \in Nat /\ pos <= Len(file) /\ g \in readers
    BY <1>1, <2>1 DEF Values, MuHeld
  <2>3. ASSUME alone[g] PROVE \E c \in 0 .. 2 : c <= pos' /\ Consumed(g, c)'
    <3>1. PICK c \in 0 .. 2 : c <= pos /\ Consumed(g, c)
      BY <2>1, <2>3 DEF LookupInv
    <3>2. c = pos
      BY <2>1, <2>2, <3>1 DEF Consumed
    <3>3. dec'[g].buf = SubSeq(file, c + 1, k) /\ dec'[g].typed = dec[g].typed
      <4>1. dec'[g] = [dec[g] EXCEPT !.buf = SubSeq(file, c + 1, k)]
        BY <1>1, <2>1, <3>2 DEF Values
      <4>2. dec[g] \in [buf : Seq(Part), typed : BOOLEAN]
        BY <1>1 DEF Values
      <4> QED
        BY <4>1, <4>2
    <3>4. Len(SubSeq(file, c + 1, k)) = k - c
      BY <1>1, <2>1, <2>2, <3>2
    <3>5. \A i \in 1 .. k - c : SubSeq(file, c + 1, k)[i] = file[c + i]
      BY <1>1, <2>1, <2>2, <3>2
    <3>6. Consumed(g, c)'
      BY <2>1, <3>1, <3>3, <3>4, <3>5 DEF Consumed
    <3> QED
      BY <2>1, <2>2, <3>1, <3>6
  <2>4. \A h \in Goroutines : pc'[h] = "decode" => h = g \/ ~alone'[h]
    BY <1>1, <2>1, <2>2 DEF Values, MuHeld, LookupInv, AloneReads
  <2>5. \A h \in Goroutines : pc'[h] = "decode" => handle' = "open"
    BY <2>1 DEF LookupInv
  <2>6. \A h \in Goroutines : pc'[h] # "decode" => dec'[h] = FreshDecoder
    BY <1>1, <2>1 DEF Values, LookupInv
  <2>7. AloneReads' /\ LookupAnswers'
    BY <2>1 DEF LookupInv, AloneReads, LookupAnswers
  <2> QED
    BY <2>1, <2>3, <2>4, <2>5, <2>6, <2>7 DEF LookupInv
<1>13. ASSUME NEW g \in Goroutines, ReadEOF(g)
       PROVE  LookupInv'
  <2>1. pc[g] = "decode" /\ dec[g].buf = <<>> /\ pos >= Len(file) /\ Answer(g, None)
    BY <1>13 DEF ReadEOF
  <2>2. ASSUME alone[g] PROVE ~RecordAt(file, 1, block[g])
    <3>1. PICK c \in 0 .. 2 : c <= pos /\ Consumed(g, c)
      BY <2>1, <2>2 DEF LookupInv
    <3>2. pos = Len(file)
      BY <1>1, <2>1 DEF Values
    <3>3. c = Len(file)
      BY <1>1, <2>1, <3>1, <3>2 DEF Consumed
    <3>4. RecordAt(file, 1, block[g]) => 1 < Len(file) /\ file[2] = ValueOf(block[g])
      BY <1>1, RecordAtParts
    <3> QED
      BY <1>1, <3>1, <3>3, <3>4 DEF Consumed, ValueOf, SameHeight
  <2> QED
    BY <2>1, <2>2, AnswerLookup
<1>14. ASSUME NEW g \in Goroutines, DecodePart(g)
       PROVE  LookupInv'
  BY <1>14, DecodeLookup
<1> QED
  BY <1>3, <1>4, <1>5, <1>6, <1>7, <1>8, <1>9, <1>10, <1>11, <1>12, <1>13, <1>14 DEF StoreNext

-----------------------------------------------------------------------------
(* What look-ups return *)

\* Without a question there is no answer.
AnswersAsked == \A g \in Goroutines : answer[g].asked = None => answer[g].got = None

\* An answer stays, is forgotten, or is one to a question.
AnswersChange ==
  \A g \in Goroutines :
    answer'[g] = answer[g] \/ answer'[g] = NoAnswer \/ answer'[g].asked # None

LEMMA ChangeKeepsAsked == AnswersAsked /\ AnswersChange => AnswersAsked'
  BY DEF AnswersAsked, AnswersChange, NoAnswer

LEMMA NextAnswersAsked == TypeInv /\ AnswersAsked /\ [StoreNext]_storeVars => AnswersAsked'
<1> SUFFICES ASSUME TypeInv, [StoreNext]_storeVars PROVE AnswersChange
  BY ChangeKeepsAsked
<1> USE DEF AnswersChange
<1>1. Values /\ MuHeld /\ BlockGiven
  BY TypeParts DEF TypeInv
<1>2. ASSUME NEW g \in Goroutines, pc[g] \in Looking, NEW b, Answer(g, b)
      PROVE  AnswersChange
  <2>1. block[g] # None
    BY <1>1, <1>2 DEF BlockGiven
  <2> QED
    BY <1>1, <1>2, <2>1 DEF Answer, Values
<1>3. CASE UNCHANGED storeVars
  BY <1>3 DEF storeVars
<1>4. ASSUME Ended PROVE AnswersChange
  BY <1>4 DEF Ended
<1>5. ASSUME NEW g \in Goroutines, PutFails(g)
      PROVE  AnswersChange
  BY <1>4, <1>5 DEF PutFails
<1>6. ASSUME (\E m \in {"boot", "inspect"} : Start(m)) \/ (\E k \in 0 .. MaxParts : Crash(k)) \/ Close
      PROVE  AnswersChange
  BY <1>4, <1>6 DEF Start, Crash, Close
<1>7. ASSUME NEW g \in Goroutines, NEW b \in Block, PutLock(g, b) \/ LookupLock(g, b)
      PROVE  AnswersChange
  BY <1>1, <1>7 DEF PutLock, LookupLock, Values
<1>8. ASSUME NEW g \in Goroutines,
             Seek(g) \/ Write(g) \/ WriteFails(g) \/ StoreHash(g) \/ Sync(g) \/ SyncFails(g)
      PROVE  AnswersChange
  BY <1>5, <1>8 DEF Seek, Write, WriteFails, StoreHash, Sync, SyncFails
<1>9. ASSUME NEW g \in Goroutines, Rewind(g) \/ ReadEOF(g) \/ DecodePart(g)
      PROVE  AnswersChange
  <2>1. pc[g] \in Looking
    BY <1>9 DEF Rewind, ReadEOF, DecodePart
  <2>2. UNCHANGED answer \/ \E b : Answer(g, b)
    BY <1>9 DEF Rewind, ReadEOF, DecodePart
  <2> QED
    BY <1>2, <2>1, <2>2
<1>10. ASSUME NEW g \in Goroutines, NEW k \in 1 .. MaxParts, Read(g, k)
       PROVE  AnswersChange
  BY <1>10 DEF Read
<1> QED
  BY <1>3, <1>6, <1>7, <1>8, <1>9, <1>10 DEF StoreNext

(***************************************************************************)
(* A look-up that nobody disturbs never returns another block than the one *)
(* it is asked for, although the search compares heights only and several  *)
(* blocks of the file may have the same.                                   *)
(***************************************************************************)
THEOREM LookupsNeverWrong == StoreSpec => []LookupNeverWrong
<1>1. LookupInv /\ AnswersAsked => LookupNeverWrong
  BY DEF LookupInv, LookupAnswers, AnswersAsked, LookupNeverWrong
<1>2. StoreInit => AnswersAsked
  BY DEF StoreInit, AnswersAsked, NoAnswer
<1> QED
  BY <1>1, <1>2, InitTypeInv, NextTypeInv, InitFileInv, NextFileInv, InitLookupInv, NextLookupInv,
     NextAnswersAsked, PTL
  DEF StoreSpec

(***************************************************************************)
(* On no file, whatever wrote it, does a look-up that nobody disturbs find *)
(* a block other than the first: all later ones get an error.  It is what  *)
(* the run Lookup shows on one file.                                       *)
(***************************************************************************)
THEOREM OnlyTheFirstIsFound == StoreSpec => []LookupAnswers
<1>1. LookupInv => LookupAnswers
  BY DEF LookupInv
<1> QED
  BY <1>1, InitTypeInv, NextTypeInv, InitFileInv, NextFileInv, InitLookupInv, NextLookupInv, PTL
  DEF StoreSpec
=============================================================================
