-------------------------- MODULE PersistentStore --------------------------
(***************************************************************************)
(* The file of blocks (core/persistent_storage.go), the processes that     *)
(* open it one after the other, and crashes.                               *)
(*                                                                         *)
(* A record is what one Put writes: the types that a gob encoder describes *)
(* before the first value it encodes, then the value.  The file is a       *)
(* sequence of these parts.                                                *)
(***************************************************************************)
EXTENDS Naturals, Sequences, FiniteSets

CONSTANTS
  Goroutines,  \* of a process that use its store
  Main,        \* the one that calls NewBlockchain
  Block,       \* blocks; each stands for its hash, too
  GenesisBlock,
  HeightOf,    \* the height of each block
  None,        \* no block, no goroutine
  MaxParts     \* bound: the length of the file

ASSUME StoreAssumption ==
  /\ Main \in Goroutines
  /\ GenesisBlock \in Block
  /\ None \notin Block \cup Goroutines
  /\ HeightOf \in [Block -> Nat]
  /\ \A b \in Block \ {GenesisBlock} : HeightOf[b] # HeightOf[GenesisBlock]
  /\ MaxParts \in Nat

VARIABLES
  \* on disk
  file,     \* what has been written
  synced,   \* how many parts of it survive a loss of power
  \* a process
  mode,     \* "down", "boot" (NewBlockchain), "node" (its servers run) or "inspect" (cmd/inspect)
  handle,   \* whether blocksFile is "open" or "closed"
  pos,      \* the position of blocksFile, which all goroutines share
  index,    \* the keys of blockHashes
  readers, writer,  \* who holds mu
  \* its goroutines
  pc, block,  \* where each is, and the block it puts or looks up
  dec,        \* the decoder of a look-up
  \* history
  alone,      \* nobody else has read during the look-up
  answer,     \* what the last look-up returned, if it was alone
  stored      \* blocks for which Put has returned nil in some process

disk == <<file, synced>>
process == <<mode, handle, index, stored>>
lock == <<readers, writer>>
lookup == <<dec, answer, alone>>
storeVars == <<disk, process, pos, lock, pc, block, lookup>>

Kinds == {"types", "value"}

Part == [block : Block, kind : Kinds]

Record(b) == <<[block |-> b, kind |-> "types"], [block |-> b, kind |-> "value"]>>

\* A record of b starts at i and is complete.
RecordAt(f, i, b) == i < Len(f) /\ SubSeq(f, i, i + 1) = Record(b)

OnFile(b) == \E i \in 1 .. Len(file) : RecordAt(file, i, b)

\* What a decoder has read ahead, and whether types have been described to it.
FreshDecoder == [buf |-> <<>>, typed |-> FALSE]

NoAnswer == [asked |-> None, got |-> None]

StoreInit ==
  /\ file = <<>>
  /\ synced = 0
  /\ mode = "down"
  /\ handle = "closed"
  /\ pos = 0
  /\ index = {}
  /\ readers = {}
  /\ writer = None
  /\ pc = [g \in Goroutines |-> "idle"]
  /\ block = [g \in Goroutines |-> None]
  /\ dec = [g \in Goroutines |-> FreshDecoder]
  /\ answer = [g \in Goroutines |-> NoAnswer]
  /\ alone = [g \in Goroutines |-> TRUE]
  /\ stored = {}

-----------------------------------------------------------------------------
(* Processes *)

(***************************************************************************)
(* loadBlockHashes decodes the file with one decoder.  The second record   *)
(* describes its types again, which a decoder refuses; so does it a record *)
(* that ends early.  The error is lost in a shadowed variable:             *)
(* NewPersistentStore closes the file and returns the store.               *)
(***************************************************************************)
Readable(f) == f = <<>> \/ (Len(f) = 2 /\ \E b \in Block : RecordAt(f, 1, b))

\* Faulty variant of HandleAfterLoad, see the README.
HandleKept(f) == "open"

HandleAfterLoad(f) == IF Readable(f) THEN "open" ELSE "closed"

LoadedIndex(f) == {b \in Block : RecordAt(f, 1, b)}

\* A process starts, a node or cmd/inspect, and opens the store.
Start(m) ==
  /\ mode = "down"
  /\ mode' = m
  /\ handle' = HandleAfterLoad(file)
  /\ pos' = Len(file)
  /\ index' = LoadedIndex(file)
  /\ UNCHANGED <<disk, stored, lock, pc, block, lookup>>

\* What is left when a process has ended.
Ended ==
  /\ mode' = "down"
  /\ handle' = "closed"
  /\ pos' = 0
  /\ index' = {}
  /\ readers' = {}
  /\ writer' = None
  /\ pc' = [g \in Goroutines |-> "idle"]
  /\ block' = [g \in Goroutines |-> None]
  /\ dec' = [g \in Goroutines |-> FreshDecoder]
  /\ answer' = [g \in Goroutines |-> NoAnswer]
  /\ alone' = [g \in Goroutines |-> TRUE]

\* The process is killed, or the power fails and parts that are not synced are lost.
Crash(k) ==
  /\ mode # "down"
  /\ k \in synced .. Len(file)
  /\ file' = SubSeq(file, 1, k)
  /\ Ended
  /\ UNCHANGED <<synced, stored>>

\* cmd/inspect closes the store and exits.
Close ==
  /\ mode = "inspect"
  /\ readers = {}
  /\ Ended
  /\ UNCHANGED <<disk, stored>>

-----------------------------------------------------------------------------
(* Put *)

Goto(g, label) == pc' = [pc EXCEPT ![g] = label]

\* NewBlockchain puts the genesis block, then AddBlock any block; servers that the process makes
\* later put the genesis block again.
MayPut(g, b) == mode = "node" \/ (mode = "boot" /\ g = Main /\ b = GenesisBlock)

\* Faulty variant of PutLock, see the README.
PutLockShared(g, b) ==
  /\ pc[g] = "idle"
  /\ MayPut(g, b)
  /\ handle = "open" => Len(file) + 2 <= MaxParts
  /\ writer = None
  /\ writer' = g
  /\ block' = [block EXCEPT ![g] = b]
  /\ Goto(g, "seek")
  /\ answer' = [answer EXCEPT ![g] = NoAnswer]
  /\ UNCHANGED <<disk, process, pos, readers, dec, alone>>

PutLock(g, b) ==
  /\ pc[g] = "idle"
  /\ MayPut(g, b)
  /\ handle = "open" => Len(file) + 2 <= MaxParts
  /\ readers = {} /\ writer = None
  /\ writer' = g
  /\ block' = [block EXCEPT ![g] = b]
  /\ Goto(g, "seek")
  /\ answer' = [answer EXCEPT ![g] = NoAnswer]
  /\ UNCHANGED <<disk, process, pos, readers, dec, alone>>

PutReturns(g) ==
  /\ writer' = None
  /\ block' = [block EXCEPT ![g] = None]
  /\ Goto(g, "idle")
  /\ UNCHANGED readers

\* AddBlock passes the error on; NewBlockchain does, and makeServer exits.
PutFails(g) ==
  IF mode = "boot"
  THEN Ended /\ UNCHANGED <<disk, stored>>
  ELSE PutReturns(g) /\ UNCHANGED <<disk, process, pos, lookup>>

\* Faulty variant of Seek, see the README.
SeekAndStoreHash(g) ==
  /\ pc[g] = "seek"
  /\ IF handle = "closed"
     THEN PutFails(g)
     ELSE /\ pos' = Len(file)
          /\ Goto(g, "types")
          /\ index' = index \cup {block[g]}
          /\ UNCHANGED <<disk, mode, handle, stored, lock, block, lookup>>

Seek(g) ==
  /\ pc[g] = "seek"
  /\ IF handle = "closed"
     THEN PutFails(g)
     ELSE /\ pos' = Len(file)
          /\ Goto(g, "types")
          /\ UNCHANGED <<disk, process, lock, block, lookup>>

\* A write of the encoder.
Write(g) ==
  /\ pc[g] \in Kinds
  /\ file' = Append(file, [block |-> block[g], kind |-> pc[g]])
  /\ pos' = Len(file) + 1
  /\ Goto(g, IF pc[g] = "types" THEN "value" ELSE "index")
  /\ UNCHANGED <<synced, process, lock, block, lookup>>

\* The encoder meets what it cannot encode, or the disk is full: what it has written stays.
WriteFails(g) == pc[g] \in Kinds /\ PutFails(g)

StoreHash(g) ==
  /\ pc[g] = "index"
  /\ index' = index \cup {block[g]}
  /\ Goto(g, "sync")
  /\ UNCHANGED <<disk, mode, handle, stored, pos, lock, block, lookup>>

\* Faulty variant of Sync, see the README.
SyncSkipped(g) ==
  /\ pc[g] = "sync"
  /\ stored' = stored \cup {block[g]}
  /\ mode' = "node"
  /\ PutReturns(g)
  /\ UNCHANGED <<disk, handle, index, pos, lookup>>

Sync(g) ==
  /\ pc[g] = "sync"
  /\ synced' = Len(file)
  /\ stored' = stored \cup {block[g]}
  /\ mode' = "node"
  /\ PutReturns(g)
  /\ UNCHANGED <<file, handle, index, pos, lookup>>

SyncFails(g) == pc[g] = "sync" /\ PutFails(g)

-----------------------------------------------------------------------------
(* GetBlockByHash *)

LookupLock(g, b) ==
  /\ pc[g] = "idle"
  /\ mode = "node" \/ (mode = "inspect" /\ g = Main)
  /\ writer = None
  /\ readers' = readers \cup {g}
  /\ block' = [block EXCEPT ![g] = b]
  /\ answer' = [answer EXCEPT ![g] = NoAnswer]
  /\ alone' = [h \in Goroutines |-> IF h = g THEN readers = {} ELSE alone[h] /\ h \notin readers]
  /\ Goto(g, "lookup")
  /\ UNCHANGED <<disk, process, pos, writer, dec>>

\* GetBlockByHash returns the block b, or an error.  What it returns when another goroutine has moved
\* the position meanwhile is left open.
Answer(g, b) ==
  /\ answer' = [answer EXCEPT ![g] =
       IF alone[g] THEN [asked |-> block[g], got |-> b] ELSE NoAnswer]
  /\ alone' = [alone EXCEPT ![g] = TRUE]
  /\ dec' = [dec EXCEPT ![g] = FreshDecoder]
  /\ readers' = readers \ {g}
  /\ block' = [block EXCEPT ![g] = None]
  /\ Goto(g, "idle")
  /\ UNCHANGED <<disk, process, pos, writer>>

Rewind(g) ==
  /\ pc[g] = "lookup"
  /\ IF block[g] \notin index \/ handle = "closed"
     THEN Answer(g, None)
     ELSE /\ pos' = 0
          /\ Goto(g, "decode")
          /\ UNCHANGED <<disk, process, lock, block, lookup>>

\* The decoder reads ahead, as much as one Read gives it.
Read(g, k) ==
  /\ pc[g] = "decode"
  /\ dec[g].buf = <<>>
  /\ k \in pos + 1 .. Len(file)
  /\ dec' = [dec EXCEPT ![g].buf = SubSeq(file, pos + 1, k)]
  /\ pos' = k
  /\ UNCHANGED <<disk, process, lock, pc, block, answer, alone>>

\* The end of the file, after a complete record or within one.
ReadEOF(g) ==
  /\ pc[g] = "decode"
  /\ dec[g].buf = <<>>
  /\ pos >= Len(file)
  /\ Answer(g, None)

SameHeight(b, c) == HeightOf[b] = HeightOf[c]

\* Faulty variant of DecodePart, see the README.
DecodePartAnew(g) ==
  /\ pc[g] = "decode"
  /\ dec[g].buf # <<>>
  /\ LET part == Head(dec[g].buf)
     IN  IF part.kind = "value" /\ ~dec[g].typed THEN Answer(g, None)
         ELSE IF part.kind = "value" /\ SameHeight(part.block, block[g]) THEN Answer(g, part.block)
         ELSE /\ dec' = [dec EXCEPT ![g] = [buf |-> Tail(@.buf), typed |-> part.kind = "types"]]
              /\ UNCHANGED <<disk, process, pos, lock, pc, block, answer, alone>>

\* A decoder wants types once, and before the first value.
DecodePart(g) ==
  /\ pc[g] = "decode"
  /\ dec[g].buf # <<>>
  /\ LET part  == Head(dec[g].buf)
         wants == IF dec[g].typed THEN "value" ELSE "types"
     IN  IF part.kind # wants THEN Answer(g, None)
         ELSE IF wants = "value" /\ SameHeight(part.block, block[g]) THEN Answer(g, part.block)
         ELSE /\ dec' = [dec EXCEPT ![g] = [buf |-> Tail(@.buf), typed |-> TRUE]]
              /\ UNCHANGED <<disk, process, pos, lock, pc, block, answer, alone>>

-----------------------------------------------------------------------------
StoreNext ==
  \/ \E m \in {"boot", "inspect"} : Start(m)
  \/ \E k \in 0 .. MaxParts : Crash(k)
  \/ Close
  \/ \E g \in Goroutines :
       \/ \E b \in Block : PutLock(g, b) \/ LookupLock(g, b)
       \/ Seek(g) \/ Write(g) \/ WriteFails(g) \/ StoreHash(g) \/ Sync(g) \/ SyncFails(g)
       \/ Rewind(g) \/ ReadEOF(g) \/ DecodePart(g)
       \/ \E k \in 1 .. MaxParts : Read(g, k)

StoreSpec == StoreInit /\ [][StoreNext]_storeVars

-----------------------------------------------------------------------------
(* Properties *)

\* Every variable keeps its type, and mu has either a writer or those readers that look blocks up.
StoreTypeOK ==
  /\ file \in Seq(Part) /\ Len(file) <= MaxParts
  /\ synced \in 0 .. Len(file)
  /\ mode \in {"down", "boot", "node", "inspect"}
  /\ handle \in {"open", "closed"}
  /\ pos \in 0 .. Len(file)
  /\ index \subseteq Block
  /\ readers \subseteq Goroutines
  /\ writer \in Goroutines \cup {None}
  /\ pc \in [Goroutines -> {"idle", "seek", "index", "sync", "lookup", "decode"} \cup Kinds]
  /\ block \in [Goroutines -> Block \cup {None}]
  /\ dec \in [Goroutines -> [buf : Seq(Part), typed : BOOLEAN]]
  /\ answer \in [Goroutines -> [asked : Block \cup {None}, got : Block \cup {None}]]
  /\ alone \in [Goroutines -> BOOLEAN]
  /\ stored \subseteq Block
  /\ readers = {g \in Goroutines : pc[g] \in {"lookup", "decode"}}
  /\ {g \in Goroutines : pc[g] \in {"seek", "index", "sync"} \cup Kinds} = {writer} \ {None}
  /\ writer # None => readers = {}

(***************************************************************************)
(* blockHashes names only blocks that are complete in the file, whatever   *)
(* write or crash cuts a record short: the entry is made after the record. *)
(***************************************************************************)
IndexBacked == \A b \in index : OnFile(b)

(***************************************************************************)
(* A block for which Put has returned nil is in the file for good, through *)
(* any crash and restart.                                                  *)
(***************************************************************************)
Durable == \A b \in stored : OnFile(b)

(***************************************************************************)
(* A running node has an open store whose index names every complete       *)
(* record, except for one that is about to be entered.  A store that could *)
(* not load its file is closed, and the node does not get to run, because  *)
(* the genesis block cannot be put.                                        *)
(***************************************************************************)
NodeKnowsItsFile ==
  mode = "node" =>
    /\ handle = "open"
    /\ \A b \in Block : OnFile(b) =>
         b \in index \/ \E g \in Goroutines : block[g] = b /\ pc[g] = "index"

(***************************************************************************)
(* An undisturbed look-up returns the block it was asked for or an error,  *)
(* never another block, although it searches by height and two blocks may  *)
(* have the same one.                                                      *)
(***************************************************************************)
LookupNeverWrong ==
  \A g \in Goroutines : answer[g].got \in {None, answer[g].asked}

(***************************************************************************)
(* A block that Put has stored with success is found by its hash, as       *)
(* TestPersistentStore asserts of three blocks.  It is not, if it is not   *)
(* the first one of the file: each Put describes its types anew, which the *)
(* decoder that is still open refuses.                                     *)
(***************************************************************************)
LookupFindsStored ==
  [][\A g \in Goroutines : LET a == answer'[g] IN
       mode = "node" /\ a # answer[g] /\ a.asked \in stored => a.got = a.asked]_storeVars
=============================================================================
