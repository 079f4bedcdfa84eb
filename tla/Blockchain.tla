----------------------------- MODULE Blockchain -----------------------------
(***************************************************************************)
(* One core.Blockchain and the goroutines that call its AddBlock           *)
(* (core/blockchain.go, core/validator.go, core/block.go).                 *)
(*                                                                         *)
(* A server calls AddBlock from its message loop (processBlock,            *)
(* processBlocksMessage) and from its validator loop (createNewBlock).     *)
(* Nothing serialises the two: ValidateBlock reads bc.Headers under        *)
(* bc.lock, the execution holds bc.stateLock, and the append takes bc.lock *)
(* again.  An action is one stretch of AddBlock between two such points;   *)
(* the critical sections of bc.lock are single actions, the long section   *)
(* of bc.stateLock has one action per transaction.                         *)
(*                                                                         *)
(* A block is a record: "id" stands for the hash of its header (the        *)
(* timestamp makes each header new), "data" for its DataHash, i.e. the     *)
(* list of transactions the validator hashed, "txs" for b.Transactions.    *)
(* All blocks that circulate are signed by some validator.                 *)
(***************************************************************************)
EXTENDS Ledger, Sequences

CONSTANTS
  Goroutines,  \* the goroutines that call AddBlock
  Validators,  \* those that run createNewBlock: they add blocks of their own making
               \* and recover from a panic; the others add what peers send
  None,        \* no goroutine
  Bodies,      \* the transaction lists that validators put in blocks
  MaxBuilt,    \* bound: how many blocks validators ever build
  Funded       \* balances of the accounts the embedding program created

ASSUME BlockchainAssumption ==
  /\ Validators \subseteq Goroutines
  /\ None \notin Goroutines
  /\ Bodies \subseteq Seq(Tx)
  /\ MaxBuilt \in Nat
  /\ Funded \in Accounts

VARIABLES
  chain,      \* bc.blocks; Headers, blockStore and txStore are written with it
  ledger,     \* AccountState, collectionState, mintState, contractState
  stateLock,  \* the goroutine that holds bc.stateLock, or None
  store,      \* what PersistentStore.Put has written
  crashed,    \* a panic nobody recovered has ended the process
  wire,       \* the blocks that peers have and may send
  made,       \* how many blocks have been built
  pc,         \* where each goroutine is in AddBlock
  blk,        \* its argument b, kept after it returns
  cur,        \* ValidateBlock's currentHeight
  todo,       \* transactions of b still to be executed
  done,       \* successfulTxs
  result      \* what its last AddBlock returned

nodeVars == <<chain, ledger, stateLock, store, crashed>>
callVars == <<pc, blk, cur, todo, done, result>>
vars == <<nodeVars, callVars, wire, made>>

Block == [id : Nat, height : Nat, prev : Nat, data : Seq(Tx), txs : Seq(Tx \cup {GenesisTx})]

\* The genesis header carries the zero DataHash: no list of transactions hashes to it.
Genesis == [id |-> 0, height |-> 0, prev |-> 0, data |-> <<>>, txs |-> <<GenesisTx>>]

Height == Len(chain) - 1

TypeOK ==
  /\ chain \in Seq(Block) \ {<<>>}
  /\ ledger \in LedgerState
  /\ stateLock \in Goroutines \cup {None}
  /\ store \in Seq(Block)
  /\ crashed \in BOOLEAN
  /\ wire \subseteq Block
  /\ made \in 0 .. MaxBuilt
  /\ pc \in [Goroutines -> {"idle", "check", "lock", "exec", "student", "append", "put"}]
  /\ blk \in [Goroutines -> Block]
  /\ cur \in [Goroutines -> Nat]
  /\ todo \in [Goroutines -> Seq(Tx \cup {GenesisTx})]
  /\ done \in [Goroutines -> Seq(Tx \cup {GenesisTx})]
  /\ result \in [Goroutines -> {"none", "ok", "known", "invalid", "ioerr", "panic"}]

\* NewBlockchain: genesis is executed, appended and stored without validation.
Init ==
  /\ chain = <<Genesis>>
  /\ ledger = GenesisLedger(Funded)
  /\ stateLock = None
  /\ store = <<Genesis>>
  /\ crashed = FALSE
  /\ wire = {Genesis}
  /\ made = 0
  /\ pc = [g \in Goroutines |-> "idle"]
  /\ blk = [g \in Goroutines |-> Genesis]
  /\ cur = [g \in Goroutines |-> 0]
  /\ todo = [g \in Goroutines |-> <<>>]
  /\ done = [g \in Goroutines |-> <<>>]
  /\ result = [g \in Goroutines |-> "none"]

-----------------------------------------------------------------------------
(* Blocks that reach AddBlock *)

\* A validator builds a block on the header it takes for the tip of its chain.
NewBlockFromPrevHeader(parent, txx) ==
  [id |-> made + 1, height |-> parent.height + 1, prev |-> parent.id,
   data |-> txx, txs |-> txx]

\* What is left of a sequence when some of its elements are dropped.
Sublists(seq) ==
  UNION {{[i \in 1 .. n |-> seq[pos[i]]] :
            pos \in {p \in [1 .. n -> DOMAIN seq] : \A i, j \in 1 .. n : i < j => p[i] < p[j]}} :
         n \in 0 .. Len(seq)}

\* A node that executed b passes on the transactions that succeeded there, under the same header.
Copies(b) ==
  IF b = Genesis THEN {b} ELSE {[b EXCEPT !.txs = s] : s \in Sublists(b.data)}

\* AddBlock is entered and ValidateBlock reads the current height.
Call(g, b) ==
  /\ ~crashed
  /\ pc[g] = "idle"
  /\ pc' = [pc EXCEPT ![g] = "check"]
  /\ blk' = [blk EXCEPT ![g] = b]
  /\ cur' = [cur EXCEPT ![g] = Height]
  /\ UNCHANGED <<nodeVars, todo, done, result>>

\* createNewBlock: the parent is a header of this chain, the tip when it was read.
CallOwn(g, parent, txx) ==
  /\ made < MaxBuilt
  /\ made' = made + 1
  /\ Call(g, NewBlockFromPrevHeader(parent, txx))
  /\ UNCHANGED wire

\* A peer sends a block, possibly again, out of order or as the copy of another node.
CallForeign(g, b) ==
  /\ Call(g, b)
  /\ UNCHANGED <<wire, made>>

\* A validator elsewhere builds a block on a header it knows.
BuildElsewhere(parent, txx) ==
  /\ made < MaxBuilt
  /\ made' = made + 1
  /\ wire' = wire \cup {NewBlockFromPrevHeader(parent, txx)}
  /\ UNCHANGED <<nodeVars, callVars>>

\* Faulty variants of Known and Valid, see the README.
KnownBelowTip(b) == b.height < Height

ValidWithoutParent(b, c) == b.height <= c + 1 /\ b.data = b.txs

ValidWithoutData(b, c) ==
  /\ b.height <= c + 1
  /\ b.height > 0 => chain[b.height].id = b.prev

Return(g, r) ==
  /\ pc' = [pc EXCEPT ![g] = "idle"]
  /\ result' = [result EXCEPT ![g] = r]

\* HasBlock
Known(b) == b.height <= Height

\* The checks of ValidateBlock after HasBlock, with the height c it read before.
Valid(b, c) ==
  /\ b.height <= c + 1
  /\ b.height > 0 => chain[b.height].id = b.prev
  /\ b.data = b.txs

-----------------------------------------------------------------------------
(* Faulty variants of what follows, see the README.  None is part of Next. *)

LockStateShared(g) ==
  /\ ~crashed
  /\ pc[g] = "lock"
  /\ stateLock' = g
  /\ pc' = [pc EXCEPT ![g] = "exec"]
  /\ todo' = [todo EXCEPT ![g] = blk[g].txs]
  /\ UNCHANGED <<chain, ledger, store, crashed, wire, made, blk, cur, done, result>>

RejectWaiting(g) ==
  /\ ~crashed
  /\ pc[g] = "check"
  /\ ~Known(blk[g]) => ~Valid(blk[g], cur[g])
  /\ pc' = IF Known(blk[g]) THEN [pc EXCEPT ![g] = "idle"] ELSE pc
  /\ cur' = [cur EXCEPT ![g] = Height]
  /\ UNCHANGED <<nodeVars, wire, made, blk, todo, done, result>>

UnlockStateKeepingTxs(g) ==
  /\ ~crashed
  /\ pc[g] = "exec"
  /\ todo[g] = <<>>
  /\ stateLock' = None
  /\ done' = [done EXCEPT ![g] = <<>>]
  /\ pc' = [pc EXCEPT ![g] = "append"]
  /\ UNCHANGED <<chain, ledger, store, crashed, wire, made, blk, cur, todo, result>>

AppendAndStore(g) ==
  /\ ~crashed
  /\ pc[g] = "append"
  /\ chain' = Append(chain, blk[g])
  /\ store' = Append(store, blk[g])
  /\ wire' = wire \cup {[blk[g] EXCEPT !.txs = blk[g].data]}
  /\ pc' = [pc EXCEPT ![g] = "put"]
  /\ UNCHANGED <<ledger, stateLock, crashed, made, blk, cur, todo, done, result>>

-----------------------------------------------------------------------------
(* AddBlock *)

Reject(g) ==
  /\ ~crashed
  /\ pc[g] = "check"
  /\ \/ Known(blk[g]) /\ Return(g, "known")
     \/ ~Known(blk[g]) /\ ~Valid(blk[g], cur[g]) /\ Return(g, "invalid")
  /\ cur' = [cur EXCEPT ![g] = 0]
  /\ UNCHANGED <<nodeVars, wire, made, blk, todo, done>>

Accept(g) ==
  /\ ~crashed
  /\ pc[g] = "check"
  /\ ~Known(blk[g])
  /\ Valid(blk[g], cur[g])
  /\ pc' = [pc EXCEPT ![g] = "lock"]
  /\ cur' = [cur EXCEPT ![g] = 0]
  /\ UNCHANGED <<nodeVars, wire, made, blk, todo, done, result>>

LockState(g) ==
  /\ ~crashed
  /\ pc[g] = "lock"
  /\ stateLock = None
  /\ stateLock' = g
  /\ pc' = [pc EXCEPT ![g] = "exec"]
  /\ todo' = [todo EXCEPT ![g] = blk[g].txs]
  /\ UNCHANGED <<chain, ledger, store, crashed, wire, made, blk, cur, done, result>>

\* The transaction handleTransaction is about to execute, and how that ends.
Executing(g, outcome) ==
  /\ ~crashed
  /\ pc[g] = "exec"
  /\ todo[g] # <<>>
  /\ Outcome(ledger, Head(todo[g])) = outcome
  /\ ledger' = Effect(ledger, Head(todo[g]))

ExecOk(g) ==
  /\ Executing(g, "ok")
  /\ todo' = [todo EXCEPT ![g] = Tail(@)]
  /\ done' = [done EXCEPT ![g] = Append(@, Head(todo[g]))]
  /\ UNCHANGED <<chain, stateLock, store, crashed, wire, made, pc, blk, cur, result>>

\* The error is logged and the transaction left out; its effects stay.
ExecError(g) ==
  /\ Executing(g, "error")
  /\ todo' = [todo EXCEPT ![g] = Tail(@)]
  /\ UNCHANGED <<chain, stateLock, store, crashed, wire, made, pc, blk, cur, done, result>>

\* handleStudentTx waits for the lock its own goroutine holds: there is no way on.
ExecStudent(g) ==
  /\ Executing(g, "stuck")
  /\ pc' = [pc EXCEPT ![g] = "student"]
  /\ UNCHANGED <<chain, stateLock, store, crashed, wire, made, blk, cur, todo, done, result>>

\* The unlock is not deferred: a recovered panic leaves stateLock locked.
ExecPanic(g) ==
  /\ Executing(g, "panic")
  /\ IF g \in Validators
     THEN Return(g, "panic") /\ UNCHANGED crashed
     ELSE crashed' = TRUE /\ UNCHANGED <<pc, result>>
  /\ todo' = [todo EXCEPT ![g] = <<>>]
  /\ done' = [done EXCEPT ![g] = <<>>]
  /\ UNCHANGED <<chain, stateLock, store, wire, made, blk, cur>>

\* stateLock is released, then b.Transactions becomes the successful ones.
UnlockState(g) ==
  /\ ~crashed
  /\ pc[g] = "exec"
  /\ todo[g] = <<>>
  /\ stateLock' = None
  /\ blk' = [blk EXCEPT ![g].txs = done[g]]
  /\ done' = [done EXCEPT ![g] = <<>>]
  /\ pc' = [pc EXCEPT ![g] = "append"]
  /\ UNCHANGED <<chain, ledger, store, crashed, wire, made, cur, todo, result>>

AppendBlock(g) ==
  /\ ~crashed
  /\ pc[g] = "append"
  /\ chain' = Append(chain, blk[g])
  /\ wire' = wire \cup {[blk[g] EXCEPT !.txs = blk[g].data]}
  /\ pc' = [pc EXCEPT ![g] = "put"]
  /\ UNCHANGED <<ledger, stateLock, store, crashed, made, blk, cur, todo, done, result>>

PutOk(g) ==
  /\ ~crashed
  /\ pc[g] = "put"
  /\ store' = Append(store, blk[g])
  /\ Return(g, "ok")
  /\ UNCHANGED <<chain, ledger, stateLock, crashed, wire, made, blk, cur, todo, done>>

\* AddBlock returns an error although the block is in the chain.
PutFails(g) ==
  /\ ~crashed
  /\ pc[g] = "put"
  /\ Return(g, "ioerr")
  /\ UNCHANGED <<nodeVars, wire, made, blk, cur, todo, done>>

-----------------------------------------------------------------------------
Proceed(g) ==
  \/ Reject(g) \/ Accept(g)
  \/ ExecOk(g) \/ ExecError(g) \/ ExecStudent(g) \/ ExecPanic(g)
  \/ UnlockState(g) \/ AppendBlock(g) \/ PutOk(g) \/ PutFails(g)

Enter(g) ==
  \/ /\ g \in Validators
     /\ \E i \in 1 .. Len(chain), txx \in Bodies : CallOwn(g, chain[i], txx)
  \/ /\ g \notin Validators
     /\ \E b \in wire : \E c \in Copies(b) : CallForeign(g, c)

Next ==
  \/ \E parent \in wire, txx \in Bodies : BuildElsewhere(parent, txx)
  \/ \E g \in Goroutines : Enter(g) \/ LockState(g) \/ Proceed(g)

Spec == Init /\ [][Next]_vars

(***************************************************************************)
(* A running goroutine is scheduled, and sync.RWMutex hands the lock to a  *)
(* waiting writer in the end: strong fairness for the one lock that is     *)
(* held across steps.  Nobody is obliged to call AddBlock.                 *)
(***************************************************************************)
FairSpec ==
  /\ Spec
  /\ \A g \in Goroutines : WF_vars(Proceed(g)) /\ SF_vars(LockState(g))

-----------------------------------------------------------------------------
(* Properties *)

(***************************************************************************)
(* However many goroutines add blocks, every block but genesis follows a   *)
(* block of the same chain: its prev is the id of the block at the index   *)
(* its height names.  ValidateBlock checks that before the execution, the  *)
(* append comes after it.                                                  *)
(***************************************************************************)
ParentLinked ==
  /\ Len(chain) > 0 /\ chain[1] = Genesis
  /\ \A i \in 2 .. Len(chain) :
       /\ chain[i].height \in 1 .. (i - 1)
       /\ chain[chain[i].height].id = chain[i].prev

(***************************************************************************)
(* Headers[i] has height i: what Height, GetHeader(b.Height - 1),          *)
(* HasBlock and the sync protocol take for granted.  It needs a single     *)
(* writer, for the height checked by ValidateBlock to be the index that    *)
(* the append fills.                                                       *)
(***************************************************************************)
HeightIsIndex == \A i \in 1 .. Len(chain) : chain[i].height = i - 1

\* No block enters the chain twice, though peers send the same block again and again (HasBlock).
NoBlockTwice ==
  \A i, j \in 1 .. Len(chain) : chain[i].id = chain[j].id => i = j

\* stateLock is held by whoever executes transactions, even while it waits for the lock itself.
ExecutionExclusive ==
  \A g \in Goroutines : pc[g] \in {"exec", "student"} => stateLock = g

\* stateLock is held by a goroutine that executes nothing: it waits for the lock itself, or has panicked.
Abandoned == stateLock # None /\ pc[stateLock] # "exec"

(***************************************************************************)
(* Every call of AddBlock returns - no caller waits for stateLock or       *)
(* executes for ever - unless a student transaction or a program that      *)
(* panics has abandoned the lock or stopped the process.                   *)
(***************************************************************************)
AddBlockReturns ==
  \A g \in Goroutines : pc[g] # "idle" ~> pc[g] = "idle" \/ crashed \/ Abandoned
=============================================================================
