------------------------------- MODULE Server -------------------------------
(***************************************************************************)
(* One network.Server (network/server.go): its message loop and, if it is  *)
(* a validator, its validator loop, on one Blockchain and one TxPool.      *)
(*                                                                         *)
(* Start handles one message after the other: transactions from peers and  *)
(* from the API (processTransaction), blocks (processBlock and, for each   *)
(* block of an answer, processBlocksMessage).  validatorLoop runs          *)
(* createNewBlock at every tick.  The two goroutines meet in the chain,    *)
(* through the steps of AddBlock, and in the pool, whose pending slice the *)
(* validator loop reads without a lock from Pending until its block has    *)
(* been executed.                                                          *)
(***************************************************************************)
EXTENDS Blockchain

CONSTANTS
  Main,       \* the goroutine of Start
  Loop,       \* the goroutine of validatorLoop; not in Goroutines if isValidator is false
  MaxLength,  \* of the pool
  Empty       \* see TxPool

ASSUME ServerAssumption ==
  /\ Main \in Goroutines /\ Goroutines \subseteq {Main, Loop}
  /\ Main # Loop
  /\ Validators = Goroutines \ {Main}
  /\ MaxLength \in Nat \ {0}
  /\ Empty \notin Tx

VARIABLES
  all, pending, taken,  \* the pool, see TxPool
  step,                 \* where each goroutine is outside AddBlock
  tip,                  \* createNewBlock's currentHeader
  rest,                 \* transactions of a received block still to be removed from the pool
  arrival               \* history: the transactions put into the pool, in order

Pool == INSTANCE TxPool

poolVars == <<all, pending, taken>>
stepVars == <<step, tip, rest>>
serverVars == <<vars, poolVars, stepVars, arrival>>

ServerTypeOK ==
  /\ TypeOK
  /\ Pool!TypeOK
  /\ step \in [Goroutines -> {"idle", "tip", "taken", "adding", "added"}]
  /\ tip \in Block
  /\ rest \in Seq(Tx)
  /\ arrival \in Seq(Tx)

ServerInit ==
  /\ Init
  /\ Pool!Init
  /\ step = [g \in Goroutines |-> "idle"]
  /\ tip = Genesis
  /\ rest = <<>>
  /\ arrival = <<>>

Goto(g, s) == step' = [step EXCEPT ![g] = s]

(***************************************************************************)
(* The block that the validator loop has handed to AddBlock still holds    *)
(* the slice of the pool; the transactions are read when they are hashed   *)
(* and, one by one, when they are executed.  This conjunct belongs to      *)
(* every change of the pool.                                               *)
(***************************************************************************)
Aliased == Loop \in Goroutines /\ pc[Loop] \in {"check", "lock", "exec"}

BlockReadsPool ==
  IF Aliased
  THEN LET txx == Pool!View'
       IN  /\ blk' = [blk EXCEPT ![Loop].txs = txx]
           /\ todo' = [todo EXCEPT ![Loop] = SubSeq(txx, Len(txx) - Len(@) + 1, Len(txx))]
  ELSE UNCHANGED <<blk, todo>>

PoolStep ==
  /\ ~crashed
  /\ BlockReadsPool
  /\ UNCHANGED <<nodeVars, wire, made, pc, cur, done, result>>

-----------------------------------------------------------------------------
(* The message loop *)

\* Faulty variant of BlockRefused, see the README.
BlockRefusedRemoved ==
  /\ ~crashed
  /\ step[Main] = "adding" /\ pc[Main] = "idle"
  /\ result[Main] # "ok"
  /\ Goto(Main, "added")
  /\ rest' = blk[Main].data
  /\ UNCHANGED <<vars, poolVars, tip, arrival>>

\* processTransaction, for a transaction with a valid signature.
ProcessTransaction(tx) ==
  /\ step[Main] = "idle"
  /\ ~Pool!Contains(tx)
  /\ Pool!Add(tx)
  /\ arrival' = Append(arrival, tx)
  /\ PoolStep
  /\ UNCHANGED stepVars

\* processBlock up to the call of AddBlock.
ProcessBlock(b) ==
  /\ step[Main] = "idle"
  /\ CallForeign(Main, b)
  /\ Goto(Main, "adding")
  /\ UNCHANGED <<poolVars, tip, rest, arrival>>

\* AddBlock has returned an error: nothing is removed from the pool.
BlockRefused ==
  /\ ~crashed
  /\ step[Main] = "adding" /\ pc[Main] = "idle"
  /\ result[Main] # "ok"
  /\ Goto(Main, "idle")
  /\ UNCHANGED <<vars, poolVars, tip, rest, arrival>>

BlockAdded ==
  /\ ~crashed
  /\ step[Main] = "adding" /\ pc[Main] = "idle"
  /\ result[Main] = "ok"
  /\ Goto(Main, "added")
  /\ rest' = blk[Main].txs
  /\ UNCHANGED <<vars, poolVars, tip, arrival>>

\* One round of the loop that removes the transactions of the block from the pool.
RemoveTx ==
  /\ step[Main] = "added"
  /\ rest # <<>>
  /\ Pool!Remove(Head(rest))
  /\ rest' = Tail(rest)
  /\ PoolStep
  /\ UNCHANGED <<step, tip, arrival>>

BlockProcessed ==
  /\ ~crashed
  /\ step[Main] = "added" /\ rest = <<>>
  /\ Goto(Main, "idle")
  /\ UNCHANGED <<vars, poolVars, tip, rest, arrival>>

-----------------------------------------------------------------------------
(* The validator loop *)

\* GetHeader(Height()).
ReadTip ==
  /\ ~crashed
  /\ Loop \in Goroutines
  /\ step[Loop] = "idle"
  /\ made < MaxBuilt
  /\ tip' = chain[Len(chain)]
  /\ Goto(Loop, "tip")
  /\ UNCHANGED <<vars, poolVars, rest, arrival>>

TakePending ==
  /\ ~crashed
  /\ Loop \in Goroutines
  /\ step[Loop] = "tip"
  /\ Pool!Pending
  /\ Goto(Loop, "taken")
  /\ UNCHANGED <<vars, tip, rest, arrival>>

\* NewBlockFromPrevHeader hashes the transactions; then Sign and the call of AddBlock.
AddNewBlock ==
  /\ Loop \in Goroutines
  /\ step[Loop] = "taken"
  /\ CallOwn(Loop, tip, Pool!View)
  /\ Goto(Loop, "adding")
  /\ UNCHANGED <<poolVars, tip, rest, arrival>>

\* Faulty variants of NewBlockRefused and ClearPending, see the README.
NewBlockRefusedClearing ==
  /\ Loop \in Goroutines
  /\ step[Loop] = "adding" /\ pc[Loop] = "idle"
  /\ result[Loop] # "ok"
  /\ Pool!ClearPending
  /\ PoolStep
  /\ Goto(Loop, "idle")
  /\ UNCHANGED <<tip, rest, arrival>>

ClearPendingSkipped ==
  /\ ~crashed
  /\ Loop \in Goroutines
  /\ step[Loop] = "adding" /\ pc[Loop] = "idle"
  /\ result[Loop] = "ok"
  /\ Goto(Loop, "idle")
  /\ UNCHANGED <<vars, poolVars, tip, rest, arrival>>

\* A known block, an error or a recovered panic: the pool keeps everything.
NewBlockRefused ==
  /\ ~crashed
  /\ Loop \in Goroutines
  /\ step[Loop] = "adding" /\ pc[Loop] = "idle"
  /\ result[Loop] # "ok"
  /\ Goto(Loop, "idle")
  /\ UNCHANGED <<vars, poolVars, tip, rest, arrival>>

\* Everything pending is dropped, then the block is broadcast.
ClearPending ==
  /\ Loop \in Goroutines
  /\ step[Loop] = "adding" /\ pc[Loop] = "idle"
  /\ result[Loop] = "ok"
  /\ Pool!ClearPending
  /\ PoolStep
  /\ Goto(Loop, "idle")
  /\ UNCHANGED <<tip, rest, arrival>>

-----------------------------------------------------------------------------
InAddBlock ==
  /\ \E g \in Goroutines : LockState(g) \/ Proceed(g)
  /\ UNCHANGED <<poolVars, stepVars, arrival>>

Elsewhere ==
  /\ \E parent \in wire, txx \in Bodies : BuildElsewhere(parent, txx)
  /\ UNCHANGED <<poolVars, stepVars, arrival>>

ServerNext ==
  \/ \E tx \in Tx : ProcessTransaction(tx)
  \/ \E b \in wire : \E c \in Copies(b) : ProcessBlock(c)
  \/ BlockRefused \/ BlockAdded \/ RemoveTx \/ BlockProcessed
  \/ ReadTip \/ TakePending \/ AddNewBlock \/ NewBlockRefused \/ ClearPending
  \/ InAddBlock
  \/ Elsewhere

ServerSpec == ServerInit /\ [][ServerNext]_serverVars
=============================================================================
