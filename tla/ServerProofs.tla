---------------------------- MODULE ServerProofs ----------------------------
(***************************************************************************)
(* The server's use of its pool, for any number of transactions and any    *)
(* length of the pool: two goroutines, AddBlock between their steps and a  *)
(* block that keeps the pool's slice.  With TxPoolProofs, the server's     *)
(* pool is coherent and "all" bounded, too.                                *)
(*                                                                         *)
(* Then what becomes of an accepted transaction: what a block executes is  *)
(* what its header commits to, what the pool forgets has been executed,    *)
(* pending loses only what comes late or is passed over when a removal has *)
(* moved the slice; and for a sole validator, nothing is executed twice,   *)
(* blocks keep the order of arrival, and its node implements ChainLog.     *)
(***************************************************************************)
EXTENDS ServerHistory, LedgerProofs, FiniteSetTheorems, TLAPS

\* The hash maps hold transactions only, so that removing anything else changes nothing.
PoolHoldsTxs == all.lookup \subseteq Tx /\ pending.lookup \subseteq Tx

LEMMA RemoveElse ==
  ASSUME PoolHoldsTxs, NEW x, Pool!Remove(x)
  PROVE  Pool!Next \/ UNCHANGED poolVars
  <1>1. CASE x \in Tx
    BY <1>1 DEF Pool!Next
  <1>2. CASE x \notin Tx
    BY <1>2 DEF PoolHoldsTxs, Pool!Remove, Pool!MapRemove, poolVars
  <1> QED BY <1>1, <1>2

\* One case for each action of the server that touches the pool; the others leave it alone.
LEMMA ServerStepPool ==
  ASSUME PoolHoldsTxs, [ServerNext]_serverVars
  PROVE  Pool!Next \/ UNCHANGED poolVars
  <1>1. ASSUME NEW tx \in Tx, ProcessTransaction(tx)
        PROVE  Pool!Next
    BY <1>1 DEF ProcessTransaction, Pool!Next
  <1>2. ASSUME NEW b, NEW c, ProcessBlock(c)
        PROVE  UNCHANGED poolVars
    BY <1>2 DEF ProcessBlock, poolVars
  <1>3. CASE BlockRefused \/ BlockAdded \/ BlockProcessed
    BY <1>3 DEF BlockRefused, BlockAdded, BlockProcessed, poolVars
  <1>4. CASE RemoveTx
    BY <1>4, RemoveElse DEF RemoveTx
  <1>5. CASE ReadTip \/ AddNewBlock \/ NewBlockRefused
    BY <1>5 DEF ReadTip, AddNewBlock, NewBlockRefused, poolVars
  <1>6. CASE TakePending
    BY <1>6 DEF TakePending, Pool!Next
  <1>7. CASE ClearPending
    BY <1>7 DEF ClearPending, Pool!Next
  <1>8. CASE InAddBlock \/ Elsewhere
    BY <1>8 DEF InAddBlock, Elsewhere, poolVars
  <1>9. CASE UNCHANGED serverVars
    BY <1>9 DEF serverVars
  <1> QED
    BY <1>1, <1>2, <1>3, <1>4, <1>5, <1>6, <1>7, <1>8, <1>9 DEF ServerNext

-----------------------------------------------------------------------------
(* What TxPoolProofs shows of the pool holds in the server                 *)

Mempool == INSTANCE TxPoolProofs

LEMMA MempoolAssumption == Mempool!TxPoolAssumption
  BY ServerAssumption DEF Mempool!TxPoolAssumption

LEMMA SameView == Pool!View = Mempool!View /\ Pool!NewTxSortedMap = Mempool!NewTxSortedMap
  BY DEF Pool!View, Mempool!View, Pool!NewTxSortedMap, Mempool!NewTxSortedMap

LEMMA SameCount ==
  ASSUME NEW m
  PROVE  Pool!Count(m) = Cardinality(m.lookup) /\ Mempool!Count(m) = Cardinality(m.lookup)
  BY DEF Pool!Count, Mempool!Count, Pool!Cardinality, Mempool!Cardinality, Cardinality

LEMMA SameAdd ==
  ASSUME NEW m, NEW tx
  PROVE  Pool!MapAdd(m, tx) = Mempool!MapAdd(m, tx)
  BY DEF Pool!MapAdd, Mempool!MapAdd, Pool!Insert, Mempool!Insert, Pool!GrownCap, Mempool!GrownCap

LEMMA SameRemove ==
  ASSUME NEW m, NEW tx
  PROVE  Pool!MapRemove(m, tx) = Mempool!MapRemove(m, tx)
  BY Zenon DEF Pool!MapRemove, Mempool!MapRemove, Pool!Pop, Mempool!Pop, Pool!IndexIn, Mempool!IndexIn

LEMMA SamePruned == Pool!Pruned = Mempool!Pruned
<1>1. Pool!First(all) = Mempool!First(all)
  BY DEF Pool!First, Mempool!First
<1> QED
  BY <1>1, SameCount, SameRemove DEF Pool!Pruned, Mempool!Pruned

LEMMA SameOperations ==
  /\ \A tx : Pool!Add(tx) => Mempool!Add(tx)
  /\ \A tx : Pool!Remove(tx) => Mempool!Remove(tx)
  /\ Pool!Pending => Mempool!Pending
  /\ Pool!ClearPending => Mempool!ClearPending
<1>1. ASSUME NEW m, NEW same, Pool!SetPending(m, same)
      PROVE  Mempool!SetPending(m, same)
  BY <1>1, SameView DEF Pool!SetPending, Mempool!SetPending
<1>2. ASSUME NEW tx, Pool!Add(tx)
      PROVE  Mempool!Add(tx)
  BY <1>1, <1>2, SameAdd, SamePruned DEF Pool!Add, Mempool!Add
<1>3. ASSUME NEW tx, Pool!Remove(tx)
      PROVE  Mempool!Remove(tx)
  BY <1>3, SameRemove DEF Pool!Remove, Mempool!Remove
<1>4. Pool!Pending => Mempool!Pending
  BY DEF Pool!Pending, Mempool!Pending, Pool!Txx, Mempool!Txx
<1>5. Pool!ClearPending => Mempool!ClearPending
  BY <1>1, SameView DEF Pool!ClearPending, Mempool!ClearPending
<1> QED
  BY <1>2, <1>3, <1>4, <1>5

LEMMA SameNext == Pool!Next => Mempool!Next
  BY SameOperations DEF Pool!Next, Mempool!Next

\* The pool and its slice are well formed, and the slice's reader sees transactions.
PoolSound ==
  /\ Mempool!PoolInv
  /\ Mempool!SliceInv
  /\ Pool!View \in Seq(Tx)

LEMMA InitPoolSound == ServerInit => PoolSound
<1> SUFFICES ASSUME ServerInit PROVE PoolSound
  OBVIOUS
<1>1. Mempool!Init
  BY SameView DEF ServerInit, Pool!Init, Mempool!Init
<1>2. Mempool!PoolInv /\ Mempool!SliceInv
  BY <1>1, MempoolAssumption, Mempool!InitPoolInv, Mempool!InitSliceInv
<1>3. Mempool!View = <<>>
  BY <1>1, MempoolAssumption, Mempool!InitView
<1> QED
  BY <1>2, <1>3, SameView DEF PoolSound

LEMMA PoolSoundHoldsTxs == PoolSound => PoolHoldsTxs
  BY DEF PoolSound, PoolHoldsTxs, Mempool!PoolInv, Mempool!Sound, Mempool!SortedMap

LEMMA NextPoolSound == PoolSound /\ [ServerNext]_serverVars => PoolSound'
<1> SUFFICES ASSUME PoolSound, [ServerNext]_serverVars PROVE PoolSound'
  OBVIOUS
<1>1. [Mempool!Next]_(Mempool!vars)
  BY ServerStepPool, PoolSoundHoldsTxs, SameNext DEF poolVars, Mempool!vars
<1>2. Mempool!PoolInv' /\ Mempool!SliceInv'
  BY <1>1, MempoolAssumption, Mempool!NextPoolInv, Mempool!NextSliceInv DEF PoolSound
<1>3. Mempool!View' \in Seq(Tx)
  BY <1>1, MempoolAssumption, Mempool!ViewTxs, SameView DEF PoolSound
<1>4. Pool!View' = Mempool!View'
  BY DEF Pool!View, Mempool!View
<1> QED
  BY <1>2, <1>3, <1>4 DEF PoolSound

\* What a change of the pool may do to a slice that the validator loop has taken.
LEMMA SliceStep ==
  ASSUME PoolSound, PoolSound',
         Pool!ClearPending \/ (\E tx \in Tx : Pool!Add(tx)) \/ (\E x : Pool!Remove(x))
  PROVE  /\ Len(Pool!View') = Len(Pool!View)
         /\ taken'.orig = taken.orig
         /\ ~taken'.removed => ~taken.removed /\ Pool!View' = Pool!View
<1>1. Mempool!TakenIntact /\ Mempool!TakenIntact'
  BY DEF PoolSound, Mempool!SliceInv
<1>2. Pool!View = Mempool!View /\ Pool!View' = Mempool!View'
  BY DEF Pool!View, Mempool!View
<1>3. CASE UNCHANGED poolVars
  BY <1>3 DEF poolVars, Pool!View
<1>4. CASE Mempool!ClearPending \/ \E tx \in Tx : Mempool!Add(tx) \/ Mempool!Remove(tx)
  <2>1. /\ Len(Mempool!View') = Len(Mempool!View)
        /\ taken'.orig = taken.orig
        /\ taken.removed => taken'.removed
    BY <1>4, MempoolAssumption, Mempool!ViewLength DEF PoolSound
  <2> QED
    BY <1>1, <1>2, <2>1 DEF Mempool!TakenIntact
<1>5. ASSUME NEW x, x \notin Tx, Pool!Remove(x)
      PROVE  UNCHANGED poolVars
  BY <1>5, PoolSoundHoldsTxs DEF PoolHoldsTxs, Pool!Remove, Pool!MapRemove, poolVars
<1> QED
  BY <1>3, <1>4, <1>5, SameOperations

(***************************************************************************)
(* In the running server, too, the maps and lists of the pool agree, "all" *)
(* stays within maxLength, and a slice from which nothing was removed      *)
(* keeps its content (network/txpool.go, used by both goroutines).         *)
(***************************************************************************)
THEOREM ServerPoolSound ==
  ServerSpec => [](Mempool!PoolCoherent /\ Mempool!AllBounded /\ Mempool!TakenIntact)
<1>1. PoolSound => Mempool!PoolCoherent /\ Mempool!AllBounded /\ Mempool!TakenIntact
  BY DEF PoolSound, Mempool!PoolInv, Mempool!SliceInv, Mempool!Sound, Mempool!PoolCoherent, Mempool!AllBounded
<1> QED
  BY <1>1, InitPoolSound, NextPoolSound, PTL DEF ServerSpec

-----------------------------------------------------------------------------
(* Types.  The block of the validator loop carries the pool's own slice,   *)
(* so that its type, and that of what is still to be executed, depends on  *)
(* the pool; and what the message loop removes from the pool depends on    *)
(* what AddBlock has made of its block.                                    *)

\* A goroutine outside AddBlock has nothing left there; and what is executed, appended or to be
\* removed from the pool is never the genesis transaction, as AddBlock knows the genesis block.
CallOk(g) ==
  /\ step[g] # "adding" => pc[g] = "idle"
  /\ pc[g] \notin {"exec", "student"} => todo[g] = <<>> /\ done[g] = <<>>
  /\ blk[g] = Genesis \/ blk[g].txs \in Seq(Tx)
  /\ pc[g] \in {"lock", "exec", "append", "put"} => blk[g].txs \in Seq(Tx)
  /\ pc[g] = "exec" => todo[g] \in Seq(Tx) /\ done[g] \in Seq(Tx)
  /\ step[g] = "adding" /\ pc[g] = "idle" /\ result[g] = "ok" => blk[g].txs \in Seq(Tx)

Calls == \A g \in Goroutines : CallOk(g)

\* The end of a sequence, n elements long.
LastOf(s, n) == SubSeq(s, Len(s) - n + 1, Len(s))

\* The block under construction holds the pool's slice; what is still to be executed is its end.
SliceInBlock ==
  Aliased =>
    /\ blk[Loop].txs = Pool!View
    /\ Len(todo[Loop]) <= Len(Pool!View)
    /\ todo[Loop] = LastOf(Pool!View, Len(todo[Loop]))

ServerInv == ServerTypeOK /\ PoolSound /\ Calls /\ SliceInBlock

LEMMA LastOfType ==
  ASSUME NEW S, NEW s \in Seq(S), NEW n \in 0 .. Len(s)
  PROVE  /\ LastOf(s, n) \in Seq(S) /\ Len(LastOf(s, n)) = n
         /\ \A i \in 1 .. n : LastOf(s, n)[i] = s[Len(s) - n + i]
  BY DEF LastOf

LEMMA LastOfAll ==
  ASSUME NEW S, NEW s \in Seq(S)
  PROVE  s = LastOf(s, Len(s))
  BY DEF LastOf

LEMMA LastOfNone ==
  ASSUME NEW S, NEW s \in Seq(S)
  PROVE  <<>> = LastOf(s, 0)
<1>1. Len(LastOf(s, 0)) = 0 /\ LastOf(s, 0) \in Seq(S)
  BY LastOfType
<1> QED
  BY <1>1

LEMMA LastOfTail ==
  ASSUME NEW S, NEW s \in Seq(S), NEW n \in 1 .. Len(s)
  PROVE  /\ Head(LastOf(s, n)) = s[Len(s) - n + 1]
         /\ Tail(LastOf(s, n)) = LastOf(s, n - 1)
<1>1. /\ LastOf(s, n) \in Seq(S) /\ Len(LastOf(s, n)) = n
      /\ \A i \in 1 .. n : LastOf(s, n)[i] = s[Len(s) - n + i]
  BY LastOfType
<1>2. /\ LastOf(s, n - 1) \in Seq(S) /\ Len(LastOf(s, n - 1)) = n - 1
      /\ \A i \in 1 .. n - 1 : LastOf(s, n - 1)[i] = s[Len(s) - (n - 1) + i]
  <2>1. n - 1 \in 0 .. Len(s)
    OBVIOUS
  <2> QED
    BY <2>1, LastOfType
<1>3. Head(LastOf(s, n)) = s[Len(s) - n + 1]
  BY <1>1
<1>4. /\ Tail(LastOf(s, n)) \in Seq(S) /\ Len(Tail(LastOf(s, n))) = n - 1
      /\ \A i \in 1 .. n - 1 : Tail(LastOf(s, n))[i] = s[Len(s) - n + (i + 1)]
  BY <1>1
<1>5. \A i \in 1 .. n - 1 : Tail(LastOf(s, n))[i] = LastOf(s, n - 1)[i]
  BY <1>2, <1>4
<1> QED
  BY <1>2, <1>3, <1>4, <1>5

\* What one step inside AddBlock makes of its goroutine's call.
CallMoves(g) ==
  \/ /\ pc[g] = "check" /\ pc'[g] = "lock" /\ ~Known(blk[g])
     /\ blk'[g] = blk[g] /\ todo'[g] = todo[g] /\ done'[g] = done[g]
  \/ /\ pc[g] \in {"check", "put"} /\ pc'[g] = "idle" /\ result'[g] # "ok"
     /\ blk'[g] = blk[g] /\ todo'[g] = todo[g] /\ done'[g] = done[g]
  \/ /\ pc[g] = "lock" /\ pc'[g] = "exec"
     /\ blk'[g] = blk[g] /\ todo'[g] = blk[g].txs /\ done'[g] = done[g]
  \/ /\ pc[g] = "exec" /\ pc'[g] = "exec" /\ todo[g] # <<>>
     /\ blk'[g] = blk[g] /\ todo'[g] = Tail(todo[g])
     /\ done'[g] = done[g] \/ done'[g] = Append(done[g], Head(todo[g]))
  \/ /\ pc[g] = "exec" /\ pc'[g] = "student" /\ blk'[g] = blk[g]
  \/ /\ pc[g] = "exec" /\ blk'[g] = blk[g] /\ todo'[g] = <<>> /\ done'[g] = <<>>
     /\ \/ g \in Validators /\ pc'[g] = "idle" /\ result'[g] # "ok"
        \/ g \notin Validators /\ pc'[g] = "exec"
  \/ /\ pc[g] = "exec" /\ pc'[g] = "append" /\ todo[g] = <<>>
     /\ blk'[g] = [blk[g] EXCEPT !.txs = done[g]] /\ todo'[g] = <<>> /\ done'[g] = <<>>
  \/ /\ pc[g] = "append" /\ pc'[g] = "put" /\ chain' = Append(chain, blk[g])
     /\ blk'[g] = blk[g] /\ todo'[g] = todo[g] /\ done'[g] = done[g]
  \/ /\ pc[g] = "put" /\ pc'[g] = "idle" /\ result'[g] = "ok"
     /\ blk'[g] = blk[g] /\ todo'[g] = todo[g] /\ done'[g] = done[g]

Untouched(h) ==
  /\ pc'[h] = pc[h] /\ blk'[h] = blk[h] /\ todo'[h] = todo[h]
  /\ done'[h] = done[h] /\ result'[h] = result[h]

LEMMA InnerStep ==
  ASSUME TypeOK, NEW g \in Goroutines, LockState(g) \/ Proceed(g)
  PROVE  /\ CallMoves(g)
         /\ \A h \in Goroutines \ {g} : Untouched(h)
         /\ chain' = chain \/ pc[g] = "append"
<1>0. /\ pc \in [Goroutines -> {"idle", "check", "lock", "exec", "student", "append", "put"}]
      /\ blk \in [Goroutines -> Block]
      /\ todo \in [Goroutines -> Seq(Tx \cup {GenesisTx})]
      /\ done \in [Goroutines -> Seq(Tx \cup {GenesisTx})]
      /\ result \in [Goroutines -> {"none", "ok", "known", "invalid", "ioerr", "panic"}]
  BY DEF TypeOK
<1>1. CASE LockState(g)
  BY <1>0, <1>1 DEF LockState, CallMoves, Untouched
<1>2. CASE Reject(g)
  BY <1>0, <1>2 DEF Reject, Return, nodeVars, CallMoves, Untouched
<1>3. CASE Accept(g)
  BY <1>0, <1>3 DEF Accept, nodeVars, CallMoves, Untouched
<1>4. CASE ExecOk(g)
  BY <1>0, <1>4 DEF ExecOk, Executing, CallMoves, Untouched
<1>5. CASE ExecError(g)
  BY <1>0, <1>5 DEF ExecError, Executing, CallMoves, Untouched
<1>6. CASE ExecStudent(g)
  BY <1>0, <1>6 DEF ExecStudent, Executing, CallMoves, Untouched
<1>7. CASE ExecPanic(g)
  <2>1. pc[g] = "exec"
    BY <1>7 DEF ExecPanic, Executing
  <2>2. /\ blk' = blk /\ chain' = chain
        /\ todo' = [todo EXCEPT ![g] = <<>>] /\ done' = [done EXCEPT ![g] = <<>>]
    BY <1>7 DEF ExecPanic
  <2>3. CASE g \in Validators
    <3>1. pc' = [pc EXCEPT ![g] = "idle"] /\ result' = [result EXCEPT ![g] = "panic"]
      BY <1>7, <2>3 DEF ExecPanic, Return
    <3> QED
      BY <1>0, <2>1, <2>2, <2>3, <3>1 DEF CallMoves, Untouched
  <2>4. CASE g \notin Validators
    <3>1. pc' = pc /\ result' = result
      BY <1>7, <2>4 DEF ExecPanic
    <3> QED
      BY <1>0, <2>1, <2>2, <2>4, <3>1 DEF CallMoves, Untouched
  <2> QED
    BY <2>3, <2>4
<1>8. CASE UnlockState(g)
  <2>1. blk' = [blk EXCEPT ![g] = [blk[g] EXCEPT !.txs = done[g]]]
    BY <1>8 DEF UnlockState
  <2> QED
    BY <1>0, <1>8, <2>1 DEF UnlockState, CallMoves, Untouched
<1>9. CASE AppendBlock(g)
  BY <1>0, <1>9 DEF AppendBlock, CallMoves, Untouched
<1>10. CASE PutOk(g)
  BY <1>0, <1>10 DEF PutOk, Return, CallMoves, Untouched
<1>11. CASE PutFails(g)
  BY <1>0, <1>11 DEF PutFails, Return, nodeVars, CallMoves, Untouched
<1> QED
  BY <1>1, <1>2, <1>3, <1>4, <1>5, <1>6, <1>7, <1>8, <1>9, <1>10, <1>11 DEF Proceed

LEMMA UntouchedOk ==
  ASSUME NEW h, CallOk(h), Untouched(h), step'[h] = step[h]
  PROVE  CallOk(h)'
  BY DEF CallOk, Untouched

LEMMA InnerStepOk ==
  ASSUME TypeOK, NEW g \in Goroutines, CallOk(g), CallMoves(g), step'[g] = step[g]
  PROVE  CallOk(g)'
<1>1. /\ todo[g] \in Seq(Tx \cup {GenesisTx}) /\ done[g] \in Seq(Tx \cup {GenesisTx})
      /\ blk[g] \in Block
  BY DEF TypeOK
<1>2. ASSUME ~Known(blk[g]) PROVE blk[g] # Genesis
  BY <1>2 DEF Known, Genesis, Height, TypeOK
<1>3. ASSUME pc[g] = "exec", todo[g] # <<>>
      PROVE  /\ Tail(todo[g]) \in Seq(Tx)
             /\ Append(done[g], Head(todo[g])) \in Seq(Tx)
  <2>1. todo[g] \in Seq(Tx) /\ done[g] \in Seq(Tx)
    BY <1>3 DEF CallOk
  <2> QED
    BY <1>3, <2>1
<1>4. [blk[g] EXCEPT !.txs = done[g]].txs = done[g]
  BY <1>1 DEF Block
<1>5. <<>> \in Seq(Tx)
  OBVIOUS
<1> QED
  BY <1>2, <1>3, <1>4, <1>5 DEF CallOk, CallMoves

\* What copies of a block carry.
LEMMA CopiesTxs ==
  ASSUME NEW b \in Block, NEW c \in Copies(b)
  PROVE  c = Genesis \/ c.txs \in Seq(Tx)
<1>1. CASE b = Genesis
  BY <1>1 DEF Copies
<1>2. CASE b # Genesis
  <2>1. PICK s \in Sublists(b.data) : c = [b EXCEPT !.txs = s]
    BY <1>2 DEF Copies
  <2>2. s \in Seq(Tx)
    BY SublistType DEF Block
  <2> QED
    BY <2>1, <2>2 DEF Block
<1> QED
  BY <1>1, <1>2

\* A change of the pool reaches the block of the validator loop, and nothing else of the chain.
LEMMA PoolStepBlock ==
  ASSUME ServerInv, PoolSound', PoolStep, Len(Pool!View') = Len(Pool!View)
  PROVE  /\ TypeOK'
         /\ UNCHANGED <<nodeVars, wire, made, pc, cur, done, result>>
         /\ \A g \in Goroutines :
              /\ blk'[g].data = blk[g].data
              /\ (g = Loop /\ Aliased) \/ (blk'[g] = blk[g] /\ todo'[g] = todo[g])
         /\ Aliased =>
              /\ blk'[Loop].txs = Pool!View'
              /\ todo'[Loop] = LastOf(Pool!View', Len(todo[Loop]))
              /\ todo'[Loop] \in Seq(Tx) /\ Len(todo'[Loop]) = Len(todo[Loop])
<1>1. TypeOK
  BY DEF ServerInv, ServerTypeOK
<1>2. UNCHANGED <<nodeVars, wire, made, pc, cur, done, result>>
  BY DEF PoolStep
<1>3. CASE ~Aliased
  <2>1. blk' = blk /\ todo' = todo
    BY <1>3 DEF PoolStep, BlockReadsPool
  <2>2. TypeOK'
    BY <1>1, <1>2, <2>1 DEF TypeOK, nodeVars
  <2> QED
    BY <1>2, <1>3, <2>1, <2>2
<1>4. CASE Aliased
  <2>1. Pool!View' \in Seq(Tx) /\ Pool!View \in Seq(Tx)
    BY DEF PoolSound, ServerInv
  <2>2. Pool!View' \in Seq(Tx \cup {GenesisTx})
    BY <2>1
  <2>3. Loop \in Goroutines /\ blk[Loop] \in Block /\ blk \in [Goroutines -> Block]
        /\ todo \in [Goroutines -> Seq(Tx \cup {GenesisTx})]
    BY <1>1, <1>4 DEF Aliased, TypeOK
  <2>4. /\ blk' = [blk EXCEPT ![Loop] = [blk[Loop] EXCEPT !.txs = Pool!View']]
        /\ todo' = [todo EXCEPT ![Loop] = LastOf(Pool!View', Len(todo[Loop]))]
    BY <1>4 DEF PoolStep, BlockReadsPool, LastOf
  <2>5. Len(todo[Loop]) \in 0 .. Len(Pool!View')
    BY <1>4, <2>1, <2>3 DEF ServerInv, SliceInBlock
  <2>6. /\ LastOf(Pool!View', Len(todo[Loop])) \in Seq(Tx)
        /\ Len(LastOf(Pool!View', Len(todo[Loop]))) = Len(todo[Loop])
    BY <2>1, <2>5, LastOfType
  <2>7. LastOf(Pool!View', Len(todo[Loop])) \in Seq(Tx \cup {GenesisTx})
    BY <2>6
  <2>8. [blk[Loop] EXCEPT !.txs = Pool!View'] \in Block
    BY <2>2, <2>3 DEF Block
  <2>9. /\ [blk[Loop] EXCEPT !.txs = Pool!View'].txs = Pool!View'
        /\ [blk[Loop] EXCEPT !.txs = Pool!View'].data = blk[Loop].data
    BY <2>3 DEF Block
  <2>10. blk' \in [Goroutines -> Block] /\ todo' \in [Goroutines -> Seq(Tx \cup {GenesisTx})]
    BY <2>3, <2>4, <2>7, <2>8
  <2>11. TypeOK'
    BY <1>1, <1>2, <2>10 DEF TypeOK, nodeVars
  <2>12. /\ blk'[Loop] = [blk[Loop] EXCEPT !.txs = Pool!View']
         /\ todo'[Loop] = LastOf(Pool!View', Len(todo[Loop]))
         /\ \A g \in Goroutines \ {Loop} : blk'[g] = blk[g] /\ todo'[g] = todo[g]
    BY <2>3, <2>4
  <2>13. \A g \in Goroutines :
           /\ blk'[g].data = blk[g].data
           /\ (g = Loop /\ Aliased) \/ (blk'[g] = blk[g] /\ todo'[g] = todo[g])
    <3> SUFFICES ASSUME NEW g \in Goroutines
                 PROVE  /\ blk'[g].data = blk[g].data
                        /\ (g = Loop /\ Aliased) \/ (blk'[g] = blk[g] /\ todo'[g] = todo[g])
      OBVIOUS
    <3>1. CASE g = Loop
      BY <1>4, <2>9, <2>12, <3>1
    <3>2. CASE g # Loop
      BY <2>12, <3>2
    <3> QED
      BY <3>1, <3>2
  <2>14. /\ blk'[Loop].txs = Pool!View'
         /\ todo'[Loop] = LastOf(Pool!View', Len(todo[Loop]))
         /\ todo'[Loop] \in Seq(Tx) /\ Len(todo'[Loop]) = Len(todo[Loop])
    BY <2>6, <2>9, <2>12
  <2> QED
    BY <1>2, <2>11, <2>13, <2>14
<1> QED
  BY <1>3, <1>4

\* The calls and the shared slice come through such a change.
LEMMA PoolStepOk ==
  ASSUME ServerInv, PoolSound', PoolStep, Len(Pool!View') = Len(Pool!View),
         \A g \in Goroutines : step'[g] = step[g] \/ (pc[g] = "idle" /\ step'[g] # "adding")
  PROVE  Calls' /\ SliceInBlock'
<1>1. Calls'
  <2> SUFFICES ASSUME NEW g \in Goroutines PROVE CallOk(g)'
    BY DEF Calls
  <2>1. CallOk(g) /\ pc'[g] = pc[g] /\ done'[g] = done[g] /\ result'[g] = result[g]
    BY PoolStepBlock DEF ServerInv, Calls
  <2>2. CASE blk'[g] = blk[g] /\ todo'[g] = todo[g]
    BY <2>1, <2>2 DEF CallOk
  <2>3. CASE g = Loop /\ Aliased
    <3>1. /\ blk'[g].txs \in Seq(Tx) /\ todo'[g] \in Seq(Tx) /\ Len(todo'[g]) = Len(todo[g])
      BY <2>3, PoolStepBlock DEF PoolSound
    <3>2. todo[g] = <<>> => todo'[g] = <<>>
      BY <3>1
    <3> QED
      BY <2>1, <2>3, <3>1, <3>2 DEF CallOk, Aliased
  <2> QED
    BY <2>2, <2>3, PoolStepBlock
<1>2. SliceInBlock'
  <2> SUFFICES ASSUME Aliased'
               PROVE  /\ blk'[Loop].txs = Pool!View'
                      /\ Len(todo'[Loop]) <= Len(Pool!View')
                      /\ todo'[Loop] = LastOf(Pool!View', Len(todo'[Loop]))
    BY DEF SliceInBlock
  <2>1. Aliased
    BY PoolStepBlock DEF Aliased
  <2> QED
    BY <2>1, PoolStepBlock DEF ServerInv, SliceInBlock
<1> QED
  BY <1>1, <1>2

LEMMA InitServerInv == ServerInit => ServerInv
<1> SUFFICES ASSUME ServerInit PROVE ServerInv
  OBVIOUS
<1>1. TypeOK /\ PoolSound
  BY InitTypeOK, InitPoolSound DEF ServerInit
<1>2. Pool!TypeOK
  BY <1>1 DEF PoolSound, Mempool!PoolInv, Mempool!SliceInv, Mempool!Sound, Mempool!SortedMap,
       Mempool!Slice, Pool!TypeOK, Pool!SortedMap, Pool!Slice
<1>3. rest \in Seq(Tx) /\ arrival \in Seq(Tx)
  BY DEF ServerInit
<1>4. ServerTypeOK
  BY <1>1, <1>2, <1>3, GenesisBlockType DEF ServerInit, ServerTypeOK
<1>5. Calls /\ SliceInBlock
  BY DEF ServerInit, Init, Calls, CallOk, SliceInBlock, Aliased
<1> QED
  BY <1>1, <1>4, <1>5 DEF ServerInv

\* The part of ServerTypeOK that is the server's own.
OwnTypes ==
  /\ step \in [Goroutines -> {"idle", "tip", "taken", "adding", "added"}]
  /\ tip \in Block
  /\ rest \in Seq(Tx)
  /\ arrival \in Seq(Tx)

LEMMA ServerInvParts ==
  (TypeOK /\ OwnTypes /\ PoolSound /\ Calls /\ SliceInBlock) <=> ServerInv
<1>1. PoolSound => Pool!TypeOK
  BY DEF PoolSound, Mempool!PoolInv, Mempool!SliceInv, Mempool!Sound, Mempool!SortedMap,
       Mempool!Slice, Pool!TypeOK, Pool!SortedMap, Pool!Slice
<1> QED
  BY <1>1 DEF ServerInv, ServerTypeOK, OwnTypes

\* Entering AddBlock touches no other goroutine.
LEMMA CallEffect ==
  ASSUME TypeOK, NEW g \in Goroutines, NEW b, Call(g, b)
  PROVE  /\ pc[g] = "idle" /\ pc'[g] = "check" /\ blk'[g] = b
         /\ todo'[g] = todo[g] /\ done'[g] = done[g]
         /\ \A h \in Goroutines \ {g} : Untouched(h)
         /\ chain' = chain
  BY DEF TypeOK, Call, Untouched, nodeVars

\* Steps that leave chain, pool view and AddBlock alone.
LEMMA VarsKept ==
  ASSUME ServerInv, UNCHANGED vars, OwnTypes', PoolSound',
         ~Aliased \/ UNCHANGED poolVars,
         \A g \in Goroutines : step'[g] = step[g] \/ (pc[g] = "idle" /\ step'[g] # "adding")
  PROVE  ServerInv'
<1>1. TypeOK'
  BY ServerInvParts DEF TypeOK, vars, nodeVars, callVars
<1>2. Calls'
  BY DEF ServerInv, Calls, CallOk, vars, callVars
<1>3. SliceInBlock'
  BY DEF ServerInv, SliceInBlock, Aliased, vars, callVars, poolVars, Pool!View
<1>4. TypeOK' /\ OwnTypes' /\ PoolSound' /\ Calls' /\ SliceInBlock'
  BY <1>1, <1>2, <1>3
<1> QED
  BY <1>4, ServerInvParts, PTL

\* What the actions outside AddBlock do to the server's own variables.
LEMMA OwnTypesKept ==
  ASSUME ServerInv, ServerNext
  PROVE  OwnTypes'
<1>1. /\ TypeOK /\ OwnTypes /\ Calls
      /\ step \in [Goroutines -> {"idle", "tip", "taken", "adding", "added"}]
  BY ServerInvParts DEF OwnTypes
<1>2. Main \in Goroutines
  BY ServerAssumption
<1>3. ASSUME NEW g \in Goroutines, NEW s \in {"idle", "tip", "taken", "adding", "added"}, Goto(g, s)
      PROVE  step' \in [Goroutines -> {"idle", "tip", "taken", "adding", "added"}]
  BY <1>1, <1>3 DEF Goto
<1>4. ASSUME NEW tx \in Tx, ProcessTransaction(tx)
      PROVE  OwnTypes'
  <2>1. arrival' \in Seq(Tx)
    BY <1>1, <1>4 DEF ProcessTransaction, OwnTypes
  <2> QED
    BY <1>1, <1>4, <2>1 DEF ProcessTransaction, OwnTypes, stepVars
<1>5. ASSUME NEW c, ProcessBlock(c)
      PROVE  OwnTypes'
  BY <1>1, <1>2, <1>3, <1>5 DEF ProcessBlock, OwnTypes
<1>6. CASE BlockRefused \/ BlockProcessed
  BY <1>1, <1>2, <1>3, <1>6 DEF BlockRefused, BlockProcessed, OwnTypes
<1>7. CASE BlockAdded
  <2>1. rest' \in Seq(Tx)
    BY <1>1, <1>2, <1>7 DEF BlockAdded, Calls, CallOk
  <2> QED
    BY <1>1, <1>2, <1>3, <1>7, <2>1 DEF BlockAdded, OwnTypes
<1>8. CASE RemoveTx
  <2>1. rest' \in Seq(Tx)
    BY <1>1, <1>8 DEF RemoveTx, OwnTypes
  <2> QED
    BY <1>1, <1>8, <2>1 DEF RemoveTx, OwnTypes
<1>9. CASE ReadTip
  <2>1. tip' \in Block
    BY <1>1, <1>9 DEF ReadTip, TypeOK
  <2> QED
    BY <1>1, <1>3, <1>9, <2>1 DEF ReadTip, OwnTypes
<1>10. CASE TakePending \/ AddNewBlock \/ NewBlockRefused \/ ClearPending
  BY <1>1, <1>3, <1>10 DEF TakePending, AddNewBlock, NewBlockRefused, ClearPending, OwnTypes
<1>11. CASE InAddBlock \/ Elsewhere
  BY <1>1, <1>11 DEF InAddBlock, Elsewhere, OwnTypes, stepVars
<1> QED
  BY <1>4, <1>5, <1>6, <1>7, <1>8, <1>9, <1>10, <1>11 DEF ServerNext

\* processTransaction, a round of the removing loop, and ClearPending.
LEMMA PoolActions ==
  ASSUME ServerInv, PoolSound',
         (\E tx \in Tx : ProcessTransaction(tx)) \/ RemoveTx \/ ClearPending
  PROVE  /\ PoolStep
         /\ Pool!ClearPending \/ (\E tx \in Tx : Pool!Add(tx)) \/ (\E x : Pool!Remove(x))
         /\ Len(Pool!View') = Len(Pool!View)
         /\ \A g \in Goroutines : step'[g] = step[g] \/ (pc[g] = "idle" /\ step'[g] # "adding")
<1>1. step \in [Goroutines -> {"idle", "tip", "taken", "adding", "added"}]
  BY DEF ServerInv, ServerTypeOK
<1>2. PoolStep
  BY DEF ProcessTransaction, RemoveTx, ClearPending
<1>3. Pool!ClearPending \/ (\E tx \in Tx : Pool!Add(tx)) \/ (\E x : Pool!Remove(x))
  BY DEF ProcessTransaction, RemoveTx, ClearPending
<1>4. Len(Pool!View') = Len(Pool!View)
  BY <1>3, SliceStep DEF ServerInv
<1>5. \A g \in Goroutines : step'[g] = step[g] \/ (pc[g] = "idle" /\ step'[g] # "adding")
  BY <1>1 DEF ProcessTransaction, RemoveTx, ClearPending, stepVars, Goto
<1> QED
  BY <1>2, <1>3, <1>4, <1>5

LEMMA PoolActionsInv ==
  ASSUME ServerInv, PoolSound', OwnTypes',
         (\E tx \in Tx : ProcessTransaction(tx)) \/ RemoveTx \/ ClearPending
  PROVE  ServerInv'
<1>1. /\ PoolStep
      /\ Len(Pool!View') = Len(Pool!View)
      /\ \A g \in Goroutines : step'[g] = step[g] \/ (pc[g] = "idle" /\ step'[g] # "adding")
  BY PoolActions
<1>2. TypeOK'
  BY <1>1, PoolStepBlock
<1>3. Calls' /\ SliceInBlock'
  BY <1>1, PoolStepOk
<1>4. TypeOK' /\ OwnTypes' /\ PoolSound' /\ Calls' /\ SliceInBlock'
  BY <1>2, <1>3
<1> QED
  BY <1>4, ServerInvParts, PTL

\* processBlock enters AddBlock with a block of a peer.
LEMMA ProcessBlockInv ==
  ASSUME ServerInv, PoolSound', OwnTypes',
         NEW b \in wire, NEW c \in Copies(b), ProcessBlock(c)
  PROVE  ServerInv'
<1>1. /\ TypeOK /\ b \in Block
      /\ step \in [Goroutines -> {"idle", "tip", "taken", "adding", "added"}]
  BY DEF ServerInv, ServerTypeOK, TypeOK
<1>2. Main \in Goroutines /\ Main # Loop
  BY ServerAssumption
<1>3. /\ Call(Main, c) /\ wire' = wire /\ made' = made
      /\ step'[Main] = "adding" /\ \A h \in Goroutines \ {Main} : step'[h] = step[h]
  BY <1>1, <1>2 DEF ProcessBlock, CallForeign, Goto
<1>4. c \in Block /\ (c = Genesis \/ c.txs \in Seq(Tx))
  BY <1>1, CopiesType, CopiesTxs
<1>5. TypeOK'
  BY <1>1, <1>2, <1>3, <1>4, CallType DEF TypeOK
<1>6. /\ pc[Main] = "idle" /\ pc'[Main] = "check" /\ blk'[Main] = c
      /\ todo'[Main] = todo[Main] /\ done'[Main] = done[Main]
      /\ \A h \in Goroutines \ {Main} : Untouched(h)
  BY <1>1, <1>2, <1>3, CallEffect
<1>7. Calls'
  <2>1. CallOk(Main)'
    BY <1>2, <1>3, <1>4, <1>6 DEF ServerInv, Calls, CallOk
  <2>2. \A h \in Goroutines \ {Main} : CallOk(h)'
    BY <1>3, <1>6, UntouchedOk DEF ServerInv, Calls
  <2> QED
    BY <2>1, <2>2 DEF Calls
<1>8. SliceInBlock'
  <2>1. Loop \in Goroutines => Untouched(Loop)
    BY <1>2, <1>6
  <2>2. Pool!View' = Pool!View
    BY DEF ProcessBlock, poolVars, Pool!View
  <2> QED
    BY <2>1, <2>2 DEF ServerInv, SliceInBlock, Aliased, Untouched
<1>9. TypeOK' /\ OwnTypes' /\ PoolSound' /\ Calls' /\ SliceInBlock'
  BY <1>5, <1>7, <1>8
<1> QED
  BY <1>9, ServerInvParts, PTL

\* createNewBlock enters AddBlock with a block that holds the pool's slice.
LEMMA AddNewBlockInv ==
  ASSUME ServerInv, PoolSound', OwnTypes', AddNewBlock
  PROVE  ServerInv'
<1> DEFINE b == NewBlockFromPrevHeader(tip, Pool!View)
<1>1. /\ TypeOK /\ Loop \in Goroutines /\ made \in Nat /\ tip \in Block
      /\ step \in [Goroutines -> {"idle", "tip", "taken", "adding", "added"}]
  BY BlockchainAssumption DEF ServerInv, ServerTypeOK, TypeOK, AddNewBlock
<1>2. Pool!View \in Seq(Tx) /\ Pool!View' = Pool!View
  BY DEF ServerInv, PoolSound, AddNewBlock, poolVars, Pool!View
<1>3. b \in Block /\ b.txs = Pool!View
  BY <1>1, <1>2, NewBlockType DEF NewBlockFromPrevHeader
<1> HIDE DEF b
<1>4. /\ Call(Loop, b) /\ wire' = wire /\ made' \in 0 .. MaxBuilt
      /\ step'[Loop] = "adding" /\ \A h \in Goroutines \ {Loop} : step'[h] = step[h]
  BY <1>1, BlockchainAssumption DEF AddNewBlock, CallOwn, Goto, TypeOK, b
<1>5. TypeOK'
  BY <1>1, <1>3, <1>4, CallType
<1>6. /\ pc[Loop] = "idle" /\ pc'[Loop] = "check" /\ blk'[Loop] = b
      /\ todo'[Loop] = todo[Loop] /\ done'[Loop] = done[Loop]
      /\ \A h \in Goroutines \ {Loop} : Untouched(h)
  BY <1>1, <1>4, CallEffect
<1>7. todo[Loop] = <<>> /\ done[Loop] = <<>>
  BY <1>1, <1>6 DEF ServerInv, Calls, CallOk
<1>8. Calls'
  <2>1. CallOk(Loop)'
    BY <1>2, <1>3, <1>4, <1>6, <1>7 DEF CallOk
  <2>2. \A h \in Goroutines \ {Loop} : CallOk(h)'
    BY <1>4, <1>6, UntouchedOk DEF ServerInv, Calls
  <2> QED
    BY <2>1, <2>2 DEF Calls
<1>9. SliceInBlock'
  <2>1. Len(todo'[Loop]) = 0 /\ 0 <= Len(Pool!View')
    BY <1>2, <1>6, <1>7
  <2>2. todo'[Loop] = LastOf(Pool!View', 0)
    BY <1>2, <1>6, <1>7, LastOfNone
  <2> QED
    BY <1>2, <1>3, <1>6, <2>1, <2>2 DEF SliceInBlock
<1>10. TypeOK' /\ OwnTypes' /\ PoolSound' /\ Calls' /\ SliceInBlock'
  BY <1>5, <1>8, <1>9
<1> QED
  BY <1>10, ServerInvParts, PTL

\* AddBlock goes on, in either goroutine.
LEMMA InAddBlockInv ==
  ASSUME ServerInv, PoolSound', OwnTypes', UNCHANGED <<poolVars, stepVars>>,
         NEW g \in Goroutines, LockState(g) \/ Proceed(g)
  PROVE  ServerInv'
<1>1. TypeOK /\ TypeOK'
  BY NextTypeOK DEF ServerInv, ServerTypeOK, Next
<1>2. /\ CallMoves(g)
      /\ \A h \in Goroutines \ {g} : Untouched(h)
      /\ step' = step /\ Pool!View' = Pool!View
  BY <1>1, InnerStep DEF stepVars, poolVars, Pool!View
<1>3. Calls'
  <2>1. CallOk(g)'
    BY <1>1, <1>2, InnerStepOk DEF ServerInv, Calls
  <2>2. \A h \in Goroutines \ {g} : CallOk(h)'
    BY <1>2, UntouchedOk DEF ServerInv, Calls
  <2> QED
    BY <2>1, <2>2 DEF Calls
<1>4. SliceInBlock'
  <2> SUFFICES ASSUME Aliased'
               PROVE  /\ blk'[Loop].txs = Pool!View
                      /\ Len(todo'[Loop]) <= Len(Pool!View)
                      /\ todo'[Loop] = LastOf(Pool!View, Len(todo'[Loop]))
    BY <1>2 DEF SliceInBlock
  <2>1. Pool!View \in Seq(Tx)
    BY DEF ServerInv, PoolSound
  <2>2. CASE g # Loop
    <3>1. Untouched(Loop) /\ Aliased
      BY <1>2, <2>2 DEF Untouched, Aliased
    <3> QED
      BY <3>1 DEF ServerInv, SliceInBlock, Untouched
  <2>3. CASE g = Loop
    <3>1. /\ pc[g] \in {"check", "lock", "exec"}
          /\ pc'[g] \in {"lock", "exec"} /\ Loop \in Validators
      BY <1>2, <2>3, ServerAssumption DEF Aliased, CallMoves
    <3>2. /\ Aliased /\ blk[g].txs = Pool!View
          /\ Len(todo[g]) <= Len(Pool!View)
          /\ todo[g] = LastOf(Pool!View, Len(todo[g]))
      BY <2>3, <3>1 DEF Aliased, ServerInv, SliceInBlock
    <3>3. blk'[g] = blk[g]
      BY <1>2, <3>1 DEF CallMoves
    <3>4. CASE todo'[g] = todo[g]
      BY <2>3, <3>2, <3>3, <3>4
    <3>5. CASE todo'[g] = blk[g].txs
      BY <2>1, <2>3, <3>2, <3>3, <3>5, LastOfAll
    <3>6. CASE todo'[g] = Tail(todo[g]) /\ todo[g] # <<>>
      <4>1. todo[g] \in Seq(Tx \cup {GenesisTx})
        BY <1>1 DEF TypeOK
      <4>2. Len(todo[g]) \in 1 .. Len(Pool!View) /\ Len(Tail(todo[g])) = Len(todo[g]) - 1
        BY <2>1, <3>2, <3>6, <4>1
      <4>3. Tail(todo[g]) = LastOf(Pool!View, Len(todo[g]) - 1)
        BY <2>1, <3>2, <4>2, LastOfTail
      <4> QED
        BY <2>1, <2>3, <3>2, <3>3, <3>6, <4>2, <4>3
    <3>7. \/ todo'[g] = todo[g] \/ todo'[g] = blk[g].txs
          \/ todo'[g] = Tail(todo[g]) /\ todo[g] # <<>>
      BY <1>2, <2>3, <3>1 DEF CallMoves
    <3> QED
      BY <3>4, <3>5, <3>6, <3>7
  <2> QED
    BY <2>2, <2>3
<1>5. TypeOK' /\ OwnTypes' /\ PoolSound' /\ Calls' /\ SliceInBlock'
  BY <1>1, <1>3, <1>4
<1> QED
  BY <1>5, ServerInvParts, PTL

LEMMA ElsewhereInv ==
  ASSUME ServerInv, PoolSound', OwnTypes', Elsewhere
  PROVE  ServerInv'
<1>1. TypeOK'
  BY NextTypeOK DEF ServerInv, ServerTypeOK, Next, Elsewhere
<1>2. /\ UNCHANGED <<pc, blk, todo, done, result>> /\ step' = step
      /\ Pool!View' = Pool!View
  BY DEF Elsewhere, BuildElsewhere, callVars, stepVars, poolVars, Pool!View
<1>3. Calls' /\ SliceInBlock'
  BY <1>2 DEF ServerInv, Calls, CallOk, SliceInBlock, Aliased
<1>4. TypeOK' /\ OwnTypes' /\ PoolSound' /\ Calls' /\ SliceInBlock'
  BY <1>1, <1>3
<1> QED
  BY <1>4, ServerInvParts, PTL

\* The loops look at what AddBlock returned, at the tip or at the pool.
LEMMA LookInv ==
  ASSUME ServerInv, PoolSound', OwnTypes',
         BlockRefused \/ BlockAdded \/ BlockProcessed \/ ReadTip \/ TakePending \/ NewBlockRefused
  PROVE  ServerInv'
<1>1. /\ step \in [Goroutines -> {"idle", "tip", "taken", "adding", "added"}]
      /\ Main \in Goroutines /\ Calls
  BY ServerAssumption DEF ServerInv, ServerTypeOK
<1>2. UNCHANGED vars
  BY DEF BlockRefused, BlockAdded, BlockProcessed, ReadTip, TakePending, NewBlockRefused
<1>3. ~Aliased \/ UNCHANGED poolVars
  BY <1>1 DEF BlockRefused, BlockAdded, BlockProcessed, ReadTip, TakePending, NewBlockRefused,
       Aliased, Calls, CallOk
<1>4. \A g \in Goroutines : step'[g] = step[g] \/ (pc[g] = "idle" /\ step'[g] # "adding")
  BY <1>1 DEF BlockRefused, BlockAdded, BlockProcessed, ReadTip, TakePending, NewBlockRefused,
       Goto, Calls, CallOk
<1> QED
  BY <1>2, <1>3, <1>4, VarsKept

LEMMA NextServerInv == ServerInv /\ [ServerNext]_serverVars => ServerInv'
<1> SUFFICES ASSUME ServerInv, [ServerNext]_serverVars PROVE ServerInv'
  OBVIOUS
<1>1. PoolSound'
  BY NextPoolSound DEF ServerInv
<1>2. CASE ServerNext
  <2>1. OwnTypes'
    BY <1>2, OwnTypesKept
  <2>2. ASSUME NEW b \in wire, NEW c \in Copies(b), ProcessBlock(c)
        PROVE  ServerInv'
    BY <1>1, <2>1, <2>2, ProcessBlockInv
  <2>3. CASE InAddBlock
    BY <1>1, <2>1, <2>3, InAddBlockInv DEF InAddBlock
  <2> QED
    BY <1>1, <1>2, <2>1, <2>2, <2>3, PoolActionsInv, AddNewBlockInv, ElsewhereInv, LookInv
      DEF ServerNext
<1>3. CASE UNCHANGED serverVars
  <2>1. OwnTypes' /\ UNCHANGED vars /\ UNCHANGED poolVars /\ step' = step
    BY <1>3, ServerInvParts DEF OwnTypes, serverVars, stepVars
  <2> QED
    BY <1>1, <2>1, VarsKept
<1> QED
  BY <1>2, <1>3

(***************************************************************************)
(* Both loops keep chain, pool and their own state well typed: whatever    *)
(* the message loop does to the pool while the block that shares the       *)
(* pool's slice is hashed and executed, AddBlock reads transactions from   *)
(* it, never an unused cell, and as many as the block had at first.        *)
(***************************************************************************)
THEOREM ServerTypeCorrect == ServerSpec => []ServerTypeOK
<1>1. ServerInv => ServerTypeOK
  BY DEF ServerInv
<1> QED
  BY <1>1, InitServerInv, NextServerInv, PTL DEF ServerSpec

-----------------------------------------------------------------------------
(* What the validator's block executes                                     *)

\* As long as nothing is removed, the block was hashed with what Pending returned.
HashedTaken ==
  Loop \in Goroutines /\ step[Loop] = "adding" /\ pc[Loop] # "idle" /\ ~taken.removed
    => blk[Loop].data = taken.orig

\* What has been executed of it with success is part of what is no longer to be executed.
ExecutedPart ==
  Loop \in Goroutines /\ pc[Loop] = "exec" /\ ~taken.removed
    => done[Loop] \in Sublists(SubSeq(blk[Loop].data, 1, Len(blk[Loop].data) - Len(todo[Loop])))

HashedInv == HashedTaken /\ ExecutedPart /\ ExecutesWhatIsHashed

\* A step of the server as the validator loop's call of AddBlock and its slice see it.
LoopSees ==
  \/ pc'[Loop] = "idle"
  \/ /\ pc[Loop] = "idle" /\ pc'[Loop] = "check"
     /\ blk'[Loop].data = Pool!View /\ taken' = taken
  \/ /\ pc[Loop] # "idle" /\ CallMoves(Loop) /\ taken' = taken
  \/ /\ pc'[Loop] = pc[Loop]
     /\ blk'[Loop].data = blk[Loop].data
     /\ done'[Loop] = done[Loop] /\ Len(todo'[Loop]) = Len(todo[Loop])
     /\ pc[Loop] \in {"append", "put"} => blk'[Loop] = blk[Loop]
     /\ taken'.orig = taken.orig
     /\ taken.removed => taken'.removed

LEMMA ServerStepLoop ==
  ASSUME ServerInv, PoolSound', [ServerNext]_serverVars, Loop \in Goroutines
  PROVE  LoopSees /\ (pc'[Loop] # "idle" /\ step'[Loop] = "adding" /\ pc[Loop] # "idle" => step[Loop] = "adding")
<1>1. /\ TypeOK /\ Calls
      /\ step \in [Goroutines -> {"idle", "tip", "taken", "adding", "added"}]
  BY DEF ServerInv, ServerTypeOK
<1>2. Main \in Goroutines /\ Main # Loop
  BY ServerAssumption
<1>3. pc[Loop] # "idle" => step[Loop] = "adding"
  BY <1>1 DEF Calls, CallOk
<1>4. CASE (\E tx \in Tx : ProcessTransaction(tx)) \/ RemoveTx \/ ClearPending
  <2>1. /\ PoolStep /\ Len(Pool!View') = Len(Pool!View)
        /\ Pool!ClearPending \/ (\E tx \in Tx : Pool!Add(tx)) \/ (\E x : Pool!Remove(x))
    BY <1>4, PoolActions
  <2>2. /\ taken'.orig = taken.orig
        /\ taken.removed => taken'.removed
    BY <2>1, SliceStep DEF ServerInv
  <2>3. /\ UNCHANGED <<pc, done>>
        /\ blk'[Loop].data = blk[Loop].data
        /\ (Loop = Loop /\ Aliased) \/ (blk'[Loop] = blk[Loop] /\ todo'[Loop] = todo[Loop])
        /\ Aliased => Len(todo'[Loop]) = Len(todo[Loop])
    BY <2>1, PoolStepBlock
  <2> QED
    BY <1>3, <2>2, <2>3 DEF LoopSees, Aliased
<1>5. ASSUME NEW b \in wire, NEW c \in Copies(b), ProcessBlock(c)
      PROVE  LoopSees
  <2>1. Call(Main, c)
    BY <1>5 DEF ProcessBlock, CallForeign
  <2>2. Untouched(Loop) /\ taken' = taken
    BY <1>1, <1>2, <1>5, <2>1, CallEffect DEF ProcessBlock, poolVars
  <2> QED
    BY <2>2 DEF LoopSees, Untouched
<1>6. CASE AddNewBlock
  <2>1. /\ Call(Loop, NewBlockFromPrevHeader(tip, Pool!View)) /\ taken' = taken
        /\ NewBlockFromPrevHeader(tip, Pool!View).data = Pool!View
    BY <1>6 DEF AddNewBlock, CallOwn, poolVars, NewBlockFromPrevHeader
  <2>2. pc[Loop] = "idle" /\ pc'[Loop] = "check" /\ blk'[Loop].data = Pool!View
    BY <1>1, <2>1, CallEffect
  <2> QED
    BY <2>1, <2>2 DEF LoopSees
<1>7. CASE BlockRefused \/ BlockAdded \/ BlockProcessed \/ ReadTip
  <2>1. UNCHANGED <<vars, poolVars>>
    BY <1>7 DEF BlockRefused, BlockAdded, BlockProcessed, ReadTip
  <2> QED
    BY <1>3, <2>1 DEF LoopSees, vars, callVars, poolVars
<1>8. CASE TakePending \/ NewBlockRefused
  <2>1. UNCHANGED vars /\ pc[Loop] = "idle"
    BY <1>3, <1>8 DEF TakePending, NewBlockRefused
  <2> QED
    BY <2>1 DEF LoopSees, vars, callVars
<1>9. ASSUME NEW g \in Goroutines, LockState(g) \/ Proceed(g), UNCHANGED poolVars
      PROVE  LoopSees
  <2>1. CallMoves(g) /\ (g # Loop => Untouched(Loop)) /\ taken' = taken
    BY <1>1, <1>9, InnerStep DEF poolVars
  <2>2. CASE g = Loop
    BY <2>1, <2>2 DEF LoopSees, CallMoves
  <2>3. CASE g # Loop
    BY <2>1, <2>3 DEF LoopSees, Untouched
  <2> QED
    BY <2>2, <2>3
<1>10. CASE InAddBlock
  BY <1>3, <1>9, <1>10 DEF InAddBlock
<1>11. CASE Elsewhere \/ UNCHANGED serverVars
  <2>1. UNCHANGED <<callVars, poolVars>>
    BY <1>11 DEF Elsewhere, BuildElsewhere, serverVars, vars
  <2> QED
    BY <1>3, <2>1 DEF LoopSees, callVars, poolVars
<1> QED
  BY <1>3, <1>4, <1>5, <1>6, <1>7, <1>8, <1>10, <1>11 DEF ServerNext

LEMMA InitHashedInv == ServerInit => HashedInv
  BY DEF ServerInit, Init, HashedInv, HashedTaken, ExecutedPart, ExecutesWhatIsHashed

LEMMA NextHashedInv == ServerInv /\ HashedInv /\ [ServerNext]_serverVars => HashedInv'
<1> SUFFICES ASSUME ServerInv, HashedInv, [ServerNext]_serverVars, Loop \in Goroutines
             PROVE  HashedInv'
  BY DEF HashedInv, HashedTaken, ExecutedPart, ExecutesWhatIsHashed
<1>1. PoolSound /\ PoolSound' /\ TypeOK /\ Calls
  BY NextPoolSound DEF ServerInv, ServerTypeOK
<1>2. LoopSees
  BY <1>1, ServerStepLoop
<1>3. /\ blk[Loop] \in Block /\ todo[Loop] \in Seq(Tx \cup {GenesisTx})
      /\ done[Loop] \in Seq(Tx \cup {GenesisTx})
      /\ pc[Loop] # "idle" => step[Loop] = "adding"
  BY <1>1 DEF TypeOK, Calls, CallOk
<1>4. blk[Loop].data \in Seq(Tx)
  BY <1>3 DEF Block
<1>5. ~taken.removed => Pool!View = taken.orig
  BY <1>1, SameView DEF PoolSound, Mempool!SliceInv, Mempool!TakenIntact
<1>6. ASSUME pc[Loop] \in {"check", "lock", "exec"}, ~taken.removed
      PROVE  /\ blk[Loop].txs = blk[Loop].data
             /\ Len(todo[Loop]) <= Len(blk[Loop].data)
             /\ todo[Loop] = LastOf(blk[Loop].data, Len(todo[Loop]))
  BY <1>3, <1>5, <1>6 DEF HashedInv, HashedTaken, ServerInv, SliceInBlock, Aliased
<1>7. CASE pc'[Loop] = "idle"
  BY <1>7 DEF HashedInv, HashedTaken, ExecutedPart, ExecutesWhatIsHashed
<1>8. CASE /\ pc[Loop] = "idle" /\ pc'[Loop] = "check"
           /\ blk'[Loop].data = Pool!View /\ taken' = taken
  BY <1>5, <1>8 DEF HashedInv, HashedTaken, ExecutedPart, ExecutesWhatIsHashed
<1>9. CASE /\ pc'[Loop] = pc[Loop] /\ pc[Loop] # "idle"
           /\ blk'[Loop].data = blk[Loop].data
           /\ done'[Loop] = done[Loop] /\ Len(todo'[Loop]) = Len(todo[Loop])
           /\ pc[Loop] \in {"append", "put"} => blk'[Loop] = blk[Loop]
           /\ taken'.orig = taken.orig
           /\ taken.removed => taken'.removed
  BY <1>3, <1>9 DEF HashedInv, HashedTaken, ExecutedPart, ExecutesWhatIsHashed
<1>10. CASE pc[Loop] # "idle" /\ pc'[Loop] # "idle" /\ CallMoves(Loop) /\ taken' = taken
  <2>1. blk'[Loop].data = blk[Loop].data
    BY <1>3, <1>10 DEF CallMoves, Block
  <2>2. HashedTaken'
    BY <1>3, <1>10, <2>1 DEF HashedInv, HashedTaken
  <2>3. ExecutedPart'
    <3> SUFFICES ASSUME pc'[Loop] = "exec", ~taken.removed
                 PROVE  done'[Loop] \in
                          Sublists(SubSeq(blk[Loop].data, 1, Len(blk[Loop].data) - Len(todo'[Loop])))
      BY <1>10, <2>1 DEF ExecutedPart
    <3>1. Loop \in Validators
      BY ServerAssumption
    <3>2. CASE pc[Loop] = "lock"
      <4>1. done'[Loop] = <<>> /\ todo'[Loop] = blk[Loop].data
        BY <1>1, <1>6, <1>10, <3>2 DEF CallMoves, Calls, CallOk
      <4>2. Len(blk[Loop].data) - Len(todo'[Loop]) = 0
        BY <1>4, <4>1
      <4> QED
        BY <1>4, <4>1, <4>2, SublistsNone
    <3>3. CASE pc[Loop] # "lock"
      <4>1. /\ pc[Loop] = "exec" /\ todo[Loop] # <<>> /\ todo'[Loop] = Tail(todo[Loop])
            /\ done'[Loop] = done[Loop] \/ done'[Loop] = Append(done[Loop], Head(todo[Loop]))
        BY <1>10, <3>1, <3>3 DEF CallMoves
      <4> DEFINE k == Len(blk[Loop].data) - Len(todo[Loop])
      <4>2. done[Loop] \in Sublists(SubSeq(blk[Loop].data, 1, k))
        BY <4>1 DEF HashedInv, ExecutedPart
      <4>3. /\ k \in 0 .. Len(blk[Loop].data) - 1
            /\ Len(todo[Loop]) \in 1 .. Len(blk[Loop].data)
            /\ Len(blk[Loop].data) - Len(todo'[Loop]) = k + 1
        <5>1. Len(todo[Loop]) <= Len(blk[Loop].data)
          BY <1>6, <4>1
        <5>2. Len(todo[Loop]) \in Nat \ {0} /\ Len(todo'[Loop]) = Len(todo[Loop]) - 1
          BY <1>3, <4>1
        <5>3. Len(blk[Loop].data) \in Nat
          BY <1>4
        <5>4. \A d \in Nat : \A t \in Nat \ {0} : \A u :
                t <= d /\ u = t - 1 => d - t \in 0 .. d - 1 /\ t \in 1 .. d /\ d - u = d - t + 1
          OBVIOUS
        <5> QED
          BY <5>1, <5>2, <5>3, <5>4
      <4>4. Head(todo[Loop]) = blk[Loop].data[k + 1]
        BY <1>4, <1>6, <4>1, <4>3, LastOfTail
      <4> HIDE DEF k
      <4>5. /\ done[Loop] \in Sublists(SubSeq(blk[Loop].data, 1, k + 1))
            /\ Append(done[Loop], blk[Loop].data[k + 1]) \in Sublists(SubSeq(blk[Loop].data, 1, k + 1))
        BY <1>4, <4>2, <4>3, SublistsNext
      <4> QED
        BY <4>1, <4>3, <4>4, <4>5
    <3> QED
      BY <3>2, <3>3
  <2>4. ExecutesWhatIsHashed'
    <3> SUFFICES ASSUME pc'[Loop] \in {"append", "put"}, ~taken.removed
                 PROVE  blk'[Loop].txs \in Sublists(blk[Loop].data)
      BY <1>10, <2>1 DEF ExecutesWhatIsHashed
    <3>1. CASE pc[Loop] = "exec"
      <4>1. todo[Loop] = <<>> /\ blk'[Loop] = [blk[Loop] EXCEPT !.txs = done[Loop]]
        BY <1>10, <3>1 DEF CallMoves
      <4>2. blk'[Loop].txs = done[Loop]
        BY <1>3, <4>1 DEF Block
      <4>3. Len(todo[Loop]) = 0
        BY <4>1
      <4>4. SubSeq(blk[Loop].data, 1, Len(blk[Loop].data) - Len(todo[Loop])) = blk[Loop].data
        BY <1>4, <4>3
      <4> QED
        BY <3>1, <4>2, <4>4 DEF HashedInv, ExecutedPart
    <3>2. CASE pc[Loop] # "exec"
      <4>1. pc[Loop] = "append" /\ blk'[Loop] = blk[Loop]
        BY <1>10, <3>2 DEF CallMoves
      <4> QED
        BY <4>1 DEF HashedInv, ExecutesWhatIsHashed
    <3> QED
      BY <3>1, <3>2
  <2> QED
    BY <2>2, <2>3, <2>4 DEF HashedInv
<1> QED
  BY <1>2, <1>7, <1>8, <1>9, <1>10 DEF LoopSees

(***************************************************************************)
(* createNewBlock hashes the transactions of the pool's slice, and         *)
(* addBlockWithoutValidation reads the slice again, one transaction after  *)
(* the other, while the message loop works on the pool.  As long as the    *)
(* message loop removes nothing, the block that is appended consists of    *)
(* transactions its header commits to, in their order.                     *)
(***************************************************************************)
THEOREM HashedIsExecuted == ServerSpec => []ExecutesWhatIsHashed
<1>1. HashedInv => ExecutesWhatIsHashed
  BY DEF HashedInv
<1> QED
  BY <1>1, InitServerInv, NextServerInv, InitHashedInv, NextHashedInv, PTL DEF ServerSpec

-----------------------------------------------------------------------------
(* What the pool forgets                                                   *)

\* Some block of the chain has executed all of these.
Executed(txx) == \E i \in DOMAIN chain : Range(txx) \subseteq Range(chain[i].txs)

\* AddBlock answers "ok" for a block of the chain; what is still to be removed comes from one.
RestExecuted ==
  /\ \A g \in Goroutines :
       pc[g] = "put" \/ (step[g] = "adding" /\ pc[g] = "idle" /\ result[g] = "ok") => Executed(blk[g].txs)
  /\ step[Main] = "added" => Executed(rest)

LEMMA RangeTail ==
  ASSUME NEW S, NEW s \in Seq(S), s # <<>>
  PROVE  Range(Tail(s)) \subseteq Range(s) /\ Head(s) \in Range(s)
<1>1. /\ DOMAIN s = 1 .. Len(s) /\ Len(s) > 0 /\ Head(s) = s[1]
      /\ DOMAIN Tail(s) = 1 .. Len(s) - 1
      /\ \A i \in 1 .. Len(s) - 1 : Tail(s)[i] = s[i + 1]
  OBVIOUS
<1>2. ASSUME NEW i \in 1 .. Len(s) - 1 PROVE i + 1 \in 1 .. Len(s)
  BY <1>1
<1>3. 1 \in 1 .. Len(s)
  BY <1>1
<1> QED
  BY <1>1, <1>2, <1>3 DEF Range

\* The chain grows at most: what was executed stays so.
LEMMA ExecutedKept ==
  ASSUME TypeOK, NEW txx, Executed(txx),
         chain' = chain \/ \E g \in Goroutines : chain' = Append(chain, blk[g])
  PROVE  \E i \in DOMAIN chain' : Range(txx) \subseteq Range(chain'[i].txs)
<1>1. PICK i \in DOMAIN chain : Range(txx) \subseteq Range(chain[i].txs)
  BY DEF Executed
<1>2. chain \in Seq(Block) /\ \A g \in Goroutines : blk[g] \in Block
  BY DEF TypeOK
<1>3. i \in DOMAIN chain' /\ chain'[i] = chain[i]
  BY <1>2
<1> QED
  BY <1>1, <1>3

LEMMA InitRestExecuted == ServerInit => RestExecuted
<1> SUFFICES ASSUME ServerInit PROVE RestExecuted
  OBVIOUS
<1>1. \A g \in Goroutines : pc[g] = "idle" /\ step[g] = "idle"
  BY DEF ServerInit, Init
<1> QED
  BY <1>1, ServerAssumption DEF RestExecuted

LEMMA NextRestExecuted == ServerInv /\ RestExecuted /\ [ServerNext]_serverVars => RestExecuted'
<1> SUFFICES ASSUME ServerInv, RestExecuted, [ServerNext]_serverVars PROVE RestExecuted'
  OBVIOUS
<1>1. /\ TypeOK /\ Calls /\ PoolSound'
      /\ step \in [Goroutines -> {"idle", "tip", "taken", "adding", "added"}]
      /\ rest \in Seq(Tx)
  BY NextPoolSound DEF ServerInv, ServerTypeOK
<1>2. Main \in Goroutines
  BY ServerAssumption
<1>3. ASSUME NEW txx, Executed(txx), chain' = chain
      PROVE  Executed(txx)'
  BY <1>3 DEF Executed
<1>4. CASE (\E tx \in Tx : ProcessTransaction(tx)) \/ RemoveTx \/ ClearPending
  <2>1. /\ PoolStep /\ Len(Pool!View') = Len(Pool!View)
        /\ \A g \in Goroutines : step'[g] = step[g] \/ (pc[g] = "idle" /\ step'[g] # "adding")
    BY <1>1, <1>4, PoolActions
  <2>2. /\ chain' = chain /\ pc' = pc /\ result' = result
        /\ \A g \in Goroutines : (g = Loop /\ Aliased) \/ blk'[g] = blk[g]
    BY <1>1, <2>1, PoolStepBlock DEF nodeVars
  <2>3. ASSUME NEW g \in Goroutines,
               pc'[g] = "put" \/ (step'[g] = "adding" /\ pc'[g] = "idle" /\ result'[g] = "ok")
        PROVE  Executed(blk[g].txs)' /\ blk'[g] = blk[g]
    <3>1. blk'[g] = blk[g]
      BY <2>2, <2>3 DEF Aliased
    <3>2. Executed(blk[g].txs)
      BY <2>1, <2>2, <2>3 DEF RestExecuted
    <3> QED
      BY <2>2, <3>1, <3>2 DEF Executed
  <2>4. step'[Main] = "added" => Executed(rest)'
    <3>1. CASE RemoveTx
      <4>1. Executed(rest) /\ rest # <<>> /\ rest' = Tail(rest)
        BY <3>1 DEF RemoveTx, RestExecuted
      <4>2. Range(rest') \subseteq Range(rest)
        BY <1>1, <4>1, RangeTail
      <4> QED
        BY <2>2, <4>1, <4>2 DEF Executed
    <3>2. CASE ClearPending \/ \E tx \in Tx : ProcessTransaction(tx)
      <4>1. rest' = rest /\ step'[Main] = step[Main]
        BY <1>1, <3>2, ServerAssumption DEF ClearPending, ProcessTransaction, stepVars, Goto
      <4> QED
        BY <2>2, <4>1 DEF RestExecuted, Executed
    <3> QED
      BY <1>4, <3>1, <3>2
  <2> QED
    BY <2>3, <2>4 DEF RestExecuted
<1>5. ASSUME NEW g \in Goroutines, NEW b, Call(g, b), rest' = rest,
             step'[g] = "adding", \A h \in Goroutines \ {g} : step'[h] = step[h]
      PROVE  RestExecuted'
  <2>1. /\ chain' = chain /\ pc'[g] = "check"
        /\ \A h \in Goroutines \ {g} : Untouched(h)
    BY <1>1, <1>5, CallEffect
  <2>2. ASSUME NEW h \in Goroutines,
               pc'[h] = "put" \/ (step'[h] = "adding" /\ pc'[h] = "idle" /\ result'[h] = "ok")
        PROVE  Executed(blk[h].txs)'
    <3>1. h # g /\ Untouched(h) /\ step'[h] = step[h]
      BY <1>5, <2>1, <2>2
    <3> QED
      BY <2>1, <2>2, <3>1 DEF RestExecuted, Executed, Untouched
  <2>3. step'[Main] = "added" => Executed(rest)'
    BY <1>2, <1>5, <2>1 DEF RestExecuted, Executed
  <2> QED
    BY <2>2, <2>3 DEF RestExecuted
<1>6. ASSUME NEW b \in wire, NEW c \in Copies(b), ProcessBlock(c)
      PROVE  RestExecuted'
  <2>1. /\ Call(Main, c) /\ rest' = rest
        /\ step'[Main] = "adding" /\ \A h \in Goroutines \ {Main} : step'[h] = step[h]
    BY <1>1, <1>2, <1>6 DEF ProcessBlock, CallForeign, Goto
  <2> QED
    BY <1>2, <1>5, <2>1
<1>7. CASE AddNewBlock
  <2>1. /\ Loop \in Goroutines /\ Call(Loop, NewBlockFromPrevHeader(tip, Pool!View)) /\ rest' = rest
        /\ step'[Loop] = "adding" /\ \A h \in Goroutines \ {Loop} : step'[h] = step[h]
    BY <1>1, <1>7 DEF AddNewBlock, CallOwn, Goto
  <2> QED
    BY <1>5, <2>1
<1>8. CASE BlockAdded
  <2>1. UNCHANGED vars /\ rest' = blk[Main].txs
    BY <1>8 DEF BlockAdded
  <2>2. Executed(blk[Main].txs)
    BY <1>2, <1>8 DEF BlockAdded, RestExecuted
  <2>3. \A g \in Goroutines : step'[g] = "adding" => step[g] = "adding"
    BY <1>1, <1>8 DEF BlockAdded, Goto
  <2> QED
    BY <2>1, <2>2, <2>3 DEF RestExecuted, Executed, vars, nodeVars, callVars
<1>9. CASE BlockRefused \/ BlockProcessed \/ ReadTip \/ TakePending \/ NewBlockRefused
  <2>1. UNCHANGED vars /\ rest' = rest
    BY <1>9 DEF BlockRefused, BlockProcessed, ReadTip, TakePending, NewBlockRefused
  <2>2. \A g \in Goroutines : step'[g] \in {"adding", "added"} => step'[g] = step[g]
    BY <1>1, <1>9 DEF BlockRefused, BlockProcessed, ReadTip, TakePending, NewBlockRefused, Goto
  <2> QED
    BY <1>2, <2>1, <2>2 DEF RestExecuted, Executed, vars, nodeVars, callVars
<1>10. ASSUME NEW g \in Goroutines, LockState(g) \/ Proceed(g), UNCHANGED stepVars
       PROVE  RestExecuted'
  <2>1. /\ CallMoves(g)
        /\ \A h \in Goroutines \ {g} : Untouched(h)
        /\ chain' = chain \/ chain' = Append(chain, blk[g])
    BY <1>1, <1>10, InnerStep DEF CallMoves
  <2>2. ASSUME NEW txx, Executed(txx)
        PROVE  \E i \in DOMAIN chain' : Range(txx) \subseteq Range(chain'[i].txs)
    BY <1>1, <2>1, <2>2, ExecutedKept
  <2>3. ASSUME NEW h \in Goroutines,
               pc'[h] = "put" \/ (step'[h] = "adding" /\ pc'[h] = "idle" /\ result'[h] = "ok")
        PROVE  \E i \in DOMAIN chain' : Range(blk'[h].txs) \subseteq Range(chain'[i].txs)
    <3>1. CASE h # g
      <4>1. Untouched(h) /\ step' = step
        BY <1>10, <2>1, <3>1 DEF stepVars
      <4>2. Executed(blk[h].txs) /\ blk'[h] = blk[h]
        BY <2>3, <4>1 DEF RestExecuted, Untouched
      <4> QED
        BY <2>2, <4>2
    <3>2. CASE h = g /\ pc[g] = "append"
      <4>1. chain' = Append(chain, blk[g]) /\ blk'[g] = blk[g] /\ chain \in Seq(Block) /\ blk[g] \in Block
        BY <1>1, <2>1, <3>2 DEF CallMoves, TypeOK
      <4>2. Len(chain) + 1 \in DOMAIN chain' /\ chain'[Len(chain) + 1] = blk'[h]
        BY <3>2, <4>1
      <4> QED
        BY <4>2
    <3>3. CASE h = g /\ pc[g] # "append"
      <4>1. pc[g] = "put" /\ blk'[g] = blk[g]
        BY <2>1, <2>3, <3>3 DEF CallMoves
      <4>2. Executed(blk[g].txs)
        BY <4>1 DEF RestExecuted
      <4> QED
        BY <2>2, <3>3, <4>1, <4>2
    <3> QED
      BY <3>1, <3>2, <3>3
  <2>4. step'[Main] = "added" => \E i \in DOMAIN chain' : Range(rest') \subseteq Range(chain'[i].txs)
    BY <1>10, <2>2 DEF RestExecuted, stepVars
  <2> QED
    BY <2>3, <2>4 DEF RestExecuted, Executed
<1>11. CASE InAddBlock
  BY <1>10, <1>11 DEF InAddBlock
<1>12. CASE Elsewhere \/ UNCHANGED serverVars
  <2>1. UNCHANGED <<nodeVars, callVars, stepVars>>
    BY <1>12 DEF Elsewhere, BuildElsewhere, serverVars, vars
  <2> QED
    BY <2>1 DEF RestExecuted, Executed, nodeVars, callVars, stepVars
<1> QED
  BY <1>4, <1>6, <1>7, <1>8, <1>9, <1>11, <1>12 DEF ServerNext

(***************************************************************************)
(* With room for all transactions in the pool, the server forgets a        *)
(* transaction - so that it could be accepted and executed again - only    *)
(* after a block of the chain has executed it: a refused block, an error   *)
(* of the disk and a block that is built at the same time take nothing     *)
(* out of "all" (processBlock and processBlocksMessage of server.go).      *)
(***************************************************************************)
THEOREM ForgottenIsExecuted ==
  ASSUME IsFiniteSet(Tx), Cardinality(Tx) <= MaxLength
  PROVE  ServerSpec => ForgetsOnlyExecuted
<1>1. ASSUME ServerInv, RestExecuted, [ServerNext]_serverVars,
             NEW tx \in all.lookup \ all'.lookup
      PROVE  \E i \in DOMAIN chain : tx \in Range(chain[i].txs)
  <2>1. all.lookup \subseteq Tx
    BY <1>1, PoolSoundHoldsTxs DEF ServerInv, PoolHoldsTxs
  <2>2. all' # all
    BY <1>1
  <2>3. ASSUME NEW new \in Tx, ProcessTransaction(new)
        PROVE  FALSE
    <3>1. new \notin all.lookup /\ Pool!Add(new)
      BY <2>3 DEF ProcessTransaction, Pool!Contains
    <3>2. /\ IsFiniteSet(Tx \ {new}) /\ Cardinality(Tx \ {new}) = Cardinality(Tx) - 1
          /\ Cardinality(Tx) \in Nat
      BY FS_RemoveElement, FS_CardinalityType
    <3>3. Cardinality(all.lookup) <= Cardinality(Tx) - 1 /\ Cardinality(all.lookup) \in Nat
      BY <2>1, <3>1, <3>2, FS_Subset, FS_CardinalityType
    <3>4. Pool!Count(all) # MaxLength
      BY <3>2, <3>3, SameCount, ServerAssumption
    <3>5. all' = Pool!MapAdd(all, new)
      BY <3>1, <3>4 DEF Pool!Add, Pool!Pruned
    <3>6. all.lookup \subseteq all'.lookup
      BY <3>5 DEF Pool!MapAdd, Pool!Insert
    <3> QED
      BY <1>1, <3>6
  <2>4. CASE RemoveTx
    <3>1. rest # <<>> /\ all' = Pool!MapRemove(all, Head(rest)) /\ Executed(rest)
      BY <1>1, <2>4 DEF RemoveTx, Pool!Remove, RestExecuted
    <3>2. tx = Head(rest)
      BY <1>1, <3>1 DEF Pool!MapRemove, Pool!Pop
    <3>3. Head(rest) \in Range(rest)
      BY <1>1, <3>1, RangeTail DEF ServerInv, ServerTypeOK
    <3> QED
      BY <3>1, <3>2, <3>3 DEF Executed
  <2>5. ClearPending => all' = all
    BY DEF ClearPending, Pool!ClearPending
  <2>6. (\E b \in wire : \E c \in Copies(b) : ProcessBlock(c)) => all' = all
    BY DEF ProcessBlock, poolVars
  <2>7. BlockRefused \/ BlockAdded \/ BlockProcessed \/ ReadTip \/ AddNewBlock \/ NewBlockRefused => all' = all
    BY DEF BlockRefused, BlockAdded, BlockProcessed, ReadTip, AddNewBlock, NewBlockRefused, poolVars
  <2>8. TakePending \/ InAddBlock \/ Elsewhere \/ UNCHANGED serverVars => all' = all
    BY DEF TakePending, Pool!Pending, InAddBlock, Elsewhere, serverVars, poolVars
  <2> QED
    BY <1>1, <2>2, <2>3, <2>4, <2>5, <2>6, <2>7, <2>8 DEF ServerNext
<1>2. ServerInv /\ RestExecuted /\ [ServerNext]_serverVars
        => [\A tx \in all.lookup \ all'.lookup :
              \E i \in DOMAIN chain : tx \in Range(chain[i].txs)]_serverVars
  BY <1>1
<1> QED
  BY <1>2, InitServerInv, NextServerInv, InitRestExecuted, NextRestExecuted, PTL
    DEF ServerSpec, ForgetsOnlyExecuted

-----------------------------------------------------------------------------
(* What the pool loses                                                     *)

Added(g) == step[g] = "adding" /\ pc[g] = "idle" /\ result[g] = "ok"

\* A step of the server as the call of one goroutine sees it.
CallSees(g) ==
  \/ pc'[g] = "check" /\ step'[g] = "adding"
  \/ /\ CallMoves(g) /\ step'[g] = step[g] /\ pc[g] # "idle"
     /\ pc[g] = "check" /\ pc'[g] = "lock" => blk[g].data = blk[g].txs
     /\ chain' = chain \/ chain' = Append(chain, blk[g])
  \/ /\ pc'[g] = pc[g] /\ result'[g] = result[g] /\ blk'[g].data = blk[g].data
     /\ step'[g] = step[g] \/ (pc[g] = "idle" /\ step'[g] # "adding")
     /\ g # Loop => Untouched(g)
     /\ pc[g] \in {"append", "put", "idle"} => blk'[g] = blk[g]
     /\ chain' = chain \/ \E h \in Goroutines : chain' = Append(chain, blk[h])

LEMMA ServerStepCall ==
  ASSUME ServerInv, PoolSound', [ServerNext]_serverVars, NEW g \in Goroutines
  PROVE  CallSees(g)
<1>1. /\ TypeOK /\ Calls
      /\ step \in [Goroutines -> {"idle", "tip", "taken", "adding", "added"}]
  BY DEF ServerInv, ServerTypeOK
<1>2. Main \in Goroutines /\ Main # Loop
  BY ServerAssumption
<1>3. \A h \in Goroutines : step[h] # "adding" => pc[h] = "idle"
  BY <1>1 DEF Calls, CallOk
<1>4. CASE (\E tx \in Tx : ProcessTransaction(tx)) \/ RemoveTx \/ ClearPending
  <2>1. /\ PoolStep /\ Len(Pool!View') = Len(Pool!View)
        /\ step'[g] = step[g] \/ (pc[g] = "idle" /\ step'[g] # "adding")
    BY <1>4, PoolActions
  <2>2. /\ UNCHANGED <<nodeVars, pc, done, result>>
        /\ blk'[g].data = blk[g].data
        /\ (g = Loop /\ Aliased) \/ (blk'[g] = blk[g] /\ todo'[g] = todo[g])
    BY <2>1, PoolStepBlock
  <2>3. chain' = chain
    BY <2>2 DEF nodeVars
  <2> QED
    BY <2>1, <2>2, <2>3 DEF CallSees, Aliased, Untouched
<1>5. ASSUME NEW m \in Goroutines, NEW c, Call(m, c), step' = [step EXCEPT ![m] = "adding"]
      PROVE  CallSees(g)
  <2>1. /\ pc'[m] = "check" /\ \A h \in Goroutines \ {m} : Untouched(h)
        /\ chain' = chain
    BY <1>1, <1>5, CallEffect
  <2>2. step'[m] = "adding" /\ \A h \in Goroutines \ {m} : step'[h] = step[h]
    BY <1>1, <1>5
  <2>3. CASE g = m
    BY <2>1, <2>2, <2>3 DEF CallSees
  <2>4. CASE g # m
    BY <2>1, <2>2, <2>4 DEF CallSees, Untouched
  <2> QED
    BY <2>3, <2>4
<1>6. ASSUME NEW b \in wire, NEW c \in Copies(b), ProcessBlock(c)
      PROVE  CallSees(g)
  BY <1>2, <1>5, <1>6 DEF ProcessBlock, CallForeign, Goto
<1>7. CASE AddNewBlock
  BY <1>5, <1>7 DEF AddNewBlock, CallOwn, Goto
<1>8. CASE BlockRefused \/ BlockAdded \/ BlockProcessed \/ ReadTip \/ TakePending \/ NewBlockRefused
  <2>1. UNCHANGED vars
    BY <1>8 DEF BlockRefused, BlockAdded, BlockProcessed, ReadTip, TakePending, NewBlockRefused
  <2>2. step'[g] = step[g] \/ (pc[g] = "idle" /\ step'[g] # "adding")
    BY <1>1, <1>2, <1>3, <1>8 DEF BlockRefused, BlockAdded, BlockProcessed, ReadTip, TakePending, NewBlockRefused, Goto
  <2> QED
    BY <2>1, <2>2 DEF CallSees, Untouched, vars, nodeVars, callVars
<1>9. ASSUME NEW h \in Goroutines, LockState(h) \/ Proceed(h), UNCHANGED stepVars
      PROVE  CallSees(g)
  <2>1. /\ CallMoves(h)
        /\ \A k \in Goroutines \ {h} : Untouched(k)
        /\ chain' = chain \/ chain' = Append(chain, blk[h])
    BY <1>1, <1>9, InnerStep DEF CallMoves
  <2>2. step' = step
    BY <1>9 DEF stepVars
  <2>3. CASE g # h
    BY <2>1, <2>2, <2>3 DEF CallSees, Untouched
  <2>4. CASE g = h
    <3>1. pc[g] = "check" /\ pc'[g] = "lock" => Valid(blk[g], cur[g])
      <4>1. CASE LockState(h)
        BY <2>4, <4>1 DEF LockState
      <4>2. CASE Proceed(h)
        <5>1. CASE Reject(h)
          BY <1>1, <2>4, <5>1 DEF Reject, Return, TypeOK
        <5>2. CASE ~Reject(h)
          BY <2>4, <4>2, <5>2 DEF Proceed, Accept, ExecOk, ExecError, ExecStudent, ExecPanic,
               Executing, UnlockState, AppendBlock, PutOk, PutFails
        <5> QED
          BY <5>1, <5>2
      <4> QED
        BY <1>9, <4>1, <4>2
    <3>2. pc[g] # "idle"
      BY <2>1, <2>4 DEF CallMoves
    <3> QED
      BY <2>1, <2>2, <2>4, <3>1, <3>2 DEF CallSees, Valid
  <2> QED
    BY <2>3, <2>4
<1>10. CASE InAddBlock
  BY <1>9, <1>10 DEF InAddBlock
<1>11. CASE Elsewhere \/ UNCHANGED serverVars
  <2>1. UNCHANGED <<nodeVars, callVars, stepVars>>
    BY <1>11 DEF Elsewhere, BuildElsewhere, serverVars, vars
  <2> QED
    BY <2>1 DEF CallSees, Untouched, nodeVars, callVars, stepVars
<1> QED
  BY <1>4, <1>6, <1>7, <1>8, <1>10, <1>11 DEF ServerNext

LEMMA ServerChain ==
  ASSUME ServerInv, [ServerNext]_serverVars
  PROVE  chain' = chain \/ \E g \in Goroutines : chain' = Append(chain, blk[g])
<1>1. TypeOK /\ Main \in Goroutines
  BY ServerAssumption DEF ServerInv, ServerTypeOK
<1>2. CASE (\E tx \in Tx : ProcessTransaction(tx)) \/ RemoveTx \/ ClearPending
  BY <1>2 DEF ProcessTransaction, RemoveTx, ClearPending, PoolStep, nodeVars
<1>3. CASE InAddBlock
  BY <1>1, <1>3, InnerStep DEF InAddBlock, CallMoves
<1>4. CASE (\E b \in wire : \E c \in Copies(b) : ProcessBlock(c)) \/ AddNewBlock
  BY <1>4 DEF ProcessBlock, CallForeign, AddNewBlock, CallOwn, Call, nodeVars
<1>5. CASE BlockRefused \/ BlockAdded \/ BlockProcessed \/ ReadTip \/ TakePending \/ NewBlockRefused
  BY <1>5 DEF BlockRefused, BlockAdded, BlockProcessed, ReadTip, TakePending, NewBlockRefused, vars, nodeVars
<1>6. CASE Elsewhere \/ UNCHANGED serverVars
  BY <1>6 DEF Elsewhere, BuildElsewhere, serverVars, vars, nodeVars
<1> QED
  BY <1>2, <1>3, <1>4, <1>5, <1>6 DEF ServerNext

\* ArrivedBefore for any history.
Before(seq, early, late) == \E i, j \in DOMAIN seq : i < j /\ seq[i] = early /\ seq[j] = late

LEMMA ArrivedBeforeIs == \A e, l : ArrivedBefore(e, l) <=> Before(arrival, e, l)
  BY DEF ArrivedBefore, Before

\* Everything pending has arrived, and the list is in the order of arrival.
OrderInv ==
  /\ pending.lookup \subseteq Range(arrival)
  /\ \A i, j \in 1 .. pending.len : i < j => Before(arrival, pending.cells[i], pending.cells[j])

\* Given this history, those of the pending ones that are not in S arrived after all that are.
Late(seq, txx, S) ==
  /\ S \subseteq Range(seq)
  /\ \A tx \in txx : tx \in S \/ \A early \in S : Before(seq, early, tx)

\* The history only grows.
LEMMA ArrivalGrows ==
  ASSUME arrival \in Seq(Tx), arrival' = arrival \/ \E tx \in Tx : arrival' = Append(arrival, tx)
  PROVE  /\ Range(arrival) \subseteq Range(arrival')
         /\ \A e, l : Before(arrival, e, l) => Before(arrival', e, l)
<1>1. \A i \in DOMAIN arrival : i \in DOMAIN arrival' /\ arrival'[i] = arrival[i]
  OBVIOUS
<1> QED
  BY <1>1 DEF Range, Before

LEMMA ArrivesLast ==
  ASSUME arrival \in Seq(Tx), NEW tx \in Tx, arrival' = Append(arrival, tx)
  PROVE  /\ tx \in Range(arrival')
         /\ \A early \in Range(arrival) : Before(arrival', early, tx)
<1>1. Len(arrival) + 1 \in DOMAIN arrival' /\ arrival'[Len(arrival) + 1] = tx
  OBVIOUS
<1>2. \A i \in DOMAIN arrival :
        i \in DOMAIN arrival' /\ arrival'[i] = arrival[i] /\ i < Len(arrival) + 1
  OBVIOUS
<1>3. ASSUME NEW early \in Range(arrival) PROVE Before(arrival', early, tx)
  <2>1. PICK i \in DOMAIN arrival : arrival[i] = early
    BY DEF Range
  <2> QED
    BY <1>1, <1>2, <2>1 DEF Before
<1> QED
  BY <1>1, <1>3 DEF Range

\* The pool as the server's steps leave it.
PoolMoves ==
  \/ \E tx \in Tx :
       /\ arrival' = Append(arrival, tx)
       /\ \/ pending' = pending
          \/ /\ pending'.lookup = pending.lookup \cup {tx}
             /\ pending'.len = pending.len + 1
             /\ pending'.cells[pending.len + 1] = tx
             /\ \A i \in 1 .. pending.len : pending'.cells[i] = pending.cells[i]
       /\ ~taken'.shares => Pool!View' = Pool!View
       /\ taken'.shares => taken.shares
       /\ Range(Pool!View') \subseteq Range(Pool!View) \cup {tx}
       /\ UNCHANGED stepVars
       /\ tx \in pending'.lookup
  \/ /\ step[Main] = "added" /\ arrival' = arrival
     /\ pending'.lookup = pending.lookup \ {Head(rest)}
     /\ \A i, j \in 1 .. pending'.len : i < j =>
          \E k, l \in 1 .. pending.len :
            k < l /\ pending'.cells[i] = pending.cells[k] /\ pending'.cells[j] = pending.cells[l]
     /\ taken'.shares = taken.shares
     /\ ~taken'.shares => Pool!View' = Pool!View
     /\ Range(Pool!View') \subseteq Range(Pool!View) \cup pending.lookup
     /\ step' = step /\ Head(rest) \in Range(rest)
  \/ /\ step[Loop] = "adding" /\ step'[Loop] = "idle" /\ Loop \in Goroutines
     /\ pending' = Pool!NewTxSortedMap /\ arrival' = arrival /\ Added(Loop)
  \/ /\ step'[Loop] = "taken" /\ Loop \in Goroutines
     /\ pending' = pending /\ arrival' = arrival
     /\ taken'.shares /\ taken'.len = pending.len
  \/ UNCHANGED <<poolVars, arrival>>

LEMMA RangeElements ==
  ASSUME NEW S, NEW s \in Seq(S)
  PROVE  Range(s) = Mempool!Elements(s)
<1>1. DOMAIN s = 1 .. Len(s)
  OBVIOUS
<1> QED
  BY <1>1 DEF Range, Mempool!Elements

LEMMA ServerPoolMoves ==
  ASSUME ServerInv, PoolSound', [ServerNext]_serverVars
  PROVE  PoolMoves
<1>1. /\ PoolSound /\ step \in [Goroutines -> {"idle", "tip", "taken", "adding", "added"}]
      /\ rest \in Seq(Tx)
  BY DEF ServerInv, ServerTypeOK
<1>2. /\ Mempool!PoolInv /\ Mempool!SliceInv
      /\ Pool!View = Mempool!View /\ Pool!View' = Mempool!View'
      /\ Range(Pool!View) = Mempool!Elements(Mempool!View)
      /\ Range(Pool!View') = Mempool!Elements(Mempool!View')
  <2>1. Pool!View = Mempool!View /\ Pool!View' = Mempool!View'
    BY DEF Pool!View, Mempool!View
  <2>2. Pool!View \in Seq(Tx) /\ Pool!View' \in Seq(Tx)
    BY DEF PoolSound, ServerInv
  <2> QED
    BY <1>1, <2>1, <2>2, RangeElements DEF PoolSound
<1>3. ASSUME NEW tx \in Tx, ProcessTransaction(tx)
      PROVE  PoolMoves
  <2>1. Mempool!Add(tx)
    BY <1>3, SameOperations DEF ProcessTransaction
  <2>2. /\ \/ pending' = pending
           \/ /\ pending'.lookup = pending.lookup \cup {tx}
              /\ pending'.len = pending.len + 1
              /\ pending'.cells[pending.len + 1] = tx
              /\ \A i \in 1 .. pending.len : pending'.cells[i] = pending.cells[i]
        /\ taken'.shares => taken.shares
        /\ ~taken'.shares => Pool!View' = Pool!View
        /\ Range(Pool!View') \subseteq Range(Pool!View) \cup {tx}
    BY <1>2, <2>1, MempoolAssumption, Mempool!AddSeen
  <2>3. tx \in pending'.lookup
    <3>1. tx \notin Pool!Pruned.lookup
      BY <1>3 DEF ProcessTransaction, Pool!Contains, Pool!Pruned, Pool!MapRemove, Pool!Pop
    <3>2. pending' = Pool!MapAdd(pending, tx)
      BY <1>3, <3>1 DEF ProcessTransaction, Pool!Add, Pool!SetPending
    <3> QED
      BY <3>2 DEF Pool!MapAdd, Pool!Insert
  <2> QED
    BY <1>3, <2>2, <2>3 DEF PoolMoves, ProcessTransaction
<1>4. CASE RemoveTx
  <2>1. Head(rest) \in Tx /\ Head(rest) \in Range(rest)
    BY <1>1, <1>4, RangeTail DEF RemoveTx
  <2>2. Mempool!Remove(Head(rest))
    BY <1>4, SameOperations DEF RemoveTx
  <2>3. /\ pending'.lookup = pending.lookup \ {Head(rest)}
        /\ \A i, j \in 1 .. pending'.len : i < j =>
             \E k, l \in 1 .. pending.len :
               k < l /\ pending'.cells[i] = pending.cells[k] /\ pending'.cells[j] = pending.cells[l]
        /\ taken'.shares = taken.shares
        /\ ~taken'.shares => Pool!View' = Pool!View
        /\ Range(Pool!View') \subseteq Range(Pool!View) \cup pending.lookup
    BY <1>2, <2>1, <2>2, MempoolAssumption, Mempool!RemoveSeen
  <2> QED
    BY <1>4, <2>1, <2>3 DEF PoolMoves, RemoveTx
<1>5. CASE ClearPending
  BY <1>1, <1>5 DEF PoolMoves, ClearPending, Pool!ClearPending, Pool!SetPending, Goto, Added
<1>6. CASE TakePending
  BY <1>1, <1>6 DEF PoolMoves, TakePending, Pool!Pending, Goto
<1>7. CASE ~(\E tx \in Tx : ProcessTransaction(tx)) /\ ~RemoveTx /\ ~ClearPending /\ ~TakePending
  <2>1. UNCHANGED <<poolVars, arrival>>
    BY <1>7 DEF ServerNext, ProcessBlock, BlockRefused, BlockAdded, BlockProcessed, ReadTip,
         AddNewBlock, NewBlockRefused, InAddBlock, Elsewhere, serverVars
  <2> QED
    BY <2>1 DEF PoolMoves
<1> QED
  BY <1>3, <1>4, <1>5, <1>6, <1>7

LEMMA InitOrderInv == ServerInit => OrderInv
<1> SUFFICES ASSUME ServerInit PROVE OrderInv
  OBVIOUS
<1>1. pending.lookup = {} /\ pending.len = 0
  BY DEF ServerInit, Pool!Init, Pool!NewTxSortedMap
<1> QED
  BY <1>1 DEF OrderInv

LEMMA NextOrderInv == ServerInv /\ OrderInv /\ [ServerNext]_serverVars => OrderInv'
<1> SUFFICES ASSUME ServerInv, OrderInv, [ServerNext]_serverVars PROVE OrderInv'
  OBVIOUS
<1>1. PoolSound /\ PoolSound' /\ arrival \in Seq(Tx)
  BY NextPoolSound DEF ServerInv, ServerTypeOK
<1>2. /\ pending.len \in Nat /\ pending.lookup = {pending.cells[i] : i \in 1 .. pending.len}
  BY <1>1 DEF PoolSound, Mempool!PoolInv, Mempool!Sound, Mempool!SortedMap, Mempool!Coherent
<1>3. CASE \E tx \in Tx :
             /\ arrival' = Append(arrival, tx)
             /\ \/ pending' = pending
                \/ /\ pending'.lookup = pending.lookup \cup {tx}
                   /\ pending'.len = pending.len + 1
                   /\ pending'.cells[pending.len + 1] = tx
                   /\ \A i \in 1 .. pending.len : pending'.cells[i] = pending.cells[i]
  <2>1. PICK tx \in Tx :
             /\ arrival' = Append(arrival, tx)
             /\ \/ pending' = pending
                \/ /\ pending'.lookup = pending.lookup \cup {tx}
                   /\ pending'.len = pending.len + 1
                   /\ pending'.cells[pending.len + 1] = tx
                   /\ \A i \in 1 .. pending.len : pending'.cells[i] = pending.cells[i]
    BY <1>3
  <2>2. /\ Range(arrival) \subseteq Range(arrival') /\ tx \in Range(arrival')
        /\ \A e, l : Before(arrival, e, l) => Before(arrival', e, l)
        /\ \A early \in Range(arrival) : Before(arrival', early, tx)
    BY <1>1, <2>1, ArrivalGrows, ArrivesLast
  <2>3. CASE pending' = pending
    BY <2>2, <2>3 DEF OrderInv
  <2>4. CASE /\ pending'.lookup = pending.lookup \cup {tx}
             /\ pending'.len = pending.len + 1
             /\ pending'.cells[pending.len + 1] = tx
             /\ \A i \in 1 .. pending.len : pending'.cells[i] = pending.cells[i]
    <3>1. ASSUME NEW i \in 1 .. pending.len + 1, NEW j \in 1 .. pending.len + 1, i < j
          PROVE  Before(arrival', pending'.cells[i], pending'.cells[j])
      <4>1. i \in 1 .. pending.len /\ pending'.cells[i] = pending.cells[i]
        BY <1>2, <2>4, <3>1
      <4>2. CASE j \in 1 .. pending.len
        <5>1. Before(arrival, pending.cells[i], pending.cells[j])
          BY <3>1, <4>1, <4>2 DEF OrderInv
        <5>2. pending'.cells[j] = pending.cells[j]
          BY <2>4, <4>2
        <5> QED
          BY <2>2, <4>1, <5>1, <5>2
      <4>3. CASE j = pending.len + 1
        <5>1. pending'.cells[i] \in Range(arrival) /\ pending'.cells[j] = tx
          BY <1>2, <2>4, <4>1, <4>3 DEF OrderInv
        <5> QED
          BY <2>2, <5>1
      <4> QED
        BY <1>2, <4>2, <4>3
    <3> QED
      BY <2>2, <2>4, <3>1 DEF OrderInv
  <2> QED
    BY <2>1, <2>3, <2>4
<1>4. CASE /\ arrival' = arrival
           /\ pending'.lookup = pending.lookup \ {Head(rest)}
           /\ \A i, j \in 1 .. pending'.len : i < j =>
                \E k, l \in 1 .. pending.len :
                  k < l /\ pending'.cells[i] = pending.cells[k] /\ pending'.cells[j] = pending.cells[l]
  <2>1. ASSUME NEW i \in 1 .. pending'.len, NEW j \in 1 .. pending'.len, i < j
        PROVE  Before(arrival', pending'.cells[i], pending'.cells[j])
    <3>1. PICK k \in 1 .. pending.len, l \in 1 .. pending.len :
            k < l /\ pending'.cells[i] = pending.cells[k] /\ pending'.cells[j] = pending.cells[l]
      BY <1>4, <2>1
    <3>2. Before(arrival, pending'.cells[i], pending'.cells[j])
      BY <3>1 DEF OrderInv
    <3> QED
      BY <1>1, <1>4, <3>2, ArrivalGrows
  <2> QED
    BY <1>4, <2>1 DEF OrderInv
<1>5. CASE pending' = Pool!NewTxSortedMap
  <2>1. pending'.lookup = {} /\ pending'.len = 0
    BY <1>5 DEF Pool!NewTxSortedMap
  <2> QED
    BY <2>1 DEF OrderInv
<1>6. CASE pending' = pending /\ arrival' = arrival
  BY <1>6 DEF OrderInv
<1> QED
  BY <1>1, <1>3, <1>4, <1>5, <1>6, ServerPoolMoves DEF PoolMoves, poolVars

\* Arrivals are late, and removals leave nothing that is early.
LEMMA LateKept ==
  ASSUME arrival \in Seq(Tx), NEW S, Late(arrival, pending.lookup, S),
         \/ \E tx \in Tx : arrival' = Append(arrival, tx) /\ pending'.lookup \subseteq pending.lookup \cup {tx}
         \/ arrival' = arrival /\ pending'.lookup \subseteq pending.lookup
  PROVE  Late(arrival', pending'.lookup, S)
<1>1. ASSUME NEW tx \in Tx, arrival' = Append(arrival, tx), pending'.lookup \subseteq pending.lookup \cup {tx}
      PROVE  Late(arrival', pending'.lookup, S)
  <2>1. /\ Range(arrival) \subseteq Range(arrival')
        /\ \A e, l : Before(arrival, e, l) => Before(arrival', e, l)
        /\ \A early \in Range(arrival) : Before(arrival', early, tx)
    BY <1>1, ArrivalGrows, ArrivesLast
  <2> QED
    BY <1>1, <2>1 DEF Late
<1>2. CASE arrival' = arrival /\ pending'.lookup \subseteq pending.lookup
  BY <1>2 DEF Late
<1> QED
  BY <1>1, <1>2

\* A step of ServerHistory: what happens to the pool, and which transactions count as removed.
HistoryMoves ==
  \/ TakePending /\ gone' = {}
  \/ (\E tx \in Tx : ProcessTransaction(tx)) /\ gone' = gone
  \/ RemoveTx /\ gone' = gone \cup {Head(rest)}
  \/ ClearPending /\ gone' = gone
  \/ /\ UNCHANGED <<poolVars, arrival, gone>>
     /\ Loop \in Goroutines /\ step'[Loop] \in {"taken", "adding"} => step[Loop] \in {"taken", "adding"}

LEMMA StepsRecorded == HistoryNext => ServerNext /\ Record
<1>1. ASSUME NEW tx \in Tx, ProcessTransaction(tx) PROVE ServerNext
  BY <1>1 DEF ServerNext
<1>2. ASSUME NEW b \in wire, NEW c \in Copies(b), ProcessBlock(c) PROVE ServerNext
  BY <1>2 DEF ServerNext
<1> QED
  BY <1>1, <1>2 DEF HistoryNext, ServerNext

LEMMA HistoryStep ==
  ASSUME ServerInv, [HistoryNext]_historyVars
  PROVE  /\ [ServerNext]_serverVars
         /\ HistoryMoves
         /\ ~LoopCalls => tried \subseteq tried'
         /\ HistoryNext /\ LoopTries /\ ~LoopCalls => Head(todo[Loop]) \in tried'
<1>1. /\ step \in [Goroutines -> {"idle", "tip", "taken", "adding", "added"}]
      /\ rest \in Seq(Tx) /\ Main \in Goroutines /\ Main # Loop
  BY ServerAssumption DEF ServerInv, ServerTypeOK
<1>2. [ServerNext]_serverVars
  BY StepsRecorded DEF historyVars
<1>3. CASE UNCHANGED historyVars
  <2>1. UNCHANGED <<poolVars, arrival, gone>> /\ step' = step /\ tried' = tried
    BY <1>3 DEF historyVars, serverVars, stepVars
  <2>2. HistoryMoves
    BY <2>1 DEF HistoryMoves
  <2>3. ~HistoryNext \/ ~LoopTries
    <3>1. todo' = todo
      BY <1>3 DEF historyVars, serverVars, vars, callVars
    <3> QED
      BY <3>1 DEF LoopTries
  <2> QED
    BY <1>2, <2>1, <2>2, <2>3
<1>4. CASE HistoryNext
  <2>1. /\ ServerNext
        /\ gone' = IF LoopTakes THEN {}
                   ELSE IF MainRemoves THEN gone \cup {Head(rest)}
                   ELSE gone
    BY <1>4, StepsRecorded DEF Record
  <2>2. ASSUME TakePending PROVE HistoryMoves
    <3>1. LoopTakes
      BY <1>1, <2>2 DEF TakePending, Goto, LoopTakes
    <3> QED
      BY <2>1, <2>2, <3>1 DEF HistoryMoves
  <2>3. ASSUME \E tx \in Tx : ProcessTransaction(tx) PROVE HistoryMoves
    <3>1. ~LoopTakes /\ ~MainRemoves
      BY <1>1, <2>3 DEF ProcessTransaction, stepVars, LoopTakes, MainRemoves
    <3> QED
      BY <2>1, <2>3, <3>1 DEF HistoryMoves
  <2>4. ASSUME RemoveTx PROVE HistoryMoves
    <3>1. Tail(rest) # rest
      BY <1>1, <2>4 DEF RemoveTx
    <3>2. ~LoopTakes /\ MainRemoves
      BY <1>1, <2>4, <3>1 DEF RemoveTx, LoopTakes, MainRemoves
    <3> QED
      BY <2>1, <2>4, <3>2 DEF HistoryMoves
  <2>5. ASSUME ClearPending PROVE HistoryMoves
    <3>1. ~LoopTakes /\ ~MainRemoves
      BY <1>1, <2>5 DEF ClearPending, Goto, LoopTakes, MainRemoves
    <3> QED
      BY <2>1, <2>5, <3>1 DEF HistoryMoves
  <2>6. ASSUME NEW b, ProcessBlock(b)
        PROVE  HistoryMoves
    <3>1. ~LoopTakes /\ ~MainRemoves /\ UNCHANGED <<poolVars, arrival>> /\ step'[Loop] = step[Loop]
      BY <1>1, <2>6 DEF ProcessBlock, Goto, LoopTakes, MainRemoves
    <3> QED
      BY <2>1, <3>1 DEF HistoryMoves
  <2>7. ASSUME BlockRefused \/ BlockAdded \/ BlockProcessed \/ ReadTip \/ AddNewBlock \/ NewBlockRefused
        PROVE  HistoryMoves
    <3>1. UNCHANGED <<poolVars, arrival>>
      BY <2>7 DEF BlockRefused, BlockAdded, BlockProcessed, ReadTip, AddNewBlock, NewBlockRefused
    <3>2. /\ ~LoopTakes /\ ~MainRemoves
          /\ Loop \in Goroutines /\ step'[Loop] \in {"taken", "adding"} => step[Loop] \in {"taken", "adding"}
      BY <1>1, <2>7 DEF BlockRefused, BlockAdded, BlockProcessed, ReadTip, AddNewBlock, NewBlockRefused,
         Goto, LoopTakes, MainRemoves
    <3> QED
      BY <2>1, <3>1, <3>2 DEF HistoryMoves
  <2>8. ASSUME InAddBlock \/ Elsewhere PROVE HistoryMoves
    <3>1. UNCHANGED <<poolVars, stepVars, arrival>>
      BY <2>8 DEF InAddBlock, Elsewhere
    <3>2. ~LoopTakes /\ ~MainRemoves /\ step' = step
      BY <3>1 DEF stepVars, LoopTakes, MainRemoves
    <3> QED
      BY <2>1, <3>1, <3>2 DEF HistoryMoves
  <2>9. HistoryMoves
    BY <2>1, <2>2, <2>3, <2>4, <2>5, <2>6, <2>7, <2>8 DEF ServerNext
  <2> QED
    BY <1>2, <1>4, <2>9, StepsRecorded DEF Record
<1> QED
  BY <1>3, <1>4

\* What RemoveTx has removed is in the chain.
GoneInChain == \A tx \in gone : InChain(tx)

LEMMA InChainKept ==
  ASSUME TypeOK, NEW tx, InChain(tx),
         chain' = chain \/ \E g \in Goroutines : chain' = Append(chain, blk[g])
  PROVE  InChain(tx)'
<1>1. PICK i \in DOMAIN chain : tx \in Range(chain[i].txs)
  BY DEF InChain
<1>2. chain \in Seq(Block) /\ \A g \in Goroutines : blk[g] \in Block
  BY DEF TypeOK
<1>3. i \in DOMAIN chain' /\ chain'[i] = chain[i]
  BY <1>2
<1> QED
  BY <1>1, <1>3 DEF InChain

LEMMA RemovedIsInChain ==
  ASSUME ServerInv, RestExecuted, RemoveTx
  PROVE  InChain(Head(rest))
<1>1. rest \in Seq(Tx) /\ rest # <<>> /\ Executed(rest)
  BY DEF ServerInv, ServerTypeOK, RemoveTx, RestExecuted
<1>2. Head(rest) \in Range(rest)
  BY <1>1, RangeTail
<1> QED
  BY <1>1, <1>2 DEF Executed, InChain

LEMMA NextGoneInChain ==
  ServerInv /\ RestExecuted /\ GoneInChain /\ [HistoryNext]_historyVars => GoneInChain'
<1> SUFFICES ASSUME ServerInv, RestExecuted, GoneInChain, [HistoryNext]_historyVars,
                    NEW tx \in gone'
             PROVE  InChain(tx)'
  BY DEF GoneInChain
<1>1. [ServerNext]_serverVars /\ HistoryMoves
  BY HistoryStep
<1>2. /\ chain' = chain \/ \E g \in Goroutines : chain' = Append(chain, blk[g])
      /\ TypeOK
  BY <1>1, ServerChain DEF ServerInv, ServerTypeOK
<1>3. InChain(tx)
  BY <1>1, RemovedIsInChain DEF HistoryMoves, GoneInChain
<1> QED
  BY <1>2, <1>3, InChainKept

-----------------------------------------------------------------------------
(* The front of the slice, up to the first transaction that has been       *)
(* removed, keeps its content, and the execution tries it.                 *)

Intact(k) == \A i \in 1 .. k : taken.orig[i] \notin gone

Shown(k) ==
  /\ \A i \in 1 .. k : Pool!View[i] = taken.orig[i]
  /\ taken.shares => k <= pending.len

FrontInv ==
  Loop \in Goroutines /\ step[Loop] \in {"taken", "adding"} =>
    /\ Len(Pool!View) = Len(taken.orig)
    /\ \A k \in 1 .. Len(taken.orig) : Intact(k) => Shown(k)

\* A slice that aliases pending's array shows its cells.
SeesCells ==
  taken.shares => /\ Len(Pool!View) = taken.len
                  /\ \A i \in 1 .. taken.len : Pool!View[i] = pending.cells[i]

LEMMA ViewSeesCells == PoolSound => SeesCells
<1> SUFFICES ASSUME PoolSound, taken.shares PROVE SeesCells
  BY DEF SeesCells
<1>1. /\ pending.cells \in Seq(Tx \cup {Empty})
      /\ taken.len \in Nat /\ taken.len <= Len(pending.cells)
  BY DEF PoolSound, Mempool!PoolInv, Mempool!SliceInv, Mempool!TakenCells, Mempool!Slice,
       Mempool!Sound, Mempool!SortedMap
<1>2. Pool!View = SubSeq(pending.cells, 1, taken.len)
  BY DEF Pool!View
<1> QED
  BY <1>1, <1>2 DEF SeesCells

LEMMA ViewSeesCellsNext == PoolSound' => SeesCells'
BY ViewSeesCells, PTL

\* A removal leaves alone what stands in front of the transaction.
LEMMA RemoveBehind ==
  ASSUME PoolSound, NEW x, Pool!Remove(x), NEW k \in Nat, k <= pending.len,
         \A i \in 1 .. k : pending.cells[i] # x
  PROVE  /\ k <= pending'.len
         /\ \A i \in 1 .. k : pending'.cells[i] = pending.cells[i]
<1>1. /\ pending.len \in Nat /\ pending.cells \in Seq(Tx \cup {Empty}) /\ pending.len <= Len(pending.cells)
      /\ pending.lookup = {pending.cells[i] : i \in 1 .. pending.len}
  BY DEF PoolSound, Mempool!PoolInv, Mempool!Sound, Mempool!SortedMap, Mempool!Coherent
<1>2. CASE x \notin pending.lookup
  BY <1>1, <1>2 DEF Pool!Remove, Pool!MapRemove
<1>3. CASE x \in pending.lookup
  <2> DEFINE p == Pool!IndexIn(pending, x)
  <2>1. p \in 1 .. pending.len /\ pending.cells[p] = x
    BY <1>1, <1>3 DEF Pool!IndexIn
  <2>2. /\ pending'.len = pending.len - 1
        /\ pending'.cells = [i \in 1 .. Len(pending.cells) |->
             IF i \in p .. (pending.len - 1) THEN pending.cells[i + 1] ELSE pending.cells[i]]
    BY <1>3 DEF Pool!Remove, Pool!MapRemove, Pool!Pop
  <2> HIDE DEF p
  <2>3. k < p
    BY <1>1, <2>1
  <2>4. \A i \in 1 .. k : i \in 1 .. Len(pending.cells) /\ i \notin p .. (pending.len - 1)
    BY <1>1, <2>1, <2>3
  <2> QED
    BY <1>1, <2>1, <2>2, <2>3, <2>4
<1> QED
  BY <1>2, <1>3

LEMMA NextFrontInv == ServerInv /\ FrontInv /\ [HistoryNext]_historyVars => FrontInv'
<1> SUFFICES ASSUME ServerInv, FrontInv, [HistoryNext]_historyVars,
                    Loop \in Goroutines, step'[Loop] \in {"taken", "adding"}
             PROVE  /\ Len(Pool!View') = Len(taken'.orig)
                    /\ \A k \in 1 .. Len(taken'.orig) : Intact(k)' => Shown(k)'
  BY DEF FrontInv
<1>1. [ServerNext]_serverVars /\ HistoryMoves
  BY HistoryStep
<1>2. PoolSound /\ PoolSound' /\ SeesCells /\ SeesCells'
  BY <1>1, NextPoolSound, ViewSeesCells, ViewSeesCellsNext DEF ServerInv
<1>3. /\ step \in [Goroutines -> {"idle", "tip", "taken", "adding", "added"}]
      /\ pending.len \in Nat /\ pending.cells \in Seq(Tx \cup {Empty}) /\ pending.len <= Len(pending.cells)
  BY <1>2 DEF ServerInv, ServerTypeOK, PoolSound, Mempool!PoolInv, Mempool!Sound, Mempool!SortedMap,
       Mempool!Coherent
<1>4. CASE TakePending /\ gone' = {}
  <2>1. /\ pending' = pending /\ taken'.shares /\ taken'.len = pending.len
        /\ taken'.orig = SubSeq(pending.cells, 1, pending.len)
    BY <1>4 DEF TakePending, Pool!Pending, Pool!Txx
  <2>2. /\ Len(taken'.orig) = pending.len
        /\ \A i \in 1 .. pending.len : taken'.orig[i] = pending.cells[i]
    BY <1>3, <2>1
  <2>3. /\ Len(Pool!View') = pending.len
        /\ \A i \in 1 .. pending.len : Pool!View'[i] = pending.cells[i]
    BY <1>2, <2>1 DEF SeesCells
  <2> QED
    BY <1>3, <2>1, <2>2, <2>3 DEF Shown
<1>5. ASSUME step[Loop] \in {"taken", "adding"}, Len(Pool!View') = Len(Pool!View), taken'.orig = taken.orig,
             gone \subseteq gone',
             \A k \in 1 .. Len(taken.orig) : Intact(k)' /\ Shown(k) => Shown(k)'
      PROVE  /\ Len(Pool!View') = Len(taken'.orig)
             /\ \A k \in 1 .. Len(taken'.orig) : Intact(k)' => Shown(k)'
  <2>1. \A k : Intact(k)' => Intact(k)
    BY <1>5 DEF Intact
  <2> QED
    BY <1>5, <2>1 DEF FrontInv
<1>6. CASE (\E tx \in Tx : ProcessTransaction(tx)) /\ gone' = gone
  <2>1. PICK tx \in Tx : ProcessTransaction(tx)
    BY <1>6
  <2>2. /\ Len(Pool!View') = Len(Pool!View)
        /\ taken'.orig = taken.orig
        /\ step'[Loop] = step[Loop]
    BY <1>2, <1>6, <2>1, PoolActions, SliceStep DEF ProcessTransaction, stepVars
  <2>3. Mempool!Add(tx) /\ Mempool!PoolInv /\ Mempool!SliceInv
    BY <1>2, <2>1, SameOperations DEF ProcessTransaction, PoolSound
  <2>4. /\ \/ pending' = pending
           \/ /\ pending'.len = pending.len + 1
              /\ \A i \in 1 .. pending.len : pending'.cells[i] = pending.cells[i]
        /\ taken'.shares => taken.shares
        /\ ~taken'.shares => Mempool!View' = Mempool!View
    BY <2>3, MempoolAssumption, Mempool!AddSeen
  <2>5. ~taken'.shares => Pool!View' = Pool!View
    BY <2>4 DEF Pool!View, Mempool!View
  <2>6. ASSUME NEW k \in 1 .. Len(taken.orig), Intact(k)', Shown(k)
        PROVE  Shown(k)'
    <3>1. CASE ~taken'.shares
      BY <2>2, <2>5, <2>6, <3>1 DEF Shown
    <3>2. CASE taken'.shares
      <4>1. /\ taken.shares /\ k <= pending.len /\ k <= pending'.len
            /\ \A i \in 1 .. k : pending'.cells[i] = pending.cells[i]
        BY <1>3, <2>4, <2>6, <3>2 DEF Shown
      <4>2. Len(Pool!View) = Len(taken.orig)
        BY <1>6, <2>2 DEF FrontInv
      <4>3. \A i \in 1 .. k : Pool!View'[i] = pending'.cells[i] /\ Pool!View[i] = pending.cells[i]
        BY <1>2, <2>2, <2>6, <3>2, <4>1, <4>2 DEF SeesCells
      <4> QED
        BY <2>2, <2>6, <4>1, <4>3 DEF Shown
    <3> QED
      BY <3>1, <3>2
  <2> QED
    BY <1>5, <1>6, <2>2, <2>6
<1>7. CASE RemoveTx /\ gone' = gone \cup {Head(rest)}
  <2>1. /\ Len(Pool!View') = Len(Pool!View)
        /\ taken'.orig = taken.orig
        /\ step'[Loop] = step[Loop]
    BY <1>2, <1>7, PoolActions, SliceStep DEF RemoveTx
  <2>2. Pool!Remove(Head(rest)) /\ Head(rest) \in gone'
    BY <1>7 DEF RemoveTx
  <2>3. /\ taken'.shares = taken.shares
        /\ ~taken.shares => Pool!View' = Pool!View
    BY <2>2 DEF Pool!Remove, Pool!View
  <2>4. ASSUME NEW k \in 1 .. Len(taken.orig), Intact(k)', Shown(k)
        PROVE  Shown(k)'
    <3>1. CASE ~taken.shares
      BY <2>1, <2>3, <2>4, <3>1 DEF Shown
    <3>2. CASE taken.shares
      <4>1. Len(Pool!View) = Len(taken.orig)
        BY <2>1 DEF FrontInv
      <4>2. k \in Nat /\ k <= pending.len /\ \A i \in 1 .. k : Pool!View[i] = pending.cells[i]
        BY <1>2, <2>4, <3>2, <4>1 DEF Shown, SeesCells
      <4>3. \A i \in 1 .. k : pending.cells[i] # Head(rest)
        BY <2>1, <2>2, <2>4, <4>2 DEF Shown, Intact
      <4>4. /\ k <= pending'.len
            /\ \A i \in 1 .. k : pending'.cells[i] = pending.cells[i]
        BY <1>2, <2>2, <4>2, <4>3, RemoveBehind
      <4>5. \A i \in 1 .. k : Pool!View'[i] = pending'.cells[i]
        BY <1>2, <2>1, <2>3, <2>4, <3>2, <4>1 DEF SeesCells
      <4> QED
        BY <2>1, <2>4, <4>2, <4>4, <4>5 DEF Shown
    <3> QED
      BY <3>1, <3>2
  <2> QED
    BY <1>5, <1>7, <2>1, <2>4
<1>8. CASE ClearPending
  BY <1>3, <1>8 DEF ClearPending, Goto
<1>9. CASE UNCHANGED <<poolVars, arrival, gone>> /\ step[Loop] \in {"taken", "adding"}
  <2>1. Pool!View' = Pool!View /\ pending' = pending /\ taken' = taken /\ gone' = gone
    BY <1>9 DEF poolVars, Pool!View
  <2> QED
    BY <1>5, <1>9, <2>1 DEF Shown
<1> QED
  BY <1>1, <1>4, <1>6, <1>7, <1>8, <1>9 DEF HistoryMoves

\* What is no longer to be executed of the front has been tried.
TriedTo(n) == \A k \in 1 .. n : Intact(k) => taken.orig[k] \in tried

TriedInv ==
  Loop \in Goroutines /\ (pc[Loop] \in {"exec", "append", "put"} \/ Added(Loop)) =>
    TriedTo(Len(taken.orig) - Len(todo[Loop]))

LEMMA OrigKept ==
  ASSUME ServerInv, PoolSound', HistoryMoves, Loop \in Goroutines, step[Loop] = "adding"
  PROVE  taken'.orig = taken.orig /\ gone \subseteq gone'
<1>1. CASE ((\E tx \in Tx : ProcessTransaction(tx)) /\ gone' = gone)
           \/ (RemoveTx /\ gone' = gone \cup {Head(rest)}) \/ (ClearPending /\ gone' = gone)
  BY <1>1, PoolActions, SliceStep DEF ServerInv
<1>2. CASE TakePending
  BY <1>2 DEF TakePending
<1>3. CASE UNCHANGED <<poolVars, arrival, gone>>
  BY <1>3 DEF poolVars
<1> QED
  BY <1>1, <1>2, <1>3 DEF HistoryMoves

LEMMA NextTriedInv ==
  ServerInv /\ FrontInv /\ TriedInv /\ [HistoryNext]_historyVars => TriedInv'
<1> SUFFICES ASSUME ServerInv, FrontInv, TriedInv, [HistoryNext]_historyVars,
                    Loop \in Goroutines, pc'[Loop] \in {"exec", "append", "put"} \/ Added(Loop)'
             PROVE  TriedTo(Len(taken.orig) - Len(todo[Loop]))'
  BY DEF TriedInv
<1>1. /\ [ServerNext]_serverVars /\ HistoryMoves
      /\ ~LoopCalls => tried \subseteq tried'
      /\ HistoryNext /\ LoopTries /\ ~LoopCalls => Head(todo[Loop]) \in tried'
  BY HistoryStep
<1>2. PoolSound /\ PoolSound' /\ ServerInv' /\ TypeOK /\ TypeOK' /\ Calls /\ Calls'
  BY <1>1, NextPoolSound, NextServerInv DEF ServerInv, ServerTypeOK
<1>3. LoopSees /\ CallSees(Loop)
  BY <1>1, <1>2, ServerStepLoop, ServerStepCall
<1>4. /\ todo[Loop] \in Seq(Tx \cup {GenesisTx}) /\ todo'[Loop] \in Seq(Tx \cup {GenesisTx})
      /\ pc[Loop] # "idle" => step[Loop] = "adding"
      /\ pc[Loop] \notin {"exec", "student"} => todo[Loop] = <<>>
      /\ pc'[Loop] \notin {"exec", "student"} => todo'[Loop] = <<>>
  BY <1>2 DEF TypeOK, Calls, CallOk
<1>5. Loop \in Validators /\ pc'[Loop] # "check"
  BY ServerAssumption DEF Added
<1>6. step[Loop] = "adding"
  BY <1>3, <1>4, <1>5 DEF CallSees, Added
<1>7. taken'.orig = taken.orig /\ gone \subseteq gone' /\ tried \subseteq tried'
  BY <1>1, <1>2, <1>6, OrigKept DEF LoopCalls
<1>8. \A n : TriedTo(n) => TriedTo(n)'
  BY <1>7 DEF TriedTo, Intact
<1>9. CASE Len(todo'[Loop]) = Len(todo[Loop]) /\ (pc[Loop] \in {"exec", "append", "put"} \/ Added(Loop))
  BY <1>7, <1>8, <1>9 DEF TriedInv
<1>10. CASE pc'[Loop] = "exec"
  <2>1. CASE pc[Loop] = "lock" /\ todo'[Loop] = blk[Loop].txs
    <3>1. Len(todo'[Loop]) = Len(taken.orig)
      BY <1>2, <1>6, <2>1 DEF ServerInv, SliceInBlock, Aliased, FrontInv
    <3>2. Len(taken'.orig) - Len(todo'[Loop]) = 0
      BY <1>4, <1>7, <3>1
    <3> QED
      BY <3>2 DEF TriedTo
  <2>2. CASE pc[Loop] = "exec" /\ todo[Loop] # <<>> /\ todo'[Loop] = Tail(todo[Loop])
    <3>1. /\ Len(todo'[Loop]) = Len(todo[Loop]) - 1 /\ Len(todo[Loop]) \in Nat \ {0}
          /\ todo'[Loop] # todo[Loop]
      <4> DEFINE left == todo[Loop]
      <4>1. left \in Seq(Tx \cup {GenesisTx}) /\ left # <<>> /\ todo'[Loop] = Tail(left)
        BY <1>4, <2>2
      <4> HIDE DEF left
      <4>2. Len(Tail(left)) = Len(left) - 1 /\ Len(left) \in Nat \ {0} /\ Tail(left) # left
        BY <4>1
      <4> QED
        BY <4>1, <4>2 DEF left
    <3>2. /\ Pool!View \in Seq(Tx) /\ Len(Pool!View) = Len(taken.orig)
          /\ Len(todo[Loop]) <= Len(taken.orig) /\ todo[Loop] = LastOf(Pool!View, Len(todo[Loop]))
      BY <1>2, <1>6, <2>2 DEF ServerInv, SliceInBlock, Aliased, FrontInv, PoolSound
    <3>3. Len(taken.orig) \in Nat
      BY <3>2
    <3>4. PICK k \in Nat :
            /\ k = Len(taken.orig) - Len(todo[Loop])
            /\ Len(todo[Loop]) \in 1 .. Len(taken.orig)
            /\ Len(taken.orig) - Len(todo'[Loop]) = k + 1
            /\ k + 1 \in 1 .. Len(taken.orig)
      <4>1. \A d \in Nat : \A t \in Nat \ {0} : \A u :
              t <= d /\ u = t - 1 =>
                d - t \in Nat /\ t \in 1 .. d /\ d - u = d - t + 1 /\ d - t + 1 \in 1 .. d
        OBVIOUS
      <4> QED
        BY <3>1, <3>2, <3>3, <4>1
    <3>5. Head(todo[Loop]) = Pool!View[k + 1]
      BY <3>2, <3>4, LastOfTail
    <3>6. Head(todo[Loop]) \in tried'
      <4>1. ~UNCHANGED historyVars
        BY <3>1 DEF historyVars, serverVars, vars, callVars
      <4>2. LoopTries /\ ~LoopCalls
        BY <1>6, <2>2, <3>1 DEF LoopTries, LoopCalls
      <4> QED
        BY <1>1, <4>1, <4>2
    <3>7. TriedTo(k)'
      BY <1>8, <2>2, <3>4 DEF TriedInv
    <3>8. ASSUME Intact(k + 1)' PROVE taken'.orig[k + 1] \in tried'
      <4>1. Intact(k + 1)
        BY <1>7, <3>8 DEF Intact
      <4>2. k + 1 \in 1 .. k + 1
        BY <3>4
      <4>3. Pool!View[k + 1] = taken.orig[k + 1]
        BY <1>6, <3>4, <4>1, <4>2 DEF FrontInv, Shown
      <4> QED
        BY <1>7, <3>5, <3>6, <4>3
    <3>9. \A i \in 1 .. k + 1 : i \in 1 .. k \/ i = k + 1
      OBVIOUS
    <3>10. TriedTo(k + 1)'
      BY <3>7, <3>8, <3>9 DEF TriedTo
    <3> QED
      BY <1>7, <3>4, <3>10 DEF TriedTo
  <2> QED
    BY <1>3, <1>5, <1>9, <1>10, <2>1, <2>2 DEF LoopSees, CallMoves
<1>11. CASE pc'[Loop] \in {"append", "put", "idle"}
  <2>1. todo'[Loop] = <<>>
    BY <1>4, <1>11
  <2>2. todo[Loop] = <<>> /\ (pc[Loop] \in {"exec", "append", "put"} \/ Added(Loop))
    BY <1>3, <1>4, <1>5, <1>11 DEF CallSees, CallMoves, Added
  <2> QED
    BY <1>9, <2>1, <2>2
<1> QED
  BY <1>10, <1>11 DEF Added

\* What is pending without having been in the slice came after all that was.
LateInv ==
  Loop \in Goroutines /\ step[Loop] \in {"taken", "adding"} =>
    Late(arrival, pending.lookup, Range(taken.orig))

LEMMA NextLateInv ==
  ServerInv /\ OrderInv /\ LateInv /\ [HistoryNext]_historyVars => LateInv'
<1> SUFFICES ASSUME ServerInv, OrderInv, LateInv, [HistoryNext]_historyVars,
                    Loop \in Goroutines, step'[Loop] \in {"taken", "adding"}
             PROVE  Late(arrival', pending'.lookup, Range(taken'.orig))
  BY DEF LateInv
<1>1. [ServerNext]_serverVars /\ HistoryMoves
  BY HistoryStep
<1>2. PoolSound /\ PoolSound' /\ arrival \in Seq(Tx)
  BY <1>1, NextPoolSound DEF ServerInv, ServerTypeOK
<1>3. CASE TakePending
  <2>1. /\ pending.len \in Nat /\ pending.cells \in Seq(Tx \cup {Empty}) /\ pending.len <= Len(pending.cells)
        /\ pending.lookup = {pending.cells[i] : i \in 1 .. pending.len}
    BY <1>2 DEF PoolSound, Mempool!PoolInv, Mempool!Sound, Mempool!SortedMap, Mempool!Coherent
  <2>2. /\ pending' = pending /\ arrival' = arrival
        /\ taken'.orig = SubSeq(pending.cells, 1, pending.len)
    BY <1>3 DEF TakePending, Pool!Pending, Pool!Txx
  <2>3. /\ DOMAIN SubSeq(pending.cells, 1, pending.len) = 1 .. pending.len
        /\ \A i \in 1 .. pending.len : SubSeq(pending.cells, 1, pending.len)[i] = pending.cells[i]
    BY <2>1
  <2>4. Range(taken'.orig) = pending.lookup
    BY <2>1, <2>2, <2>3 DEF Range
  <2> QED
    BY <2>2, <2>4 DEF OrderInv, Late
<1>4. ASSUME NEW tx \in Tx, ProcessTransaction(tx)
      PROVE  Late(arrival', pending'.lookup, Range(taken'.orig))
  <2>1. /\ taken'.orig = taken.orig /\ step'[Loop] = step[Loop] /\ arrival' = Append(arrival, tx)
    BY <1>2, <1>4, SliceStep DEF ProcessTransaction, stepVars
  <2>2. pending'.lookup \subseteq pending.lookup \cup {tx}
    BY <1>4 DEF ProcessTransaction, Pool!Add, Pool!SetPending, Pool!MapAdd, Pool!Insert
  <2> QED
    BY <1>2, <2>1, <2>2, LateKept DEF LateInv
<1>5. CASE RemoveTx
  <2>1. taken'.orig = taken.orig /\ step'[Loop] = step[Loop] /\ arrival' = arrival
    BY <1>2, <1>5, PoolActions, SliceStep DEF RemoveTx
  <2>2. pending'.lookup \subseteq pending.lookup
    BY <1>5 DEF RemoveTx, Pool!Remove, Pool!MapRemove, Pool!Pop
  <2> QED
    BY <1>2, <2>1, <2>2, LateKept DEF LateInv
<1>6. CASE ClearPending
  BY <1>6 DEF ClearPending, Goto, ServerInv, ServerTypeOK
<1>7. CASE UNCHANGED <<poolVars, arrival, gone>> /\ step[Loop] \in {"taken", "adding"}
  BY <1>7 DEF LateInv, poolVars
<1> QED
  BY <1>1, <1>3, <1>4, <1>5, <1>6, <1>7 DEF HistoryMoves

LEMMA InitHistory == HistoryInit => GoneInChain /\ FrontInv /\ TriedInv /\ LateInv
<1> SUFFICES ASSUME HistoryInit PROVE GoneInChain /\ FrontInv /\ TriedInv /\ LateInv
  OBVIOUS
<1>1. gone = {} /\ \A g \in Goroutines : step[g] = "idle" /\ pc[g] = "idle"
  BY DEF HistoryInit, ServerInit, Init
<1> QED
  BY <1>1 DEF GoneInChain, FrontInv, TriedInv, LateInv, Added

(***************************************************************************)
(* A transaction that the node has accepted leaves the pending list        *)
(* because a block of the chain has executed it, or because createNewBlock *)
(* clears the list; and then its own block has tried it, or it arrived     *)
(* after Pending had returned, or processBlock had meanwhile removed a     *)
(* transaction in front of it from the slice that the block executes.      *)
(* Nothing else the server does loses one - no refused block, no pruning,  *)
(* no error of the disk, no transaction that failed in front of it.        *)
(***************************************************************************)
THEOREM OnlyLateOrSkippedAreLost == HistorySpec => LostOnlyLateOrSkipped
<1>1. ASSUME ServerInv, RestExecuted, GoneInChain, FrontInv, TriedInv, LateInv,
             [HistoryNext]_historyVars, NEW tx \in pending.lookup \ pending'.lookup
      PROVE  InChain(tx) \/ tx \in tried \/ CameLate(tx) \/ BehindRemoved(tx)
  <2>1. [ServerNext]_serverVars /\ HistoryMoves
    BY <1>1, HistoryStep
  <2>2. CASE RemoveTx
    <3>1. tx = Head(rest)
      BY <1>1, <2>2 DEF RemoveTx, Pool!Remove, Pool!MapRemove, Pool!Pop
    <3> QED
      BY <1>1, <2>2, <3>1, RemovedIsInChain
  <2>3. CASE ClearPending
    <3>1. /\ Loop \in Goroutines /\ step[Loop] = "adding" /\ pc[Loop] = "idle" /\ Added(Loop)
      BY <2>3 DEF ClearPending, Added
    <3>2. todo[Loop] = <<>>
      BY <1>1, <3>1 DEF ServerInv, Calls, CallOk
    <3>3. taken.orig \in Seq(Tx \cup {Empty})
      BY <1>1 DEF ServerInv, ServerTypeOK, Pool!TypeOK, Pool!Slice
    <3>4. TriedTo(Len(taken.orig))
      <4>1. Len(taken.orig) - Len(todo[Loop]) = Len(taken.orig)
        BY <3>2, <3>3
      <4> QED
        BY <1>1, <3>1, <4>1 DEF TriedInv
    <3>5. CASE tx \notin Range(taken.orig)
      <4>1. \A early \in Range(taken.orig) : Before(arrival, early, tx)
        BY <1>1, <3>1, <3>5 DEF LateInv, Late
      <4> QED
        BY <4>1, ArrivedBeforeIs DEF CameLate
    <3>6. CASE tx \in Range(taken.orig)
      <4>1. PICK k \in DOMAIN taken.orig : taken.orig[k] = tx
        BY <3>6 DEF Range
      <4>2. k \in 1 .. Len(taken.orig)
        BY <3>3, <4>1
      <4>3. CASE Intact(k)
        BY <3>4, <4>1, <4>2, <4>3 DEF TriedTo
      <4>4. CASE ~Intact(k)
        <5>1. PICK i \in 1 .. k : taken.orig[i] \in gone
          BY <4>4 DEF Intact
        <5>2. i \in DOMAIN taken.orig /\ (i < k \/ i = k)
          BY <3>3, <4>2
        <5>3. CASE i = k
          BY <1>1, <4>1, <5>1, <5>3 DEF GoneInChain
        <5>4. CASE i < k
          BY <4>1, <5>1, <5>2, <5>4 DEF BehindRemoved
        <5> QED
          BY <5>2, <5>3, <5>4
      <4> QED
        BY <4>3, <4>4
    <3> QED
      BY <3>5, <3>6
  <2>4. CASE TakePending
    BY <1>1, <2>4 DEF TakePending, Pool!Pending
  <2>5. ASSUME NEW t \in Tx, ProcessTransaction(t)
        PROVE  pending.lookup \subseteq pending'.lookup
    BY <2>5 DEF ProcessTransaction, Pool!Add, Pool!SetPending, Pool!MapAdd, Pool!Insert
  <2>6. CASE UNCHANGED <<poolVars, arrival, gone>>
    BY <1>1, <2>6 DEF poolVars
  <2> QED
    BY <1>1, <2>1, <2>2, <2>3, <2>4, <2>5, <2>6 DEF HistoryMoves
<1>2. ServerInv /\ RestExecuted /\ GoneInChain /\ FrontInv /\ TriedInv /\ LateInv /\ [HistoryNext]_historyVars
        => [\A tx \in pending.lookup \ pending'.lookup :
              InChain(tx) \/ tx \in tried \/ CameLate(tx) \/ BehindRemoved(tx)]_historyVars
  BY <1>1
<1>3. HistoryInit => ServerInit
  BY DEF HistoryInit
<1>4. ServerInv /\ [HistoryNext]_historyVars => [ServerNext]_serverVars
  BY HistoryStep
<1> QED
  BY <1>2, <1>3, <1>4, InitServerInv, NextServerInv, InitRestExecuted, NextRestExecuted, InitOrderInv, NextOrderInv,
     InitHistory, NextGoneInChain, NextFrontInv, NextTriedInv, NextLateInv, PTL
    DEF HistorySpec, LostOnlyLateOrSkipped

-----------------------------------------------------------------------------
(* A sole validator: every block is of the validator loop's own making     *)

\* The message loop is only ever told that it knows a block; the validator loop builds on the tip.
SoleInv ==
  /\ chain[Len(chain)].height = Height
  /\ \A b \in wire : b.height <= Height
  /\ blk[Main].height <= Height
  /\ pc[Main] \in {"idle", "check"} /\ step[Main] \in {"idle", "adding"} /\ result[Main] # "ok"
  /\ ~taken.removed
  /\ Loop \in Goroutines =>
       /\ step[Loop] \in {"tip", "taken"} => tip = chain[Len(chain)]
       /\ pc[Loop] \in InFlight => blk[Loop].height = Len(chain)

PoolKept == UNCHANGED <<poolVars, arrival>>

\* A step that leaves the validator loop and its block alone, but for the slice in the block.
SameHeader ==
  /\ blk'[Loop].id = blk[Loop].id /\ blk'[Loop].height = blk[Loop].height
  /\ blk'[Loop].data = blk[Loop].data

LoopKept ==
  /\ UNCHANGED <<chain, store, made, wire, tip>>
  /\ Loop \in Goroutines =>
       /\ step'[Loop] = step[Loop] /\ pc'[Loop] = pc[Loop] /\ result'[Loop] = result[Loop]
       /\ SameHeader

Arrives(tx) == ~Pool!Contains(tx) /\ Pool!Add(tx) /\ arrival' = Append(arrival, tx)

\* The validator loop outside AddBlock.
LoopActs ==
  /\ UNCHANGED <<chain, store, wire>>
  /\ \/ /\ step[Loop] = "idle" /\ step'[Loop] = "tip" /\ tip' = chain[Len(chain)]
        /\ UNCHANGED vars /\ PoolKept
     \/ /\ step[Loop] = "tip" /\ step'[Loop] = "taken" /\ Pool!Pending
        /\ UNCHANGED <<vars, tip, arrival>>
     \/ /\ step[Loop] = "taken" /\ step'[Loop] = "adding" /\ pc'[Loop] = "check" /\ made' = made + 1
        /\ blk'[Loop] = NewBlockFromPrevHeader(tip, Pool!View)
        /\ PoolKept
     \/ /\ step[Loop] = "adding" /\ pc[Loop] = "idle" /\ result[Loop] # "ok" /\ step'[Loop] = "idle"
        /\ UNCHANGED vars /\ PoolKept
     \/ /\ Added(Loop) /\ step'[Loop] = "idle" /\ Pool!ClearPending /\ UNCHANGED <<made, pc, arrival>>

\* The validator loop inside AddBlock.
LoopInside ==
  /\ PoolKept /\ UNCHANGED <<made, tip, step>> /\ SameHeader
  /\ \/ /\ pc[Loop] \in {"check", "lock", "exec"} /\ pc'[Loop] # "put"
        /\ pc'[Loop] = "idle" => result'[Loop] # "ok"
        /\ UNCHANGED <<chain, store, wire>>
     \/ /\ pc[Loop] = "append" /\ pc'[Loop] = "put" /\ chain' = Append(chain, blk[Loop]) /\ store' = store
        /\ \A b \in wire' : b \in wire \/ b.height = blk[Loop].height
     \/ /\ pc[Loop] = "put" /\ pc'[Loop] = "idle" /\ UNCHANGED <<chain, wire>>
        /\ (store' = Append(store, blk[Loop]) /\ result'[Loop] = "ok") \/ (store' = store /\ result'[Loop] # "ok")

SoleMoves ==
  \/ LoopKept /\ (PoolKept \/ \E tx \in Tx : Arrives(tx))
  \/ Loop \in Goroutines /\ (LoopActs \/ LoopInside)

MainSees ==
  /\ pc'[Main] \in {"idle", "check"} /\ step'[Main] \in {"idle", "adding"} /\ result'[Main] # "ok"
  /\ blk'[Main].height <= Height

LEMMA SoleStep ==
  ASSUME ServerInv, PoolSound', SoleInv, Bodies = {}, [ServerNext]_serverVars
  PROVE  SoleMoves /\ MainSees
<1>1. /\ TypeOK /\ Calls /\ poolVars = <<all, pending, taken>>
      /\ step \in [Goroutines -> {"idle", "tip", "taken", "adding", "added"}]
      /\ pc \in [Goroutines -> {"idle", "check", "lock", "exec", "student", "append", "put"}]
      /\ blk \in [Goroutines -> Block] /\ wire \subseteq Block
      /\ result \in [Goroutines -> {"none", "ok", "known", "invalid", "ioerr", "panic"}]
  BY DEF ServerInv, ServerTypeOK, TypeOK, poolVars
<1>2. Main \in Goroutines /\ Main # Loop
  BY ServerAssumption
<1>3. /\ pc[Main] \in {"idle", "check"} /\ step[Main] \in {"idle", "adding"} /\ result[Main] # "ok"
      /\ blk[Main].height <= Height
  BY DEF SoleInv
<1>4. ASSUME PoolStep
      PROVE  /\ UNCHANGED <<chain, store, wire, made, pc, result>>
             /\ blk'[Main] = blk[Main]
             /\ Loop \in Goroutines => SameHeader
  <2>1. /\ UNCHANGED <<chain, store, wire, made, pc, result>>
        /\ blk' = blk \/ \E txx : blk' = [blk EXCEPT ![Loop].txs = txx]
    BY <1>4 DEF PoolStep, BlockReadsPool, nodeVars
  <2>2. CASE blk' = blk
    BY <2>1, <2>2 DEF SameHeader
  <2>3. ASSUME NEW txx, blk' = [blk EXCEPT ![Loop].txs = txx]
        PROVE  blk'[Main] = blk[Main] /\ (Loop \in Goroutines => SameHeader)
    BY <1>1, <1>2, <2>3 DEF SameHeader, Block
  <2> QED
    BY <2>1, <2>2, <2>3
<1>5. ASSUME NEW tx \in Tx, ProcessTransaction(tx)
      PROVE  SoleMoves /\ MainSees
  <2>1. PoolStep /\ UNCHANGED <<step, tip>> /\ Arrives(tx)
    BY <1>5 DEF ProcessTransaction, stepVars, Arrives
  <2> QED
    BY <1>3, <1>4, <2>1 DEF SoleMoves, MainSees, LoopKept
<1>6. ASSUME NEW b \in wire, NEW c \in Copies(b), ProcessBlock(c)
      PROVE  SoleMoves /\ MainSees
  <2>1. Call(Main, c) /\ UNCHANGED <<chain, store, wire, made, tip, poolVars, arrival>>
    BY <1>6 DEF ProcessBlock, CallForeign, Call, nodeVars
  <2>2. /\ pc'[Main] = "check" /\ blk'[Main] = c /\ result' = result
        /\ Loop \in Goroutines => Untouched(Loop)
    BY <1>1, <1>2, <2>1, CallEffect DEF Call
  <2>3. step'[Main] = "adding" /\ (Loop \in Goroutines => step'[Loop] = step[Loop])
    BY <1>1, <1>2, <1>6 DEF ProcessBlock, Goto
  <2>4. c.height <= Height
    <3>1. b.height <= Height /\ b \in Block
      BY <1>1 DEF SoleInv
    <3>2. c.height = b.height
      BY <1>6, <3>1 DEF Copies, Block
    <3> QED
      BY <3>1, <3>2
  <2> QED
    BY <1>3, <2>1, <2>2, <2>3, <2>4 DEF SoleMoves, MainSees, LoopKept, PoolKept, Untouched, SameHeader
<1>7. CASE BlockRefused
  <2>1. UNCHANGED <<vars, tip, poolVars, arrival>>
    BY <1>7 DEF BlockRefused
  <2>2. step'[Main] = "idle" /\ (Loop \in Goroutines => step'[Loop] = step[Loop])
    BY <1>1, <1>2, <1>7 DEF BlockRefused, Goto
  <2> QED
    BY <1>3, <2>1, <2>2 DEF SoleMoves, MainSees, LoopKept, PoolKept, SameHeader, vars, nodeVars, callVars
<1>8. ~BlockAdded /\ ~RemoveTx /\ ~BlockProcessed
  BY <1>3 DEF BlockAdded, RemoveTx, BlockProcessed
<1>9. CASE ReadTip \/ TakePending \/ NewBlockRefused
  <2>1. UNCHANGED vars /\ step'[Main] = step[Main] /\ Loop \in Goroutines
    BY <1>1, <1>2, <1>9 DEF ReadTip, TakePending, NewBlockRefused, Goto
  <2>2. MainSees
    BY <1>3, <2>1 DEF MainSees, vars, callVars
  <2>3. UNCHANGED <<chain, store, wire>>
    BY <2>1 DEF vars, nodeVars
  <2>4. LoopActs
    BY <1>1, <1>9, <2>1, <2>3 DEF ReadTip, TakePending, NewBlockRefused, Goto, LoopActs, PoolKept
  <2> QED
    BY <2>1, <2>2, <2>4 DEF SoleMoves
<1>10. CASE AddNewBlock
  <2>1. /\ Call(Loop, NewBlockFromPrevHeader(tip, Pool!View)) /\ made' = made + 1 /\ Loop \in Goroutines
        /\ UNCHANGED <<chain, store, wire, poolVars, arrival>> /\ step[Loop] = "taken" /\ result' = result
    BY <1>10 DEF AddNewBlock, CallOwn, Call, nodeVars
  <2>2. /\ pc'[Loop] = "check" /\ blk'[Loop] = NewBlockFromPrevHeader(tip, Pool!View)
        /\ Untouched(Main)
    BY <1>1, <1>2, <2>1, CallEffect
  <2>3. step'[Loop] = "adding" /\ step'[Main] = step[Main]
    BY <1>1, <1>2, <1>10 DEF AddNewBlock, Goto
  <2> QED
    BY <1>3, <2>1, <2>2, <2>3 DEF SoleMoves, MainSees, LoopActs, PoolKept, Untouched
<1>11. CASE ClearPending
  <2>1. /\ PoolStep /\ UNCHANGED arrival /\ Added(Loop) /\ Loop \in Goroutines /\ Pool!ClearPending
    BY <1>11 DEF ClearPending, Added
  <2>2. step'[Loop] = "idle" /\ step'[Main] = step[Main]
    BY <1>1, <1>2, <1>11 DEF ClearPending, Goto
  <2> QED
    BY <1>3, <1>4, <2>1, <2>2 DEF SoleMoves, MainSees, LoopActs
<1>12. ASSUME NEW g \in Goroutines, LockState(g) \/ Proceed(g), UNCHANGED <<poolVars, stepVars, arrival>>
       PROVE  SoleMoves /\ MainSees
  <2>1. CallMoves(g) /\ \A h \in Goroutines \ {g} : Untouched(h)
    BY <1>1, <1>12, InnerStep
  <2>2. CASE g = Main
    <3>1. Known(blk[Main])
      BY <1>3 DEF Known
    <3>2. Reject(Main)
      BY <1>3, <1>12, <2>2, <3>1 DEF LockState, Proceed, Accept, ExecOk, ExecError, ExecStudent, ExecPanic,
           Executing, UnlockState, AppendBlock, PutOk, PutFails
    <3>3. /\ UNCHANGED <<chain, store, wire, made, blk>> /\ result'[Main] = "known" /\ pc'[Main] = "idle"
          /\ UNCHANGED <<step, tip, poolVars, arrival>>
      BY <1>1, <1>2, <1>12, <3>1, <3>2 DEF Reject, Return, nodeVars, stepVars
    <3>4. Loop \in Goroutines => Untouched(Loop)
      BY <1>2, <2>1, <2>2
    <3> QED
      BY <1>3, <3>3, <3>4 DEF SoleMoves, MainSees, LoopKept, PoolKept, SameHeader, Untouched
  <2>3. CASE g = Loop
    <3>1. Untouched(Main) /\ Loop \in Goroutines /\ UNCHANGED <<step, tip, poolVars, arrival>>
      BY <1>2, <1>12, <2>1, <2>3 DEF stepVars
    <3>2. MainSees
      BY <1>3, <3>1 DEF MainSees, Untouched
    <3>3. SameHeader
      BY <1>1, <2>1, <2>3, <3>1 DEF CallMoves, SameHeader, Block
    <3>4. made' = made
      BY <1>12, <2>3 DEF LockState, Proceed, Reject, Accept, ExecOk, ExecError, ExecStudent, ExecPanic,
           Executing, UnlockState, AppendBlock, PutOk, PutFails
    <3>5. CASE AppendBlock(Loop)
      <4>1. /\ pc[Loop] = "append" /\ pc'[Loop] = "put" /\ chain' = Append(chain, blk[Loop]) /\ store' = store
            /\ wire' = wire \cup {[blk[Loop] EXCEPT !.txs = blk[Loop].data]}
        BY <1>1, <3>1, <3>5 DEF AppendBlock
      <4>2. [blk[Loop] EXCEPT !.txs = blk[Loop].data].height = blk[Loop].height
        BY <1>1, <3>1 DEF Block
      <4> QED
        BY <3>1, <3>2, <3>3, <3>4, <4>1, <4>2 DEF SoleMoves, LoopInside, PoolKept
    <3>6. CASE PutOk(Loop) \/ PutFails(Loop)
      <4>1. /\ pc[Loop] = "put" /\ pc'[Loop] = "idle" /\ UNCHANGED <<chain, wire>>
            /\ (store' = Append(store, blk[Loop]) /\ result'[Loop] = "ok") \/ (store' = store /\ result'[Loop] # "ok")
        BY <1>1, <3>1, <3>6 DEF PutOk, PutFails, Return, nodeVars
      <4> QED
        BY <3>1, <3>2, <3>3, <3>4, <4>1 DEF SoleMoves, LoopInside, PoolKept
    <3>7. CASE ~AppendBlock(Loop) /\ ~PutOk(Loop) /\ ~PutFails(Loop)
      <4>1. /\ pc[Loop] \in {"check", "lock", "exec"} /\ UNCHANGED <<chain, store, wire>>
        BY <1>12, <2>3, <3>7 DEF LockState, Proceed, Reject, Accept, ExecOk, ExecError, ExecStudent, ExecPanic,
           Executing, UnlockState, nodeVars
      <4>2. pc'[Loop] # "put" /\ (pc'[Loop] = "idle" => result'[Loop] # "ok")
        BY <2>1, <2>3, <4>1 DEF CallMoves
      <4> QED
        BY <3>1, <3>2, <3>3, <3>4, <4>1, <4>2 DEF SoleMoves, LoopInside, PoolKept
    <3> QED
      BY <3>5, <3>6, <3>7
  <2> QED
    BY <2>2, <2>3, ServerAssumption
<1>13. CASE InAddBlock
  BY <1>12, <1>13 DEF InAddBlock
<1>14. ~Elsewhere
  BY DEF Elsewhere
<1>15. CASE UNCHANGED serverVars
  BY <1>3, <1>15 DEF serverVars, vars, nodeVars, callVars, stepVars, SoleMoves, MainSees, LoopKept, PoolKept, SameHeader
<1> QED
  BY <1>5, <1>6, <1>7, <1>8, <1>9, <1>10, <1>11, <1>13, <1>14, <1>15 DEF ServerNext

LEMMA InitSoleInv == ServerInit => SoleInv
<1> SUFFICES ASSUME ServerInit PROVE SoleInv
  OBVIOUS
<1>1. /\ chain = <<Genesis>> /\ wire = {Genesis} /\ taken.removed = FALSE
      /\ \A g \in Goroutines : pc[g] = "idle" /\ step[g] = "idle" /\ blk[g] = Genesis /\ result[g] = "none"
  BY DEF ServerInit, Init, Pool!Init
<1>2. Genesis.height = 0 /\ Len(chain) = 1 /\ chain[Len(chain)] = Genesis /\ Height = 0
  BY <1>1 DEF Genesis, Height
<1> QED
  BY <1>1, <1>2, ServerAssumption DEF SoleInv, InFlight

LEMMA NodeTypes ==
  ASSUME TypeOK
  PROVE  /\ chain \in Seq(Block) /\ Len(chain) \in Nat \ {0} /\ Height = Len(chain) - 1
         /\ store \in Seq(Block) /\ made \in Nat
         /\ \A b \in wire : b.height \in Nat
         /\ \A g \in Goroutines : blk[g] \in Block /\ blk[g].height \in Nat /\ blk[g].id \in Nat
         /\ \A i \in DOMAIN chain : chain[i].id \in Nat
         /\ \A i \in DOMAIN store : store[i].id \in Nat
<1>1. /\ chain \in Seq(Block) /\ chain # <<>> /\ store \in Seq(Block) /\ made \in 0 .. MaxBuilt
      /\ wire \subseteq Block /\ \A g \in Goroutines : blk[g] \in Block
  BY DEF TypeOK
<1>2. Len(chain) \in Nat \ {0} /\ made \in Nat /\ Height = Len(chain) - 1
  BY <1>1, BlockchainAssumption DEF Height
<1>3. \A b \in Block : b.height \in Nat /\ b.id \in Nat
  BY DEF Block
<1>4. (\A i \in DOMAIN chain : chain[i] \in Block) /\ (\A i \in DOMAIN store : store[i] \in Block)
  BY <1>1
<1> QED
  BY <1>1, <1>2, <1>3, <1>4

\* The chain is left alone or gets the validator loop's block.
LEMMA SoleChain ==
  ASSUME TypeOK, SoleMoves
  PROVE  \/ UNCHANGED <<chain, wire>>
         \/ /\ Loop \in Goroutines /\ pc[Loop] = "append" /\ pc'[Loop] = "put"
            /\ chain' = Append(chain, blk[Loop]) /\ LoopInside
            /\ \A b \in wire' : b \in wire \/ b.height = blk[Loop].height
BY DEF SoleMoves, LoopKept, LoopActs, LoopInside

LEMMA NextSoleInv ==
  ASSUME Bodies = {}
  PROVE  ServerInv /\ SoleInv /\ [ServerNext]_serverVars => SoleInv'
<1> SUFFICES ASSUME ServerInv, SoleInv, [ServerNext]_serverVars PROVE SoleInv'
  OBVIOUS
<1>1. PoolSound' /\ TypeOK /\ Calls
  BY NextPoolSound DEF ServerInv, ServerTypeOK
<1>2. SoleMoves /\ MainSees
  BY <1>1, SoleStep
<1>3. /\ chain \in Seq(Block) /\ Len(chain) \in Nat \ {0} /\ Height = Len(chain) - 1
      /\ \A b \in wire : b.height \in Nat
      /\ \A g \in Goroutines : blk[g] \in Block /\ blk[g].height \in Nat
  BY <1>1, NodeTypes
<1>4. /\ chain[Len(chain)].height = Height
      /\ \A b \in wire : b.height <= Height
      /\ ~taken.removed
      /\ Loop \in Goroutines =>
           /\ step[Loop] \in {"tip", "taken"} => tip = chain[Len(chain)]
           /\ pc[Loop] \in InFlight => blk[Loop].height = Len(chain)
      /\ Loop \in Goroutines => (step[Loop] # "adding" => pc[Loop] = "idle")
  BY <1>1 DEF SoleInv, Calls, CallOk
<1>5. /\ chain'[Len(chain')].height = Height'
      /\ \A b \in wire' : b.height <= Height'
      /\ Height <= Height' /\ Height' \in Int
      /\ blk'[Main].height <= Height'
  <2>1. CASE UNCHANGED <<chain, wire>>
    BY <1>2, <1>3, <1>4, <2>1 DEF Height, MainSees
  <2>2. CASE /\ Loop \in Goroutines /\ pc[Loop] = "append" /\ chain' = Append(chain, blk[Loop])
             /\ \A b \in wire' : b \in wire \/ b.height = blk[Loop].height
    <3>1. blk[Loop].height = Len(chain)
      BY <1>4, <2>2 DEF InFlight
    <3>2. chain' \in Seq(Block) /\ Len(chain') = Len(chain) + 1 /\ chain'[Len(chain')] = blk[Loop]
      BY <1>3, <2>2
    <3>3. Height' = Len(chain)
      BY <1>3, <3>2 DEF Height
    <3>4. blk'[Main] = blk[Main] \/ blk'[Main].height <= Height
      BY <1>2 DEF MainSees
    <3>5. blk'[Main].height <= Height' /\ (\A b \in wire' : b.height <= Height')
      <4>1. blk[Main].height <= Height /\ Main \in Goroutines
        BY ServerAssumption DEF SoleInv
      <4>2. TypeOK'
        BY NextServerInv, ServerInvParts DEF ServerInv, ServerTypeOK
      <4>3. blk'[Main].height \in Nat /\ \A b \in wire' : b.height \in Nat
        BY <4>1, <4>2 DEF TypeOK, Block
      <4> QED
        BY <1>3, <1>4, <2>2, <3>1, <3>3, <3>4, <4>1, <4>3
    <3> QED
      BY <1>3, <3>1, <3>2, <3>3, <3>5
  <2> QED
    BY <1>1, <1>2, <2>1, <2>2, SoleChain
<1>6. ~taken'.removed
  <2>1. taken \in Mempool!Slice
    BY <1>1 DEF ServerInv, PoolSound, Mempool!SliceInv
  <2>2. \A m, same : Pool!SetPending(m, same) => taken'.removed = taken.removed
    BY <2>1 DEF Pool!SetPending, Mempool!Slice
  <2>3. Pool!ClearPending \/ (\E tx \in Tx : Pool!Add(tx)) => taken'.removed = taken.removed
    BY <2>2 DEF Pool!ClearPending, Pool!Add
  <2>4. Pool!Pending => taken'.removed = FALSE
    BY DEF Pool!Pending
  <2> QED
    BY <1>4, <1>2, <2>3, <2>4 DEF SoleMoves, LoopActs, LoopInside, PoolKept, poolVars, Arrives
<1>7. Loop \in Goroutines =>
        /\ step'[Loop] \in {"tip", "taken"} => tip' = chain'[Len(chain')]
        /\ pc'[Loop] \in InFlight => blk'[Loop].height = Len(chain')
  <2> SUFFICES ASSUME Loop \in Goroutines
               PROVE  /\ step'[Loop] \in {"tip", "taken"} => tip' = chain'[Len(chain')]
                      /\ pc'[Loop] \in InFlight => blk'[Loop].height = Len(chain')
    OBVIOUS
  <2>1. CASE LoopKept
    BY <1>4, <2>1 DEF LoopKept, SameHeader
  <2>2. CASE LoopInside
    BY <1>4, <2>2 DEF LoopInside, SameHeader, InFlight
  <2>3. CASE LoopActs
    <3>1. CASE step[Loop] = "taken" /\ blk'[Loop] = NewBlockFromPrevHeader(tip, Pool!View) /\ step'[Loop] = "adding"
      <4>1. blk'[Loop].height = tip.height + 1
        BY <3>1 DEF NewBlockFromPrevHeader
      <4> QED
        BY <1>3, <1>4, <2>3, <3>1, <4>1 DEF LoopActs
    <3>2. CASE ~(step[Loop] = "taken" /\ blk'[Loop] = NewBlockFromPrevHeader(tip, Pool!View) /\ step'[Loop] = "adding")
      BY <1>4, <2>3, <3>2 DEF LoopActs, vars, nodeVars, callVars, InFlight, Added
    <3> QED
      BY <3>1, <3>2
  <2> QED
    BY <1>2, <2>1, <2>2, <2>3 DEF SoleMoves
<1> QED
  BY <1>2, <1>5, <1>6, <1>7 DEF SoleInv, MainSees

\* Ids are given in the order in which blocks are made, and a block is written once.
IdsInv ==
  /\ \A i \in DOMAIN chain : chain[i].id <= made
  /\ \A k \in DOMAIN store : store[k].id <= made
  /\ Loop \in Goroutines =>
       /\ pc[Loop] \in InFlight \cup {"put"} => blk[Loop].id = made /\ \A k \in DOMAIN store : store[k].id < made
       /\ pc[Loop] \in InFlight => \A i \in DOMAIN chain : chain[i].id < made
       /\ pc[Loop] = "put" => chain[Len(chain)].id = made

LEMMA InitIdsInv == ServerInit => IdsInv
<1> SUFFICES ASSUME ServerInit PROVE IdsInv
  OBVIOUS
<1>1. /\ chain = <<Genesis>> /\ store = <<Genesis>> /\ made = 0
      /\ \A g \in Goroutines : pc[g] = "idle"
  BY DEF ServerInit, Init
<1>2. Genesis.id = 0
  BY DEF Genesis
<1> QED
  BY <1>1, <1>2 DEF IdsInv, InFlight

LEMMA NextIdsInv ==
  ASSUME Bodies = {}
  PROVE  ServerInv /\ SoleInv /\ IdsInv /\ [ServerNext]_serverVars => IdsInv'
<1> SUFFICES ASSUME ServerInv, SoleInv, IdsInv, [ServerNext]_serverVars PROVE IdsInv'
  OBVIOUS
<1>1. PoolSound' /\ TypeOK /\ Calls
  BY NextPoolSound DEF ServerInv, ServerTypeOK
<1>2. SoleMoves
  BY <1>1, SoleStep
<1>3. /\ chain \in Seq(Block) /\ Len(chain) \in Nat \ {0} /\ store \in Seq(Block) /\ made \in Nat
      /\ \A i \in DOMAIN chain : chain[i].id \in Nat
      /\ \A i \in DOMAIN store : store[i].id \in Nat
      /\ Loop \in Goroutines => (step[Loop] # "adding" => pc[Loop] = "idle")
      /\ Loop \in Goroutines => blk[Loop] \in Block
  BY <1>1, NodeTypes DEF Calls, CallOk
<1>4. CASE LoopKept
  BY <1>4 DEF IdsInv, LoopKept, SameHeader
<1>5. CASE Loop \in Goroutines /\ LoopActs
  <2>1. CASE /\ step[Loop] = "taken" /\ made' = made + 1
             /\ blk'[Loop] = NewBlockFromPrevHeader(tip, Pool!View) /\ pc'[Loop] = "check"
    <3>1. blk'[Loop].id = made'
      BY <2>1 DEF NewBlockFromPrevHeader
    <3>2. /\ \A i \in DOMAIN chain : chain[i].id < made'
          /\ \A k \in DOMAIN store : store[k].id < made'
      BY <1>3, <2>1 DEF IdsInv
    <3>3. \A x, y \in Nat : x < y => x <= y
      OBVIOUS
    <3> QED
      BY <1>3, <1>5, <2>1, <3>1, <3>2 DEF IdsInv, LoopActs
  <2>2. CASE UNCHANGED vars
    BY <2>2 DEF IdsInv, vars, nodeVars, callVars
  <2>3. CASE UNCHANGED <<made, pc>> /\ pc[Loop] = "idle"
    BY <1>5, <2>3 DEF IdsInv, LoopActs, InFlight
  <2> QED
    BY <1>3, <1>5, <2>1, <2>2, <2>3 DEF LoopActs, Added
<1>6. CASE Loop \in Goroutines /\ LoopInside
  <2>1. made' = made /\ blk'[Loop].id = blk[Loop].id
    BY <1>6 DEF LoopInside, SameHeader
  <2>2. CASE pc[Loop] \in {"check", "lock", "exec"} /\ pc'[Loop] # "put" /\ UNCHANGED <<chain, store>>
    BY <2>1, <2>2 DEF IdsInv, InFlight
  <2>3. CASE pc[Loop] = "append" /\ pc'[Loop] = "put" /\ chain' = Append(chain, blk[Loop]) /\ store' = store
    <3>1. /\ Len(chain') = Len(chain) + 1 /\ chain'[Len(chain')] = blk[Loop]
          /\ DOMAIN chain' = 1 .. Len(chain) + 1
          /\ \A i \in DOMAIN chain : chain'[i] = chain[i]
      BY <1>3, <1>6, <2>3
    <3>2. blk[Loop].id = made
      BY <1>6, <2>3 DEF IdsInv, InFlight
    <3>3. \A i \in DOMAIN chain' : chain'[i].id <= made
      BY <1>3, <3>1, <3>2 DEF IdsInv
    <3> QED
      BY <1>6, <2>1, <2>3, <3>1, <3>2, <3>3 DEF IdsInv, InFlight
  <2>4. CASE /\ pc[Loop] = "put" /\ pc'[Loop] = "idle" /\ chain' = chain
             /\ store' = Append(store, blk[Loop]) \/ store' = store
    <3>1. blk[Loop].id = made
      BY <1>6, <2>4 DEF IdsInv
    <3>2. \A k \in DOMAIN store' : store'[k].id <= made
      <4>1. CASE store' = store
        BY <4>1 DEF IdsInv
      <4>2. CASE store' = Append(store, blk[Loop])
        <5>1. \A k \in DOMAIN store' :
                (k \in DOMAIN store /\ store'[k] = store[k]) \/ store'[k] = blk[Loop]
          BY <1>3, <1>6, <4>2
        <5> QED
          BY <1>3, <3>1, <5>1 DEF IdsInv
      <4> QED
        BY <2>4, <4>1, <4>2
    <3> QED
      BY <2>1, <2>4, <3>2 DEF IdsInv, InFlight
  <2> QED
    BY <1>6, <2>2, <2>3, <2>4 DEF LoopInside
<1> QED
  BY <1>2, <1>4, <1>5, <1>6 DEF SoleMoves

\* The pool remembers every transaction that has arrived, and none arrives twice.
HistoryInv ==
  /\ all.lookup = Range(arrival)
  /\ \A i, j \in DOMAIN arrival : arrival[i] = arrival[j] => i = j

LEMMA InitHistoryInv == ServerInit => HistoryInv
<1> SUFFICES ASSUME ServerInit PROVE HistoryInv
  OBVIOUS
<1>1. all.lookup = {} /\ arrival = <<>>
  BY DEF ServerInit, Pool!Init, Pool!NewTxSortedMap
<1> QED
  BY <1>1 DEF HistoryInv, Range

\* There is room for all transactions: nothing is pruned.
LEMMA NothingPruned ==
  ASSUME IsFiniteSet(Tx), Cardinality(Tx) <= MaxLength, PoolSound, NEW tx \in Tx, ~Pool!Contains(tx)
  PROVE  Pool!Pruned = all
<1>1. all.lookup \subseteq Tx \ {tx}
  BY PoolSoundHoldsTxs DEF PoolHoldsTxs, Pool!Contains
<1>2. IsFiniteSet(Tx \ {tx}) /\ Cardinality(Tx \ {tx}) = Cardinality(Tx) - 1
  BY FS_RemoveElement
<1>3. Cardinality(all.lookup) <= Cardinality(Tx) - 1 /\ IsFiniteSet(all.lookup)
  BY <1>1, <1>2, FS_Subset
<1>4. Cardinality(all.lookup) \in Nat /\ Cardinality(Tx) \in Nat /\ MaxLength \in Nat
  BY <1>3, FS_CardinalityType, ServerAssumption
<1>5. Cardinality(all.lookup) # MaxLength
  BY <1>3, <1>4
<1> QED
  BY <1>5, SameCount DEF Pool!Pruned

LEMMA NextHistoryInv ==
  ASSUME Bodies = {}, IsFiniteSet(Tx), Cardinality(Tx) <= MaxLength
  PROVE  ServerInv /\ SoleInv /\ HistoryInv /\ [ServerNext]_serverVars => HistoryInv'
<1> SUFFICES ASSUME ServerInv, SoleInv, HistoryInv, [ServerNext]_serverVars PROVE HistoryInv'
  OBVIOUS
<1>1. PoolSound /\ PoolSound' /\ arrival \in Seq(Tx)
  BY NextPoolSound DEF ServerInv, ServerTypeOK
<1>2. SoleMoves
  BY <1>1, SoleStep
<1>3. ASSUME NEW tx \in Tx, Arrives(tx)
      PROVE  HistoryInv'
  <2>1. all.lookup = Range(arrival) /\ tx \notin all.lookup
    BY <1>3 DEF HistoryInv, Arrives, Pool!Contains
  <2>2. all'.lookup = all.lookup \cup {tx}
    <3>1. all' = Pool!MapAdd(all, tx)
      BY <1>1, <1>3, NothingPruned DEF Arrives, Pool!Add
    <3> QED
      BY <2>1, <3>1 DEF Pool!MapAdd, Pool!Insert
  <2>3. /\ DOMAIN arrival' = DOMAIN arrival \cup {Len(arrival) + 1}
        /\ arrival'[Len(arrival) + 1] = tx
        /\ \A i \in DOMAIN arrival : arrival'[i] = arrival[i]
    BY <1>1, <1>3 DEF Arrives
  <2>4. Range(arrival') = Range(arrival) \cup {tx}
    <3>1. Len(arrival) + 1 \notin DOMAIN arrival
      BY <1>1
    <3> QED
      BY <2>3, <3>1 DEF Range
  <2>5. \A i \in DOMAIN arrival : arrival[i] # tx
    BY <2>1 DEF Range
  <2>6. \A i, j \in DOMAIN arrival' : arrival'[i] = arrival'[j] => i = j
    BY <2>3, <2>5 DEF HistoryInv
  <2> QED
    BY <2>1, <2>2, <2>4, <2>6 DEF HistoryInv
<1>4. CASE UNCHANGED <<all, arrival>>
  BY <1>4 DEF HistoryInv
<1> QED
  BY <1>2, <1>3, <1>4 DEF SoleMoves, LoopActs, LoopInside, PoolKept, poolVars, Pool!Pending, Pool!ClearPending

\* What is in hand is the beginning of what is pending, until the pool is cleared.
FirstPending ==
  Loop \in Goroutines /\ step[Loop] \in {"taken", "adding"} =>
    /\ taken.orig \in Seq(Tx) /\ Len(taken.orig) <= pending.len
    /\ \A i \in 1 .. Len(taken.orig) : taken.orig[i] = pending.cells[i]
    /\ step[Loop] = "adding" => blk[Loop].data = taken.orig

LEMMA PendingCells ==
  ASSUME PoolSound
  PROVE  /\ pending.len \in Nat /\ pending.cells \in Seq(Tx \cup {Empty}) /\ pending.len <= Len(pending.cells)
         /\ pending.lookup = {pending.cells[i] : i \in 1 .. pending.len} /\ pending.lookup \subseteq Tx
         /\ taken \in Mempool!Slice /\ (~taken.removed => Pool!View = taken.orig) /\ Pool!View \in Seq(Tx)
<1>1. Mempool!View = Pool!View
  BY DEF Mempool!View, Pool!View
<1> QED
  BY <1>1 DEF PoolSound, Mempool!PoolInv, Mempool!Sound, Mempool!SortedMap, Mempool!Coherent,
       Mempool!SliceInv, Mempool!TakenIntact

LEMMA InitFirstPending == ServerInit => FirstPending
<1>1. ServerInit => \A g \in Goroutines : step[g] = "idle"
  BY DEF ServerInit
<1> QED
  BY <1>1 DEF FirstPending

LEMMA NextFirstPending ==
  ASSUME Bodies = {}
  PROVE  ServerInv /\ SoleInv /\ FirstPending /\ [ServerNext]_serverVars => FirstPending'
<1> SUFFICES ASSUME ServerInv, SoleInv, FirstPending, [ServerNext]_serverVars,
                    Loop \in Goroutines, step'[Loop] \in {"taken", "adding"}
             PROVE  /\ taken'.orig \in Seq(Tx) /\ Len(taken'.orig) <= pending'.len
                    /\ \A i \in 1 .. Len(taken'.orig) : taken'.orig[i] = pending'.cells[i]
                    /\ step'[Loop] = "adding" => blk'[Loop].data = taken'.orig
  BY DEF FirstPending
<1>1. PoolSound /\ PoolSound' /\ arrival \in Seq(Tx) /\ ~taken.removed
  BY NextPoolSound DEF ServerInv, ServerTypeOK, SoleInv
<1>2. SoleMoves /\ PoolMoves
  BY <1>1, SoleStep, ServerPoolMoves
<1>3. /\ pending.len \in Nat /\ pending.cells \in Seq(Tx \cup {Empty}) /\ pending.len <= Len(pending.cells)
      /\ pending.lookup = {pending.cells[i] : i \in 1 .. pending.len} /\ pending.lookup \subseteq Tx
      /\ taken \in Mempool!Slice /\ Pool!View = taken.orig
  BY <1>1, PendingCells
<1>4. CASE step'[Loop] = step[Loop] /\ SameHeader /\ PoolKept
  BY <1>4 DEF FirstPending, SameHeader, PoolKept, poolVars
<1>5. ASSUME LoopKept, NEW tx \in Tx, Arrives(tx)
      PROVE  /\ taken'.orig \in Seq(Tx) /\ Len(taken'.orig) <= pending'.len
             /\ \A i \in 1 .. Len(taken'.orig) : taken'.orig[i] = pending'.cells[i]
             /\ step'[Loop] = "adding" => blk'[Loop].data = taken'.orig
  <2>1. /\ taken.orig \in Seq(Tx) /\ Len(taken.orig) <= pending.len
        /\ \A i \in 1 .. Len(taken.orig) : taken.orig[i] = pending.cells[i]
        /\ step[Loop] = "adding" => blk[Loop].data = taken.orig
    BY <1>5 DEF FirstPending, LoopKept
  <2>2. taken'.orig = taken.orig
    <3>1. \A m, same : Pool!SetPending(m, same) => taken'.orig = taken.orig
      BY <1>3 DEF Pool!SetPending, Mempool!Slice
    <3> QED
      BY <1>5, <3>1 DEF Arrives, Pool!Add
  <2>3. \/ pending' = pending
        \/ /\ pending'.len = pending.len + 1
           /\ \A i \in 1 .. pending.len : pending'.cells[i] = pending.cells[i]
    <3>1. arrival' # arrival
      BY <1>1, <1>5 DEF Arrives
    <3> QED
      BY <1>2, <3>1 DEF PoolMoves
  <2>4. /\ Len(taken.orig) <= pending'.len
        /\ \A i \in 1 .. Len(taken.orig) : taken.orig[i] = pending'.cells[i]
    <3>1. \A i \in 1 .. Len(taken.orig) : i \in 1 .. pending.len
      BY <1>3, <2>1
    <3> QED
      BY <1>3, <2>1, <2>3, <3>1
  <2> QED
    BY <1>5, <2>1, <2>2, <2>4 DEF LoopKept, SameHeader
<1>6. CASE LoopActs
  <2>1. CASE step'[Loop] = "taken" /\ Pool!Pending
    <3>1. pending' = pending /\ taken'.orig = SubSeq(pending.cells, 1, pending.len)
      BY <2>1 DEF Pool!Pending, Pool!Txx
    <3>2. /\ SubSeq(pending.cells, 1, pending.len) \in Seq(Tx)
          /\ Len(SubSeq(pending.cells, 1, pending.len)) = pending.len
          /\ \A i \in 1 .. pending.len : SubSeq(pending.cells, 1, pending.len)[i] = pending.cells[i]
      <4>1. \A i \in 1 .. pending.len : pending.cells[i] \in Tx
        BY <1>3
      <4> QED
        BY <1>3, <4>1
    <3> QED
      BY <1>3, <2>1, <3>1, <3>2
  <2>2. CASE step[Loop] = "taken" /\ blk'[Loop] = NewBlockFromPrevHeader(tip, Pool!View) /\ PoolKept
    <3>1. blk'[Loop].data = taken.orig
      BY <1>3, <2>2 DEF NewBlockFromPrevHeader
    <3> QED
      BY <2>2, <3>1 DEF FirstPending, PoolKept, poolVars
  <2> QED
    BY <1>6, <2>1, <2>2 DEF LoopActs
<1> QED
  BY <1>2, <1>4, <1>5, <1>6 DEF SoleMoves, LoopKept, LoopInside

\* Without the other goroutine, a block is on disk or the validator loop is about to write it.
AllOnDisk ==
  \A i \in DOMAIN chain :
    \/ \E k \in DOMAIN store : store[k].id = chain[i].id
    \/ Loop \in Goroutines /\ pc[Loop] = "put" /\ blk[Loop].id = chain[i].id

LEMMA DiskOkIs == SoleInv => (DiskOk <=> AllOnDisk)
  BY ServerAssumption DEF SoleInv, DiskOk, AllOnDisk

\* A block that could not be written is never written later.
LEMMA DiskStays ==
  ASSUME ServerInv, SoleInv, IdsInv, SoleMoves, AllOnDisk'
  PROVE  /\ AllOnDisk
         /\ ~(Loop \in Goroutines /\ pc[Loop] = "put" /\ pc'[Loop] = "idle" /\ result'[Loop] # "ok")
<1>1. TypeOK /\ Calls
  BY DEF ServerInv, ServerTypeOK
<1>2. /\ chain \in Seq(Block) /\ Len(chain) \in Nat \ {0} /\ store \in Seq(Block) /\ made \in Nat
      /\ \A i \in DOMAIN chain : chain[i].id \in Nat
      /\ \A i \in DOMAIN store : store[i].id \in Nat
      /\ Loop \in Goroutines => (step[Loop] # "adding" => pc[Loop] = "idle")
      /\ Loop \in Goroutines => blk[Loop] \in Block
  BY <1>1, NodeTypes DEF Calls, CallOk
<1>3. CASE LoopKept
  BY <1>3 DEF AllOnDisk, LoopKept, SameHeader
<1>4. CASE Loop \in Goroutines /\ LoopActs
  <2>1. UNCHANGED <<chain, store>> /\ pc[Loop] # "put"
    BY <1>2, <1>4 DEF LoopActs, Added
  <2>2. pc'[Loop] # "put"
    BY <1>4, <2>1 DEF LoopActs, vars, callVars
  <2> QED
    BY <2>1, <2>2 DEF AllOnDisk
<1>5. CASE Loop \in Goroutines /\ LoopInside
  <2>1. CASE pc[Loop] \in {"check", "lock", "exec"} /\ pc'[Loop] # "put" /\ UNCHANGED <<chain, store>>
    BY <2>1 DEF AllOnDisk
  <2>2. CASE pc[Loop] = "append" /\ pc'[Loop] = "put" /\ chain' = Append(chain, blk[Loop]) /\ store' = store
    <3>1. \A i \in DOMAIN chain : i \in DOMAIN chain' /\ chain'[i] = chain[i]
      BY <1>2, <2>2
    <3>2. /\ blk'[Loop].id = made
          /\ \A i \in DOMAIN chain : chain[i].id < made
      BY <1>5, <2>2 DEF IdsInv, InFlight, LoopInside, SameHeader
    <3>3. \A i \in DOMAIN chain : blk'[Loop].id # chain[i].id
      BY <1>2, <3>2
    <3> QED
      BY <2>2, <3>1, <3>3 DEF AllOnDisk
  <2>3. CASE pc[Loop] = "put" /\ pc'[Loop] = "idle" /\ chain' = chain
    <3>1. Len(chain) \in DOMAIN chain /\ chain[Len(chain)].id = made /\ blk[Loop].id = made
          /\ \A k \in DOMAIN store : store[k].id < made
      BY <1>2, <1>5, <2>3 DEF IdsInv
    <3>2. store' # store
      BY <1>2, <2>3, <3>1 DEF AllOnDisk
    <3>3. store' = Append(store, blk[Loop]) /\ result'[Loop] = "ok"
      BY <1>5, <2>3, <3>2 DEF LoopInside
    <3>4. \A k \in DOMAIN store' : (k \in DOMAIN store /\ store'[k] = store[k]) \/ store'[k] = blk[Loop]
      BY <1>2, <1>5, <3>3
    <3> QED
      BY <1>5, <2>3, <3>3, <3>4 DEF AllOnDisk
  <2> QED
    BY <1>5, <2>1, <2>2, <2>3 DEF LoopInside
<1> QED
  BY <1>3, <1>4, <1>5 DEF SoleMoves

\* The transactions that the blocks of the chain commit to are in the order of the history.
InOrder(blocks, seq) ==
  \A i, j \in DOMAIN blocks : \A k \in DOMAIN blocks[i].data, m \in DOMAIN blocks[j].data :
    i < j \/ (i = j /\ k < m) => Before(seq, blocks[i].data[k], blocks[j].data[m])

\* Those of the blocks at these places came before all of these transactions.
AllBefore(blocks, places, seq, txx) ==
  \A i \in places : \A k \in DOMAIN blocks[i].data : \A tx \in txx : Before(seq, blocks[i].data[k], tx)

\* The blocks whose transactions have been cleared from the pool.
Cleared ==
  IF Loop \in Goroutines /\ (pc[Loop] = "put" \/ Added(Loop)) THEN 1 .. Len(chain) - 1 ELSE 1 .. Len(chain)

\* The transactions that the headers of the chain commit to.
ChainData == UNION {Range(chain[i].data) : i \in DOMAIN chain}

ChainOrder ==
  /\ ChainData \subseteq Range(arrival)
  /\ AllOnDisk => InOrder(chain, arrival) /\ AllBefore(chain, Cleared, arrival, pending.lookup)

LEMMA InOrderAppend ==
  ASSUME NEW blocks \in Seq(Block), NEW b \in Block, NEW seq, InOrder(blocks, seq),
         AllBefore(blocks, 1 .. Len(blocks), seq, Range(b.data)),
         \A k, m \in DOMAIN b.data : k < m => Before(seq, b.data[k], b.data[m])
  PROVE  InOrder(Append(blocks, b), seq)
<1> DEFINE longer == Append(blocks, b)
           n == Len(blocks)
<1>1. /\ n \in Nat /\ DOMAIN longer = 1 .. n + 1 /\ DOMAIN blocks = 1 .. n /\ longer[n + 1] = b
      /\ \A i \in 1 .. n : longer[i] = blocks[i]
  OBVIOUS
<1> HIDE DEF longer, n
<1> SUFFICES ASSUME NEW i \in 1 .. n + 1, NEW j \in 1 .. n + 1,
                    NEW k \in DOMAIN longer[i].data, NEW m \in DOMAIN longer[j].data,
                    i < j \/ (i = j /\ k < m)
             PROVE  Before(seq, longer[i].data[k], longer[j].data[m])
  BY <1>1 DEF InOrder, longer
<1>2. CASE j \in 1 .. n
  <2>1. i \in 1 .. n
    BY <1>1, <1>2
  <2> QED
    BY <1>1, <1>2, <2>1 DEF InOrder
<1>3. CASE j = n + 1 /\ i \in 1 .. n
  <2>1. longer[j].data[m] \in Range(b.data) /\ longer[i] = blocks[i]
    BY <1>1, <1>3 DEF Range
  <2> QED
    BY <1>3, <2>1 DEF AllBefore, n
<1>4. CASE j = n + 1 /\ i = n + 1
  BY <1>1, <1>4
<1> QED
  BY <1>1, <1>2, <1>3, <1>4

LEMMA InitChainOrder == ServerInit => ChainOrder
<1> SUFFICES ASSUME ServerInit PROVE ChainOrder
  OBVIOUS
<1>1. chain = <<Genesis>> /\ Genesis.data = <<>>
  BY DEF ServerInit, Init, Genesis
<1>2. Len(chain) = 1 /\ (\A i \in DOMAIN chain : chain[i].data = <<>>)
  BY <1>1
<1>3. \A i \in Cleared : i \in DOMAIN chain
  BY <1>1, <1>2 DEF Cleared
<1> QED
  BY <1>2, <1>3 DEF ChainOrder, ChainData, Range, InOrder, AllBefore

\* What Cleared becomes, as long as every block is written.
LEMMA ClearedMoves ==
  ASSUME ServerInv, SoleInv, IdsInv, SoleMoves, AllOnDisk'
  PROVE  Cleared' = Cleared \/ (pending'.lookup = {} /\ UNCHANGED <<chain, arrival>>)
<1>1. TypeOK /\ Calls
  BY DEF ServerInv, ServerTypeOK
<1>2. /\ Len(chain) \in Nat \ {0}
      /\ Loop \in Goroutines => (step[Loop] # "adding" => pc[Loop] = "idle")
      /\ Loop \in Goroutines => blk[Loop] \in Block
  BY <1>1, NodeTypes DEF Calls, CallOk
<1>3. CASE LoopKept
  BY <1>3 DEF Cleared, LoopKept, Added
<1>4. CASE Loop \in Goroutines /\ LoopActs
  <2>1. CASE Pool!ClearPending /\ arrival' = arrival
    BY <1>4, <2>1 DEF LoopActs, Pool!ClearPending, Pool!SetPending, Pool!NewTxSortedMap
  <2>2. CASE ~(Pool!ClearPending /\ arrival' = arrival)
    <3>1. pc[Loop] = "idle" /\ ~Added(Loop) /\ chain' = chain
      BY <1>2, <1>4, <2>2 DEF LoopActs, Added
    <3>2. pc'[Loop] # "put" /\ ~(step'[Loop] = "adding" /\ pc'[Loop] = "idle")
      BY <1>4, <2>2, <3>1 DEF LoopActs, vars, callVars
    <3> QED
      BY <3>1, <3>2 DEF Cleared, Added
  <2> QED
    BY <2>1, <2>2
<1>5. CASE Loop \in Goroutines /\ LoopInside
  <2>1. step[Loop] = "adding" /\ step'[Loop] = "adding"
    BY <1>2, <1>5 DEF LoopInside
  <2>2. CASE pc[Loop] \in {"check", "lock", "exec"} /\ chain' = chain
    BY <1>5, <2>2 DEF Cleared, LoopInside, Added
  <2>3. CASE pc[Loop] = "append" /\ pc'[Loop] = "put" /\ chain' = Append(chain, blk[Loop])
    <3>1. Len(chain') = Len(chain) + 1
      BY <1>1, <1>5, <2>3 DEF TypeOK
    <3> QED
      BY <1>2, <1>5, <2>3, <3>1 DEF Cleared, Added
  <2>4. CASE pc[Loop] = "put" /\ pc'[Loop] = "idle" /\ chain' = chain
    <3>1. result'[Loop] = "ok"
      BY <1>5, <2>4, DiskStays
    <3> QED
      BY <1>5, <2>1, <2>4, <3>1 DEF Cleared, Added
  <2> QED
    BY <1>5, <2>2, <2>3, <2>4 DEF LoopInside
<1> QED
  BY <1>3, <1>4, <1>5 DEF SoleMoves

LEMMA NextChainOrder ==
  ASSUME Bodies = {}
  PROVE  ServerInv /\ SoleInv /\ IdsInv /\ OrderInv /\ FirstPending /\ ChainOrder /\ [ServerNext]_serverVars
           => ChainOrder'
<1> SUFFICES ASSUME ServerInv, SoleInv, IdsInv, OrderInv, FirstPending, ChainOrder, [ServerNext]_serverVars
             PROVE  ChainOrder'
  OBVIOUS
<1>1. PoolSound /\ PoolSound' /\ arrival \in Seq(Tx) /\ TypeOK
  BY NextPoolSound DEF ServerInv, ServerTypeOK
<1>2. SoleMoves /\ PoolMoves
  BY <1>1, SoleStep, ServerPoolMoves
<1>3. /\ chain \in Seq(Block) /\ DOMAIN chain = 1 .. Len(chain) /\ Len(chain) \in Nat \ {0}
      /\ \A g \in Goroutines : blk[g] \in Block
      /\ Cleared \subseteq DOMAIN chain
  BY <1>1, NodeTypes DEF Cleared
<1>4. arrival' = arrival \/ \E tx \in Tx : arrival' = Append(arrival, tx)
  BY <1>2 DEF PoolMoves, poolVars
<1>5. /\ Range(arrival) \subseteq Range(arrival')
      /\ \A e, l : Before(arrival, e, l) => Before(arrival', e, l)
  BY <1>1, <1>4, ArrivalGrows
<1>6. AllOnDisk' => AllOnDisk /\ (Cleared' = Cleared \/ (pending'.lookup = {} /\ UNCHANGED <<chain, arrival>>))
  BY <1>2, DiskStays, ClearedMoves
<1>7. ASSUME chain' = chain
      PROVE  ChainData' \subseteq Range(arrival') /\ (AllOnDisk' => InOrder(chain', arrival'))
  BY <1>5, <1>6, <1>7 DEF ChainOrder, ChainData, InOrder
<1>8. CASE chain' = chain /\ arrival' = arrival /\ pending'.lookup \subseteq pending.lookup
  <2>1. AllOnDisk' => AllBefore(chain', Cleared', arrival', pending'.lookup)
    BY <1>6, <1>8 DEF ChainOrder, AllBefore
  <2> QED
    BY <1>7, <1>8, <2>1 DEF ChainOrder
<1>9. ASSUME NEW tx \in Tx, LoopKept, Arrives(tx)
      PROVE  ChainOrder'
  <2>1. arrival' = Append(arrival, tx) /\ chain' = chain /\ arrival' # arrival
    BY <1>1, <1>9 DEF Arrives, LoopKept
  <2>2. pending'.lookup \subseteq pending.lookup \cup {tx}
    BY <1>1, <2>1, <1>2 DEF PoolMoves
  <2>3. \A early \in Range(arrival) : Before(arrival', early, tx)
    BY <1>1, <2>1, ArrivesLast
  <2>4. \A i \in DOMAIN chain : \A k \in DOMAIN chain[i].data : chain[i].data[k] \in Range(arrival)
    BY DEF ChainOrder, ChainData, Range
  <2>5. AllOnDisk' => AllBefore(chain', Cleared', arrival', pending'.lookup)
    <3> SUFFICES ASSUME AllOnDisk', Cleared' = Cleared PROVE AllBefore(chain, Cleared, arrival', pending'.lookup)
      BY <1>6, <2>1
    <3>1. AllBefore(chain, Cleared, arrival, pending.lookup)
      BY <1>6 DEF ChainOrder
    <3> QED
      BY <1>3, <1>5, <2>2, <2>3, <2>4, <3>1 DEF AllBefore
  <2> QED
    BY <1>7, <2>1, <2>5 DEF ChainOrder
<1>10. CASE /\ Loop \in Goroutines /\ pc[Loop] = "append" /\ pc'[Loop] = "put"
            /\ chain' = Append(chain, blk[Loop]) /\ LoopInside
  <2>1. PoolKept /\ step[Loop] = "adding"
    BY <1>10 DEF LoopInside, ServerInv, Calls, CallOk
  <2>2. arrival' = arrival /\ pending' = pending
    BY <2>1 DEF PoolKept, poolVars
  <2> DEFINE txx == blk[Loop].data
  <2>3. /\ txx \in Seq(Tx) /\ Len(txx) <= pending.len /\ pending.len \in Nat
        /\ \A i \in 1 .. Len(txx) : txx[i] = pending.cells[i]
        /\ pending.lookup = {pending.cells[i] : i \in 1 .. pending.len}
    BY <1>1, <1>10, <2>1, PendingCells DEF FirstPending
  <2> HIDE DEF txx
  <2>4. DOMAIN txx = 1 .. Len(txx) /\ Len(txx) \in Nat /\ \A i \in 1 .. Len(txx) : i \in 1 .. pending.len
    BY <2>3
  <2>5. Range(txx) \subseteq pending.lookup
    BY <2>3, <2>4 DEF Range
  <2>6. \A k, m \in DOMAIN txx : k < m => Before(arrival, txx[k], txx[m])
    BY <2>3, <2>4 DEF OrderInv
  <2>7. ChainData' \subseteq Range(arrival')
    <3>1. DOMAIN chain' = DOMAIN chain \cup {Len(chain) + 1} /\ chain'[Len(chain) + 1] = blk[Loop]
          /\ \A i \in DOMAIN chain : chain'[i] = chain[i]
      BY <1>3, <1>10
    <3> QED
      BY <2>2, <2>5, <3>1 DEF ChainOrder, ChainData, OrderInv, txx
  <2>8. ASSUME AllOnDisk'
        PROVE  InOrder(chain', arrival') /\ AllBefore(chain', Cleared', arrival', pending'.lookup)
    <3>1. /\ InOrder(chain, arrival) /\ AllBefore(chain, Cleared, arrival, pending.lookup)
          /\ Cleared = 1 .. Len(chain)
      BY <1>6, <1>10, <2>8 DEF ChainOrder, Cleared, Added
    <3>2. AllBefore(chain, 1 .. Len(chain), arrival, Range(txx))
      BY <2>5, <3>1 DEF AllBefore
    <3>3. InOrder(chain', arrival)
      BY <1>3, <1>10, <2>6, <3>1, <3>2, InOrderAppend DEF txx
    <3>4. Cleared' = 1 .. Len(chain)
      <4>1. Len(chain') - 1 = Len(chain)
        BY <1>3, <1>10
      <4> QED
        BY <1>10, <4>1 DEF Cleared
    <3>5. \A i \in 1 .. Len(chain) : chain'[i] = chain[i]
      BY <1>3, <1>10
    <3> QED
      BY <2>2, <3>1, <3>3, <3>4, <3>5 DEF AllBefore
  <2> QED
    BY <2>7, <2>8 DEF ChainOrder
<1>11. CASE LoopActs
  <2>1. chain' = chain /\ arrival' = arrival
    BY <1>11 DEF LoopActs, PoolKept
  <2>2. pending'.lookup \subseteq pending.lookup
    BY <1>11 DEF LoopActs, PoolKept, poolVars, Pool!Pending, Pool!ClearPending, Pool!SetPending, Pool!NewTxSortedMap
  <2> QED
    BY <1>8, <2>1, <2>2
<1>12. CASE PoolKept /\ chain' = chain
  BY <1>8, <1>12 DEF PoolKept, poolVars
<1> QED
  BY <1>2, <1>9, <1>10, <1>11, <1>12 DEF SoleMoves, LoopKept, LoopInside

\* Every block but genesis executes part of what it commits to.
ExecutesData ==
  \A i \in DOMAIN chain :
    \/ i = 1 /\ chain[i] = Genesis
    \/ i > 1 /\ chain[i].txs \in Sublists(chain[i].data)

LEMMA InitExecutesData == ServerInit => ExecutesData
<1>1. ServerInit => chain = <<Genesis>>
  BY DEF ServerInit, Init
<1> QED
  BY <1>1 DEF ExecutesData

LEMMA NextExecutesData ==
  ASSUME Bodies = {}
  PROVE  ServerInv /\ HashedInv /\ SoleInv /\ ExecutesData /\ [ServerNext]_serverVars => ExecutesData'
<1> SUFFICES ASSUME ServerInv, HashedInv, SoleInv, ExecutesData, [ServerNext]_serverVars PROVE ExecutesData'
  OBVIOUS
<1>1. PoolSound' /\ TypeOK
  BY NextPoolSound DEF ServerInv, ServerTypeOK
<1>2. CASE chain' = chain
  BY <1>2 DEF ExecutesData
<1>3. CASE Loop \in Goroutines /\ pc[Loop] = "append" /\ chain' = Append(chain, blk[Loop])
  <2>1. /\ Len(chain) \in Nat \ {0} /\ DOMAIN chain' = DOMAIN chain \cup {Len(chain) + 1}
        /\ chain'[Len(chain) + 1] = blk[Loop] /\ \A i \in DOMAIN chain : chain'[i] = chain[i]
    BY <1>1, <1>3, NodeTypes
  <2>2. blk[Loop].txs \in Sublists(blk[Loop].data)
    BY <1>3 DEF HashedInv, ExecutesWhatIsHashed, SoleInv
  <2>3. Len(chain) + 1 > 1
    BY <2>1
  <2> QED
    BY <2>1, <2>2, <2>3 DEF ExecutesData
<1> QED
  BY <1>1, <1>2, <1>3, SoleStep, SoleChain

\* The elements of a sublist stand at ascending places.
LEMMA SublistPlaces ==
  ASSUME NEW S, NEW s \in Seq(S), NEW t \in Sublists(s)
  PROVE  \E p : /\ \A k \in DOMAIN t : p[k] \in DOMAIN s /\ t[k] = s[p[k]]
                /\ \A k, m \in DOMAIN t : k < m => p[k] < p[m]
                /\ DOMAIN t \subseteq Nat
<1>1. PICK n \in 0 .. Len(s) : \E p \in Places(n, Len(s)) : t = Selected(s, n, p)
  BY SublistsAre
<1>2. PICK p \in Places(n, Len(s)) : t = Selected(s, n, p)
  BY <1>1
<1>3. /\ DOMAIN t = 1 .. n /\ DOMAIN s = 1 .. Len(s)
      /\ \A k \in 1 .. n : t[k] = s[p[k]] /\ p[k] \in 1 .. Len(s)
      /\ \A k, m \in 1 .. n : k < m => p[k] < p[m]
  BY <1>2 DEF Selected, Places
<1> QED
  BY <1>3

OnceInv == SoleInv /\ IdsInv /\ HistoryInv /\ OrderInv /\ FirstPending /\ ChainOrder /\ HashedInv /\ ExecutesData

LEMMA OnceInvIs ==
  ASSUME ServerInv, OnceInv, GenesisTx \notin Tx
  PROVE  TxExecutedOnceOnDisk
<1> SUFFICES ASSUME AllOnDisk,
                    NEW i \in DOMAIN chain, NEW j \in DOMAIN chain,
                    NEW k \in DOMAIN chain[i].txs, NEW m \in DOMAIN chain[j].txs,
                    chain[i].txs[k] = chain[j].txs[m]
             PROVE  i = j /\ k = m
  BY DiskOkIs DEF OnceInv, TxExecutedOnceOnDisk, TxExecutedOnce
<1>1. TypeOK
  BY DEF ServerInv, ServerTypeOK
<1>2. /\ DOMAIN chain \subseteq Nat /\ \A h \in DOMAIN chain : chain[h] \in Block
  BY <1>1, NodeTypes
<1>3. \A h \in DOMAIN chain : chain[h].data \in Seq(Tx)
  BY <1>2 DEF Block
<1>4. Genesis.txs = <<GenesisTx>>
  BY DEF Genesis
<1>5. \A h \in DOMAIN chain : h > 1 => chain[h].txs \in Sublists(chain[h].data)
  BY <1>2 DEF OnceInv, ExecutesData
<1>6. \A h \in DOMAIN chain : h = 1 => chain[h] = Genesis
  BY <1>2 DEF OnceInv, ExecutesData
<1>7. \A h \in DOMAIN chain : h = 1 \/ h > 1
  BY DEF OnceInv, ExecutesData
<1>8. ASSUME NEW h \in DOMAIN chain, h > 1
      PROVE  \E p : /\ \A x \in DOMAIN chain[h].txs : p[x] \in DOMAIN chain[h].data /\ chain[h].txs[x] = chain[h].data[p[x]]
                    /\ \A x, y \in DOMAIN chain[h].txs : x < y => p[x] < p[y]
                    /\ DOMAIN chain[h].txs \subseteq Nat
  BY <1>3, <1>5, <1>8, SublistPlaces
<1>9. \A h \in DOMAIN chain : h > 1 => \A x \in DOMAIN chain[h].txs : chain[h].txs[x] \in Tx
  <2> SUFFICES ASSUME NEW h \in DOMAIN chain, h > 1, NEW x \in DOMAIN chain[h].txs
               PROVE  chain[h].txs[x] \in Tx
    OBVIOUS
  <2>1. \E y \in DOMAIN chain[h].data : chain[h].txs[x] = chain[h].data[y]
    BY <1>8
  <2> QED
    BY <1>3, <2>1
<1>10. CASE i = 1
  <2>1. chain[i].txs[k] = GenesisTx /\ k = 1
    BY <1>4, <1>6, <1>10
  <2>2. ~(j > 1)
    BY <1>9, <2>1
  <2>3. j = 1
    BY <1>7, <2>2
  <2>4. m = 1
    BY <1>4, <1>6, <2>3
  <2> QED
    BY <1>10, <2>1, <2>3, <2>4
<1>11. CASE j = 1 /\ i > 1
  <2>1. chain[j].txs[m] = GenesisTx
    BY <1>4, <1>6, <1>11
  <2> QED
    BY <1>9, <1>11, <2>1
<1>12. CASE i > 1 /\ j > 1
  <2>2. \A tx : ~Before(arrival, tx, tx)
    <3>1. DOMAIN arrival \subseteq Nat
      BY DEF ServerInv, ServerTypeOK
    <3> QED
      BY <3>1 DEF Before, OnceInv, HistoryInv
  <2>3. InOrder(chain, arrival)
    BY DEF OnceInv, ChainOrder
  <2>4. PICK p : /\ \A x \in DOMAIN chain[i].txs : p[x] \in DOMAIN chain[i].data /\ chain[i].txs[x] = chain[i].data[p[x]]
                 /\ \A x, y \in DOMAIN chain[i].txs : x < y => p[x] < p[y]
                 /\ DOMAIN chain[i].txs \subseteq Nat
    BY <1>8, <1>12
  <2>5. PICK q : /\ \A x \in DOMAIN chain[j].txs : q[x] \in DOMAIN chain[j].data /\ chain[j].txs[x] = chain[j].data[q[x]]
                 /\ \A x, y \in DOMAIN chain[j].txs : x < y => q[x] < q[y]
                 /\ DOMAIN chain[j].txs \subseteq Nat
    BY <1>8, <1>12
  <2>6. /\ p[k] \in DOMAIN chain[i].data /\ q[m] \in DOMAIN chain[j].data
        /\ chain[i].data[p[k]] = chain[j].data[q[m]]
    BY <2>4, <2>5
  <2>7. ~(i < j) /\ ~(j < i)
    BY <2>2, <2>3, <2>6 DEF InOrder
  <2>8. i = j
    BY <1>2, <2>7
  <2>9. \A x, y \in DOMAIN chain[i].data : chain[i].data[x] = chain[i].data[y] => ~(x < y)
    BY <2>2, <2>3 DEF InOrder
  <2>10. \A x, y \in DOMAIN chain[i].txs : chain[i].txs[x] = chain[i].txs[y] => ~(x < y)
    BY <2>4, <2>9
  <2>11. k \in Nat /\ m \in Nat /\ ~(k < m) /\ ~(m < k)
    BY <2>4, <2>8, <2>10
  <2> QED
    BY <2>8, <2>11
<1> QED
  BY <1>7, <1>10, <1>11, <1>12

\* OnceInv is inductive, for a sole validator with room for all transactions in its pool.
LEMMA OnceInvHolds ==
  ASSUME Bodies = {}, IsFiniteSet(Tx), Cardinality(Tx) <= MaxLength
  PROVE  ServerSpec => [](ServerInv /\ OnceInv)
<1>1. ServerInit => OnceInv
  BY InitSoleInv, InitIdsInv, InitHistoryInv, InitOrderInv, InitFirstPending, InitChainOrder, InitHashedInv,
     InitExecutesData DEF OnceInv
<1>2. ServerInv /\ OnceInv /\ [ServerNext]_serverVars => OnceInv'
  BY NextSoleInv, NextIdsInv, NextHistoryInv, NextOrderInv, NextFirstPending, NextChainOrder, NextHashedInv,
     NextExecutesData DEF OnceInv
<1> QED
  BY <1>1, <1>2, InitServerInv, NextServerInv, PTL DEF ServerSpec

(***************************************************************************)
(* Transactions carry no sequence number, and still a server that is the   *)
(* only validator never executes one twice, as long as its pool has room   *)
(* to remember them all and every block reaches the disk: the pool refuses *)
(* what it has seen, and what a block took is cleared before the next      *)
(* block is built, whatever arrives meanwhile.  Nobody can sign the        *)
(* genesis transaction, so the pool never holds it.                        *)
(***************************************************************************)
THEOREM ExecutedOnceOnDisk ==
  ASSUME Bodies = {}, IsFiniteSet(Tx), Cardinality(Tx) <= MaxLength, GenesisTx \notin Tx
  PROVE  ServerSpec => []TxExecutedOnceOnDisk
<1>1. ServerInv /\ OnceInv => TxExecutedOnceOnDisk
  BY OnceInvIs
<1> QED
  BY <1>1, OnceInvHolds, PTL

-----------------------------------------------------------------------------
(* Flattening the data of the chain                                        *)

\* The first n steps of FlattenSeq.
IsFlat(f, seqs, n) == f = [i \in 1 .. n |-> IF i = 1 THEN seqs[i] ELSE f[i - 1] \o seqs[i]]

LEMMA FlatExists ==
  ASSUME NEW seqs
  PROVE  \A n \in Nat : \E f : IsFlat(f, seqs, n)
<1> DEFINE S == {n \in Nat : \E f : IsFlat(f, seqs, n)}
<1>1. 0 \in S
  <2> DEFINE f == [i \in 1 .. 0 |-> i]
  <2>1. IsFlat(f, seqs, 0)
    BY DEF IsFlat
  <2> QED
    BY <2>1
<1>2. ASSUME NEW n \in Nat, n \in S
      PROVE  n + 1 \in S
  <2>1. PICK f : IsFlat(f, seqs, n)
    BY <1>2
  <2> DEFINE g == [i \in 1 .. n + 1 |-> IF i = n + 1 /\ n > 0 THEN f[n] \o seqs[n + 1] ELSE IF i = 1 THEN seqs[1] ELSE f[i]]
  <2>2. IsFlat(g, seqs, n + 1)
    <3>1. \A i \in 1 .. n : f[i] = IF i = 1 THEN seqs[i] ELSE f[i - 1] \o seqs[i]
      BY <2>1 DEF IsFlat
    <3>2. \A i \in 1 .. n + 1 : g[i] = IF i = 1 THEN seqs[i] ELSE g[i - 1] \o seqs[i]
      BY <3>1
    <3> QED
      BY <3>2 DEF IsFlat
  <2> QED
    BY <2>2
<1> HIDE DEF S
<1>3. Nat \subseteq S
  BY <1>1, <1>2, SetInduction
<1> QED
  BY <1>3 DEF S

LEMMA FlattenIs ==
  ASSUME NEW seqs, Len(seqs) \in Nat \ {0}
  PROVE  \E f : IsFlat(f, seqs, Len(seqs)) /\ FlattenSeq(seqs) = f[Len(seqs)]
<1> DEFINE r == CHOOSE f : IsFlat(f, seqs, Len(seqs))
<1>1. IsFlat(r, seqs, Len(seqs))
  <2>1. \E f : IsFlat(f, seqs, Len(seqs))
    BY FlatExists
  <2> QED
    BY <2>1
<1>2. FlattenSeq(seqs) = r[Len(seqs)]
  BY DEF FlattenSeq, IsFlat
<1> QED
  BY <1>1, <1>2

\* Sequences whose elements are in an order, one after the other, are in it when flattened.
LEMMA FlatInOrder ==
  ASSUME NEW S, NEW n \in Nat \ {0}, NEW d \in [1 .. n -> Seq(S)], NEW seq,
         \A i, j \in 1 .. n : \A k \in DOMAIN d[i], m \in DOMAIN d[j] :
           i < j \/ (i = j /\ k < m) => Before(seq, d[i][k], d[j][m]),
         NEW f, IsFlat(f, d, n)
  PROVE  /\ f[n] \in Seq(S)
         /\ \A x \in DOMAIN f[n] : \E i \in 1 .. n : \E k \in DOMAIN d[i] : f[n][x] = d[i][k]
         /\ \A x, y \in DOMAIN f[n] : x < y => Before(seq, f[n][x], f[n][y])
<1> DEFINE Good(m) ==
             /\ f[m] \in Seq(S)
             /\ \A x \in DOMAIN f[m] : \E i \in 1 .. m : \E k \in DOMAIN d[i] : f[m][x] = d[i][k]
             /\ \A x, y \in DOMAIN f[m] : x < y => Before(seq, f[m][x], f[m][y])
           G == {m \in Nat : m \in 1 .. n => Good(m)}
<1>1. \A i \in 1 .. n : f[i] = IF i = 1 THEN d[i] ELSE f[i - 1] \o d[i]
  BY DEF IsFlat
<1>2. 0 \in G
  OBVIOUS
<1>3. ASSUME NEW m \in Nat, m \in G, m + 1 \in 1 .. n
      PROVE  Good(m + 1)
  <2>1. CASE m = 0
    <3>1. f[m + 1] = d[1] /\ d[1] \in Seq(S) /\ m + 1 = 1 /\ 1 \in 1 .. n
      BY <1>1, <1>3, <2>1
    <3>2. \A x, y \in DOMAIN d[1] : x < y => Before(seq, d[1][x], d[1][y])
      BY <3>1
    <3>3. \A x \in DOMAIN d[1] : \E i \in 1 .. m + 1 : \E k \in DOMAIN d[i] : d[1][x] = d[i][k]
      BY <3>1
    <3> QED
      BY <3>1, <3>2, <3>3
  <2>2. CASE m # 0
    <3>1. m \in 1 .. n /\ f[m + 1] = f[m] \o d[m + 1] /\ d[m + 1] \in Seq(S)
      <4> HIDE DEF G
      <4>1. m \in 1 .. n /\ m + 1 # 1 /\ (m + 1) - 1 = m
        BY <1>3, <2>2
      <4>2. f[m + 1] = IF m + 1 = 1 THEN d[m + 1] ELSE f[(m + 1) - 1] \o d[m + 1]
        BY <1>1, <1>3
      <4> QED
        BY <1>3, <4>1, <4>2
    <3>2. Good(m)
      BY <1>3, <3>1
    <3> DEFINE a == f[m]
               b == d[m + 1]
               c == f[m + 1]
    <3>3. /\ a \in Seq(S) /\ b \in Seq(S) /\ c = a \o b
      BY <3>1, <3>2
    <3>4. /\ \A x \in DOMAIN a : \E i \in 1 .. m : \E k \in DOMAIN d[i] : a[x] = d[i][k]
          /\ \A x, y \in DOMAIN a : x < y => Before(seq, a[x], a[y])
          /\ \A x, y \in DOMAIN b : x < y => Before(seq, b[x], b[y])
      BY <1>3, <3>2
    <3>5. \A x \in DOMAIN a, y \in DOMAIN b : Before(seq, a[x], b[y])
      <4> SUFFICES ASSUME NEW x \in DOMAIN a, NEW y \in DOMAIN b PROVE Before(seq, a[x], b[y])
        OBVIOUS
      <4>1. PICK i \in 1 .. m : \E k \in DOMAIN d[i] : a[x] = d[i][k]
        BY <3>4
      <4>2. PICK k \in DOMAIN d[i] : a[x] = d[i][k]
        BY <4>1
      <4>3. i < m + 1 /\ i \in 1 .. n /\ m + 1 \in 1 .. n
        BY <1>3
      <4> QED
        BY <4>2, <4>3
    <3>6. \A i \in 1 .. m : i \in 1 .. m + 1
      OBVIOUS
    <3>7. m + 1 \in 1 .. m + 1
      OBVIOUS
    <3>8. \A y \in DOMAIN b : \E i \in 1 .. m + 1 : \E k \in DOMAIN d[i] : b[y] = d[i][k]
      BY <3>7
    <3>9. \A x \in DOMAIN a : \E i \in 1 .. m + 1 : \E k \in DOMAIN d[i] : a[x] = d[i][k]
      BY <3>4, <3>6
    <3> HIDE DEF a, b, c
    <3>10. /\ c \in Seq(S)
           /\ \A z \in DOMAIN c : \/ z \in DOMAIN a /\ c[z] = a[z]
                                  \/ z - Len(a) \in DOMAIN b /\ c[z] = b[z - Len(a)] /\ z > Len(a)
           /\ \A z \in DOMAIN c : z \in Nat
           /\ \A z \in DOMAIN a : z <= Len(a) /\ z \in Nat
           /\ Len(a) \in Nat
      BY <3>3
    <3>11. \A x \in DOMAIN c : \E i \in 1 .. m + 1 : \E k \in DOMAIN d[i] : c[x] = d[i][k]
      <4> SUFFICES ASSUME NEW x \in DOMAIN c
                   PROVE  \E i \in 1 .. m + 1 : \E k \in DOMAIN d[i] : c[x] = d[i][k]
        OBVIOUS
      <4>1. CASE x \in DOMAIN a /\ c[x] = a[x]
        BY <3>9, <4>1
      <4>2. CASE x - Len(a) \in DOMAIN b /\ c[x] = b[x - Len(a)]
        BY <3>8, <4>2
      <4> QED
        BY <3>10, <4>1, <4>2
    <3>12. \A x, y \in DOMAIN c : x < y => Before(seq, c[x], c[y])
      <4> SUFFICES ASSUME NEW x \in DOMAIN c, NEW y \in DOMAIN c, x < y PROVE Before(seq, c[x], c[y])
        OBVIOUS
      <4>1. CASE x \in DOMAIN a /\ c[x] = a[x] /\ y \in DOMAIN a /\ c[y] = a[y]
        BY <3>4, <4>1
      <4>2. CASE x \in DOMAIN a /\ c[x] = a[x] /\ y - Len(a) \in DOMAIN b /\ c[y] = b[y - Len(a)]
        BY <3>5, <4>2
      <4>3. CASE /\ x - Len(a) \in DOMAIN b /\ c[x] = b[x - Len(a)]
                 /\ y - Len(a) \in DOMAIN b /\ c[y] = b[y - Len(a)]
        <5>1. x - Len(a) < y - Len(a)
          BY <3>10
        <5> QED
          BY <3>4, <4>3, <5>1
      <4>4. ~(x > Len(a) /\ y \in DOMAIN a)
        BY <3>10
      <4> QED
        BY <3>10, <4>1, <4>2, <4>3, <4>4
    <3> QED
      BY <3>10, <3>11, <3>12 DEF c
  <2> QED
    BY <2>1, <2>2
<1>4. \A m \in Nat : m \in G => m + 1 \in G
  <2> HIDE DEF Good
  <2> SUFFICES ASSUME NEW m \in Nat, m \in G PROVE m + 1 \in G
    OBVIOUS
  <2>1. m + 1 \in 1 .. n => Good(m + 1)
    <3> HIDE DEF G
    <3> QED
      BY <1>3
  <2> QED
    BY <2>1
<1>5. n \in G
  <2> HIDE DEF G
  <2>1. Nat \subseteq G
    BY <1>2, <1>4, SetInduction
  <2> QED
    BY <2>1
<1> QED
  BY <1>5

\* What is in the order of a sequence without repetitions is a sublist of it.
LEMMA OrderedIsSublist ==
  ASSUME NEW S, NEW a \in Seq(S), NEW t \in Seq(S),
         \A i, j \in DOMAIN a : a[i] = a[j] => i = j,
         \A x \in DOMAIN t : t[x] \in Range(a),
         \A x, y \in DOMAIN t : x < y => Before(a, t[x], t[y])
  PROVE  t \in Sublists(a)
<1> DEFINE n == Len(t)
           p == [x \in 1 .. n |-> CHOOSE i \in 1 .. Len(a) : a[i] = t[x]]
<1>1. DOMAIN t = 1 .. n /\ DOMAIN a = 1 .. Len(a) /\ n \in Nat /\ Len(a) \in Nat
  OBVIOUS
<1>2. \A x \in 1 .. n : \E i \in 1 .. Len(a) : a[i] = t[x]
  BY <1>1 DEF Range
<1>3. \A x \in 1 .. n : p[x] \in 1 .. Len(a) /\ a[p[x]] = t[x]
  BY <1>2
<1>4. p \in [1 .. n -> 1 .. Len(a)]
  BY <1>3
<1> HIDE DEF p, n
<1>5. \A x, y \in 1 .. n : x < y => p[x] < p[y]
  <2> SUFFICES ASSUME NEW x \in 1 .. n, NEW y \in 1 .. n, x < y PROVE p[x] < p[y]
    OBVIOUS
  <2>0. Before(a, t[x], t[y])
    BY <1>1
  <2>1. PICK i \in DOMAIN a, j \in DOMAIN a : i < j /\ a[i] = t[x] /\ a[j] = t[y]
    BY <2>0 DEF Before
  <2>2. p[x] = i /\ p[y] = j
    BY <1>1, <1>3, <2>1
  <2> QED
    BY <2>1, <2>2
<1>6. n <= Len(a)
  <2> DEFINE G == {x \in Nat : x \in 1 .. n => p[x] >= x}
  <2>1. 0 \in G
    OBVIOUS
  <2>2. ASSUME NEW x \in Nat, x \in G PROVE x + 1 \in G
    <3> SUFFICES ASSUME x + 1 \in 1 .. n PROVE p[x + 1] >= x + 1
      OBVIOUS
    <3>1. p[x + 1] \in 1 .. Len(a)
      BY <1>3
    <3>2. CASE x = 0
      BY <1>1, <3>1, <3>2
    <3>3. CASE x # 0
      <4>1. x \in 1 .. n /\ p[x] >= x /\ p[x] \in 1 .. Len(a)
        BY <1>1, <1>3, <2>2, <3>3
      <4>2. p[x] < p[x + 1]
        BY <1>5, <4>1
      <4> QED
        BY <1>1, <3>1, <4>1, <4>2
    <3> QED
      BY <3>2, <3>3
  <2> HIDE DEF G
  <2>3. Nat \subseteq G
    BY <2>1, <2>2, SetInduction
  <2>4. n \in G
    BY <1>1, <2>3
  <2> QED
    BY <1>1, <1>3, <2>4 DEF G
<1>7. p \in Places(n, Len(a)) /\ n \in 0 .. Len(a)
  BY <1>1, <1>4, <1>5, <1>6 DEF Places
<1>8. t = Selected(a, n, p)
  <2>1. t = [x \in 1 .. n |-> t[x]]
    BY <1>1
  <2>2. [x \in 1 .. n |-> t[x]] = [x \in 1 .. n |-> a[p[x]]]
    BY <1>3
  <2> QED
    BY <2>1, <2>2 DEF Selected
<1> QED
  BY <1>7, <1>8, SublistsAre

LEMMA OnceInvOrders ==
  ASSUME ServerInv, OnceInv
  PROVE  ArrivalOrder
<1> SUFFICES ASSUME AllOnDisk
             PROVE  FlattenSeq([i \in 1 .. Height |-> chain[i + 1].data]) \in Sublists(arrival)
  BY DiskOkIs DEF OnceInv, ArrivalOrder
<1> DEFINE d == [i \in 1 .. Height |-> chain[i + 1].data]
<1>1. TypeOK /\ arrival \in Seq(Tx)
  BY DEF ServerInv, ServerTypeOK
<1>2. /\ DOMAIN chain = 1 .. Len(chain) /\ Len(chain) \in Nat \ {0} /\ Height = Len(chain) - 1
      /\ \A h \in DOMAIN chain : chain[h] \in Block
  BY <1>1, NodeTypes
<1>3. Height \in Nat /\ \A i \in 1 .. Height : i + 1 \in DOMAIN chain
  BY <1>2
<1>4. d \in [1 .. Height -> Seq(Tx)]
  <2>1. \A h \in DOMAIN chain : chain[h].data \in Seq(Tx)
    BY <1>2 DEF Block
  <2> QED
    BY <1>3, <2>1
<1>5. /\ \A i \in 1 .. Height : d[i] = chain[i + 1].data
      /\ d \in Seq(Seq(Tx)) /\ Len(d) = Height
  BY <1>3, <1>4
<1> HIDE DEF d
<1>6. /\ \A i, j \in DOMAIN arrival : arrival[i] = arrival[j] => i = j
      /\ InOrder(chain, arrival) /\ ChainData \subseteq Range(arrival)
  BY DEF OnceInv, HistoryInv, ChainOrder
<1>7. \A i, j \in 1 .. Height : \A k \in DOMAIN d[i], m \in DOMAIN d[j] :
        i < j \/ (i = j /\ k < m) => Before(arrival, d[i][k], d[j][m])
  <2> SUFFICES ASSUME NEW i \in 1 .. Height, NEW j \in 1 .. Height, NEW k \in DOMAIN d[i], NEW m \in DOMAIN d[j],
                      i < j \/ (i = j /\ k < m)
               PROVE  Before(arrival, d[i][k], d[j][m])
    OBVIOUS
  <2>1. i + 1 \in DOMAIN chain /\ j + 1 \in DOMAIN chain /\ d[i] = chain[i + 1].data /\ d[j] = chain[j + 1].data
    BY <1>3, <1>5
  <2>2. i + 1 < j + 1 \/ (i + 1 = j + 1 /\ k < m)
    OBVIOUS
  <2> QED
    BY <1>6, <2>1, <2>2 DEF InOrder
<1>8. CASE Height = 0
  <2>1. d = <<>> /\ Len(d) = 0
    BY <1>5, <1>8
  <2>2. FlattenSeq(d) = <<>>
    BY <2>1 DEF FlattenSeq
  <2>3. <<>> \in Seq(Tx) /\ DOMAIN <<>> = {}
    OBVIOUS
  <2>4. <<>> \in Sublists(arrival)
    BY <1>1, <1>6, <2>3, OrderedIsSublist
  <2> QED
    BY <2>2, <2>4 DEF d
<1>9. CASE Height # 0
  <2>1. PICK f : IsFlat(f, d, Height) /\ FlattenSeq(d) = f[Height]
    BY <1>3, <1>5, <1>9, FlattenIs
  <2>2. /\ f[Height] \in Seq(Tx)
        /\ \A x \in DOMAIN f[Height] : \E i \in 1 .. Height : \E k \in DOMAIN d[i] : f[Height][x] = d[i][k]
        /\ \A x, y \in DOMAIN f[Height] : x < y => Before(arrival, f[Height][x], f[Height][y])
    BY <1>3, <1>4, <1>7, <1>9, <2>1, FlatInOrder
  <2>3. \A i \in 1 .. Height : \A k \in DOMAIN d[i] : d[i][k] \in Range(arrival)
    <3> SUFFICES ASSUME NEW i \in 1 .. Height, NEW k \in DOMAIN d[i] PROVE d[i][k] \in Range(arrival)
      OBVIOUS
    <3>1. i + 1 \in DOMAIN chain /\ d[i] = chain[i + 1].data
      BY <1>3, <1>5
    <3>2. d[i][k] \in Range(chain[i + 1].data)
      BY <3>1 DEF Range
    <3>3. d[i][k] \in ChainData
      BY <3>1, <3>2 DEF ChainData
    <3> QED
      BY <1>6, <3>3
  <2>4. \A x \in DOMAIN f[Height] : f[Height][x] \in Range(arrival)
    BY <2>2, <2>3
  <2>5. f[Height] \in Sublists(arrival)
    BY <1>1, <1>6, <2>2, <2>4, OrderedIsSublist
  <2> QED
    BY <2>1, <2>5 DEF d
<1> QED
  BY <1>8, <1>9

(***************************************************************************)
(* Under the same conditions the blocks carry the transactions in the      *)
(* order in which the pool accepted them, each once: Pending, a list that  *)
(* only grows at its end until it is cleared, and one block at a time keep *)
(* it.                                                                     *)
(***************************************************************************)
THEOREM BlocksKeepArrivalOrder ==
  ASSUME Bodies = {}, IsFiniteSet(Tx), Cardinality(Tx) <= MaxLength
  PROVE  ServerSpec => []ArrivalOrder
<1>1. ServerInv /\ OnceInv => ArrivalOrder
  BY OnceInvOrders
<1> QED
  BY <1>1, OnceInvHolds, PTL

-----------------------------------------------------------------------------
(* The sole validator's chain is a ChainLog                                *)

\* What is executed is on its way to the successful transactions, and the lock is held for it.
LogInv ==
  /\ ExecutionExclusive
  /\ ReplayInv
  /\ Loop \in Goroutines /\ pc[Loop] \in InFlight => blk[Loop].prev = chain[Len(chain)].id

\* A step of the server as the node sees it.
NodeMoves ==
  \/ UNCHANGED nodeVars /\ (Loop \in Goroutines => Untouched(Loop))
  \/ /\ Loop \in Goroutines /\ UNCHANGED nodeVars
     /\ pc[Loop] = "idle" /\ pc'[Loop] = "check" /\ done'[Loop] = done[Loop]
     /\ step[Loop] = "taken" /\ blk'[Loop].prev = tip.id
  \/ Loop \in Goroutines /\ (LockState(Loop) \/ Proceed(Loop))

\* The slice in the block under construction never changes: nothing is removed from the pool.
LEMMA SliceStays ==
  ASSUME ServerInv, PoolSound', SoleInv, SoleInv', NEW tx \in Tx, ProcessTransaction(tx)
  PROVE  UNCHANGED nodeVars /\ (Loop \in Goroutines => Untouched(Loop))
<1>1. /\ TypeOK /\ PoolSound /\ SliceInBlock /\ ~taken.removed /\ ~taken'.removed
      /\ PoolStep /\ Pool!Add(tx)
  BY DEF ServerInv, ServerTypeOK, SoleInv, ProcessTransaction
<1>2. taken \in Mempool!Slice /\ Pool!View = taken.orig /\ Pool!View \in Seq(Tx)
  BY <1>1, PendingCells
<1>3. Pool!View' = taken'.orig
  <2>1. Mempool!View' = Pool!View'
    BY DEF Mempool!View, Pool!View
  <2> QED
    BY <1>1, <2>1 DEF PoolSound, Mempool!SliceInv, Mempool!TakenIntact
<1>4. taken'.orig = taken.orig
  <2>1. \A m, same : Pool!SetPending(m, same) => taken'.orig = taken.orig
    BY <1>2 DEF Pool!SetPending, Mempool!Slice
  <2> QED
    BY <1>1, <2>1 DEF Pool!Add
<1>5. Pool!View' = Pool!View
  BY <1>2, <1>3, <1>4
<1>6. UNCHANGED <<nodeVars, pc, done, result>> /\ BlockReadsPool
  BY <1>1 DEF PoolStep
<1>7. CASE Aliased
  <2> DEFINE v == Pool!View
             n == Len(todo[Loop])
  <2>1. /\ blk' = [blk EXCEPT ![Loop].txs = v]
        /\ todo' = [todo EXCEPT ![Loop] = SubSeq(v, Len(v) - Len(@) + 1, Len(v))]
    BY <1>5, <1>6, <1>7 DEF BlockReadsPool
  <2>2. blk[Loop].txs = v /\ todo[Loop] = SubSeq(v, Len(v) - n + 1, Len(v))
    BY <1>1, <1>7 DEF SliceInBlock, LastOf
  <2>3. Loop \in Goroutines /\ blk[Loop] \in Block
    BY <1>1, <1>7 DEF Aliased, TypeOK
  <2>4. blk'[Loop] = blk[Loop]
    <3> HIDE DEF v
    <3>1. [blk[Loop] EXCEPT !.txs = v] = blk[Loop]
      BY <2>2, <2>3 DEF Block
    <3> QED
      BY <1>1, <2>1, <2>3, <3>1 DEF TypeOK
  <2>5. todo'[Loop] = todo[Loop]
    <3> HIDE DEF v
    <3>1. todo'[Loop] = SubSeq(v, Len(v) - Len(todo[Loop]) + 1, Len(v))
      BY <1>1, <2>1, <2>3 DEF TypeOK
    <3> QED
      BY <2>2, <3>1
  <2> QED
    BY <1>6, <2>4, <2>5 DEF Untouched
<1>8. CASE ~Aliased
  BY <1>6, <1>8 DEF BlockReadsPool, Untouched
<1> QED
  BY <1>7, <1>8

LEMMA NodeStep ==
  ASSUME ServerInv, PoolSound', SoleInv, SoleInv', Bodies = {}, [ServerNext]_serverVars
  PROVE  NodeMoves
<1>1. /\ TypeOK /\ Calls
      /\ step \in [Goroutines -> {"idle", "tip", "taken", "adding", "added"}]
      /\ pc[Main] \in {"idle", "check"} /\ step[Main] \in {"idle", "adding"} /\ result[Main] # "ok"
      /\ Known(blk[Main])
  BY DEF ServerInv, ServerTypeOK, SoleInv, Known
<1>2. Main \in Goroutines /\ Main # Loop
  BY ServerAssumption
<1>3. ASSUME NEW tx \in Tx, ProcessTransaction(tx)
      PROVE  NodeMoves
  BY <1>3, SliceStays DEF NodeMoves
<1>4. ASSUME NEW b \in wire, NEW c \in Copies(b), ProcessBlock(c)
      PROVE  NodeMoves
  <2>1. Call(Main, c) /\ UNCHANGED nodeVars
    BY <1>4 DEF ProcessBlock, CallForeign, Call
  <2>2. Loop \in Goroutines => Untouched(Loop)
    BY <1>1, <1>2, <2>1, CallEffect
  <2> QED
    BY <2>1, <2>2 DEF NodeMoves
<1>5. ~BlockAdded /\ ~RemoveTx /\ ~BlockProcessed
  BY <1>1 DEF BlockAdded, RemoveTx, BlockProcessed
<1>6. CASE BlockRefused \/ ReadTip \/ TakePending \/ NewBlockRefused
  <2>1. UNCHANGED vars
    BY <1>6 DEF BlockRefused, ReadTip, TakePending, NewBlockRefused
  <2> QED
    BY <2>1 DEF NodeMoves, Untouched, vars, callVars
<1>7. CASE AddNewBlock
  <2>1. /\ Call(Loop, NewBlockFromPrevHeader(tip, Pool!View)) /\ Loop \in Goroutines
        /\ UNCHANGED nodeVars /\ step[Loop] = "taken"
        /\ NewBlockFromPrevHeader(tip, Pool!View).prev = tip.id
    BY <1>7 DEF AddNewBlock, CallOwn, Call, NewBlockFromPrevHeader
  <2>2. /\ pc[Loop] = "idle" /\ pc'[Loop] = "check" /\ blk'[Loop] = NewBlockFromPrevHeader(tip, Pool!View)
        /\ done'[Loop] = done[Loop]
    BY <1>1, <2>1, CallEffect
  <2> QED
    BY <2>1, <2>2 DEF NodeMoves
<1>8. CASE ClearPending
  <2>1. PoolStep /\ ~Aliased
    BY <1>8 DEF ClearPending, Aliased
  <2> QED
    BY <2>1 DEF PoolStep, BlockReadsPool, NodeMoves, Untouched
<1>9. CASE InAddBlock
  <2>1. PICK g \in Goroutines : LockState(g) \/ Proceed(g)
    BY <1>9 DEF InAddBlock
  <2>2. CASE g = Main
    <3>1. Reject(Main)
      BY <1>1, <2>1, <2>2 DEF LockState, Proceed, Accept, ExecOk, ExecError, ExecStudent, ExecPanic,
           Executing, UnlockState, AppendBlock, PutOk, PutFails
    <3>2. Loop \in Goroutines => Untouched(Loop)
      BY <1>1, <1>2, <2>1, <2>2, InnerStep
    <3> QED
      BY <3>1, <3>2 DEF Reject, NodeMoves
  <2>3. CASE g = Loop
    BY <2>1, <2>3 DEF NodeMoves
  <2> QED
    BY <2>2, <2>3, ServerAssumption
<1>10. ~Elsewhere
  BY DEF Elsewhere
<1>11. CASE UNCHANGED serverVars
  BY <1>11 DEF serverVars, vars, callVars, NodeMoves, Untouched
<1> QED
  BY <1>3, <1>4, <1>5, <1>6, <1>7, <1>8, <1>9, <1>10, <1>11 DEF ServerNext

LEMMA InitLogInv == ServerInit => LogInv
<1> SUFFICES ASSUME ServerInit PROVE LogInv
  OBVIOUS
<1>1. Init /\ \A g \in Goroutines : pc[g] = "idle"
  BY DEF ServerInit, Init
<1>2. ReplayInv
  BY <1>1, InitReplayInv
<1> QED
  BY <1>1, <1>2 DEF LogInv, ExecutionExclusive, InFlight

LEMMA NextLogInv ==
  ASSUME Bodies = {}
  PROVE  ServerInv /\ SoleInv /\ LogInv /\ [ServerNext]_serverVars => LogInv'
<1> SUFFICES ASSUME ServerInv, SoleInv, LogInv, [ServerNext]_serverVars PROVE LogInv'
  OBVIOUS
<1>1. /\ TypeOK /\ PoolSound' /\ ServerInv' /\ SoleInv'
      /\ ExecutionExclusive /\ ReplayInv
  BY NextPoolSound, NextServerInv, NextSoleInv DEF ServerInv, ServerTypeOK, LogInv
<1>2. NodeMoves
  BY <1>1, NodeStep
<1>3. /\ pc[Main] \in {"idle", "check"} /\ pc'[Main] \in {"idle", "check"}
      /\ done[Main] = <<>> /\ done'[Main] = <<>>
      /\ Main \in Goroutines /\ Main # Loop /\ Goroutines \subseteq {Main, Loop}
  BY <1>1, ServerAssumption DEF ServerInv, Calls, CallOk, SoleInv
<1>4. CallKept(Main)
  BY <1>3 DEF CallKept
<1>5. CASE UNCHANGED nodeVars /\ (Loop \in Goroutines => Untouched(Loop))
  <2>1. UNCHANGED <<chain, ledger, stateLock, crashed>>
    BY <1>5 DEF nodeVars
  <2>2. Loop \in Goroutines => CallKept(Loop)
    BY <1>5, <2>1 DEF Untouched, CallKept
  <2>3. \A g \in Goroutines : CallKept(g)
    BY <1>3, <1>4, <2>2
  <2>4. ReplayInv'
    BY <1>1, <2>1, <2>3, ReplayKept
  <2>5. ExecutionExclusive'
    BY <1>1, <1>3, <1>5, <2>1 DEF ExecutionExclusive, Untouched
  <2> QED
    BY <1>5, <2>1, <2>4, <2>5 DEF LogInv, Untouched
<1>6. CASE /\ Loop \in Goroutines /\ UNCHANGED nodeVars
           /\ pc[Loop] = "idle" /\ pc'[Loop] = "check" /\ done'[Loop] = done[Loop]
           /\ step[Loop] = "taken" /\ blk'[Loop].prev = tip.id
  <2>1. UNCHANGED <<chain, ledger, stateLock, crashed>> /\ tip = chain[Len(chain)]
    BY <1>6 DEF nodeVars, SoleInv
  <2>2. CallKept(Loop)
    BY <1>6 DEF CallKept
  <2>3. \A g \in Goroutines : CallKept(g)
    BY <1>3, <1>4, <2>2
  <2>4. ReplayInv'
    BY <1>1, <2>1, <2>3, ReplayKept
  <2>5. ExecutionExclusive'
    BY <1>1, <1>3, <1>6, <2>1 DEF ExecutionExclusive
  <2> QED
    BY <1>6, <2>1, <2>4, <2>5 DEF LogInv
<1>7. CASE Loop \in Goroutines /\ (LockState(Loop) \/ Proceed(Loop))
  <2>1. Alone(Loop)
    BY <1>3 DEF Alone
  <2>2. ReplayInv'
    BY <1>1, <1>7, <2>1, ReplayStep
  <2>3. CallMoves(Loop) /\ (chain' = chain \/ pc[Loop] = "append")
    BY <1>1, <1>7, InnerStep
  <2>4. pc'[Loop] \in {"exec", "student"} => stateLock' = Loop
    <3>1. CASE LockState(Loop)
      BY <3>1 DEF LockState
    <3>2. CASE Proceed(Loop)
      <4>1. pc'[Loop] \in {"exec", "student"} => pc[Loop] = "exec" /\ stateLock' = stateLock
        BY <1>1, <1>7, <2>3, <3>2 DEF CallMoves, Proceed, Reject, Accept, ExecOk, ExecError, ExecStudent, ExecPanic,
             Executing, UnlockState, AppendBlock, PutOk, PutFails, nodeVars, TypeOK
      <4> QED
        BY <1>1, <1>7, <4>1 DEF ExecutionExclusive
    <3> QED
      BY <1>7, <3>1, <3>2
  <2>5. ExecutionExclusive'
    BY <1>3, <2>4 DEF ExecutionExclusive
  <2>6. pc'[Loop] \in InFlight => blk'[Loop].prev = chain'[Len(chain')].id
    <3>1. blk[Loop] \in Block
      BY <1>1, <1>7 DEF TypeOK
    <3>2. pc'[Loop] \in InFlight => pc[Loop] \in InFlight /\ chain' = chain /\ blk'[Loop].prev = blk[Loop].prev
      BY <2>3, <3>1 DEF CallMoves, InFlight, Block
    <3> QED
      BY <1>7, <3>2 DEF LogInv
  <2> QED
    BY <1>7, <2>2, <2>5, <2>6 DEF LogInv
<1> QED
  BY <1>2, <1>5, <1>6, <1>7 DEF NodeMoves

\* A sequence is the front of what it becomes by one element more.
LEMMA FrontOfAppend ==
  ASSUME NEW S, NEW s \in Seq(S), NEW e \in S
  PROVE  /\ Len(Append(s, e)) = Len(s) + 1
         /\ Append(s, e)[Len(Append(s, e))] = e
         /\ SubSeq(Append(s, e), 1, Len(Append(s, e)) - 1) = s
<1> DEFINE t == Append(s, e)
<1>1. t \in Seq(S) /\ Len(t) = Len(s) + 1 /\ Len(s) \in Nat
  OBVIOUS
<1>2. t[Len(s) + 1] = e /\ \A i \in 1 .. Len(s) : t[i] = s[i]
  OBVIOUS
<1> HIDE DEF t
<1>3. SubSeq(t, 1, Len(s)) = s
  BY <1>1, <1>2
<1>4. Len(t) - 1 = Len(s)
  BY <1>1
<1>5. Len(t) = Len(s) + 1 /\ t[Len(t)] = e /\ SubSeq(t, 1, Len(t) - 1) = s
  BY <1>1, <1>2, <1>3, <1>4
<1> QED
  BY <1>5 DEF t

(***************************************************************************)
(* Two goroutines of a sole validator call AddBlock, and still its node    *)
(* implements ChainLog: blocks sent back by peers never get past HasBlock, *)
(* and whatever enters the pool while a block is executed, the block lists *)
(* exactly what succeeded of the data that its header commits to.          *)
(***************************************************************************)
THEOREM ServerImplementsChainLog ==
  ASSUME Bodies = {}
  PROVE  ServerSpec => ImplementsChainLog
<1>1. ServerInit => Log!LogInit
  BY DEF ServerInit, Init, Log!LogInit
<1>2. ServerInv /\ SoleInv /\ IdsInv /\ LogInv /\ [ServerNext]_serverVars => [Log!LogNext]_chain
  <2> SUFFICES ASSUME ServerInv, SoleInv, IdsInv, LogInv, [ServerNext]_serverVars, chain' # chain
               PROVE  Log!LogNext
    OBVIOUS
  <2>1. TypeOK /\ PoolSound' /\ ReplayInv
    BY NextPoolSound DEF ServerInv, ServerTypeOK, LogInv
  <2>2. Loop \in Goroutines /\ pc[Loop] = "append" /\ chain' = Append(chain, blk[Loop])
    BY <2>1, SoleStep, SoleChain
  <2> DEFINE b == blk[Loop]
  <2>3. /\ b \in Block /\ chain \in Seq(Block) /\ Len(chain) \in Nat \ {0} /\ made \in Nat
        /\ DOMAIN chain = 1 .. Len(chain) /\ \A i \in DOMAIN chain : chain[i].id \in Nat
    BY <2>1, <2>2, NodeTypes
  <2>4. /\ b.height = Len(chain) /\ b.prev = chain[Len(chain)].id
        /\ b.id = made /\ \A i \in DOMAIN chain : chain[i].id < made
    BY <2>2 DEF SoleInv, LogInv, IdsInv, InFlight
  <2>5. \A i \in DOMAIN chain : chain[i].id # b.id
    BY <2>3, <2>4
  <2>6. Log!ExecuteAll(Log!Replay(chain), b.data).ok = b.txs
    <3>1. WholeExecuted(Loop)
      BY <2>1, <2>2 DEF ReplayInv
    <3> QED
      BY <3>1 DEF WholeExecuted
  <2>7. Log!Extends(b)
    BY <2>3, <2>4, <2>5, <2>6 DEF Log!Extends, Log!Last
  <2>8. /\ Len(chain') = Len(chain) + 1
        /\ chain'[Len(chain')] = b
        /\ SubSeq(chain', 1, Len(chain') - 1) = chain
    <3>1. chain' = Append(chain, b)
      BY <2>2
    <3>2. chain \in Seq(Block) /\ b \in Block
      BY <2>3
    <3> HIDE DEF b
    <3> QED
      BY <3>1, <3>2, FrontOfAppend
  <2> QED
    BY <2>7, <2>8 DEF Log!LogNext, Log!Last, Log!Front
<1> QED
  BY <1>1, <1>2, InitServerInv, NextServerInv, InitSoleInv, NextSoleInv, InitIdsInv, NextIdsInv,
     InitLogInv, NextLogInv, PTL DEF ServerSpec, ImplementsChainLog, Log!LogSpec
=============================================================================
