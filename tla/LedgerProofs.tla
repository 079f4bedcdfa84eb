---------------------------- MODULE LedgerProofs ----------------------------
(***************************************************************************)
(* How the ledger of Blockchain relates to the chain, for any number of    *)
(* goroutines and for one: serial execution, conservation of the supply;   *)
(* replay of the chain, the refinement of ChainLog, and the disk.          *)
(***************************************************************************)
EXTENDS BlockchainProperties, BlockchainProofs, FiniteSetTheorems, WellFoundedInduction, TLAPS

-----------------------------------------------------------------------------
(* Induction over natural numbers, for a set of numbers.  It is derived    *)
(* from the order of the finite sets 1 .. n.                               *)

LEMMA LeastNat ==
  ASSUME NEW S \in SUBSET Nat, S # {}
  PROVE  \E n \in S : \A m \in S : n <= m
<1> DEFINE T == {1 .. n : n \in S}
<1>1. \A n \in S : 1 .. n \in FiniteSubsetsOf(Nat)
  <2>1. \A n \in S : IsFiniteSet(1 .. n)
    BY FS_Interval
  <2> QED BY <2>1 DEF FiniteSubsetsOf
<1>2. T \subseteq FiniteSubsetsOf(Nat) /\ T # {}
  BY <1>1
<1>3. IsWellFoundedOn(StrictSubsetOrdering(Nat), FiniteSubsetsOf(Nat))
  BY FS_StrictSubsetOrderingWellFounded
<1>4. \E x \in T : \A y \in T : ~ (<<y, x>> \in StrictSubsetOrdering(Nat))
  <2> HIDE DEF T
  <2> QED BY <1>2, <1>3, WFMin
<1>5. PICK n \in S : \A m \in S : <<1 .. m, 1 .. n>> \notin StrictSubsetOrdering(Nat)
  BY <1>4
<1>6. ASSUME NEW m \in S, m < n
      PROVE  <<1 .. m, 1 .. n>> \in StrictSubsetOrdering(Nat)
  <2>1. 1 .. m \subseteq 1 .. n /\ n \in 1 .. n /\ n \notin 1 .. m
    BY <1>6
  <2>2. 1 .. m \in SUBSET Nat /\ 1 .. n \in SUBSET Nat
    OBVIOUS
  <2> QED BY <2>1, <2>2 DEF StrictSubsetOrdering
<1>7. n \in Nat /\ \A m \in S : m \in Nat
  OBVIOUS
<1>8. \A m \in S : ~ (m < n)
  BY <1>5, <1>6
<1>9. \A m \in S : n <= m
  <2> HIDE DEF T
  <2> QED BY <1>7, <1>8
<1> QED BY <1>9

LEMMA SetInduction ==
  ASSUME NEW S, 0 \in S, \A n \in Nat : n \in S => n + 1 \in S
  PROVE  Nat \subseteq S
<1> SUFFICES ASSUME Nat \ S # {} PROVE FALSE
  OBVIOUS
<1>1. PICK n \in Nat \ S : \A m \in Nat \ S : n <= m
  BY LeastNat
<1>2. n # 0 /\ n - 1 \in Nat /\ n - 1 \in S
  BY <1>1
<1> QED BY <1>1, <1>2

-----------------------------------------------------------------------------
(* The recursions of ChainLog                                              *)

\* The module's own copies of the ledger's operators are the same operators.
LEMMA LogLedger ==
  /\ \A s, tx : Log!Effect(s, tx) = Effect(s, tx)
  /\ \A s, tx : Log!Outcome(s, tx) = Outcome(s, tx)
  /\ Log!GenesisLedger(Funded) = GenesisLedger(Funded)
<1> USE DEF Log!RunVM, RunVM, Log!NFTFails, NFTFails, Log!TransferFails, TransferFails,
        Log!HandleNativeNFT, HandleNativeNFT, Log!HandleNativeTransfer, HandleNativeTransfer,
        Log!Transfer, Transfer, Log!Credit, Credit, Log!Debit, Debit,
        Log!Outcome, Outcome, Log!Effect, Effect
<1>1. \A s, tx : Log!Outcome(s, tx) = Outcome(s, tx)
  OBVIOUS
<1>2. \A s, tx : Log!Effect(s, tx) = Effect(s, tx)
  OBVIOUS
<1> QED
  BY <1>1, <1>2 DEF Log!GenesisLedger, GenesisLedger

\* The first n executions of txx in ledger s.
IsRun(run, s, txx, n) ==
  run = [i \in 0 .. n |->
           IF i = 0 THEN [ledger |-> s, ok |-> <<>>] ELSE Log!Executed(run[i - 1], txx[i])]

LEMMA RunExists ==
  ASSUME NEW s, NEW txx
  PROVE  \A n \in Nat : \E run : IsRun(run, s, txx, n)
<1> DEFINE S == {n \in Nat : \E run : IsRun(run, s, txx, n)}
<1>1. 0 \in S
  <2> DEFINE f == [i \in 0 .. 0 |-> [ledger |-> s, ok |-> <<>>]]
  <2>1. IsRun(f, s, txx, 0)
    BY DEF IsRun
  <2> QED BY <2>1
<1>2. ASSUME NEW n \in Nat, n \in S
      PROVE  n + 1 \in S
  <2>1. PICK f : IsRun(f, s, txx, n)
    BY <1>2
  <2> DEFINE g == [i \in 0 .. n + 1 |->
                     IF i = n + 1 THEN Log!Executed(f[n], txx[n + 1]) ELSE f[i]]
  <2>2. IsRun(g, s, txx, n + 1)
    <3>1. \A i \in 0 .. n : f[i] = IF i = 0 THEN [ledger |-> s, ok |-> <<>>] ELSE Log!Executed(f[i - 1], txx[i])
      BY <2>1 DEF IsRun
    <3>2. \A i \in 0 .. n + 1 : g[i] = IF i = 0 THEN [ledger |-> s, ok |-> <<>>] ELSE Log!Executed(g[i - 1], txx[i])
      BY <3>1
    <3> QED BY <3>2 DEF IsRun
  <2> QED BY <2>2
<1> HIDE DEF S
<1>3. Nat \subseteq S
  BY <1>1, <1>2, SetInduction
<1> QED BY <1>3 DEF S

\* Two runs in the same ledger agree as long as their transactions do.
LEMMA RunUnique ==
  ASSUME NEW s, NEW txx, NEW tyy, NEW m \in Nat, NEW n \in Nat, NEW f, NEW g,
         IsRun(f, s, txx, m), IsRun(g, s, tyy, n), m <= n,
         \A i \in 1 .. m : txx[i] = tyy[i]
  PROVE  \A i \in 0 .. m : f[i] = g[i]
<1> DEFINE S == {i \in Nat : i <= m => f[i] = g[i]}
<1>1. /\ \A i \in 0 .. m : f[i] = IF i = 0 THEN [ledger |-> s, ok |-> <<>>] ELSE Log!Executed(f[i - 1], txx[i])
      /\ \A i \in 0 .. n : g[i] = IF i = 0 THEN [ledger |-> s, ok |-> <<>>] ELSE Log!Executed(g[i - 1], tyy[i])
  BY DEF IsRun
<1>2. 0 \in S
  BY <1>1
<1>3. ASSUME NEW i \in Nat, i \in S
      PROVE  i + 1 \in S
  BY <1>1, <1>3
<1> HIDE DEF S
<1>4. Nat \subseteq S
  BY <1>2, <1>3, SetInduction
<1> QED BY <1>4 DEF S

LEMMA ExecuteAllRuns ==
  ASSUME NEW s, NEW T, NEW txx \in Seq(T)
  PROVE  \E run : IsRun(run, s, txx, Len(txx)) /\ Log!ExecuteAll(s, txx) = run[Len(txx)]
<1> DEFINE r == CHOOSE run : IsRun(run, s, txx, Len(txx))
<1>1. IsRun(r, s, txx, Len(txx))
  <2>1. Len(txx) \in Nat
    OBVIOUS
  <2>2. \E run : IsRun(run, s, txx, Len(txx))
    BY <2>1, RunExists
  <2> QED
    BY <2>2
<1>2. Log!ExecuteAll(s, txx) = r[Len(txx)]
  BY DEF Log!ExecuteAll, IsRun
<1> QED BY <1>1, <1>2

\* Executing nothing, and executing one transaction more.
LEMMA ExecuteNothing ==
  ASSUME NEW s
  PROVE  Log!ExecuteAll(s, <<>>) = [ledger |-> s, ok |-> <<>>]
<1>1. <<>> \in Seq(Nat) /\ Len(<<>>) = 0
  OBVIOUS
<1>2. PICK run : IsRun(run, s, <<>>, 0) /\ Log!ExecuteAll(s, <<>>) = run[0]
  BY <1>1, ExecuteAllRuns
<1> QED BY <1>2 DEF IsRun

LEMMA ExecuteOneMore ==
  ASSUME NEW s, NEW T, NEW txx \in Seq(T), NEW tx \in T
  PROVE  Log!ExecuteAll(s, Append(txx, tx)) = Log!Executed(Log!ExecuteAll(s, txx), tx)
<1> DEFINE tyy == Append(txx, tx)
           n == Len(txx)
<1>1. /\ tyy \in Seq(T) /\ Len(tyy) = n + 1 /\ n \in Nat /\ tyy[n + 1] = tx
      /\ n + 1 \in Nat /\ n <= n + 1
      /\ \A i \in 1 .. n : txx[i] = tyy[i]
  OBVIOUS
<1> HIDE DEF tyy, n
<1>2. PICK f : IsRun(f, s, txx, n) /\ Log!ExecuteAll(s, txx) = f[n]
  BY ExecuteAllRuns DEF n
<1>3. PICK g : IsRun(g, s, tyy, n + 1) /\ Log!ExecuteAll(s, tyy) = g[n + 1]
  BY <1>1, ExecuteAllRuns
<1>4. \A i \in 0 .. n : f[i] = g[i]
  <2> DEFINE k == n + 1
  <2>1. /\ n \in Nat /\ k \in Nat /\ n <= k
        /\ IsRun(f, s, txx, n) /\ IsRun(g, s, tyy, k) /\ \A i \in 1 .. n : txx[i] = tyy[i]
    BY <1>1, <1>2, <1>3
  <2> HIDE DEF k
  <2> QED BY <2>1, RunUnique
<1>5. g[n + 1] = Log!Executed(g[n], tyy[n + 1])
  BY <1>1, <1>3 DEF IsRun
<1> QED BY <1>1, <1>2, <1>3, <1>4, <1>5 DEF tyy

\* The ledgers after the first n blocks.
IsReplay(after, blocks, n) ==
  after = [i \in 0 .. n |->
             IF i = 0 THEN Log!GenesisLedger(Funded)
             ELSE Log!ExecuteAll(after[i - 1], blocks[i].data).ledger]

LEMMA ReplayExists ==
  ASSUME NEW blocks
  PROVE  \A n \in Nat : \E after : IsReplay(after, blocks, n)
<1> DEFINE S == {n \in Nat : \E after : IsReplay(after, blocks, n)}
<1>1. 0 \in S
  <2> DEFINE f == [i \in 0 .. 0 |-> Log!GenesisLedger(Funded)]
  <2>1. IsReplay(f, blocks, 0)
    BY DEF IsReplay
  <2> QED BY <2>1
<1>2. ASSUME NEW n \in Nat, n \in S
      PROVE  n + 1 \in S
  <2>1. PICK f : IsReplay(f, blocks, n)
    BY <1>2
  <2> DEFINE g == [i \in 0 .. n + 1 |->
                     IF i = n + 1 THEN Log!ExecuteAll(f[n], blocks[n + 1].data).ledger ELSE f[i]]
  <2>2. IsReplay(g, blocks, n + 1)
    <3>1. \A i \in 0 .. n : f[i] = IF i = 0 THEN Log!GenesisLedger(Funded)
                                   ELSE Log!ExecuteAll(f[i - 1], blocks[i].data).ledger
      BY <2>1 DEF IsReplay
    <3>2. \A i \in 0 .. n + 1 : g[i] = IF i = 0 THEN Log!GenesisLedger(Funded)
                                       ELSE Log!ExecuteAll(g[i - 1], blocks[i].data).ledger
      BY <3>1
    <3> QED BY <3>2 DEF IsReplay
  <2> QED BY <2>2
<1> HIDE DEF S
<1>3. Nat \subseteq S
  BY <1>1, <1>2, SetInduction
<1> QED BY <1>3 DEF S

\* Replays of two logs agree as long as the logs do.
LEMMA ReplayUnique ==
  ASSUME NEW blocks, NEW others, NEW m \in Nat, NEW n \in Nat, NEW f, NEW g,
         IsReplay(f, blocks, m), IsReplay(g, others, n), m <= n,
         \A i \in 1 .. m : blocks[i] = others[i]
  PROVE  \A i \in 0 .. m : f[i] = g[i]
<1> DEFINE S == {i \in Nat : i <= m => f[i] = g[i]}
<1>1. /\ \A i \in 0 .. m : f[i] = IF i = 0 THEN Log!GenesisLedger(Funded)
                                  ELSE Log!ExecuteAll(f[i - 1], blocks[i].data).ledger
      /\ \A i \in 0 .. n : g[i] = IF i = 0 THEN Log!GenesisLedger(Funded)
                                  ELSE Log!ExecuteAll(g[i - 1], others[i].data).ledger
  BY DEF IsReplay
<1>2. 0 \in S
  BY <1>1
<1>3. ASSUME NEW i \in Nat, i \in S
      PROVE  i + 1 \in S
  BY <1>1, <1>3
<1> HIDE DEF S
<1>4. Nat \subseteq S
  BY <1>2, <1>3, SetInduction
<1> QED BY <1>4 DEF S

LEMMA ReplayRuns ==
  ASSUME NEW T, NEW blocks \in Seq(T)
  PROVE  \E after : IsReplay(after, blocks, Len(blocks)) /\ Log!Replay(blocks) = after[Len(blocks)]
<1> DEFINE a == CHOOSE after : IsReplay(after, blocks, Len(blocks))
<1>1. IsReplay(a, blocks, Len(blocks))
  <2>1. Len(blocks) \in Nat
    OBVIOUS
  <2>2. \E after : IsReplay(after, blocks, Len(blocks))
    BY <2>1, ReplayExists
  <2> QED
    BY <2>2
<1>2. Log!Replay(blocks) = a[Len(blocks)]
  BY DEF Log!Replay, IsReplay
<1> QED BY <1>1, <1>2

\* The replay of the genesis block alone, and of one block more.
LEMMA ReplayGenesis == Log!Replay(<<Genesis>>) = GenesisLedger(Funded)
<1>1. <<Genesis>> \in Seq(Block) /\ Len(<<Genesis>>) = 1 /\ <<Genesis>>[1].data = <<>>
  BY GenesisBlockType DEF Genesis
<1>2. PICK f : IsReplay(f, <<Genesis>>, 1) /\ Log!Replay(<<Genesis>>) = f[1]
  BY <1>1, ReplayRuns
<1>3. f[0] = Log!GenesisLedger(Funded) /\ f[1] = Log!ExecuteAll(f[0], <<>>).ledger
  BY <1>1, <1>2 DEF IsReplay
<1> QED BY <1>2, <1>3, ExecuteNothing, LogLedger

LEMMA ReplayOneMore ==
  ASSUME NEW T, NEW blocks \in Seq(T), NEW b \in T
  PROVE  Log!Replay(Append(blocks, b)) = Log!ExecuteAll(Log!Replay(blocks), b.data).ledger
<1> DEFINE longer == Append(blocks, b)
           n == Len(blocks)
<1>1. /\ longer \in Seq(T) /\ Len(longer) = n + 1 /\ n \in Nat /\ longer[n + 1] = b
      /\ \A i \in 1 .. n : blocks[i] = longer[i]
  OBVIOUS
<1> HIDE DEF longer, n
<1>2. PICK f : IsReplay(f, blocks, n) /\ Log!Replay(blocks) = f[n]
  BY ReplayRuns DEF n
<1>3. PICK g : IsReplay(g, longer, n + 1) /\ Log!Replay(longer) = g[n + 1]
  BY <1>1, ReplayRuns
<1>4. \A i \in 0 .. n : f[i] = g[i]
  BY <1>1, <1>2, <1>3, ReplayUnique
<1>5. g[n + 1] = Log!ExecuteAll(g[n], longer[n + 1].data).ledger
  BY <1>1, <1>3 DEF IsReplay
<1> QED BY <1>1, <1>2, <1>3, <1>4, <1>5 DEF longer

-----------------------------------------------------------------------------
(* The ledger in the middle of a block                                     *)

\* Of the transactions "all", "rest" are still to be executed; the others, executed from the
\* ledger "before" on, lead to ledger l, and ok lists the successful ones.
PartDone(all, rest, before, l, ok) ==
  \E executed \in Seq(Executable) :
    /\ executed \o rest = all
    /\ Log!ExecuteAll(before, executed) = [ledger |-> l, ok |-> ok]

PartExecuted(g, before) == PartDone(blk[g].data, todo[g], before, ledger, done[g])

WholeExecuted(g) ==
  Log!ExecuteAll(Log!Replay(chain), blk[g].data) = [ledger |-> ledger, ok |-> blk[g].txs]

ReplayInv ==
  /\ LedgerIsReplay
  /\ \A g \in Goroutines :
       /\ pc[g] \notin {"exec", "student"} => done[g] = <<>>
       /\ pc[g] = "lock" => blk[g].data = blk[g].txs
       /\ pc[g] = "exec" /\ ~crashed => PartExecuted(g, Log!Replay(chain))
       /\ pc[g] = "append" => WholeExecuted(g)

LEMMA InitReplayInv == Init => ReplayInv
<1> SUFFICES ASSUME Init PROVE ReplayInv
  OBVIOUS
<1>1. ledger = Log!Replay(chain)
  BY ReplayGenesis DEF Init
<1>2. \A g \in Goroutines : pc[g] = "idle" /\ done[g] = <<>>
  BY DEF Init
<1> QED BY <1>1, <1>2 DEF ReplayInv, LedgerIsReplay

\* One execution moves a transaction from what is to be done to what is done.
LEMMA OneMoreDone ==
  ASSUME NEW all, NEW t \in Seq(Executable), NEW before, NEW l, NEW ok, t # <<>>,
         PartDone(all, t, before, l, ok)
  PROVE  PartDone(all, Tail(t), before, Effect(l, Head(t)),
                  IF Outcome(l, Head(t)) = "ok" THEN Append(ok, Head(t)) ELSE ok)
<1>1. PICK ex \in Seq(Executable) : /\ ex \o t = all
                                    /\ Log!ExecuteAll(before, ex) = [ledger |-> l, ok |-> ok]
  BY DEF PartDone
<1> DEFINE x == Head(t)
<1>3. x \in Executable /\ Append(ex, x) \in Seq(Executable) /\ Append(ex, x) \o Tail(t) = ex \o t
  <2>1. x \in Executable /\ Append(ex, x) \in Seq(Executable) /\ Tail(t) \in Seq(Executable)
    OBVIOUS
  <2>2. /\ Len(Append(ex, x) \o Tail(t)) = Len(ex \o t)
        /\ \A i \in 1 .. Len(ex \o t) : (Append(ex, x) \o Tail(t))[i] = (ex \o t)[i]
    OBVIOUS
  <2>3. Append(ex, x) \o Tail(t) \in Seq(Executable) /\ ex \o t \in Seq(Executable)
    BY <2>1
  <2> DEFINE u == Append(ex, x) \o Tail(t)
             v == ex \o t
  <2> HIDE DEF x, u, v
  <2>4. /\ u \in Seq(Executable) /\ v \in Seq(Executable) /\ Len(u) = Len(v)
        /\ \A i \in 1 .. Len(v) : u[i] = v[i]
    BY <2>2, <2>3 DEF u, v
  <2>5. u = v
    BY <2>4
  <2> QED BY <2>1, <2>5 DEF u, v
<1>4. Log!ExecuteAll(before, Append(ex, x)) = Log!Executed([ledger |-> l, ok |-> ok], x)
  BY <1>1, <1>3, ExecuteOneMore
<1>5. Log!Executed([ledger |-> l, ok |-> ok], x)
      = [ledger |-> Effect(l, x), ok |-> IF Outcome(l, x) = "ok" THEN Append(ok, x) ELSE ok]
  BY LogLedger DEF Log!Executed
<1> QED BY <1>1, <1>3, <1>4, <1>5 DEF PartDone

\* A call of AddBlock that a step leaves alone, or moves without executing anything.
CallKept(g) ==
  \/ /\ pc'[g] = pc[g] /\ blk'[g] = blk[g] /\ todo'[g] = todo[g] /\ done'[g] = done[g]
     /\ crashed' = crashed
  \/ /\ pc[g] # "append" /\ pc'[g] \notin {"exec", "append", "student"}
     /\ done'[g] = done[g] /\ pc[g] \notin {"exec", "student"}
     /\ pc'[g] = "lock" => blk'[g].data = blk'[g].txs

LEMMA ReplayKept ==
  ASSUME ReplayInv, UNCHANGED <<chain, ledger, stateLock>>, \A g \in Goroutines : CallKept(g)
  PROVE  ReplayInv'
<1>1. LedgerIsReplay'
  BY DEF LedgerIsReplay, Settled, CallKept, ReplayInv
<1>2. ASSUME NEW g \in Goroutines, pc'[g] = pc[g], blk'[g] = blk[g], todo'[g] = todo[g], done'[g] = done[g],
             crashed' = crashed
      PROVE  /\ pc'[g] = "exec" /\ ~crashed' => PartExecuted(g, Log!Replay(chain))'
             /\ pc'[g] = "append" => WholeExecuted(g)'
  BY <1>2 DEF PartExecuted, WholeExecuted, ReplayInv
<1> QED
  BY <1>1, <1>2 DEF CallKept, ReplayInv

\* No other call executes or has executed a block that is not yet appended.
Alone(g) == \A h \in Goroutines \ {g} : pc[h] \in {"idle", "check"}

LEMMA ReplayStep ==
  ASSUME TypeOK, ExecutionExclusive, ReplayInv, NEW g \in Goroutines, Alone(g), LockState(g) \/ Proceed(g)
  PROVE  ReplayInv'
<1> USE DEF ReplayInv
<1>1. /\ \A h \in Goroutines \ {g} : pc[h] \in {"idle", "check"} /\ done[h] = <<>>
      /\ g # None
  BY BlockchainAssumption DEF Alone
<1>2. \A h \in Goroutines \ {g} : pc'[h] = pc[h] /\ blk'[h] = blk[h] /\ done'[h] = done[h]
  BY DEF TypeOK, LockState, Proceed, Reject, Accept, ExecOk, ExecError, ExecStudent, ExecPanic, Executing,
     UnlockState, AppendBlock, PutOk, PutFails, Return
<1>3. \A h \in Goroutines \ {g} : pc'[h] \in {"idle", "check"} /\ done'[h] = <<>>
  BY <1>1, <1>2
<1>4. \A h \in Goroutines \ {g} : CallKept(h)
  BY <1>1, <1>2 DEF CallKept
<1>5. CASE Reject(g)
  <2>1. pc[g] = "check" /\ pc'[g] = "idle" /\ done' = done /\ UNCHANGED nodeVars
    BY <1>5 DEF Reject, Return, TypeOK
  <2>2. CallKept(g)
    BY <2>1 DEF CallKept
  <2> QED BY <1>4, <2>1, <2>2, ReplayKept DEF nodeVars
<1>6. CASE Accept(g)
  <2>1. /\ pc[g] = "check" /\ pc'[g] = "lock" /\ done' = done /\ UNCHANGED nodeVars
        /\ blk' = blk /\ blk[g].data = blk[g].txs
    BY <1>6 DEF Accept, Valid, TypeOK
  <2>2. CallKept(g)
    BY <2>1 DEF CallKept
  <2> QED BY <1>4, <2>1, <2>2, ReplayKept DEF nodeVars
<1>7. CASE PutOk(g) \/ PutFails(g)
  <2>1. /\ pc[g] = "put" /\ pc'[g] = "idle" /\ done' = done /\ UNCHANGED <<chain, ledger, stateLock>>
    BY <1>7 DEF PutOk, PutFails, Return, TypeOK, nodeVars
  <2>2. CallKept(g)
    BY <2>1 DEF CallKept
  <2> QED BY <1>4, <2>1, <2>2, ReplayKept
<1>8. CASE LockState(g)
  <2>1. /\ pc[g] = "lock" /\ pc'[g] = "exec" /\ stateLock = None /\ stateLock' = g
        /\ todo'[g] = blk[g].txs /\ UNCHANGED <<chain, ledger, crashed, blk, done>>
    BY <1>8 DEF LockState, TypeOK
  <2>2. ledger = Log!Replay(chain) /\ done[g] = <<>> /\ blk[g].data = blk[g].txs
    BY <1>1, <2>1 DEF LedgerIsReplay, Settled
  <2>3. LedgerIsReplay'
    BY <1>1, <2>1 DEF LedgerIsReplay, Settled
  <2>4. PartExecuted(g, Log!Replay(chain))'
    <3>1. /\ <<>> \in Seq(Executable) /\ <<>> \o todo'[g] = blk'[g].data
      <4>1. blk[g].txs \in Seq(Executable)
        BY DEF TypeOK, Block, Executable
      <4> QED BY <2>1, <2>2, <4>1
    <3>2. Log!ExecuteAll(Log!Replay(chain), <<>>) = [ledger |-> ledger', ok |-> done'[g]]
      BY <2>1, <2>2, ExecuteNothing
    <3> QED BY <2>1, <3>1, <3>2 DEF PartExecuted, PartDone
  <2> QED BY <1>3, <2>1, <2>3, <2>4
<1>9. CASE ExecOk(g) \/ ExecError(g)
  <2>1. /\ pc[g] = "exec" /\ ~crashed /\ todo[g] # <<>> /\ todo'[g] = Tail(todo[g])
        /\ UNCHANGED <<chain, stateLock, crashed, pc, blk>>
        /\ ledger' = Effect(ledger, Head(todo[g]))
        /\ done'[g] = IF Outcome(ledger, Head(todo[g])) = "ok" THEN Append(done[g], Head(todo[g])) ELSE done[g]
    BY <1>9 DEF ExecOk, ExecError, Executing, TypeOK
  <2>2. stateLock = g /\ PartExecuted(g, Log!Replay(chain))
    BY <2>1 DEF ExecutionExclusive
  <2>3. LedgerIsReplay'
    BY <1>1, <2>1, <2>2 DEF LedgerIsReplay, Settled
  <2>4. todo[g] \in Seq(Executable)
    BY DEF TypeOK, Executable
  <2>5. PartExecuted(g, Log!Replay(chain))'
    BY <2>1, <2>2, <2>4, OneMoreDone DEF PartExecuted
  <2> QED BY <1>3, <2>1, <2>3, <2>5
<1>10. CASE ExecStudent(g) \/ ExecPanic(g)
  <2>1. /\ pc[g] = "exec" /\ UNCHANGED <<chain, stateLock>>
        /\ \/ pc'[g] = "student"
           \/ pc'[g] = "idle" /\ done'[g] = <<>>
           \/ pc'[g] = "exec" /\ crashed'
    BY <1>10 DEF ExecStudent, ExecPanic, Executing, Return, TypeOK
  <2>2. stateLock = g
    BY <2>1 DEF ExecutionExclusive
  <2>3. LedgerIsReplay'
    BY <1>1, <2>1, <2>2 DEF LedgerIsReplay, Settled
  <2> QED BY <1>3, <2>1, <2>3
<1>11. CASE UnlockState(g)
  <2>1. /\ pc[g] = "exec" /\ ~crashed /\ todo[g] = <<>> /\ pc'[g] = "append" /\ done'[g] = <<>>
        /\ UNCHANGED <<chain, ledger>> /\ blk'[g] = [blk[g] EXCEPT !.txs = done[g]]
    BY <1>11 DEF UnlockState, TypeOK
  <2>2. PICK ex \in Seq(Executable) :
           /\ ex \o todo[g] = blk[g].data
           /\ Log!ExecuteAll(Log!Replay(chain), ex) = [ledger |-> ledger, ok |-> done[g]]
    BY <2>1 DEF PartExecuted, PartDone
  <2>3. ex = blk[g].data
    BY <2>1, <2>2
  <2>4. blk'[g].data = blk[g].data /\ blk'[g].txs = done[g]
    BY <2>1 DEF TypeOK, Block
  <2>5. WholeExecuted(g)'
    BY <2>1, <2>2, <2>3, <2>4 DEF WholeExecuted
  <2>6. LedgerIsReplay'
    BY <1>1, <2>1 DEF LedgerIsReplay, Settled
  <2> QED BY <1>3, <2>1, <2>5, <2>6
<1>12. CASE AppendBlock(g)
  <2>1. /\ pc[g] = "append" /\ pc'[g] = "put" /\ UNCHANGED <<ledger, done>> /\ chain' = Append(chain, blk[g])
    BY <1>12 DEF AppendBlock, TypeOK
  <2>2. Log!Replay(chain') = Log!ExecuteAll(Log!Replay(chain), blk[g].data).ledger
    BY <2>1, ReplayOneMore DEF TypeOK
  <2>3. Log!Replay(chain') = ledger
    <3>1. WholeExecuted(g)
      BY <2>1
    <3> QED BY <2>2, <3>1 DEF WholeExecuted
  <2>4. LedgerIsReplay'
    BY <2>1, <2>3 DEF LedgerIsReplay
  <2> QED BY <1>3, <2>1, <2>4
<1> QED
  BY <1>5, <1>6, <1>7, <1>8, <1>9, <1>10, <1>11, <1>12 DEF Proceed

LEMMA NextReplayInv ==
  ASSUME SingleWriter
  PROVE  TypeOK /\ ExecutionExclusive /\ ReplayInv /\ [Next]_vars => ReplayInv'
<1> SUFFICES ASSUME TypeOK, ExecutionExclusive, ReplayInv, [Next]_vars PROVE ReplayInv'
  OBVIOUS
<1>1. \A g, h \in Goroutines : g = h
  BY DEF SingleWriter
<1>2. CASE UNCHANGED vars
  BY <1>2, ReplayKept DEF vars, nodeVars, callVars, CallKept
<1>3. ASSUME NEW parent \in wire, NEW txx \in Bodies, BuildElsewhere(parent, txx)
      PROVE  ReplayInv'
  BY <1>3, ReplayKept DEF BuildElsewhere, nodeVars, callVars, CallKept
<1>4. ASSUME NEW g \in Goroutines, Enter(g)
      PROVE  ReplayInv'
  <2>1. PICK b : Call(g, b)
    BY <1>4 DEF Enter, CallOwn, CallForeign
  <2>2. pc[g] = "idle" /\ pc'[g] = "check" /\ done' = done /\ UNCHANGED nodeVars
    BY <2>1 DEF Call, TypeOK
  <2>3. CallKept(g)
    BY <2>2 DEF CallKept
  <2> QED BY <1>1, <2>2, <2>3, ReplayKept DEF nodeVars
<1>5. ASSUME NEW g \in Goroutines, LockState(g) \/ Proceed(g)
      PROVE  ReplayInv'
  <2>1. Alone(g)
    BY <1>1 DEF Alone
  <2> QED BY <1>5, <2>1, ReplayStep
<1> QED
  BY <1>2, <1>3, <1>4, <1>5 DEF Next

-----------------------------------------------------------------------------
(* Theorems *)

NodeInv ==
  /\ TypeOK /\ LinkInv /\ IndexInv /\ UniqueInv /\ ExecutionExclusive
  /\ ReplayInv

LEMMA NodeInvariant ==
  ASSUME SingleWriter
  PROVE  /\ Init => NodeInv
         /\ NodeInv /\ [Next]_vars => NodeInv'
<1>1. Init => ExecutionExclusive
  BY DEF Init, ExecutionExclusive
<1>2. OneReceiver
  BY BlockchainAssumption DEF SingleWriter, OneReceiver
<1> QED
  BY <1>1, <1>2, InitTypeOK, InitLinkInv, InitIndexInv, InitUniqueInv, InitReplayInv,
     NextTypeOK, NextLinkInv, NextIndexInv, NextUniqueInv, NextExclusive, NextReplayInv
  DEF NodeInv

(***************************************************************************)
(* With one caller of AddBlock the ledger is, whenever no block is being   *)
(* executed, the one that a fresh node would compute from the data of the  *)
(* chain: although transactions fail half-way and stay out of their block, *)
(* although blocks are refused, late and repeated, and whatever the disk   *)
(* does, nothing is executed twice, skipped or out of order.               *)
(***************************************************************************)
THEOREM LedgerReplaysChain ==
  ASSUME SingleWriter
  PROVE  Spec => []LedgerIsReplay
<1>1. NodeInv => LedgerIsReplay
  BY DEF NodeInv, ReplayInv
<1> QED
  BY <1>1, NodeInvariant, PTL DEF Spec

(***************************************************************************)
(* With one caller of AddBlock the node implements ChainLog: validating,   *)
(* executing, appending and writing in separate critical sections amounts  *)
(* to appending, one at a time, a new block on top of the last one that    *)
(* lists what succeeded of its data.                                       *)
(***************************************************************************)
THEOREM NodeImplementsChainLog ==
  ASSUME SingleWriter
  PROVE  Spec => ImplementsChainLog
<1>1. Init => Log!LogInit
  BY DEF Init, Log!LogInit
<1>2. NodeInv /\ [Next]_vars => [Log!LogNext]_chain
  <2> SUFFICES ASSUME NodeInv, [Next]_vars, chain' # chain
               PROVE  Log!LogNext
    OBVIOUS
  <2>1. TypeOK /\ LinkInv /\ IndexInv /\ UniqueInv /\ ReplayInv
    BY DEF NodeInv
  <2>2. PICK g \in Goroutines : pc[g] = "append" /\ chain' = Append(chain, blk[g])
    BY <2>1, StepEffect
  <2> DEFINE b == blk[g]
  <2>3. b \in Block /\ chain \in Seq(Block) /\ Len(chain) > 0
    BY <2>1 DEF TypeOK
  <2>4. /\ b.height = Len(chain)
        /\ chain[b.height].id = b.prev
        /\ \A i \in 1 .. Len(chain) : chain[i].id # b.id
    BY <2>1, <2>2 DEF IndexInv, AcceptedOnTip, LinkInv, AcceptedLinked, UniqueInv, AcceptedNew, Accepted
  <2>5. Log!ExecuteAll(Log!Replay(chain), b.data).ok = b.txs
    <3>1. WholeExecuted(g)
      BY <2>1, <2>2 DEF ReplayInv
    <3> QED BY <3>1 DEF WholeExecuted
  <2>6. Last(chain) = chain[Len(chain)] /\ DOMAIN chain = 1 .. Len(chain)
    BY <2>3 DEF Last
  <2>7. Log!Extends(b)
    BY <2>3, <2>4, <2>5, <2>6 DEF Log!Extends, Log!Last
  <2>8. /\ Len(chain') = Len(chain) + 1
        /\ chain'[Len(chain')] = b
        /\ SubSeq(chain', 1, Len(chain') - 1) = chain
    BY <2>2, <2>3
  <2> QED
    BY <2>7, <2>8 DEF Log!LogNext, Log!Last, Log!Front
<1> QED
  BY <1>1, <1>2, NodeInvariant, PTL DEF Spec, ImplementsChainLog, Log!LogSpec

(***************************************************************************)
(* The disk                                                                *)
(***************************************************************************)
DiskInv ==
  /\ StoreFollowsChain
  /\ \A g \in Goroutines : pc[g] = "put" =>
       /\ blk[g] = chain[Len(chain)]
       /\ store \in Sublists(SubSeq(chain, 1, Len(chain) - 1))

LEMMA InitDiskInv == Init => DiskInv
<1> SUFFICES ASSUME Init PROVE DiskInv
  OBVIOUS
<1> DEFINE s == <<Genesis>>
<1>1. s \in Seq(Block) /\ Len(s) = 1 /\ s[0 + 1] = Genesis
  BY GenesisBlockType
<1>2. SubSeq(s, 1, 0 + 1) = s
  <2> HIDE DEF s
  <2> QED BY <1>1
<1>3. Append(<<>>, Genesis) = s
  OBVIOUS
<1> HIDE DEF s
<1>4. <<>> \in Sublists(SubSeq(s, 1, 0)) /\ 0 \in 0 .. Len(s) - 1
  BY <1>1, SublistsNone
<1>5. Append(<<>>, s[0 + 1]) \in Sublists(SubSeq(s, 1, 0 + 1))
  BY <1>1, <1>4, SublistsNext
<1>6. s \in Sublists(s)
  BY <1>1, <1>2, <1>3, <1>5
<1> QED
  BY <1>6 DEF Init, DiskInv, StoreFollowsChain, s

LEMMA NextDiskInv ==
  ASSUME SingleWriter
  PROVE  TypeOK /\ DiskInv /\ [Next]_vars => DiskInv'
<1> SUFFICES ASSUME TypeOK, DiskInv, [Next]_vars PROVE DiskInv'
  OBVIOUS
<1> USE DEF DiskInv, StoreFollowsChain
<1>1. \A g, h \in Goroutines : g = h
  BY DEF SingleWriter
<1>2. chain \in Seq(Block) /\ Len(chain) \in Nat \ {0} /\ store \in Seq(Block)
  BY DEF TypeOK
<1>3. ASSUME UNCHANGED <<chain, store>>,
             \A g \in Goroutines : pc'[g] = "put" => pc[g] = "put" /\ blk'[g] = blk[g]
      PROVE  DiskInv'
  BY <1>3
<1>4. ASSUME NEW g \in Goroutines, AppendBlock(g)
      PROVE  DiskInv'
  <2>1. chain' = Append(chain, blk[g]) /\ store' = store /\ blk' = blk
    BY <1>4 DEF AppendBlock
  <2>2. /\ chain' \in Seq(Block) /\ Len(chain') = Len(chain) + 1
        /\ SubSeq(chain', 1, Len(chain)) = chain
        /\ SubSeq(chain', 1, Len(chain) + 1) = chain'
        /\ chain'[Len(chain')] = blk[g]
        /\ Len(chain) \in 0 .. Len(chain') - 1
    BY <1>2, <2>1 DEF TypeOK
  <2>3. store \in Sublists(chain')
    BY <2>2, SublistsNext
  <2>4. store' \in Sublists(SubSeq(chain', 1, Len(chain') - 1))
    <3>1. Len(chain') - 1 = Len(chain)
      BY <1>2, <2>2
    <3> QED BY <2>1, <2>2, <3>1
  <2>5. (store \in Sublists(chain))'
    BY <2>1, <2>3
  <2> QED BY <1>1, <2>1, <2>2, <2>4, <2>5
<1>5. ASSUME NEW g \in Goroutines, PutOk(g)
      PROVE  DiskInv'
  <2>1. /\ chain' = chain /\ store' = Append(store, blk[g]) /\ pc[g] = "put" /\ pc'[g] = "idle"
    BY <1>5 DEF PutOk, Return, TypeOK
  <2> DEFINE k == Len(chain) - 1
  <2>2. /\ k \in 0 .. Len(chain) - 1 /\ blk[g] = chain[k + 1]
        /\ SubSeq(chain, 1, k + 1) = chain /\ store \in Sublists(SubSeq(chain, 1, k))
    BY <1>2, <2>1
  <2> HIDE DEF k
  <2>3. Append(store, chain[k + 1]) \in Sublists(SubSeq(chain, 1, k + 1))
    BY <1>2, <2>2, SublistsNext
  <2>4. (store \in Sublists(chain))'
    BY <2>1, <2>2, <2>3
  <2> QED BY <1>1, <2>1, <2>4
<1>6. CASE UNCHANGED vars
  BY <1>3, <1>6 DEF vars, nodeVars, callVars
<1>7. ASSUME NEW parent \in wire, NEW txx \in Bodies, BuildElsewhere(parent, txx)
      PROVE  DiskInv'
  BY <1>3, <1>7 DEF BuildElsewhere, nodeVars, callVars
<1>8. ASSUME NEW g \in Goroutines, Enter(g)
      PROVE  DiskInv'
  <2>1. PICK b : Call(g, b)
    BY <1>8 DEF Enter, CallOwn, CallForeign
  <2>2. pc'[g] = "check" /\ UNCHANGED nodeVars
    BY <2>1 DEF Call, TypeOK
  <2> QED BY <1>1, <1>3, <2>2 DEF nodeVars
<1>9. ASSUME NEW g \in Goroutines, LockState(g) \/ Proceed(g), ~AppendBlock(g), ~PutOk(g)
      PROVE  UNCHANGED <<chain, store>> /\ pc'[g] # "put"
  BY <1>9
  DEF LockState, Proceed, Reject, Accept, ExecOk, ExecError, ExecStudent, ExecPanic, Executing,
      UnlockState, PutFails, Return, nodeVars, TypeOK
<1> QED
  BY <1>1, <1>3, <1>4, <1>5, <1>6, <1>7, <1>8, <1>9 DEF Next, Proceed

(***************************************************************************)
(* With one caller of AddBlock the blocks that Put has written are blocks  *)
(* of the chain, each once and in the chain's order, whichever writes      *)
(* failed.                                                                 *)
(***************************************************************************)
THEOREM DiskFollowsChain ==
  ASSUME SingleWriter
  PROVE  Spec => []StoreFollowsChain
<1>1. Init => TypeOK /\ DiskInv
  BY InitTypeOK, InitDiskInv
<1>2. TypeOK /\ DiskInv /\ [Next]_vars => (TypeOK /\ DiskInv)'
  BY NextTypeOK, NextDiskInv
<1>3. DiskInv => StoreFollowsChain
  BY DEF DiskInv
<1> QED
  BY <1>1, <1>2, <1>3, PTL DEF Spec

-----------------------------------------------------------------------------
(* Several writers: the order of execution                                 *)

\* The blocks "ran" are those of the chain ch, the i-th at p[i], and those of the goroutines that
\* wait, g's at q[g]; each place is taken once.
Ordered(ch, waiting, own, ran, p, q) ==
  /\ p \in [1 .. Len(ch) -> 1 .. Len(ran)] /\ q \in [waiting -> 1 .. Len(ran)]
  /\ \A i \in 1 .. Len(ch) : ch[i] = ran[p[i]]
  /\ \A g \in waiting : own[g] = ran[q[g]]
  /\ \A i, j \in 1 .. Len(ch) : p[i] = p[j] => i = j
  /\ \A g, h \in waiting : q[g] = q[h] => g = h
  /\ \A i \in 1 .. Len(ch), g \in waiting : p[i] # q[g]
  /\ \A k \in 1 .. Len(ran) : \/ \E i \in 1 .. Len(ch) : p[i] = k
                              \/ \E g \in waiting : q[g] = k

\* A goroutine has executed its block and waits for bc.lock.
LEMMA OrderedUnlock ==
  ASSUME NEW ch, NEW waiting, NEW own, NEW ran \in Seq(Block), NEW p, NEW q,
         Ordered(ch, waiting, own, ran, p, q),
         NEW g, g \notin waiting, NEW now, now[g] \in Block, \A h \in waiting : now[h] = own[h]
  PROVE  \E r : Ordered(ch, waiting \cup {g}, now, Append(ran, now[g]), p, r)
<1> DEFINE n == Len(ran)
           longer == Append(ran, now[g])
           r == [h \in waiting \cup {g} |-> IF h = g THEN n + 1 ELSE q[h]]
<1>1. /\ n \in Nat /\ Len(longer) = n + 1 /\ longer[n + 1] = now[g]
      /\ \A k \in 1 .. n : longer[k] = ran[k]
  OBVIOUS
<1> HIDE DEF longer, n
<1>2. /\ p \in [1 .. Len(ch) -> 1 .. n] /\ q \in [waiting -> 1 .. n]
      /\ \A i \in 1 .. Len(ch) : ch[i] = ran[p[i]]
      /\ \A h \in waiting : own[h] = ran[q[h]]
      /\ \A i, j \in 1 .. Len(ch) : p[i] = p[j] => i = j
      /\ \A h, k \in waiting : q[h] = q[k] => h = k
      /\ \A i \in 1 .. Len(ch), h \in waiting : p[i] # q[h]
      /\ \A k \in 1 .. n : \/ \E i \in 1 .. Len(ch) : p[i] = k
                           \/ \E h \in waiting : q[h] = k
  BY DEF Ordered, n
<1>3. \A i \in 1 .. Len(ch) : p[i] \in 1 .. n /\ p[i] \in 1 .. n + 1
  BY <1>1, <1>2
<1>4. /\ \A h \in waiting : h # g /\ r[h] = q[h] /\ q[h] \in 1 .. n /\ r[h] \in 1 .. n + 1
      /\ r[g] = n + 1 /\ n + 1 \in 1 .. n + 1
  BY <1>1, <1>2
<1>5. p \in [1 .. Len(ch) -> 1 .. n + 1] /\ r \in [waiting \cup {g} -> 1 .. n + 1]
  BY <1>2, <1>3, <1>4
<1> HIDE DEF r
<1>6. \A i \in 1 .. Len(ch) : ch[i] = longer[p[i]]
  BY <1>1, <1>2, <1>3
<1>7. \A h \in waiting \cup {g} : now[h] = longer[r[h]]
  <2>1. now[g] = longer[r[g]]
    BY <1>1, <1>4
  <2>2. ASSUME NEW h \in waiting
        PROVE  now[h] = longer[r[h]]
    <3>1. now[h] = own[h] /\ own[h] = ran[q[h]] /\ r[h] = q[h] /\ q[h] \in 1 .. n
      BY <1>2, <1>4
    <3> QED BY <1>1, <3>1
  <2> QED BY <2>1, <2>2
<1>8. \A h, k \in waiting \cup {g} : r[h] = r[k] => h = k
  BY <1>1, <1>2, <1>4
<1>9. \A i \in 1 .. Len(ch), h \in waiting \cup {g} : p[i] # r[h]
  BY <1>1, <1>2, <1>3, <1>4
<1>10. ASSUME NEW k \in 1 .. n + 1
       PROVE  \/ \E i \in 1 .. Len(ch) : p[i] = k
              \/ \E h \in waiting \cup {g} : r[h] = k
  <2>1. CASE k = n + 1
    BY <1>4, <2>1
  <2>2. CASE k # n + 1
    <3>1. k \in 1 .. n
      BY <1>1, <2>2
    <3> QED BY <1>2, <1>4, <3>1
  <2> QED BY <2>1, <2>2
<1>11. Ordered(ch, waiting \cup {g}, now, longer, p, r)
  BY <1>1, <1>2, <1>5, <1>6, <1>7, <1>8, <1>9, <1>10 DEF Ordered
<1> QED BY <1>11 DEF longer

\* A goroutine that waited appends its block.
LEMMA OrderedAppend ==
  ASSUME NEW ch \in Seq(Block), NEW waiting, NEW own, NEW ran \in Seq(Block), NEW p, NEW q,
         Ordered(ch, waiting, own, ran, p, q), NEW g \in waiting, own[g] \in Block
  PROVE  \E o, r : Ordered(Append(ch, own[g]), waiting \ {g}, own, ran, o, r)
<1> DEFINE m == Len(ch)
           n == Len(ran)
           longer == Append(ch, own[g])
           o == [i \in 1 .. m + 1 |-> IF i = m + 1 THEN q[g] ELSE p[i]]
           r == [h \in waiting \ {g} |-> q[h]]
<1>1. /\ m \in Nat /\ Len(longer) = m + 1 /\ longer[m + 1] = own[g]
      /\ \A k \in 1 .. m : longer[k] = ch[k]
  OBVIOUS
<1> HIDE DEF longer, m
<1>2. /\ p \in [1 .. m -> 1 .. n] /\ q \in [waiting -> 1 .. n]
      /\ \A i \in 1 .. m : ch[i] = ran[p[i]]
      /\ \A h \in waiting : own[h] = ran[q[h]]
      /\ \A i, j \in 1 .. m : p[i] = p[j] => i = j
      /\ \A h, k \in waiting : q[h] = q[k] => h = k
      /\ \A i \in 1 .. m, h \in waiting : p[i] # q[h]
      /\ \A k \in 1 .. n : \/ \E i \in 1 .. m : p[i] = k
                           \/ \E h \in waiting : q[h] = k
  BY DEF Ordered, m
<1>3. /\ \A i \in 1 .. m : i \in 1 .. m + 1 /\ i # m + 1 /\ o[i] = p[i] /\ o[i] \in 1 .. n
      /\ o[m + 1] = q[g] /\ q[g] \in 1 .. n /\ m + 1 \in 1 .. m + 1
      /\ \A i \in 1 .. m + 1 : i = m + 1 \/ i \in 1 .. m
  BY <1>1, <1>2
<1>4. o \in [1 .. m + 1 -> 1 .. n] /\ r \in [waiting \ {g} -> 1 .. n]
  BY <1>2, <1>3
<1>5. \A h \in waiting \ {g} : r[h] = q[h]
  OBVIOUS
<1> HIDE DEF o, r, n
<1>6. \A i \in 1 .. m + 1 : longer[i] = ran[o[i]]
  BY <1>1, <1>2, <1>3
<1>7. \A h \in waiting \ {g} : own[h] = ran[r[h]]
  BY <1>2, <1>5
<1>8. \A i, j \in 1 .. m + 1 : o[i] = o[j] => i = j
  BY <1>2, <1>3
<1>9. \A h, k \in waiting \ {g} : r[h] = r[k] => h = k
  BY <1>2, <1>5
<1>10. \A i \in 1 .. m + 1, h \in waiting \ {g} : o[i] # r[h]
  BY <1>2, <1>3, <1>5
<1>11. ASSUME NEW k \in 1 .. n
       PROVE  \/ \E i \in 1 .. m + 1 : o[i] = k
              \/ \E h \in waiting \ {g} : r[h] = k
  <2>1. CASE \E i \in 1 .. m : p[i] = k
    BY <1>3, <2>1
  <2>2. CASE q[g] = k
    BY <1>3, <2>2
  <2>3. CASE \E h \in waiting \ {g} : q[h] = k
    BY <1>5, <2>3
  <2> QED BY <1>2, <2>1, <2>2, <2>3
<1>12. Ordered(longer, waiting \ {g}, own, ran, o, r)
  BY <1>1, <1>4, <1>6, <1>7, <1>8, <1>9, <1>10, <1>11 DEF Ordered, n
<1> QED BY <1>12 DEF longer

\* When nobody waits, the order of execution is a reordering of the chain.
LEMMA OrderedAll ==
  ASSUME NEW ch \in Seq(Block), NEW own, NEW ran \in Seq(Block), NEW p, NEW q,
         Ordered(ch, {}, own, ran, p, q)
  PROVE  ran \in Reorderings(ch)
<1> DEFINE m == Len(ch)
           n == Len(ran)
<1>1. /\ p \in [1 .. m -> 1 .. n]
      /\ \A i \in 1 .. m : ch[i] = ran[p[i]]
      /\ \A i, j \in 1 .. m : p[i] = p[j] => i = j
      /\ \A k \in 1 .. n : \E i \in 1 .. m : p[i] = k
  BY DEF Ordered
<1>2. m \in Nat /\ n \in Nat /\ DOMAIN ch = 1 .. m /\ ran = [k \in 1 .. n |-> ran[k]]
  OBVIOUS
<1> HIDE DEF m, n
<1>3. m = n
  <2>1. p \in Bijection(1 .. m, 1 .. n)
    BY <1>1 DEF Bijection, Injection, Surjection, IsInjective
  <2>2. Cardinality(1 .. n) = Cardinality(1 .. m)
    <3>1. IsFiniteSet(1 .. m)
      <4>1. 1 \in Int /\ m \in Int
        BY <1>2
      <4> QED BY <4>1, FS_Interval
    <3>2. ExistsBijection(1 .. m, 1 .. n)
      BY <2>1 DEF ExistsBijection
    <3> QED BY <3>1, <3>2, FS_Bijection
  <2>3. \A k \in Nat : Cardinality(1 .. k) = k
    <3> SUFFICES ASSUME NEW k \in Nat PROVE Cardinality(1 .. k) = k
      OBVIOUS
    <3>1. 1 \in Int /\ k \in Int
      OBVIOUS
    <3>2. Cardinality(1 .. k) = IF 1 > k THEN 0 ELSE k - 1 + 1
      BY <3>1, FS_Interval
    <3> QED BY <3>2
  <2> QED BY <1>2, <2>2, <2>3
<1> DEFINE r == [k \in 1 .. m |-> CHOOSE i \in 1 .. m : p[i] = k]
<1>4. \A k \in 1 .. m : r[k] \in 1 .. m /\ p[r[k]] = k
  BY <1>1, <1>3
<1>5. r \in [1 .. m -> 1 .. m]
  BY <1>4
<1>6. \A i \in 1 .. m : p[i] \in 1 .. m /\ r[p[i]] = i
  BY <1>1, <1>3, <1>4
<1> HIDE DEF r
<1>7. r \in Bijection(1 .. m, 1 .. m)
  <2>1. \A k, l \in 1 .. m : r[k] = r[l] => k = l
    BY <1>4
  <2> QED BY <1>5, <1>6, <2>1 DEF Bijection, Injection, Surjection, IsInjective
<1>8. \A k \in 1 .. m : ran[k] = ch[r[k]]
  BY <1>1, <1>4
<1>9. ran = [k \in 1 .. m |-> ch[r[k]]]
  BY <1>2, <1>3, <1>8
<1> QED BY <1>2, <1>7, <1>9 DEF Reorderings

\* The goroutines that have executed their block and wait for bc.lock.
Waiting == {g \in Goroutines : pc[g] = "append"}

\* The ledger is that of the blocks "ran", and of what is executed of the next one.
RunSoFar(ran) ==
  /\ stateLock = None => ledger = Log!Replay(ran)
  /\ \A g \in Goroutines : pc[g] = "exec" /\ ~crashed => PartExecuted(g, Log!Replay(ran))

CallsReady ==
  \A g \in Goroutines :
    /\ pc[g] \notin {"exec", "student"} => done[g] = <<>>
    /\ pc[g] = "lock" => blk[g].data = blk[g].txs

SerialInv ==
  /\ CallsReady
  /\ \E ran \in Seq(Block) :
       RunSoFar(ran) /\ \E p, q : Ordered(chain, Waiting, blk, ran, p, q)

LEMMA InitSerialInv == Init => SerialInv
<1> SUFFICES ASSUME Init PROVE SerialInv
  OBVIOUS
<1>1. /\ chain = <<Genesis>> /\ Waiting = {}
      /\ \A g \in Goroutines : pc[g] = "idle" /\ done[g] = <<>>
  BY DEF Init, Waiting
<1>2. CallsReady
  BY <1>1 DEF CallsReady
<1>3. chain \in Seq(Block) /\ Len(chain) = 1
  BY <1>1, GenesisBlockType
<1>4. RunSoFar(chain)
  BY <1>1, ReplayGenesis DEF Init, RunSoFar
<1> DEFINE p == [i \in 1 .. 1 |-> i]
           q == [g \in {} |-> 1]
<1>5. Ordered(chain, Waiting, blk, chain, p, q)
  BY <1>1, <1>3 DEF Ordered
<1> HIDE DEF p, q
<1> QED BY <1>2, <1>3, <1>4, <1>5 DEF SerialInv

LEMMA NextCallsReady ==
  TypeOK /\ CallsReady /\ [Next]_vars => CallsReady'
<1> SUFFICES ASSUME TypeOK, CallsReady, [Next]_vars, NEW h \in Goroutines
             PROVE  /\ pc'[h] \notin {"exec", "student"} => done'[h] = <<>>
                    /\ pc'[h] = "lock" => blk'[h].data = blk'[h].txs
  BY DEF CallsReady
<1> USE DEF TypeOK, CallsReady
<1>1. CASE UNCHANGED vars
  BY <1>1 DEF vars, callVars
<1>2. CASE \E parent \in wire, txx \in Bodies : BuildElsewhere(parent, txx)
  BY <1>2 DEF BuildElsewhere, callVars
<1>3. ASSUME NEW g \in Goroutines, Enter(g) PROVE /\ pc'[h] \notin {"exec", "student"} => done'[h] = <<>>
                                                  /\ pc'[h] = "lock" => blk'[h].data = blk'[h].txs
  BY <1>3 DEF Enter, CallOwn, CallForeign, Call
<1>4. ASSUME NEW g \in Goroutines, LockState(g) \/ Proceed(g), ~UnlockState(g), ~AppendBlock(g)
      PROVE  /\ pc'[h] \notin {"exec", "student"} => done'[h] = <<>>
             /\ pc'[h] = "lock" => blk'[h].data = blk'[h].txs
  <2>1. blk' = blk
    BY <1>4 DEF LockState, Proceed, Reject, Accept, ExecOk, ExecError, ExecStudent, ExecPanic, Executing,
                PutOk, PutFails
  <2>2. pc'[h] = "lock" => pc[h] = "lock" \/ blk[h].data = blk[h].txs
    BY <1>4
    DEF LockState, Proceed, Reject, Accept, ExecOk, ExecError, ExecStudent, ExecPanic, Executing,
        PutOk, PutFails, Return, Valid
  <2>3. pc'[h] \notin {"exec", "student"} => done'[h] = <<>>
    BY <1>4
    DEF LockState, Proceed, Reject, Accept, ExecOk, ExecError, ExecStudent, ExecPanic, Executing,
        PutOk, PutFails, Return
  <2> QED BY <2>1, <2>2, <2>3
<1>5. ASSUME NEW g \in Goroutines, UnlockState(g) \/ AppendBlock(g)
      PROVE  /\ pc'[h] \notin {"exec", "student"} => done'[h] = <<>>
             /\ pc'[h] = "lock" => blk'[h].data = blk'[h].txs
  BY <1>5 DEF UnlockState, AppendBlock
<1> QED
  BY <1>1, <1>2, <1>3, <1>4, <1>5 DEF Next, Proceed

LEMMA NextSerialInv ==
  TypeOK /\ ExecutionExclusive /\ SerialInv /\ [Next]_vars => SerialInv'
<1> SUFFICES ASSUME TypeOK, ExecutionExclusive, SerialInv, [Next]_vars PROVE SerialInv'
  OBVIOUS
<1>1. TypeOK' /\ CallsReady' /\ CallsReady
  BY NextTypeOK, NextCallsReady DEF SerialInv
<1>r. PICK ran \in Seq(Block) : RunSoFar(ran) /\ \E p, q : Ordered(chain, Waiting, blk, ran, p, q)
  BY DEF SerialInv
<1>2. PICK p, q : RunSoFar(ran) /\ Ordered(chain, Waiting, blk, ran, p, q)
  BY <1>r
<1>3. /\ \A g \in Goroutines : g # None
      /\ \A g, h \in Goroutines : pc[g] = "exec" /\ pc[h] = "exec" => g = h
      /\ \A g \in Goroutines : pc[g] = "exec" => stateLock = g
  BY BlockchainAssumption DEF ExecutionExclusive
\* Steps that append nothing and finish no execution keep the order.
<1>4. ASSUME chain' = chain,
             \A g \in Goroutines : /\ pc'[g] = "append" <=> pc[g] = "append"
                                   /\ pc[g] = "append" => blk'[g] = blk[g]
      PROVE  Ordered(chain, Waiting, blk, ran, p, q)'
  <2>1. Waiting' = Waiting /\ \A g \in Waiting : blk'[g] = blk[g]
    BY <1>4 DEF Waiting
  <2> QED BY <1>2, <1>4, <2>1 DEF Ordered
<1>5. ASSUME Ordered(chain, Waiting, blk, ran, p, q)', RunSoFar(ran)'
      PROVE  SerialInv'
  BY <1>1, <1>5 DEF SerialInv
\* Steps outside of the execution.
<1>6. ASSUME UNCHANGED <<ledger, stateLock, crashed>>,
             \A g \in Goroutines : pc'[g] = "exec" =>
               pc[g] = "exec" /\ blk'[g] = blk[g] /\ todo'[g] = todo[g] /\ done'[g] = done[g]
      PROVE  RunSoFar(ran)'
  BY <1>2, <1>6 DEF RunSoFar, PartExecuted
<1>7. CASE UNCHANGED vars
  BY <1>4, <1>5, <1>6, <1>7 DEF vars, nodeVars, callVars
<1>8. ASSUME NEW parent \in wire, NEW txx \in Bodies, BuildElsewhere(parent, txx)
      PROVE  SerialInv'
  BY <1>4, <1>5, <1>6, <1>8 DEF BuildElsewhere, nodeVars, callVars
<1>9. ASSUME NEW g \in Goroutines, Enter(g)
      PROVE  SerialInv'
  <2>1. PICK b : Call(g, b)
    BY <1>9 DEF Enter, CallOwn, CallForeign
  <2>2. /\ UNCHANGED nodeVars /\ UNCHANGED <<todo, done>> /\ pc[g] = "idle" /\ pc'[g] = "check"
        /\ \A h \in Goroutines \ {g} : pc'[h] = pc[h] /\ blk'[h] = blk[h]
    BY <2>1 DEF Call, TypeOK
  <2> QED BY <1>4, <1>5, <1>6, <2>2 DEF nodeVars
<1>10. ASSUME NEW g \in Goroutines, Reject(g) \/ Accept(g) \/ PutOk(g) \/ PutFails(g)
       PROVE  SerialInv'
  <2>1. /\ UNCHANGED <<chain, ledger, stateLock, crashed, blk, todo, done>>
        /\ pc[g] \in {"check", "put"} /\ pc'[g] \in {"idle", "lock"}
        /\ \A h \in Goroutines \ {g} : pc'[h] = pc[h]
    BY <1>10 DEF Reject, Accept, PutOk, PutFails, Return, nodeVars, TypeOK
  <2> QED BY <1>4, <1>5, <1>6, <2>1
<1>11. ASSUME NEW g \in Goroutines, LockState(g)
       PROVE  SerialInv'
  <2>1. /\ pc[g] = "lock" /\ stateLock = None /\ stateLock' = g
        /\ pc'[g] = "exec" /\ todo'[g] = blk[g].txs
        /\ \A h \in Goroutines \ {g} : pc'[h] = pc[h] /\ todo'[h] = todo[h]
        /\ UNCHANGED <<chain, ledger, crashed, blk, done>>
    BY <1>11 DEF LockState, TypeOK
  <2>2. ledger = Log!Replay(ran) /\ done[g] = <<>> /\ blk[g].data = blk[g].txs
    BY <1>1, <1>2, <2>1 DEF RunSoFar, CallsReady
  <2>3. PartExecuted(g, Log!Replay(ran))'
    <3>1. <<>> \in Seq(Executable) /\ <<>> \o todo'[g] = blk'[g].data
      <4>1. blk[g].txs \in Seq(Executable)
        BY DEF TypeOK, Block, Executable
      <4> QED BY <2>1, <2>2, <4>1
    <3>2. Log!ExecuteAll(Log!Replay(ran), <<>>) = [ledger |-> ledger', ok |-> done'[g]]
      BY <2>1, <2>2, ExecuteNothing
    <3> QED BY <2>1, <3>1, <3>2 DEF PartExecuted, PartDone
  <2>4. \A h \in Goroutines : pc'[h] = "exec" => h = g
    BY <1>3, <2>1
  <2>5. RunSoFar(ran)'
    BY <1>3, <2>1, <2>3, <2>4 DEF RunSoFar
  <2>6. Ordered(chain, Waiting, blk, ran, p, q)'
    BY <1>4, <2>1
  <2> QED BY <1>5, <2>5, <2>6
<1>12. ASSUME NEW g \in Goroutines, ExecOk(g) \/ ExecError(g)
       PROVE  SerialInv'
  <2>1. /\ pc[g] = "exec" /\ ~crashed /\ todo[g] # <<>> /\ todo'[g] = Tail(todo[g])
        /\ UNCHANGED <<chain, stateLock, crashed, pc, blk>>
        /\ ledger' = Effect(ledger, Head(todo[g]))
        /\ done'[g] = IF Outcome(ledger, Head(todo[g])) = "ok" THEN Append(done[g], Head(todo[g])) ELSE done[g]
    BY <1>12 DEF ExecOk, ExecError, Executing, TypeOK
  <2>2. stateLock = g /\ PartExecuted(g, Log!Replay(ran)) /\ todo[g] \in Seq(Executable)
    BY <1>2, <1>3, <2>1 DEF RunSoFar, TypeOK, Executable
  <2>3. PartExecuted(g, Log!Replay(ran))'
    BY <2>1, <2>2, OneMoreDone DEF PartExecuted
  <2>4. RunSoFar(ran)'
    BY <1>3, <2>1, <2>2, <2>3 DEF RunSoFar
  <2>5. Ordered(chain, Waiting, blk, ran, p, q)'
    BY <1>4, <2>1
  <2> QED BY <1>5, <2>4, <2>5
<1>13. ASSUME NEW g \in Goroutines, ExecStudent(g) \/ ExecPanic(g)
       PROVE  SerialInv'
  <2>1. /\ pc[g] = "exec" /\ UNCHANGED <<chain, stateLock, blk>>
        /\ pc'[g] \in {"student", "idle"} \/ (pc'[g] = "exec" /\ crashed')
        /\ \A h \in Goroutines \ {g} : pc'[h] = pc[h]
    BY <1>13 DEF ExecStudent, ExecPanic, Executing, Return, TypeOK
  <2>2. stateLock = g /\ \A h \in Goroutines : pc'[h] = "exec" => h = g
    BY <1>3, <2>1
  <2>3. RunSoFar(ran)'
    BY <1>3, <2>1, <2>2 DEF RunSoFar
  <2>4. Ordered(chain, Waiting, blk, ran, p, q)'
    BY <1>4, <2>1
  <2> QED BY <1>5, <2>3, <2>4
<1>14. ASSUME NEW g \in Goroutines, UnlockState(g)
       PROVE  SerialInv'
  <2>1. /\ pc[g] = "exec" /\ ~crashed /\ todo[g] = <<>> /\ pc'[g] = "append" /\ stateLock' = None
        /\ UNCHANGED <<chain, ledger>> /\ blk'[g] = [blk[g] EXCEPT !.txs = done[g]]
        /\ \A h \in Goroutines \ {g} : pc'[h] = pc[h] /\ blk'[h] = blk[h]
    BY <1>14 DEF UnlockState, TypeOK
  <2>2. PICK ex \in Seq(Executable) :
           /\ ex \o todo[g] = blk[g].data
           /\ Log!ExecuteAll(Log!Replay(ran), ex) = [ledger |-> ledger, ok |-> done[g]]
    BY <1>2, <2>1 DEF RunSoFar, PartExecuted, PartDone
  <2>3. ex = blk[g].data /\ blk'[g].data = blk[g].data /\ blk'[g] \in Block
    <3>1. blk'[g] \in Block
      BY <1>1 DEF TypeOK
    <3>2. blk[g] \in Block
      BY DEF TypeOK
    <3>3. blk'[g].data = blk[g].data
      BY <2>1, <3>2 DEF Block
    <3>4. ex = blk[g].data
      BY <2>1, <2>2
    <3> QED BY <3>1, <3>3, <3>4
  <2>4. PICK b : b = blk'[g]
    OBVIOUS
  <2>5. Log!Replay(Append(ran, b)) = ledger
    <3>1. Log!Replay(Append(ran, b)) = Log!ExecuteAll(Log!Replay(ran), b.data).ledger
      BY <2>3, <2>4, ReplayOneMore
    <3> QED BY <2>2, <2>3, <2>4, <3>1
  <2>6. \A h \in Goroutines : pc'[h] # "exec"
    BY <1>3, <2>1
  <2>7. RunSoFar(Append(ran, b))'
    BY <2>1, <2>5, <2>6 DEF RunSoFar
  <2>8. Waiting' = Waiting \cup {g} /\ g \notin Waiting /\ \A h \in Waiting : blk'[h] = blk[h]
    BY <2>1 DEF Waiting
  <2>9. PICK r : Ordered(chain, Waiting \cup {g}, blk', Append(ran, blk'[g]), p, r)
    BY <1>2, <2>3, <2>8, OrderedUnlock
  <2>10. Ordered(chain, Waiting, blk, Append(ran, b), p, r)'
    BY <2>1, <2>4, <2>8, <2>9
  <2>11. Append(ran, b) \in Seq(Block)
    BY <2>3, <2>4
  <2> QED BY <1>1, <2>7, <2>10, <2>11 DEF SerialInv
<1>15. ASSUME NEW g \in Goroutines, AppendBlock(g)
       PROVE  SerialInv'
  <2>1. /\ pc[g] = "append" /\ pc'[g] = "put" /\ chain' = Append(chain, blk[g])
        /\ UNCHANGED <<ledger, stateLock, crashed, blk, todo, done>>
        /\ \A h \in Goroutines \ {g} : pc'[h] = pc[h]
    BY <1>15 DEF AppendBlock, TypeOK
  <2>2. Waiting' = Waiting \ {g} /\ g \in Waiting
    BY <2>1 DEF Waiting
  <2>3. chain \in Seq(Block) /\ blk[g] \in Block
    BY DEF TypeOK
  <2>4. PICK o, r : Ordered(Append(chain, blk[g]), Waiting \ {g}, blk, ran, o, r)
    BY <1>2, <2>2, <2>3, OrderedAppend
  <2>5. Ordered(chain, Waiting, blk, ran, o, r)'
    BY <2>1, <2>2, <2>4
  <2>6. RunSoFar(ran)'
    BY <1>6, <2>1
  <2> QED BY <1>1, <2>5, <2>6 DEF SerialInv
<1> QED
  BY <1>7, <1>8, <1>9, <1>10, <1>11, <1>12, <1>13, <1>14, <1>15 DEF Next, Proceed

(***************************************************************************)
(* However many goroutines add blocks, the ledger is, whenever nobody is   *)
(* between taking stateLock and appending, that of the chain's blocks      *)
(* executed in some order, one whole block after the other: executions     *)
(* never mix, although stateLock is released before bc.lock is taken.      *)
(***************************************************************************)
THEOREM ExecutionIsSerial == Spec => []LedgerIsSerial
<1>1. Init => TypeOK /\ ExecutionExclusive /\ SerialInv
  BY InitTypeOK, InitSerialInv DEF Init, ExecutionExclusive
<1>2. TypeOK /\ ExecutionExclusive /\ SerialInv /\ [Next]_vars
        => (TypeOK /\ ExecutionExclusive /\ SerialInv)'
  BY NextTypeOK, NextExclusive, NextSerialInv
<1>3. TypeOK /\ SerialInv => LedgerIsSerial
  <2> SUFFICES ASSUME TypeOK, SerialInv, Settled
               PROVE  \E blocks \in Reorderings(chain) : ledger = Log!Replay(blocks)
    BY DEF LedgerIsSerial
  <2>r. PICK ran \in Seq(Block) : RunSoFar(ran) /\ \E p, q : Ordered(chain, Waiting, blk, ran, p, q)
    BY DEF SerialInv
  <2>1. PICK p, q : RunSoFar(ran) /\ Ordered(chain, Waiting, blk, ran, p, q)
    BY <2>r
  <2>2. Waiting = {} /\ ledger = Log!Replay(ran)
    BY <2>1 DEF Settled, Waiting, RunSoFar
  <2>3. ran \in Reorderings(chain)
    BY <2>1, <2>2, OrderedAll DEF TypeOK
  <2> QED BY <2>2, <2>3
<1> QED
  BY <1>1, <1>2, <1>3, PTL DEF Spec

-----------------------------------------------------------------------------
(* Sums over finite sets: the fold of SupplyConserved                      *)

\* The element a fold begins with.
First(s) == CHOOSE x \in s : TRUE

\* The recursion of the fold, defined on the subsets of s of at most n elements.
IsFold(iter, f, s, n) ==
  \A t \in SUBSET s : Cardinality(t) <= n =>
    iter[t] = IF t = {} THEN 0 ELSE f[First(t)] + iter[t \ {First(t)}]

FoldOf(iter, f, s) ==
  iter = [t \in SUBSET s |-> IF t = {} THEN 0 ELSE f[First(t)] + iter[t \ {First(t)}]]

Total(f, s) == FoldFunctionOnSet(+, 0, f, s)

\* Smaller subsets, for inductions on the number of elements.
LEMMA Smaller ==
  ASSUME NEW s, IsFiniteSet(s), NEW t \in SUBSET s
  PROVE  /\ IsFiniteSet(t) /\ Cardinality(t) \in Nat
         /\ \A x \in t : Cardinality(t \ {x}) = Cardinality(t) - 1
         /\ t # {} => First(t) \in t
         /\ t = {} <=> Cardinality(t) = 0
<1>1. IsFiniteSet(t) /\ Cardinality(t) \in Nat
  BY FS_Subset, FS_CardinalityType
<1>2. \A x \in t : Cardinality(t \ {x}) = Cardinality(t) - 1
  BY <1>1, FS_RemoveElement
<1>3. t = {} <=> Cardinality(t) = 0
  BY <1>1, FS_EmptySet
<1> QED BY <1>1, <1>2, <1>3 DEF First

LEMMA FoldExists ==
  ASSUME NEW f, NEW s, IsFiniteSet(s)
  PROVE  \E iter : FoldOf(iter, f, s)
<1> DEFINE N == {n \in Nat : \E iter : DOMAIN iter = SUBSET s /\ iter = [t \in SUBSET s |-> iter[t]] /\ IsFold(iter, f, s, n)}
<1>1. 0 \in N
  <2> DEFINE i == [t \in SUBSET s |-> 0]
  <2>1. IsFold(i, f, s, 0)
    BY Smaller DEF IsFold
  <2> QED BY <2>1
<1>2. ASSUME NEW n \in Nat, n \in N
      PROVE  n + 1 \in N
  <2>1. PICK i : DOMAIN i = SUBSET s /\ IsFold(i, f, s, n)
    BY <1>2
  <2> DEFINE j == [t \in SUBSET s |-> IF Cardinality(t) <= n THEN i[t] ELSE f[First(t)] + i[t \ {First(t)}]]
  <2>2. IsFold(j, f, s, n + 1)
    <3> SUFFICES ASSUME NEW t \in SUBSET s, Cardinality(t) <= n + 1
                 PROVE  j[t] = IF t = {} THEN 0 ELSE f[First(t)] + j[t \ {First(t)}]
      BY DEF IsFold
    <3>1. Cardinality(t) \in Nat /\ (t = {} <=> Cardinality(t) = 0)
      BY Smaller
    <3>2. CASE t = {}
      <4>1. j[t] = i[t] /\ i[t] = 0
        BY <2>1, <3>1, <3>2 DEF IsFold
      <4> QED BY <3>2, <4>1
    <3>3. CASE t # {}
      <4> DEFINE u == t \ {First(t)}
      <4>1. u \in SUBSET s /\ Cardinality(u) = Cardinality(t) - 1
        BY <3>3, Smaller
      <4>2. j[u] = i[u]
        BY <3>1, <4>1
      <4>3. j[t] = f[First(t)] + i[u]
        <5>1. CASE Cardinality(t) <= n
          <6>1. i[t] = f[First(t)] + i[u]
            BY <2>1, <3>3, <5>1 DEF IsFold
          <6> QED BY <5>1, <6>1
        <5>2. CASE ~ (Cardinality(t) <= n)
          BY <5>2
        <5> QED BY <5>1, <5>2
      <4> QED BY <3>3, <4>2, <4>3
    <3> QED BY <3>2, <3>3
  <2>3. DOMAIN j = SUBSET s /\ j = [t \in SUBSET s |-> j[t]]
    OBVIOUS
  <2> HIDE DEF j
  <2> QED BY <2>2, <2>3
<1> HIDE DEF N
<1>3. Cardinality(s) \in N
  BY <1>1, <1>2, SetInduction, FS_CardinalityType
<1>4. PICK i : i = [t \in SUBSET s |-> i[t]] /\ IsFold(i, f, s, Cardinality(s))
  BY <1>3 DEF N
<1>5. \A t \in SUBSET s : Cardinality(t) <= Cardinality(s)
  BY FS_Subset
<1>6. \A t \in SUBSET s : i[t] = IF t = {} THEN 0 ELSE f[First(t)] + i[t \ {First(t)}]
  BY <1>4, <1>5 DEF IsFold
<1>7. FoldOf(i, f, s)
  <2> DEFINE j == [t \in SUBSET s |-> IF t = {} THEN 0 ELSE f[First(t)] + i[t \ {First(t)}]]
  <2>1. \A t \in SUBSET s : i[t] = j[t]
    BY <1>6
  <2>2. j = [t \in SUBSET s |-> j[t]]
    OBVIOUS
  <2> HIDE DEF j
  <2>3. i = j
    BY <1>4, <2>1, <2>2
  <2> QED BY <2>3 DEF j, FoldOf
<1> QED BY <1>7

LEMMA TotalIs ==
  ASSUME NEW f, NEW s, IsFiniteSet(s)
  PROVE  \E iter : IsFold(iter, f, s, Cardinality(s)) /\ Total(f, s) = iter[s]
<1> DEFINE r == CHOOSE iter : FoldOf(iter, f, s)
<1>1. FoldOf(r, f, s)
  BY FoldExists
<1>2. Total(f, s) = r[s]
  BY DEF Total, FoldFunctionOnSet, MapThenFoldSet, First, FoldOf
<1> HIDE DEF r
<1>3. \A t \in SUBSET s : r[t] = IF t = {} THEN 0 ELSE f[First(t)] + r[t \ {First(t)}]
  BY <1>1 DEF FoldOf
<1>4. IsFold(r, f, s, Cardinality(s))
  BY <1>3 DEF IsFold
<1> QED BY <1>2, <1>4

Agree(f, g, s) == \A x \in s : f[x] = g[x]

\* The fold depends on nothing but the elements that it adds up.
LEMMA FoldUnique ==
  ASSUME NEW f, NEW g, NEW s, NEW t, NEW i, NEW j, NEW u, IsFiniteSet(s), IsFiniteSet(t),
         u \in SUBSET s, u \in SUBSET t, IsFold(i, f, s, Cardinality(s)), IsFold(j, g, t, Cardinality(t)),
         Agree(f, g, u)
  PROVE  i[u] = j[u]
<1> DEFINE N == {n \in Nat : \A v \in SUBSET u : Cardinality(v) <= n => i[v] = j[v]}
<1>1. ASSUME NEW v \in SUBSET u
      PROVE  /\ i[v] = IF v = {} THEN 0 ELSE f[First(v)] + i[v \ {First(v)}]
             /\ j[v] = IF v = {} THEN 0 ELSE g[First(v)] + j[v \ {First(v)}]
  <2>1. v \in SUBSET s /\ v \in SUBSET t
    OBVIOUS
  <2>2. Cardinality(v) <= Cardinality(s) /\ Cardinality(v) <= Cardinality(t)
    BY <2>1, FS_Subset
  <2> QED BY <2>1, <2>2 DEF IsFold
<1>2. IsFiniteSet(u)
  BY FS_Subset
<1>3. 0 \in N
  <2>1. \A v \in SUBSET u : Cardinality(v) <= 0 => v = {}
    BY <1>2, Smaller
  <2>2. i[{}] = j[{}]
    BY <1>1
  <2> QED BY <2>1, <2>2
<1>4. ASSUME NEW n \in Nat, n \in N
      PROVE  n + 1 \in N
  <2> SUFFICES ASSUME NEW v \in SUBSET u, Cardinality(v) <= n + 1
               PROVE  i[v] = j[v]
    OBVIOUS
  <2>1. CASE v = {}
    BY <1>1, <2>1
  <2>2. CASE v # {}
    <3> DEFINE w == v \ {First(v)}
    <3>1. First(v) \in u /\ w \in SUBSET u /\ Cardinality(w) <= n
      BY <1>2, <2>2, Smaller
    <3>2. i[w] = j[w]
      BY <1>4, <3>1
    <3> QED BY <1>1, <2>2, <3>1, <3>2 DEF Agree
  <2> QED BY <2>1, <2>2
<1> HIDE DEF N
<1>5. Cardinality(u) \in N
  BY <1>2, <1>3, <1>4, SetInduction, FS_CardinalityType
<1>6. u \in SUBSET u /\ Cardinality(u) <= Cardinality(u)
  BY <1>2, FS_CardinalityType
<1> QED BY <1>5, <1>6 DEF N

LEMMA TotalAgrees ==
  ASSUME NEW f, NEW g, NEW s, IsFiniteSet(s), Agree(f, g, s)
  PROVE  Total(f, s) = Total(g, s)
<1>1. PICK i : IsFold(i, f, s, Cardinality(s)) /\ Total(f, s) = i[s]
  BY TotalIs
<1>2. PICK j : IsFold(j, g, s, Cardinality(s)) /\ Total(g, s) = j[s]
  BY TotalIs
<1>3. s \in SUBSET s
  OBVIOUS
<1>4. IsFold(i, f, s, Cardinality(s)) /\ IsFold(j, g, s, Cardinality(s))
  BY <1>1, <1>2
<1>5. i[s] = j[s]
  BY <1>3, <1>4, FoldUnique
<1> QED BY <1>1, <1>2, <1>5

LEMMA TotalFirst ==
  ASSUME NEW f, NEW s, IsFiniteSet(s)
  PROVE  Total(f, s) = IF s = {} THEN 0 ELSE f[First(s)] + Total(f, s \ {First(s)})
<1>1. PICK i : IsFold(i, f, s, Cardinality(s)) /\ Total(f, s) = i[s]
  BY TotalIs
<1>2. i[s] = IF s = {} THEN 0 ELSE f[First(s)] + i[s \ {First(s)}]
  <2>1. s \in SUBSET s /\ Cardinality(s) <= Cardinality(s)
    BY FS_CardinalityType
  <2> QED BY <1>1, <2>1 DEF IsFold
<1> DEFINE t == s \ {First(s)}
<1>3. IsFiniteSet(t) /\ t \in SUBSET s /\ t \in SUBSET t
  BY FS_Subset
<1>4. PICK j : IsFold(j, f, t, Cardinality(t)) /\ Total(f, t) = j[t]
  BY <1>3, TotalIs
<1> HIDE DEF t
<1>5. i[t] = j[t]
  <2>1. Agree(f, f, t)
    BY DEF Agree
  <2> QED BY <1>1, <1>3, <1>4, <2>1, FoldUnique
<1> QED BY <1>1, <1>2, <1>4, <1>5 DEF t

\* A sum of naturals is a natural, and any element may be taken out of it.
LEMMA TotalSplit ==
  ASSUME NEW f, NEW s, IsFiniteSet(s), \A x \in s : f[x] \in Nat
  PROVE  /\ Total(f, s) \in Nat
         /\ \A y \in s : Total(f, s) = f[y] + Total(f, s \ {y})
<1> DEFINE Ok(t) == Total(f, t) \in Nat /\ \A y \in t : Total(f, t) = f[y] + Total(f, t \ {y})
           N == {n \in Nat : \A t \in SUBSET s : Cardinality(t) <= n => Ok(t)}
<1>1. \A t \in SUBSET s : IsFiniteSet(t) /\ Cardinality(t) \in Nat
  BY Smaller
<1>e. Ok({})
  <2>1. Total(f, {}) = 0
    BY FS_EmptySet, TotalFirst
  <2> QED BY <2>1
<1>2. 0 \in N
  <2> HIDE DEF Ok
  <2>1. \A t \in SUBSET s : Cardinality(t) <= 0 => t = {}
    BY <1>1, Smaller
  <2> QED BY <1>e, <2>1
<1>3. ASSUME NEW n \in Nat, n \in N
      PROVE  n + 1 \in N
  <2>0. Ok({})
    BY <1>e
  <2> SUFFICES ASSUME NEW t \in SUBSET s, Cardinality(t) <= n + 1, t # {}
               PROVE  Ok(t)
    <3> HIDE DEF Ok
    <3> QED BY <2>0
  <2> DEFINE x == First(t)
  <2>1. /\ x \in t /\ Total(f, t) = f[x] + Total(f, t \ {x})
        /\ \A y \in t : t \ {y} \in SUBSET s /\ Cardinality(t \ {y}) <= n
    BY <1>1, Smaller, TotalFirst
  <2> HIDE DEF x
  <2>2. ASSUME NEW y \in t
        PROVE  Ok(t \ {y})
    <3> HIDE DEF Ok
    <3>1. \A u \in SUBSET s : Cardinality(u) <= n => Ok(u)
      BY <1>3
    <3>2. t \ {y} \in SUBSET s /\ Cardinality(t \ {y}) <= n
      BY <2>1
    <3> QED BY <3>1, <3>2
  <2>3. Total(f, t) \in Nat
    BY <2>1, <2>2
  <2>4. ASSUME NEW y \in t
        PROVE  Total(f, t) = f[y] + Total(f, t \ {y})
    <3>1. CASE y = x
      BY <2>1, <3>1
    <3>2. CASE y # x
      <4>1. /\ Total(f, t \ {x}) = f[y] + Total(f, (t \ {x}) \ {y})
            /\ Total(f, t \ {y}) = f[x] + Total(f, (t \ {y}) \ {x})
        BY <2>1, <2>2, <3>2
      <4>2. (t \ {x}) \ {y} = (t \ {y}) \ {x}
        OBVIOUS
      <4>3. PICK r : r = Total(f, (t \ {y}) \ {x})
        OBVIOUS
      <4>4. Total(f, t \ {x}) = f[y] + r /\ Total(f, t \ {y}) = f[x] + r
        BY <4>1, <4>2, <4>3
      <4>5. r \in Nat
        <5>1. \A u \in SUBSET s : Cardinality(u) <= n => Ok(u)
          <6> HIDE DEF Ok
          <6> QED BY <1>3
        <5>2. (t \ {y}) \ {x} \in SUBSET s /\ Cardinality((t \ {y}) \ {x}) <= n
          <6>1. /\ IsFiniteSet(t \ {y}) /\ (t \ {y}) \ {x} \in SUBSET (t \ {y})
                /\ Cardinality(t \ {y}) <= n /\ Cardinality(t \ {y}) \in Nat
            BY <1>1, <2>1
          <6>2. /\ Cardinality((t \ {y}) \ {x}) <= Cardinality(t \ {y})
                /\ Cardinality((t \ {y}) \ {x}) \in Nat
            BY <6>1, FS_Subset, FS_CardinalityType
          <6> QED BY <6>1, <6>2
        <5> QED BY <4>3, <5>1, <5>2
      <4> QED BY <2>1, <4>4, <4>5
    <3> QED BY <3>1, <3>2
  <2> QED BY <2>3, <2>4
<1> HIDE DEF N, Ok
<1>4. Cardinality(s) \in N
  BY <1>2, <1>3, SetInduction, FS_CardinalityType
<1>5. s \in SUBSET s /\ Cardinality(s) <= Cardinality(s)
  BY FS_CardinalityType
<1>6. Ok(s)
  BY <1>4, <1>5 DEF N
<1> QED BY <1>6 DEF Ok

-----------------------------------------------------------------------------
(* The supply                                                              *)

\* The balances of an AccountState together.
Sum(acc) == Total(acc, DOMAIN acc)

\* What one account gains, another one loses.
LEMMA DebitSum ==
  ASSUME NEW acc \in Accounts, IsFiniteSet(DOMAIN acc), NEW from, NEW amount \in Nat \ {0},
         from # Coinbase, ~ TransferFails(acc, from, amount)
  PROVE  /\ DOMAIN Debit(acc, from, amount) = DOMAIN acc
         /\ Debit(acc, from, amount) \in [DOMAIN acc -> Nat]
         /\ Sum(Debit(acc, from, amount)) + amount = Sum(acc)
<1> DEFINE A == DOMAIN acc
           d == Debit(acc, from, amount)
<1>1. /\ Modulus \in Nat \ {0} /\ acc \in [A -> Balance] /\ from \in A /\ acc[from] >= amount
      /\ \A x \in A : acc[x] \in Nat /\ acc[x] < Modulus
  BY LedgerAssumption DEF Accounts, Balance, TransferFails
<1>2. (acc[from] - amount) % Modulus = acc[from] - amount
  BY <1>1
<1>3. d = [acc EXCEPT ![from] = acc[from] - amount]
  <2>1. acc[from] # 0
    BY <1>1
  <2>2. d = [acc EXCEPT ![from] = (acc[from] - amount) % Modulus]
    BY <2>1 DEF Debit
  <2> QED BY <1>2, <2>2
<1>4. /\ DOMAIN d = A /\ d \in [A -> Nat] /\ d[from] = acc[from] - amount
      /\ \A x \in A \ {from} : d[x] = acc[x]
  BY <1>1, <1>3
<1> HIDE DEF d, A
<1>5. IsFiniteSet(A) /\ IsFiniteSet(A \ {from})
  BY FS_RemoveElement DEF A
<1>6. Total(d, A \ {from}) = Total(acc, A \ {from})
  BY <1>4, <1>5, TotalAgrees DEF Agree
<1>7. /\ Total(acc, A) = acc[from] + Total(acc, A \ {from}) /\ Total(d, A) = d[from] + Total(d, A \ {from})
      /\ Total(acc, A \ {from}) \in Nat
  <2>1. /\ \A x \in A : acc[x] \in Nat /\ d[x] \in Nat
        /\ \A x \in A \ {from} : acc[x] \in Nat
    BY <1>1, <1>4
  <2> QED BY <1>1, <1>5, <2>1, TotalSplit
<1>8. Total(d, A) + amount = Total(acc, A)
  BY <1>1, <1>4, <1>6, <1>7
<1> QED BY <1>4, <1>8 DEF Sum, d, A

LEMMA CreditSum ==
  ASSUME NEW A, IsFiniteSet(A), NEW acc \in [A -> Nat], NEW to, NEW amount \in Nat,
         Sum(acc) + amount < Modulus
  PROVE  /\ IsFiniteSet(DOMAIN Credit(acc, to, amount))
         /\ Sum(Credit(acc, to, amount)) = Sum(acc) + amount
<1> DEFINE B == A \cup {to}
           c == Credit(acc, to, amount)
           r == B \ {to}
<1>1. DOMAIN acc = A /\ \A x \in A : acc[x] \in Nat
  OBVIOUS
<1>2. IsFiniteSet(B) /\ IsFiniteSet(r) /\ r \subseteq A /\ to \in B
  BY FS_AddElement, FS_RemoveElement
<1>3. Total(acc, r) \in Nat /\ Total(acc, A) \in Nat
  BY <1>1, <1>2, TotalSplit
<1>4. CASE to \in A
  <2>1. Total(acc, A) = acc[to] + Total(acc, r) /\ B = A
    <3>1. B = A
      BY <1>4
    <3> QED BY <1>1, <1>4, <3>1, TotalSplit
  <2>2. (acc[to] + amount) % Modulus = acc[to] + amount
    <3>1. Modulus \in Nat \ {0} /\ acc[to] + amount < Modulus
      BY <1>1, <1>3, <1>4, <2>1, LedgerAssumption DEF Sum
    <3> QED BY <1>1, <1>4, <3>1
  <2>3. /\ DOMAIN c = B /\ c[to] = acc[to] + amount /\ \A x \in r : c[x] = acc[x]
    BY <1>1, <1>4, <2>2 DEF Credit
  <2> HIDE DEF c, r, B
  <2>4. Total(c, r) = Total(acc, r)
    BY <1>2, <2>3, TotalAgrees DEF Agree
  <2>5. Total(c, B) = c[to] + Total(c, r)
    <3>1. \A x \in B : c[x] \in Nat
      BY <1>1, <1>2, <1>4, <2>1, <2>3 DEF r, B
    <3> QED BY <1>2, <3>1, TotalSplit DEF r
  <2>6. Total(c, B) = Total(acc, A) + amount
    BY <1>1, <1>3, <1>4, <2>1, <2>3, <2>4, <2>5
  <2> QED BY <1>1, <1>2, <2>3, <2>6 DEF Sum, c
<1>5. CASE to \notin A
  <2>1. r = A
    BY <1>5
  <2>2. /\ DOMAIN c = B /\ c[to] = amount /\ \A x \in r : c[x] = acc[x]
    BY <1>1, <1>5 DEF Credit
  <2> HIDE DEF c, r, B
  <2>3. Total(c, r) = Total(acc, r)
    BY <1>2, <2>2, TotalAgrees DEF Agree
  <2>4. Total(c, B) = c[to] + Total(c, r)
    <3>1. \A x \in B : c[x] \in Nat
      BY <1>1, <1>2, <2>1, <2>2 DEF r, B
    <3> QED BY <1>2, <3>1, TotalSplit DEF r
  <2>5. Total(c, B) = Total(acc, A) + amount
    BY <1>3, <2>1, <2>2, <2>3, <2>4
  <2> QED BY <1>1, <1>2, <2>2, <2>5 DEF Sum, c
<1> QED BY <1>4, <1>5

\* No signed transaction changes the supply, whether it succeeds or stops half-way.
LEMMA EffectSum ==
  ASSUME NEW s \in LedgerState, IsFiniteSet(DOMAIN s.accounts), NEW tx \in Tx,
         Sum(s.accounts) < Modulus
  PROVE  /\ IsFiniteSet(DOMAIN Effect(s, tx).accounts)
         /\ Sum(Effect(s, tx).accounts) = Sum(s.accounts)
<1> DEFINE r == RunVM(s, tx)
           n == HandleNativeNFT(r, tx)
           acc == s.accounts
<1>1. /\ tx \in TxRecord /\ tx.from # Coinbase /\ tx.value \in Nat /\ acc \in Accounts
  BY LedgerAssumption DEF TxRecord, LedgerState
<1>2. r.accounts = acc /\ r \in LedgerState
  BY <1>1 DEF RunVM, LedgerState, TxRecord
<1>3. n.accounts = acc /\ n \in LedgerState
  <2> HIDE DEF r
  <2> QED BY <1>1, <1>2 DEF HandleNativeNFT, LedgerState, TxRecord
<1> HIDE DEF r, n
<1>4. \/ Effect(s, tx).accounts = acc
      \/ /\ Outcome(s, tx) = "ok" /\ tx.value > 0
         /\ Effect(s, tx) = [n EXCEPT !.accounts = Transfer(n.accounts, tx.from, tx.to, tx.value)]
  BY <1>2, <1>3 DEF Effect, HandleNativeTransfer, r, n
<1>5. CASE Effect(s, tx).accounts = acc
  BY <1>5
<1>6. CASE /\ Outcome(s, tx) = "ok" /\ tx.value > 0
           /\ Effect(s, tx) = [n EXCEPT !.accounts = Transfer(n.accounts, tx.from, tx.to, tx.value)]
  <2> DEFINE d == Debit(acc, tx.from, tx.value)
  <2>1. ~ TransferFails(acc, tx.from, tx.value) /\ tx.value \in Nat \ {0}
    BY <1>1, <1>6 DEF Outcome
  <2>2. /\ DOMAIN d = DOMAIN acc /\ d \in [DOMAIN acc -> Nat] /\ Sum(d) + tx.value = Sum(acc)
    BY <1>1, <2>1, DebitSum
  <2>3. Effect(s, tx).accounts = Credit(d, tx.to, tx.value)
    BY <1>3, <1>6 DEF Transfer, LedgerState
  <2> HIDE DEF d
  <2>4. Sum(d) \in Nat
    <3>1. \A x \in DOMAIN d : d[x] \in Nat
      BY <2>2
    <3> QED BY <2>2, <3>1, TotalSplit DEF Sum
  <2>5. /\ IsFiniteSet(DOMAIN Credit(d, tx.to, tx.value))
        /\ Sum(Credit(d, tx.to, tx.value)) = Sum(d) + tx.value
    <3>1. Sum(d) + tx.value < Modulus
      BY <2>2
    <3> QED BY <1>1, <2>2, <3>1, CreditSum
  <2> QED BY <2>2, <2>3, <2>5
<1> QED BY <1>4, <1>5, <1>6

LEMMA GenesisFinite ==
  ASSUME IsFiniteSet(DOMAIN Funded)
  PROVE  IsFiniteSet(DOMAIN GenesisLedger(Funded).accounts)
<1> DEFINE acc == [a \in DOMAIN Funded \cup {Coinbase} |->
                     IF a \in DOMAIN Funded THEN Funded[a] ELSE 0]
           s == [accounts |-> acc, collections |-> {}, mints |-> {}, contract |-> {}]
           r == RunVM(s, GenesisTx)
           n == HandleNativeNFT(r, GenesisTx)
           from == GenesisTx.from
           to == GenesisTx.to
           value == GenesisTx.value
<1>1. r.accounts = acc /\ n.accounts = acc
  <2>1. r = [s EXCEPT !.contract = r.contract] /\ n = [r EXCEPT !.collections = n.collections, !.mints = n.mints]
    BY DEF RunVM, HandleNativeNFT
  <2> QED BY <2>1
<1> HIDE DEF acc
<1>2. \/ Effect(s, GenesisTx).accounts = acc
      \/ Effect(s, GenesisTx).accounts = Transfer(acc, from, to, value)
  BY <1>1 DEF Effect, HandleNativeTransfer
<1>3. DOMAIN Transfer(acc, from, to, value) = DOMAIN acc \cup {to}
  BY DEF Transfer, Credit, Debit
<1>4. IsFiniteSet(DOMAIN acc) /\ IsFiniteSet(DOMAIN acc \cup {to})
  <2>1. DOMAIN acc = DOMAIN Funded \cup {Coinbase}
    BY DEF acc
  <2> QED BY <2>1, FS_AddElement
<1>5. GenesisLedger(Funded) = Effect(s, GenesisTx)
  BY DEF GenesisLedger, acc
<1> QED BY <1>2, <1>3, <1>4, <1>5

SupplyInv ==
  /\ IsFiniteSet(DOMAIN ledger.accounts)
  /\ Sum(ledger.accounts) = Sum(GenesisLedger(Funded).accounts)
  /\ \A g \in Goroutines : todo[g] \in Seq(Tx)

LEMMA NextSupplyInv ==
  ASSUME Sum(GenesisLedger(Funded).accounts) < Modulus
  PROVE  TypeOK /\ CallsReady /\ SupplyInv /\ [Next]_vars => SupplyInv'
<1> SUFFICES ASSUME TypeOK, CallsReady, SupplyInv, [Next]_vars PROVE SupplyInv'
  OBVIOUS
<1> USE DEF SupplyInv
<1>1. ASSUME UNCHANGED <<ledger, todo>>
      PROVE  SupplyInv'
  BY <1>1
<1>2. ASSUME NEW g \in Goroutines, LockState(g)
      PROVE  SupplyInv'
  <2>1. ledger' = ledger /\ todo' = [todo EXCEPT ![g] = blk[g].txs] /\ pc[g] = "lock"
    BY <1>2 DEF LockState
  <2>2. blk[g].txs \in Seq(Tx)
    BY <2>1 DEF TypeOK, Block, CallsReady
  <2> QED BY <2>1, <2>2 DEF TypeOK
<1>3. ASSUME NEW g \in Goroutines, NEW outcome, Executing(g, outcome),
             todo'[g] \in {todo[g], Tail(todo[g]), <<>>},
             \A h \in Goroutines \ {g} : todo'[h] = todo[h]
      PROVE  SupplyInv'
  <2>1. /\ todo[g] # <<>> /\ todo[g] \in Seq(Tx) /\ Head(todo[g]) \in Tx /\ Tail(todo[g]) \in Seq(Tx)
        /\ ledger' = Effect(ledger, Head(todo[g]))
    BY <1>3 DEF Executing
  <2>2. /\ IsFiniteSet(DOMAIN ledger'.accounts) /\ Sum(ledger'.accounts) = Sum(ledger.accounts)
    BY <2>1, EffectSum DEF TypeOK
  <2>3. \A h \in Goroutines : todo'[h] \in Seq(Tx)
    <3>1. todo'[g] \in Seq(Tx)
      <4>1. <<>> \in Seq(Tx)
        OBVIOUS
      <4> QED BY <1>3, <2>1, <4>1
    <3>2. \A h \in Goroutines \ {g} : todo'[h] \in Seq(Tx)
      BY <1>3
    <3> QED BY <3>1, <3>2
  <2>4. Sum(ledger.accounts)' = Sum(GenesisLedger(Funded).accounts)
    BY <2>2 DEF Sum, Total, FoldFunctionOnSet, MapThenFoldSet
  <2> QED BY <2>2, <2>3, <2>4
<1>4. ASSUME NEW g \in Goroutines, ExecOk(g) \/ ExecError(g) \/ ExecStudent(g) \/ ExecPanic(g)
      PROVE  SupplyInv'
  <2>1. PICK outcome \in {"ok", "error", "stuck", "panic"} : Executing(g, outcome)
    BY <1>4 DEF ExecOk, ExecError, ExecStudent, ExecPanic
  <2>2. /\ todo'[g] \in {todo[g], Tail(todo[g]), <<>>}
        /\ \A h \in Goroutines \ {g} : todo'[h] = todo[h]
    BY <1>4 DEF ExecOk, ExecError, ExecStudent, ExecPanic, TypeOK
  <2> QED BY <1>3, <2>1, <2>2
<1>5. ASSUME NEW g \in Goroutines,
             Enter(g) \/ Reject(g) \/ Accept(g) \/ UnlockState(g) \/ AppendBlock(g) \/ PutOk(g) \/ PutFails(g)
      PROVE  UNCHANGED <<ledger, todo>>
  BY <1>5 DEF Enter, CallOwn, CallForeign, Call, Reject, Accept, UnlockState, AppendBlock, PutOk, PutFails, nodeVars
<1>6. CASE \E parent \in wire, txx \in Bodies : BuildElsewhere(parent, txx)
  BY <1>1, <1>6 DEF BuildElsewhere, nodeVars, callVars
<1>7. CASE UNCHANGED vars
  BY <1>1, <1>7 DEF vars, nodeVars, callVars
<1> QED
  BY <1>1, <1>2, <1>4, <1>5, <1>6, <1>7 DEF Next, Proceed

(***************************************************************************)
(* As long as all tokens together fit into a uint64, none appear, vanish   *)
(* or wrap around: whoever adds blocks and whatever transactions fail      *)
(* half-way, the balances add up to those of the genesis ledger.           *)
(***************************************************************************)
THEOREM SupplyIsConserved ==
  ASSUME IsFiniteSet(DOMAIN Funded), Sum(GenesisLedger(Funded).accounts) < Modulus
  PROVE  Spec => []SupplyConserved
<1>1. Init => TypeOK /\ CallsReady /\ SupplyInv
  <2>1. Init => CallsReady
    BY InitSerialInv DEF SerialInv
  <2>2. Init => SupplyInv
    BY GenesisFinite DEF Init, SupplyInv
  <2> QED BY <2>1, <2>2, InitTypeOK
<1>2. TypeOK /\ CallsReady /\ SupplyInv /\ [Next]_vars => (TypeOK /\ CallsReady /\ SupplyInv)'
  BY NextTypeOK, NextCallsReady, NextSupplyInv
<1>3. SupplyInv => SupplyConserved
  BY DEF SupplyInv, SupplyConserved, Sum, Total, FoldFunction
<1> QED
  BY <1>1, <1>2, <1>3, PTL DEF Spec
=============================================================================
