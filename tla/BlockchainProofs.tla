-------------------------- MODULE BlockchainProofs --------------------------
(***************************************************************************)
(* Proofs about Blockchain for any number of goroutines, any transactions  *)
(* and any number of blocks.                                               *)
(***************************************************************************)
EXTENDS Blockchain, TLAPS

-----------------------------------------------------------------------------
(* The ledger *)

Executable == Tx \cup {GenesisTx}

\* Debit and Credit keep balances within uint64 (AccountState.Transfer).
LEMMA TransferType ==
  ASSUME NEW acc \in Accounts, NEW from \in DOMAIN acc, NEW to \in Addr, NEW amount \in Balance
  PROVE  Transfer(acc, from, to, amount) \in Accounts
<1>1. PICK A \in SUBSET Addr : acc \in [A -> Balance]
  BY DEF Accounts
<1>2. Modulus \in Nat \ {0}
  BY LedgerAssumption
<1>3. \A n \in Int : n % Modulus \in Balance
  BY <1>2 DEF Balance
<1>4. Debit(acc, from, amount) \in [A -> Balance]
  BY <1>1, <1>2, <1>3 DEF Debit, Balance
<1>5. ASSUME NEW d \in [A -> Balance]
      PROVE  Credit(d, to, amount) \in [A \cup {to} -> Balance]
  BY <1>2, <1>3, <1>5 DEF Credit, Balance
<1>6. Transfer(acc, from, to, amount) \in [A \cup {to} -> Balance]
  BY <1>4, <1>5 DEF Transfer
<1> QED
  BY <1>6 DEF Accounts

\* handleTransaction leaves a ledger, with or without an error.
LEMMA EffectType ==
  ASSUME NEW s \in LedgerState, NEW tx \in Executable
  PROVE  Effect(s, tx) \in LedgerState
<1> DEFINE r == RunVM(s, tx)
           n == HandleNativeNFT(r, tx)
<1>1. tx \in TxRecord /\ tx.value \in Balance
  BY LedgerAssumption DEF Executable, Balance, TxRecord
<1>2. r \in LedgerState
  BY <1>1 DEF RunVM, LedgerState, TxRecord
<1>3. n \in LedgerState /\ n.accounts = s.accounts
  BY <1>1, <1>2 DEF HandleNativeNFT, RunVM, LedgerState, TxRecord
<1>4. ASSUME Outcome(s, tx) = "ok"
      PROVE  HandleNativeTransfer(n, tx) \in LedgerState
  <2>1. CASE tx.value > 0
    <3>1. tx.from \in DOMAIN s.accounts
      BY <1>4, <2>1 DEF Outcome, TransferFails
    <3>2. s.accounts \in Accounts
      BY DEF LedgerState
    <3>3. Transfer(n.accounts, tx.from, tx.to, tx.value) \in Accounts
      BY <1>1, <1>3, <3>1, <3>2, TransferType DEF TxRecord
    <3> QED
      BY <1>3, <2>1, <3>3 DEF HandleNativeTransfer, LedgerState
  <2>2. CASE ~(tx.value > 0)
    BY <1>3, <2>2 DEF HandleNativeTransfer
  <2> QED
    BY <2>1, <2>2
<1> QED
  BY <1>2, <1>3, <1>4 DEF Effect

\* The genesis transaction is executed on the ledger of a new blockchain.
LEMMA GenesisType == GenesisLedger(Funded) \in LedgerState
<1> DEFINE acc == [a \in DOMAIN Funded \cup {Coinbase} |->
                     IF a \in DOMAIN Funded THEN Funded[a] ELSE 0]
<1>1. PICK A \in SUBSET Addr : Funded \in [A -> Balance]
  BY BlockchainAssumption DEF Accounts
<1>2. 0 \in Balance /\ Coinbase \in Addr
  BY LedgerAssumption DEF Balance
<1>3. acc \in [A \cup {Coinbase} -> Balance]
  BY <1>1, <1>2
<1>4. acc \in Accounts
  BY <1>1, <1>2, <1>3 DEF Accounts
<1>5. [accounts |-> acc, collections |-> {}, mints |-> {}, contract |-> {}] \in LedgerState
  BY <1>4 DEF LedgerState
<1> QED
  BY <1>5, EffectType DEF GenesisLedger, Executable

-----------------------------------------------------------------------------
(* Types *)

USE DEF nodeVars, callVars

LEMMA SublistType ==
  ASSUME NEW S, NEW seq \in Seq(S), NEW sub \in Sublists(seq)
  PROVE  sub \in Seq(S)
<1>1. PICK n \in 0 .. Len(seq) : \E pos \in [1 .. n -> DOMAIN seq] :
        sub = [i \in 1 .. n |-> seq[pos[i]]]
  BY DEF Sublists
<1>2. PICK pos \in [1 .. n -> DOMAIN seq] : sub = [i \in 1 .. n |-> seq[pos[i]]]
  BY <1>1
<1>3. \A i \in 1 .. n : seq[pos[i]] \in S
  OBVIOUS
<1> QED
  BY <1>2, <1>3

LEMMA GenesisBlockType == Genesis \in Block
  BY DEF Genesis, Block

\* What peers send is well typed, copies with dropped transactions included.
LEMMA CopiesType ==
  ASSUME NEW b \in Block, NEW c \in Copies(b)
  PROVE  c \in Block /\ c.id = b.id /\ c.height = b.height /\ c.prev = b.prev
<1>1. CASE b = Genesis
  BY <1>1 DEF Copies
<1>2. CASE b # Genesis
  <2>1. PICK s \in Sublists(b.data) : c = [b EXCEPT !.txs = s]
    BY <1>2 DEF Copies
  <2>2. s \in Seq(Tx)
    BY SublistType DEF Block
  <2>3. s \in Seq(Tx \cup {GenesisTx})
    BY <2>2
  <2> QED
    BY <2>1, <2>3 DEF Block
<1> QED
  BY <1>1, <1>2

LEMMA NewBlockType ==
  ASSUME made \in Nat, NEW parent \in Block, NEW txx \in Seq(Tx)
  PROVE  NewBlockFromPrevHeader(parent, txx) \in Block
<1>1. txx \in Seq(Tx \cup {GenesisTx})
  OBVIOUS
<1> QED
  BY <1>1 DEF NewBlockFromPrevHeader, Block

LEMMA BodyType == \A txx \in Bodies : txx \in Seq(Tx)
  BY BlockchainAssumption

LEMMA InitTypeOK == Init => TypeOK
<1> SUFFICES ASSUME Init PROVE TypeOK
  OBVIOUS
<1>1. chain \in Seq(Block) \ {<<>>} /\ store \in Seq(Block)
  BY GenesisBlockType DEF Init
<1>2. ledger \in LedgerState
  BY GenesisType DEF Init
<1>3. wire \subseteq Block /\ blk \in [Goroutines -> Block]
  BY GenesisBlockType DEF Init
<1>4. /\ todo \in [Goroutines -> Seq(Tx \cup {GenesisTx})]
      /\ done \in [Goroutines -> Seq(Tx \cup {GenesisTx})]
  BY DEF Init
<1>5. /\ made \in 0 .. MaxBuilt
      /\ cur \in [Goroutines -> Nat]
  BY BlockchainAssumption DEF Init
<1>6. /\ stateLock \in Goroutines \cup {None}
      /\ crashed \in BOOLEAN
      /\ pc \in [Goroutines -> {"idle", "check", "lock", "exec", "student", "append", "put"}]
      /\ result \in [Goroutines -> {"none", "ok", "known", "invalid", "ioerr", "panic"}]
  BY DEF Init
<1> QED
  BY <1>1, <1>2, <1>3, <1>4, <1>5, <1>6 DEF TypeOK

\* AddBlock is entered, with whatever block.
LEMMA CallType ==
  ASSUME TypeOK, NEW g \in Goroutines, NEW b \in Block, Call(g, b),
         wire' = wire, made' \in 0 .. MaxBuilt
  PROVE  TypeOK'
<1>1. Height \in Nat
  BY DEF Height, TypeOK
<1> QED
  BY <1>1 DEF Call, TypeOK

\* Every step keeps the types.
LEMMA NextTypeOK == TypeOK /\ [Next]_vars => TypeOK'
<1> SUFFICES ASSUME TypeOK, [Next]_vars PROVE TypeOK'
  OBVIOUS
<1> USE DEF TypeOK
<1>1. CASE UNCHANGED vars
  BY <1>1 DEF vars
<1>2. ASSUME NEW parent \in wire, NEW txx \in Bodies, BuildElsewhere(parent, txx)
      PROVE  TypeOK'
  <2>1. wire' \subseteq Block
    BY <1>2, NewBlockType, BodyType DEF BuildElsewhere
  <2>2. made' \in 0 .. MaxBuilt
    BY <1>2, BlockchainAssumption DEF BuildElsewhere
  <2> QED
    BY <1>2, <2>1, <2>2 DEF BuildElsewhere
<1>3. ASSUME NEW g \in Goroutines, Enter(g)
      PROVE  TypeOK'
  <2>2. ASSUME NEW i \in 1 .. Len(chain), NEW txx \in Bodies, CallOwn(g, chain[i], txx)
        PROVE  TypeOK'
    <3>1. made' \in 0 .. MaxBuilt
      BY <2>2, BlockchainAssumption DEF CallOwn
    <3>2. NewBlockFromPrevHeader(chain[i], txx) \in Block
      BY NewBlockType, BodyType
    <3> QED
      BY <2>2, <3>1, <3>2, CallType DEF CallOwn
  <2>3. ASSUME NEW b \in wire, NEW c \in Copies(b), CallForeign(g, c)
        PROVE  TypeOK'
    BY <2>3, CopiesType, CallType DEF CallForeign
  <2> QED
    BY <1>3, <2>2, <2>3 DEF Enter
<1>4. ASSUME NEW g \in Goroutines, LockState(g)
      PROVE  TypeOK'
  BY <1>4 DEF LockState, Block
<1>5. ASSUME NEW g \in Goroutines, Proceed(g)
      PROVE  TypeOK'
  <2>1. CASE Reject(g)
    BY <2>1 DEF Reject, Return
  <2>2. CASE Accept(g)
    BY <2>2 DEF Accept
  <2>3. ASSUME NEW outcome, Executing(g, outcome)
        PROVE  /\ ledger' \in LedgerState
               /\ Head(todo[g]) \in Tx \cup {GenesisTx}
               /\ Tail(todo[g]) \in Seq(Tx \cup {GenesisTx})
    BY <2>3, EffectType DEF Executing, Executable
  <2>4. CASE ExecOk(g)
    <3>1. Append(done[g], Head(todo[g])) \in Seq(Tx \cup {GenesisTx})
      BY <2>3, <2>4 DEF ExecOk
    <3> QED
      BY <2>3, <2>4, <3>1 DEF ExecOk
  <2>5. CASE ExecError(g)
    BY <2>3, <2>5 DEF ExecError
  <2>6. CASE ExecStudent(g)
    BY <2>3, <2>6 DEF ExecStudent
  <2>7. CASE ExecPanic(g)
    <3>1. /\ todo' \in [Goroutines -> Seq(Tx \cup {GenesisTx})]
          /\ done' \in [Goroutines -> Seq(Tx \cup {GenesisTx})]
      <4>1. <<>> \in Seq(Tx \cup {GenesisTx})
        OBVIOUS
      <4>2. todo' = [todo EXCEPT ![g] = <<>>] /\ done' = [done EXCEPT ![g] = <<>>]
        BY <2>7 DEF ExecPanic
      <4> QED
        BY <4>1, <4>2
    <3>2. /\ crashed' \in BOOLEAN
          /\ pc' \in [Goroutines -> {"idle", "check", "lock", "exec", "student", "append", "put"}]
          /\ result' \in [Goroutines -> {"none", "ok", "known", "invalid", "ioerr", "panic"}]
      BY <2>7 DEF ExecPanic, Return
    <3> QED
      BY <2>3, <2>7, <3>1, <3>2 DEF ExecPanic
  <2>8. CASE UnlockState(g)
    <3>1. [blk[g] EXCEPT !.txs = done[g]] \in Block
      BY DEF Block
    <3>2. blk' \in [Goroutines -> Block]
      BY <2>8, <3>1 DEF UnlockState
    <3> QED
      BY <2>8, <3>2 DEF UnlockState
  <2>9. CASE AppendBlock(g)
    <3>1. chain' \in Seq(Block) \ {<<>>}
      <4>1. chain' \in Seq(Block) /\ Len(chain') = Len(chain) + 1
        <5>1. chain \in Seq(Block) /\ blk[g] \in Block /\ chain' = Append(chain, blk[g])
          BY <2>9 DEF AppendBlock
        <5> HIDE DEF TypeOK
        <5> QED
          BY <5>1
      <4> QED
        BY <4>1
    <3>2. blk[g].data \in Seq(Tx \cup {GenesisTx})
      <4>1. blk[g].data \in Seq(Tx)
        BY DEF Block
      <4> QED
        BY <4>1
    <3>3. [blk[g] EXCEPT !.txs = blk[g].data] \in Block
      BY <3>2 DEF Block
    <3>4. wire' \subseteq Block
      BY <2>9, <3>3 DEF AppendBlock
    <3>5. pc' \in [Goroutines -> {"idle", "check", "lock", "exec", "student", "append", "put"}]
      BY <2>9 DEF AppendBlock
    <3> QED
      BY <2>9, <3>1, <3>4, <3>5 DEF AppendBlock
  <2>10. CASE PutOk(g)
    BY <2>10 DEF PutOk, Return
  <2>11. CASE PutFails(g)
    BY <2>11 DEF PutFails, Return
  <2> QED
    BY <1>5, <2>1, <2>2, <2>4, <2>5, <2>6, <2>7, <2>8, <2>9, <2>10, <2>11 DEF Proceed
<1> QED
  BY <1>1, <1>2, <1>3, <1>4, <1>5 DEF Next

(***************************************************************************)
(* Whatever goroutines call AddBlock with whatever blocks, the state stays *)
(* well typed; in particular no balance leaves the range of a uint64.      *)
(***************************************************************************)
THEOREM TypeCorrect == Spec => []TypeOK
<1>1. Init => TypeOK
  BY InitTypeOK
<1>2. TypeOK /\ [Next]_vars => TypeOK'
  BY NextTypeOK
<1> QED
  BY <1>1, <1>2, PTL DEF Spec

-----------------------------------------------------------------------------
(* Links: the checks of ValidateBlock still hold when the block is         *)
(* appended, because the chain only grows.                                 *)

Accepted == {"lock", "exec", "append"}

HeightsRead == \A g \in Goroutines : pc[g] = "check" => cur[g] <= Height

AcceptedLinked ==
  \A g \in Goroutines : pc[g] \in Accepted =>
    /\ blk[g].height \in 1 .. Len(chain)
    /\ chain[blk[g].height].id = blk[g].prev

LinkInv == HeightsRead /\ AcceptedLinked /\ ParentLinked

\* What one step can do to a goroutine and to the chain, as far as links are concerned.
LEMMA StepEffect ==
  ASSUME TypeOK, [Next]_vars
  PROVE  /\ \/ chain' = chain
            \/ \E g \in Goroutines : pc[g] = "append" /\ pc'[g] = "put" /\ chain' = Append(chain, blk[g])
         /\ \A g \in Goroutines :
              \/ pc'[g] = pc[g] /\ cur'[g] = cur[g] /\ blk'[g] = blk[g]
              \/ pc'[g] = "check" /\ cur'[g] = Height
              \/ pc'[g] \in {"idle", "student", "put"}
              \/ pc[g] = "check" /\ pc'[g] = "lock" /\ blk'[g] = blk[g] /\ ~Known(blk[g]) /\ Valid(blk[g], cur[g]) /\ chain' = chain
              \/ pc[g] \in Accepted /\ pc'[g] \in Accepted
                 /\ blk'[g].id = blk[g].id /\ blk'[g].height = blk[g].height /\ blk'[g].prev = blk[g].prev
<1> USE DEF TypeOK
<1>1. CASE UNCHANGED vars
  BY <1>1 DEF vars
<1>2. ASSUME NEW parent \in wire, NEW txx \in Bodies, BuildElsewhere(parent, txx)
      PROVE  UNCHANGED <<nodeVars, callVars>>
  BY <1>2 DEF BuildElsewhere
<1>3. ASSUME NEW g \in Goroutines, NEW b, Call(g, b)
      PROVE  /\ chain' = chain
             /\ pc'[g] = "check" /\ cur'[g] = Height
             /\ \A h \in Goroutines \ {g} : pc'[h] = pc[h] /\ cur'[h] = cur[h] /\ blk'[h] = blk[h]
  BY <1>3 DEF Call
<1>4. ASSUME NEW g \in Goroutines, Enter(g)
      PROVE  \E b : Call(g, b)
  BY <1>4 DEF Enter, CallOwn, CallForeign
<1>5. ASSUME NEW g \in Goroutines, LockState(g) \/ Proceed(g)
      PROVE  /\ \A h \in Goroutines \ {g} : pc'[h] = pc[h] /\ cur'[h] = cur[h] /\ blk'[h] = blk[h]
             /\ \/ chain' = chain
                \/ pc[g] = "append" /\ pc'[g] = "put" /\ chain' = Append(chain, blk[g])
             /\ \/ pc'[g] = pc[g] /\ cur'[g] = cur[g] /\ blk'[g] = blk[g]
                \/ pc'[g] \in {"idle", "student", "put"}
                \/ pc[g] = "check" /\ pc'[g] = "lock" /\ blk'[g] = blk[g] /\ ~Known(blk[g]) /\ Valid(blk[g], cur[g]) /\ chain' = chain
                \/ pc[g] \in Accepted /\ pc'[g] \in Accepted
                   /\ blk'[g].id = blk[g].id /\ blk'[g].height = blk[g].height /\ blk'[g].prev = blk[g].prev
  <2> USE DEF Accepted
  <2>1. CASE LockState(g)
    BY <2>1 DEF LockState
  <2>2. CASE Reject(g)
    BY <2>2 DEF Reject, Return
  <2>3. CASE Accept(g)
    BY <2>3 DEF Accept
  <2>4. CASE ExecOk(g)
    BY <2>4 DEF ExecOk
  <2>5. CASE ExecError(g)
    BY <2>5 DEF ExecError
  <2>6. CASE ExecStudent(g)
    BY <2>6 DEF ExecStudent
  <2>7. CASE ExecPanic(g)
    BY <2>7 DEF ExecPanic, Return
  <2>8. CASE UnlockState(g)
    <3>1. blk' = [blk EXCEPT ![g] = [blk[g] EXCEPT !.txs = done[g]]]
      BY <2>8 DEF UnlockState
    <3>2. /\ blk'[g].id = blk[g].id /\ blk'[g].height = blk[g].height /\ blk'[g].prev = blk[g].prev
          /\ \A h \in Goroutines \ {g} : blk'[h] = blk[h]
      BY <3>1 DEF Block
    <3> QED
      BY <2>8, <3>2 DEF UnlockState
  <2>9. CASE AppendBlock(g)
    BY <2>9 DEF AppendBlock
  <2>10. CASE PutOk(g)
    BY <2>10 DEF PutOk, Return
  <2>11. CASE PutFails(g)
    BY <2>11 DEF PutFails, Return
  <2> QED
    BY <1>5, <2>1, <2>2, <2>3, <2>4, <2>5, <2>6, <2>7, <2>8, <2>9, <2>10, <2>11 DEF Proceed
<1>6. CASE UNCHANGED <<nodeVars, callVars>>
  BY <1>6
<1>7. CASE \E g \in Goroutines : Enter(g)
  BY <1>3, <1>4, <1>7
<1>8. CASE \E g \in Goroutines : LockState(g) \/ Proceed(g)
  BY <1>5, <1>8
<1> QED
  BY <1>1, <1>2, <1>6, <1>7, <1>8 DEF Next

LEMMA InitLinkInv == Init => LinkInv
  BY DEF Init, LinkInv, HeightsRead, AcceptedLinked, ParentLinked, Accepted, Height

LEMMA NextLinkInv == TypeOK /\ LinkInv /\ [Next]_vars => LinkInv'
<1> SUFFICES ASSUME TypeOK, LinkInv, [Next]_vars PROVE LinkInv'
  OBVIOUS
<1> USE DEF LinkInv
<1>1. chain' \in Seq(Block) /\ chain \in Seq(Block) /\ Len(chain) > 0
  BY NextTypeOK DEF TypeOK
<1>2. /\ Len(chain) <= Len(chain')
      /\ \A i \in 1 .. Len(chain) : chain'[i] = chain[i]
  <2>1. CASE chain' = chain
    BY <1>1, <2>1
  <2>2. ASSUME NEW g \in Goroutines, chain' = Append(chain, blk[g])
        PROVE  /\ Len(chain) <= Len(chain')
               /\ \A i \in 1 .. Len(chain) : chain'[i] = chain[i]
    BY <1>1, <2>2 DEF TypeOK
  <2> QED
    BY <2>1, <2>2, StepEffect
<1>3. HeightsRead'
  <2>1. Height <= Height' /\ Height \in Nat /\ Height' \in Nat
    BY <1>1, <1>2 DEF Height
  <2>2. \A g \in Goroutines : cur[g] \in Nat
    BY DEF TypeOK
  <2>3. \A g \in Goroutines : pc'[g] = "check" =>
           \/ pc[g] = "check" /\ cur'[g] = cur[g]
           \/ cur'[g] = Height
    BY StepEffect DEF Accepted
  <2> QED
    BY <2>1, <2>2, <2>3 DEF HeightsRead
<1>4. AcceptedLinked'
  <2> SUFFICES ASSUME NEW g \in Goroutines, pc'[g] \in Accepted
               PROVE  /\ blk'[g].height \in 1 .. Len(chain')
                      /\ chain'[blk'[g].height].id = blk'[g].prev
    BY DEF AcceptedLinked
  <2>1. CASE pc[g] \in Accepted /\ blk'[g].height = blk[g].height /\ blk'[g].prev = blk[g].prev
    BY <1>1, <1>2, <2>1 DEF AcceptedLinked
  <2>2. CASE pc[g] = "check" /\ blk'[g] = blk[g] /\ ~Known(blk[g]) /\ Valid(blk[g], cur[g]) /\ chain' = chain
    <3>1. blk[g].height \in Nat /\ cur[g] \in Nat /\ cur[g] <= Height
      BY <2>2 DEF TypeOK, Block, HeightsRead
    <3>2. blk[g].height = Len(chain)
      BY <1>1, <2>2, <3>1 DEF Known, Valid, Height
    <3> QED
      BY <1>1, <2>2, <3>2 DEF Valid
  <2> QED
    BY <2>1, <2>2, StepEffect DEF Accepted
<1>5. ParentLinked'
  <2>1. CASE chain' = chain
    BY <2>1 DEF ParentLinked
  <2>2. ASSUME NEW g \in Goroutines, pc[g] = "append", chain' = Append(chain, blk[g])
        PROVE  ParentLinked'
    <3>1. /\ blk[g].height \in 1 .. Len(chain)
          /\ chain[blk[g].height].id = blk[g].prev
      BY <2>2 DEF AcceptedLinked, Accepted
    <3>2. Len(chain') = Len(chain) + 1 /\ chain'[Len(chain')] = blk[g]
      BY <1>1, <2>2 DEF TypeOK
    <3>3. chain'[1] = Genesis /\ Len(chain') > 0
      BY <1>1, <1>2, <3>2 DEF ParentLinked
    <3>4. ASSUME NEW i \in 2 .. Len(chain')
          PROVE  /\ chain'[i].height \in 1 .. (i - 1)
                 /\ chain'[chain'[i].height].id = chain'[i].prev
      <4>1. CASE i \in 2 .. Len(chain)
        <5>1. /\ chain[i].height \in 1 .. (i - 1)
              /\ chain[chain[i].height].id = chain[i].prev
              /\ chain'[i] = chain[i]
          BY <1>2, <4>1 DEF ParentLinked
        <5>2. chain[i].height \in 1 .. Len(chain)
          BY <1>1, <4>1, <5>1
        <5> QED
          BY <1>2, <5>1, <5>2
      <4>2. CASE i = Len(chain')
        BY <1>1, <1>2, <3>1, <3>2, <4>2
      <4> QED
        BY <1>1, <3>2, <4>1, <4>2
    <3> QED
      BY <3>3, <3>4 DEF ParentLinked
  <2> QED
    BY <2>1, <2>2, StepEffect
<1> QED
  BY <1>3, <1>4, <1>5

(***************************************************************************)
(* Any number of goroutines may add blocks, with stale heights and blocks  *)
(* of peers in any order: no block is ever appended without its parent.    *)
(***************************************************************************)
THEOREM ChainLinked == Spec => []ParentLinked
<1>1. Init => TypeOK /\ LinkInv
  BY InitTypeOK, InitLinkInv
<1>2. TypeOK /\ LinkInv /\ [Next]_vars => (TypeOK /\ LinkInv)'
  BY NextTypeOK, NextLinkInv
<1>3. LinkInv => ParentLinked
  BY DEF LinkInv
<1> QED
  BY <1>1, <1>2, <1>3, PTL DEF Spec

-----------------------------------------------------------------------------
(* One writer: the chain cannot grow between the check and the append.     *)

SingleWriter == \A g, h \in Goroutines : g = h

AcceptedOnTip == \A g \in Goroutines : pc[g] \in Accepted => blk[g].height = Len(chain)

IndexInv == AcceptedOnTip /\ HeightIsIndex

LEMMA InitIndexInv == Init => IndexInv
  BY DEF Init, IndexInv, AcceptedOnTip, HeightIsIndex, Genesis, Accepted

LEMMA NextIndexInv ==
  ASSUME SingleWriter
  PROVE  TypeOK /\ LinkInv /\ IndexInv /\ [Next]_vars => IndexInv'
<1> SUFFICES ASSUME TypeOK, LinkInv, IndexInv, [Next]_vars PROVE IndexInv'
  OBVIOUS
<1> USE DEF IndexInv
<1>1. chain' \in Seq(Block) /\ chain \in Seq(Block) /\ Len(chain) > 0
  BY NextTypeOK DEF TypeOK
<1>2. AcceptedOnTip'
  <2> SUFFICES ASSUME NEW g \in Goroutines, pc'[g] \in Accepted
               PROVE  blk'[g].height = Len(chain')
    BY DEF AcceptedOnTip
  <2>1. CASE pc[g] = "check" /\ blk'[g] = blk[g] /\ ~Known(blk[g]) /\ Valid(blk[g], cur[g]) /\ chain' = chain
    <3>1. blk[g].height \in Nat /\ cur[g] \in Nat /\ cur[g] <= Height
      BY <2>1 DEF TypeOK, Block, LinkInv, HeightsRead
    <3> QED
      BY <1>1, <2>1, <3>1 DEF Known, Valid, Height
  <2>2. CASE pc[g] \in Accepted /\ blk'[g].height = blk[g].height
    <3>1. chain' = chain
      BY StepEffect DEF SingleWriter, Accepted
    <3> QED
      BY <2>2, <3>1 DEF AcceptedOnTip
  <2> QED
    BY <2>1, <2>2, StepEffect DEF Accepted
<1>3. HeightIsIndex'
  <2>1. CASE chain' = chain
    BY <2>1 DEF HeightIsIndex
  <2>2. ASSUME NEW g \in Goroutines, pc[g] = "append", chain' = Append(chain, blk[g])
        PROVE  HeightIsIndex'
    <3>1. blk[g].height = Len(chain) /\ blk[g] \in Block
      BY <2>2 DEF AcceptedOnTip, Accepted, TypeOK
    <3> QED
      BY <1>1, <2>2, <3>1 DEF HeightIsIndex
  <2> QED
    BY <2>1, <2>2, StepEffect
<1> QED
  BY <1>2, <1>3

(***************************************************************************)
(* With a single goroutine calling AddBlock the header at index i has      *)
(* height i.  The assumption is needed: with two, TLC finds a violation.   *)
(***************************************************************************)
THEOREM HeightsAreIndexes ==
  ASSUME SingleWriter
  PROVE  Spec => []HeightIsIndex
<1>1. Init => TypeOK /\ LinkInv /\ IndexInv
  BY InitTypeOK, InitLinkInv, InitIndexInv
<1>2. TypeOK /\ LinkInv /\ IndexInv /\ [Next]_vars => (TypeOK /\ LinkInv /\ IndexInv)'
  BY NextTypeOK, NextLinkInv, NextIndexInv
<1>3. IndexInv => HeightIsIndex
  BY DEF IndexInv
<1> QED
  BY <1>1, <1>2, <1>3, PTL DEF Spec

-----------------------------------------------------------------------------
(* Locking *)

LEMMA NextExclusive ==
  TypeOK /\ ExecutionExclusive /\ [Next]_vars => ExecutionExclusive'
<1> SUFFICES ASSUME TypeOK, ExecutionExclusive, [Next]_vars,
                    NEW h \in Goroutines, pc'[h] \in {"exec", "student"}
             PROVE  stateLock' = h
  BY DEF ExecutionExclusive
<1> USE DEF TypeOK, ExecutionExclusive
<1>1. CASE UNCHANGED vars
  BY <1>1 DEF vars
<1>2. CASE \E parent \in wire, txx \in Bodies : BuildElsewhere(parent, txx)
  BY <1>2 DEF BuildElsewhere
<1>3. CASE \E g \in Goroutines : Enter(g)
  BY <1>3 DEF Enter, CallOwn, CallForeign, Call
<1>4. CASE \E g \in Goroutines : LockState(g)
  BY <1>4, BlockchainAssumption DEF LockState
<1>5. ASSUME NEW g \in Goroutines, Proceed(g)
      PROVE  stateLock' = h
  <2>1. CASE UnlockState(g)
    BY <2>1 DEF UnlockState
  <2>2. CASE ExecOk(g) \/ ExecError(g) \/ ExecStudent(g) \/ ExecPanic(g)
    BY <2>2 DEF Executing, ExecOk, ExecError, ExecStudent, ExecPanic, Return
  <2>3. CASE Reject(g) \/ Accept(g) \/ AppendBlock(g) \/ PutOk(g) \/ PutFails(g)
    BY <2>3 DEF Reject, Accept, AppendBlock, PutOk, PutFails, Return
  <2> QED
    BY <1>5, <2>1, <2>2, <2>3 DEF Proceed
<1> QED
  BY <1>1, <1>2, <1>3, <1>4, <1>5 DEF Next

(***************************************************************************)
(* At most one goroutine executes transactions, because each one that does *)
(* holds stateLock; panics and the second Lock of handleStudentTx          *)
(* included.                                                               *)
(***************************************************************************)
THEOREM ExecutionIsExclusive == Spec => []ExecutionExclusive
<1>1. Init => TypeOK /\ ExecutionExclusive
  BY InitTypeOK DEF Init, ExecutionExclusive
<1>2. TypeOK /\ ExecutionExclusive /\ [Next]_vars => (TypeOK /\ ExecutionExclusive)'
  BY NextTypeOK, NextExclusive
<1> QED
  BY <1>1, <1>2, PTL DEF Spec

-----------------------------------------------------------------------------
(* Uniqueness: validator loops add blocks nobody else has yet, and the one *)
(* goroutine that receives blocks refuses heights the chain has reached.   *)

OneReceiver == \A g, h \in Goroutines \ Validators : g = h

InFlight == {"check", "lock", "exec", "append"}

\* The blocks that exist, as far as ids are concerned.
Seen == wire \cup {chain[i] : i \in 1 .. Len(chain)} \cup {blk[g] : g \in Goroutines}

IdsBounded == \A b \in Seen : b.id <= made

\* A header determines its height.
IdHasHeight == \A b, c \in Seen : b.id = c.id => b.height = c.height

AcceptedNew ==
  \A g \in Goroutines : pc[g] \in Accepted => \A i \in 1 .. Len(chain) : chain[i].id # blk[g].id

\* Until it is in the chain, a validator's block is its own.
OwnBlockPrivate ==
  \A v \in Validators : pc[v] \in InFlight =>
    /\ \A b \in wire : b.id # blk[v].id
    /\ \A i \in 1 .. Len(chain) : chain[i].id # blk[v].id
    /\ \A g \in Goroutines \ {v} : blk[g].id # blk[v].id

UniqueInv == IdsBounded /\ IdHasHeight /\ AcceptedNew /\ OwnBlockPrivate /\ NoBlockTwice

LEMMA InitUniqueInv == Init => UniqueInv
<1> SUFFICES ASSUME Init PROVE UniqueInv
  OBVIOUS
<1>1. /\ Len(chain) = 1 /\ chain[1] = Genesis /\ made = 0
      /\ \A g \in Goroutines : blk[g] = Genesis /\ pc[g] = "idle"
      /\ wire = {Genesis}
  BY DEF Init
<1>2. \A b \in Seen : b = Genesis
  BY <1>1 DEF Seen
<1>3. IdsBounded /\ IdHasHeight
  BY <1>1, <1>2 DEF IdsBounded, IdHasHeight, Genesis
<1>4. AcceptedNew /\ OwnBlockPrivate
  BY <1>1, BlockchainAssumption DEF AcceptedNew, OwnBlockPrivate, Accepted, InFlight
<1>5. NoBlockTwice
  BY <1>1 DEF NoBlockTwice
<1> QED
  BY <1>3, <1>4, <1>5 DEF UniqueInv

\* Where the blocks of the next state come from: seen before, or new.
LEMMA SeenStep ==
  ASSUME TypeOK, TypeOK', [Next]_vars
  PROVE  \/ /\ made' = made
            /\ \A b \in Seen' : \E c \in Seen : b.id = c.id /\ b.height = c.height
         \/ /\ made' = made + 1
            /\ \E n : /\ n.id = made + 1
                      /\ \A b \in Seen' : b = n \/ b \in Seen
<1>1. CASE UNCHANGED <<wire, chain, blk, made>>
  <2>1. Seen' = Seen
    BY <1>1 DEF Seen
  <2> QED
    BY <1>1, <2>1
<1> USE DEF TypeOK
<1>2. ASSUME NEW parent \in wire, NEW txx \in Bodies, BuildElsewhere(parent, txx)
      PROVE  /\ made' = made + 1
             /\ \E n : /\ n.id = made + 1
                       /\ \A b \in Seen' : b = n \/ b \in Seen
  <2>1. NewBlockFromPrevHeader(parent, txx).id = made + 1
    BY DEF NewBlockFromPrevHeader
  <2>2. \A b \in Seen' : b = NewBlockFromPrevHeader(parent, txx) \/ b \in Seen
    BY <1>2 DEF BuildElsewhere, Seen
  <2> QED
    BY <1>2, <2>1, <2>2 DEF BuildElsewhere
<1>3. ASSUME NEW g \in Goroutines, NEW i \in 1 .. Len(chain), NEW txx \in Bodies, CallOwn(g, chain[i], txx)
      PROVE  /\ made' = made + 1
             /\ \E n : /\ n.id = made + 1
                       /\ \A b \in Seen' : b = n \/ b \in Seen
  <2>1. NewBlockFromPrevHeader(chain[i], txx).id = made + 1
    BY DEF NewBlockFromPrevHeader
  <2>2. \A b \in Seen' : b = NewBlockFromPrevHeader(chain[i], txx) \/ b \in Seen
    BY <1>3 DEF CallOwn, Call, Seen
  <2> QED
    BY <1>3, <2>1, <2>2 DEF CallOwn
<1>4. ASSUME NEW g \in Goroutines, NEW b \in wire, NEW c \in Copies(b), CallForeign(g, c)
      PROVE  /\ made' = made
             /\ \A d \in Seen' : \E e \in Seen : d.id = e.id /\ d.height = e.height
  <2>1. b \in Seen /\ c.id = b.id /\ c.height = b.height
    BY CopiesType DEF Seen
  <2>2. \A d \in Seen' : d = c \/ d \in Seen
    BY <1>4 DEF CallForeign, Call, Seen
  <2> QED
    BY <1>4, <2>1, <2>2 DEF CallForeign
<1>5. ASSUME NEW g \in Goroutines, UnlockState(g)
      PROVE  /\ made' = made
             /\ \A d \in Seen' : \E e \in Seen : d.id = e.id /\ d.height = e.height
  <2>1. blk' = [blk EXCEPT ![g] = [blk[g] EXCEPT !.txs = done[g]]]
    BY <1>5 DEF UnlockState
  <2>2. blk'[g].id = blk[g].id /\ blk'[g].height = blk[g].height
    BY <2>1 DEF Block
  <2>3. \A d \in Seen' : d = blk'[g] \/ d \in Seen
    BY <1>5, <2>1 DEF UnlockState, Seen
  <2>4. made' = made /\ blk[g] \in Seen
    BY <1>5 DEF UnlockState, Seen
  <2> QED
    BY <2>2, <2>3, <2>4
<1>6. ASSUME NEW g \in Goroutines, AppendBlock(g)
      PROVE  /\ made' = made
             /\ \A d \in Seen' : \E e \in Seen : d.id = e.id /\ d.height = e.height
  <2>1. chain' = Append(chain, blk[g]) /\ chain \in Seq(Block)
    BY <1>6 DEF AppendBlock
  <2>2. \A i \in 1 .. Len(chain') : chain'[i] = blk[g] \/ \E j \in 1 .. Len(chain) : chain'[i] = chain[j]
    <3>1. Len(chain') = Len(chain) + 1 /\ chain'[Len(chain) + 1] = blk[g]
      BY <2>1
    <3>2. \A i \in 1 .. Len(chain) : chain'[i] = chain[i]
      BY <2>1
    <3>3. \A i \in 1 .. Len(chain') : i \in 1 .. Len(chain) \/ i = Len(chain) + 1
      BY <2>1, <3>1
    <3> QED
      BY <3>1, <3>2, <3>3
  <2> DEFINE full == [blk[g] EXCEPT !.txs = blk[g].data]
  <2>3. full.id = blk[g].id /\ full.height = blk[g].height
    BY DEF Block
  <2>4. \A d \in Seen' : d = full \/ d \in Seen
    BY <1>6, <2>2 DEF AppendBlock, Seen
  <2>5. made' = made /\ blk[g] \in Seen
    BY <1>6 DEF AppendBlock, Seen
  <2> HIDE DEF full
  <2> QED
    BY <2>3, <2>4, <2>5
<1>7. ASSUME NEW g \in Goroutines, LockState(g) \/ Proceed(g)
      PROVE  \/ UNCHANGED <<wire, chain, blk, made>>
             \/ UnlockState(g) \/ AppendBlock(g)
  BY <1>7 DEF LockState, Proceed, Reject, Accept, ExecOk, ExecError, ExecStudent, ExecPanic, PutOk, PutFails
<1> QED
  BY <1>1, <1>2, <1>3, <1>4, <1>5, <1>6, <1>7 DEF Next, Enter, vars

\* Blocks seen have ids up to made, and the id tells the height.
LEMMA NextIds ==
  ASSUME TypeOK, TypeOK', [Next]_vars, IdsBounded, IdHasHeight
  PROVE  IdsBounded' /\ IdHasHeight'
<1>1. made \in Nat /\ \A b \in Seen : b.id \in Nat
  <2>1. \A i \in 1 .. Len(chain) : chain[i] \in Block
    BY DEF TypeOK
  <2>2. \A b \in Seen : b \in Block
    BY <2>1 DEF Seen, TypeOK
  <2> QED
    BY <2>2, BlockchainAssumption DEF Block, TypeOK
<1>2. CASE made' = made /\ \A b \in Seen' : \E c \in Seen : b.id = c.id /\ b.height = c.height
  BY <1>2 DEF IdsBounded, IdHasHeight
<1>3. ASSUME made' = made + 1, NEW n, n.id = made + 1, \A b \in Seen' : b = n \/ b \in Seen
      PROVE  IdsBounded' /\ IdHasHeight'
  BY <1>1, <1>3 DEF IdsBounded, IdHasHeight
<1> QED
  BY <1>2, <1>3, SeenStep

LEMMA NextUniqueInv ==
  ASSUME OneReceiver
  PROVE  TypeOK /\ LinkInv /\ UniqueInv /\ [Next]_vars => UniqueInv'
<1> SUFFICES ASSUME TypeOK, LinkInv, UniqueInv, [Next]_vars PROVE UniqueInv'
  OBVIOUS
<1> USE DEF UniqueInv
<1>1. TypeOK' /\ IdsBounded' /\ IdHasHeight'
  BY NextTypeOK, NextIds
<1>2. /\ chain \in Seq(Block) /\ chain' \in Seq(Block) /\ made \in Nat
      /\ \A i \in 1 .. Len(chain) : chain[i] \in Seen /\ chain[i].id \in Nat
      /\ \A b \in wire : b \in Seen /\ b.id \in Nat
      /\ \A g \in Goroutines : blk[g] \in Seen /\ blk[g] \in Block /\ blk[g].id \in Nat
  <2>1. chain \in Seq(Block) /\ chain' \in Seq(Block) /\ made \in Nat
    BY <1>1, BlockchainAssumption DEF TypeOK
  <2>2. \A i \in 1 .. Len(chain) : chain[i] \in Seen /\ chain[i] \in Block
    BY <2>1 DEF Seen
  <2>3. \A b \in wire : b \in Seen /\ b \in Block
    BY DEF TypeOK, Seen
  <2>4. \A g \in Goroutines : blk[g] \in Seen /\ blk[g] \in Block
    BY DEF TypeOK, Seen
  <2> QED
    BY <2>1, <2>2, <2>3, <2>4 DEF Block
<1>3. /\ \A i \in 1 .. Len(chain) : chain[i].id <= made
      /\ \A b \in wire : b.id <= made
      /\ \A g \in Goroutines : blk[g].id <= made
  BY <1>2 DEF IdsBounded
<1>4. ASSUME NEW i \in 1 .. Len(chain)
      PROVE  chain[i].height <= Height
  <2>1. chain[1] = Genesis /\ (i # 1 => chain[i].height \in 1 .. (i - 1))
    BY DEF LinkInv, ParentLinked
  <2> QED
    BY <1>2, <2>1 DEF Height, Genesis
<1>5. ASSUME NEW g \in Goroutines, pc[g] = "append", chain' = Append(chain, blk[g])
      PROVE  /\ Len(chain') = Len(chain) + 1 /\ chain'[Len(chain) + 1] = blk[g]
             /\ \A i \in 1 .. Len(chain) : chain'[i] = chain[i] /\ chain[i].id # blk[g].id
  BY <1>2, <1>5 DEF AcceptedNew, Accepted
<1>6. NoBlockTwice'
  <2>1. CASE chain' = chain
    BY <2>1 DEF NoBlockTwice
  <2>2. ASSUME NEW g \in Goroutines, pc[g] = "append", chain' = Append(chain, blk[g])
        PROVE  NoBlockTwice'
    BY <1>2, <1>5, <2>2 DEF NoBlockTwice
  <2> QED
    BY <2>1, <2>2, StepEffect
<1>7. AcceptedNew'
  <2> SUFFICES ASSUME NEW h \in Goroutines, pc'[h] \in Accepted,
                      NEW i \in 1 .. Len(chain')
               PROVE  chain'[i].id # blk'[h].id
    BY DEF AcceptedNew
  <2>1. CASE pc[h] = "check" /\ blk'[h] = blk[h] /\ ~Known(blk[h]) /\ chain' = chain
    <3>1. blk[h].height \in Int /\ Height \in Int /\ chain[i].height \in Int /\ blk[h].height > Height
      <4>1. chain[i] \in Block /\ blk[h] \in Block
        BY <1>2, <2>1
      <4>2. blk[h].height \in Int /\ chain[i].height \in Int
        BY <4>1 DEF Block
      <4>3. Height \in Int
        BY <1>2 DEF Height
      <4> QED
        BY <2>1, <4>2, <4>3 DEF Known
    <3>2. chain[i].height <= Height /\ chain[i] \in Seen
      BY <1>2, <1>4, <2>1
    <3> QED
      BY <1>2, <2>1, <3>1, <3>2 DEF IdHasHeight
  <2>2. CASE pc[h] \in Accepted /\ blk'[h].id = blk[h].id
    <3>1. CASE chain' = chain
      BY <2>2, <3>1 DEF AcceptedNew
    <3>2. ASSUME NEW g \in Goroutines, pc[g] = "append", pc'[g] = "put", chain' = Append(chain, blk[g])
          PROVE  chain'[i].id # blk'[h].id
      <4>1. g # h
        BY <3>2 DEF Accepted
      <4>2. blk[g].id # blk[h].id
        BY <2>2, <3>2, <4>1 DEF OneReceiver, OwnBlockPrivate, Accepted, InFlight
      <4> QED
        BY <1>2, <1>5, <2>2, <3>2, <4>2 DEF AcceptedNew
    <3> QED
      BY <3>1, <3>2, StepEffect
  <2> QED
    BY <2>1, <2>2, StepEffect DEF Accepted
<1>8. OwnBlockPrivate'
  <2> USE DEF OwnBlockPrivate, InFlight, TypeOK
  <2>1. CASE UNCHANGED <<wire, chain, blk>> /\ \A v \in Validators : pc'[v] \in InFlight => pc[v] \in InFlight
    BY <2>1
  <2>2. ASSUME NEW parent \in wire, NEW txx \in Bodies, BuildElsewhere(parent, txx)
        PROVE  OwnBlockPrivate'
    <3>1. \A b \in wire' : b.id = made + 1 \/ b \in wire
      BY <2>2 DEF BuildElsewhere, NewBlockFromPrevHeader
    <3>2. chain' = chain /\ blk' = blk /\ pc' = pc
      BY <2>2 DEF BuildElsewhere, nodeVars, callVars
    <3> SUFFICES ASSUME NEW v \in Validators, pc[v] \in InFlight
                 PROVE  /\ \A b \in wire' : b.id # blk[v].id
                        /\ \A i \in 1 .. Len(chain) : chain[i].id # blk[v].id
                        /\ \A g \in Goroutines \ {v} : blk[g].id # blk[v].id
      BY <3>2
    <3>3. v \in Goroutines
      BY BlockchainAssumption
    <3>4. blk[v].id # made + 1
      BY <1>2, <1>3, <3>3
    <3> QED
      BY <3>1, <3>4
  <2>3. ASSUME NEW g \in Validators, NEW i \in 1 .. Len(chain), NEW txx \in Bodies, CallOwn(g, chain[i], txx)
        PROVE  OwnBlockPrivate'
    <3>1. /\ blk'[g].id = made + 1
          /\ \A h \in Goroutines \ {g} : blk'[h] = blk[h] /\ pc'[h] = pc[h]
          /\ wire' = wire /\ chain' = chain
      BY <2>3, BlockchainAssumption DEF CallOwn, Call, NewBlockFromPrevHeader
    <3> SUFFICES ASSUME NEW v \in Validators, pc'[v] \in InFlight
                 PROVE  /\ \A b \in wire' : b.id # blk'[v].id
                        /\ \A j \in 1 .. Len(chain') : chain'[j].id # blk'[v].id
                        /\ \A h \in Goroutines \ {v} : blk'[h].id # blk'[v].id
      OBVIOUS
    <3>2. CASE v = g
      <4>1. /\ \A b \in wire : b.id # made + 1
            /\ \A j \in 1 .. Len(chain) : chain[j].id # made + 1
            /\ \A h \in Goroutines : blk[h].id # made + 1
        BY <1>2, <1>3
      <4> QED
        BY <3>1, <3>2, <4>1
    <3>3. CASE v # g
      <4>1. v \in Goroutines /\ g \in Goroutines /\ blk'[v] = blk[v] /\ pc'[v] = pc[v]
        BY <3>1, <3>3, BlockchainAssumption
      <4>2. blk'[g].id # blk[v].id
        BY <1>2, <1>3, <3>1, <4>1
      <4>3. /\ \A b \in wire : b.id # blk[v].id
            /\ \A j \in 1 .. Len(chain) : chain[j].id # blk[v].id
            /\ \A h \in Goroutines \ {v} : blk[h].id # blk[v].id
        BY <4>1
      <4>4. \A h \in Goroutines \ {v} : blk'[h].id # blk'[v].id
        BY <3>1, <4>1, <4>2, <4>3
      <4> QED
        BY <3>1, <4>1, <4>3, <4>4
    <3> QED
      BY <3>2, <3>3
  <2>4. ASSUME NEW g \in Goroutines \ Validators, NEW b \in wire, NEW c \in Copies(b), CallForeign(g, c)
        PROVE  OwnBlockPrivate'
    <3>1. /\ blk'[g].id = b.id
          /\ \A h \in Goroutines \ {g} : blk'[h] = blk[h] /\ pc'[h] = pc[h]
          /\ wire' = wire /\ chain' = chain
      BY <2>4, CopiesType DEF CallForeign, Call
    <3> SUFFICES ASSUME NEW v \in Validators, pc'[v] \in InFlight
                 PROVE  /\ \A d \in wire' : d.id # blk'[v].id
                        /\ \A j \in 1 .. Len(chain') : chain'[j].id # blk'[v].id
                        /\ \A h \in Goroutines \ {v} : blk'[h].id # blk'[v].id
      OBVIOUS
    <3>2. v \in Goroutines \ {g} /\ blk'[v] = blk[v] /\ pc'[v] = pc[v]
      BY <3>1, BlockchainAssumption
    <3>3. b.id # blk[v].id
      BY <3>2
    <3>4. /\ \A d \in wire : d.id # blk[v].id
          /\ \A j \in 1 .. Len(chain) : chain[j].id # blk[v].id
          /\ \A h \in Goroutines \ {v} : blk[h].id # blk[v].id
      BY <3>2
    <3>5. \A h \in Goroutines \ {v} : blk'[h].id # blk'[v].id
      BY <3>1, <3>2, <3>3, <3>4
    <3> QED
      BY <3>1, <3>2, <3>4, <3>5
  <2>5. ASSUME NEW g \in Goroutines, UnlockState(g)
        PROVE  OwnBlockPrivate'
    <3>1. blk' = [blk EXCEPT ![g] = [blk[g] EXCEPT !.txs = done[g]]]
      BY <2>5 DEF UnlockState
    <3>2. \A h \in Goroutines : blk'[h].id = blk[h].id
      BY <3>1 DEF Block
    <3>3. \A h \in Goroutines : pc'[h] \in InFlight => pc[h] \in InFlight
      BY <2>5 DEF UnlockState
    <3>4. wire' = wire /\ chain' = chain
      BY <2>5 DEF UnlockState
    <3> SUFFICES ASSUME NEW v \in Validators, pc'[v] \in InFlight
                 PROVE  /\ \A d \in wire : d.id # blk[v].id
                        /\ \A j \in 1 .. Len(chain) : chain[j].id # blk[v].id
                        /\ \A h \in Goroutines \ {v} : blk[h].id # blk[v].id
      BY <3>2, <3>4, BlockchainAssumption, SMTT(30)
    <3>5. v \in Goroutines
      BY BlockchainAssumption
    <3> QED
      BY <3>3, <3>5
  <2>6. ASSUME NEW g \in Goroutines, AppendBlock(g)
        PROVE  OwnBlockPrivate'
    <3>1. /\ pc[g] = "append" /\ chain' = Append(chain, blk[g]) /\ blk' = blk
          /\ \A h \in Goroutines : pc'[h] \in InFlight => h # g /\ pc[h] \in InFlight
      BY <2>6 DEF AppendBlock
    <3>2. \A b \in wire' : b.id = blk[g].id \/ b \in wire
      BY <2>6 DEF AppendBlock, Block
    <3>3. \A i \in 1 .. Len(chain') : chain'[i].id = blk[g].id \/ (i \in 1 .. Len(chain) /\ chain'[i] = chain[i])
      BY <1>2, <1>5, <3>1
    <3> QED
      BY <3>1, <3>2, <3>3, BlockchainAssumption
  <2>7. ASSUME NEW g \in Goroutines, LockState(g) \/ Proceed(g), ~UnlockState(g), ~AppendBlock(g)
        PROVE  UNCHANGED <<wire, chain, blk>> /\ \A v \in Validators : pc'[v] \in InFlight => pc[v] \in InFlight
    BY <2>7, BlockchainAssumption
    DEF LockState, Proceed, Reject, Accept, ExecOk, ExecError, ExecStudent, ExecPanic, Executing,
        PutOk, PutFails, Return
  <2>8. CASE UNCHANGED vars
    BY <2>8 DEF vars
  <2> QED
    BY <2>1, <2>2, <2>3, <2>4, <2>5, <2>6, <2>7, <2>8 DEF Next, Enter
<1> QED
  BY <1>1, <1>6, <1>7, <1>8

(***************************************************************************)
(* Peers send the same block again and again, out of order and in several  *)
(* copies, and validator loops of the same node add blocks meanwhile: a    *)
(* node with one receiving goroutine appends each block at most once.      *)
(***************************************************************************)
THEOREM BlocksUnique ==
  ASSUME OneReceiver
  PROVE  Spec => []NoBlockTwice
<1>1. Init => TypeOK /\ LinkInv /\ UniqueInv
  BY InitTypeOK, InitLinkInv, InitUniqueInv
<1>2. TypeOK /\ LinkInv /\ UniqueInv /\ [Next]_vars => (TypeOK /\ LinkInv /\ UniqueInv)'
  BY NextTypeOK, NextLinkInv, NextUniqueInv
<1>3. UniqueInv => NoBlockTwice
  BY DEF UniqueInv
<1> QED
  BY <1>1, <1>2, <1>3, PTL DEF Spec

-----------------------------------------------------------------------------
(* Sublists: what is left of a sequence when some elements are dropped     *)

\* The places of the elements that are left, in ascending order.
Places(n, len) ==
  {p \in [1 .. n -> 1 .. len] : \A i, j \in 1 .. n : i < j => p[i] < p[j]}

Selected(s, n, p) == [i \in 1 .. n |-> s[p[i]]]

LEMMA SublistsAre ==
  ASSUME NEW S, NEW s \in Seq(S), NEW t
  PROVE  t \in Sublists(s) <=>
           \E n \in 0 .. Len(s) : \E p \in Places(n, Len(s)) : t = Selected(s, n, p)
<1>1. DOMAIN s = 1 .. Len(s)
  OBVIOUS
<1> DEFINE From(n) == {[i \in 1 .. n |-> s[p[i]]] : p \in Places(n, Len(s))}
<1>2. Sublists(s) = UNION {From(n) : n \in 0 .. Len(s)}
  BY <1>1 DEF Sublists, Places
<1>3. t \in Sublists(s) <=> \E n \in 0 .. Len(s) : t \in From(n)
  <2> HIDE DEF From
  <2> QED
    BY <1>2
<1>4. ASSUME NEW n
      PROVE  t \in From(n) <=> \E p \in Places(n, Len(s)) : t = [i \in 1 .. n |-> s[p[i]]]
  OBVIOUS
<1> QED
  BY <1>3, <1>4 DEF Selected

LEMMA SublistsNone ==
  ASSUME NEW S, NEW s \in Seq(S)
  PROVE  <<>> \in Sublists(SubSeq(s, 1, 0))
<1> DEFINE e == SubSeq(s, 1, 0)
           p == [i \in 1 .. 0 |-> i]
<1>1. e = <<>> /\ Len(e) = 0 /\ e \in Seq(S)
  OBVIOUS
<1>2. p \in Places(0, 0)
  BY DEF Places
<1>3. <<>> = Selected(e, 0, p)
  BY DEF Selected
<1> HIDE DEF e, p
<1>4. p \in Places(0, Len(e)) /\ 0 \in 0 .. Len(e)
  BY <1>1, <1>2
<1>5. \E n \in 0 .. Len(e) : \E q \in Places(n, Len(e)) : Selected(e, 0, p) = Selected(e, n, q)
  BY <1>4
<1>6. Selected(e, 0, p) \in Sublists(e)
  BY <1>1, <1>5, SublistsAre
<1> QED
  BY <1>3, <1>6 DEF e

\* One more transaction has been executed: it failed, or it belongs to the successful ones.
LEMMA SublistsNext ==
  ASSUME NEW S, NEW s \in Seq(S), NEW k \in 0 .. Len(s) - 1, NEW t \in Sublists(SubSeq(s, 1, k))
  PROVE  /\ t \in Sublists(SubSeq(s, 1, k + 1))
         /\ Append(t, s[k + 1]) \in Sublists(SubSeq(s, 1, k + 1))
<1> DEFINE a == SubSeq(s, 1, k)
           b == SubSeq(s, 1, k + 1)
<1>1. /\ a \in Seq(S) /\ Len(a) = k /\ DOMAIN a = 1 .. k /\ \A i \in 1 .. k : a[i] = s[i]
      /\ b \in Seq(S) /\ Len(b) = k + 1 /\ DOMAIN b = 1 .. k + 1 /\ \A i \in 1 .. k + 1 : b[i] = s[i]
  OBVIOUS
<1>2. t \in Sublists(a)
  OBVIOUS
<1> HIDE DEF a, b
<1>3. PICK n \in 0 .. k : \E p \in Places(n, k) : t = Selected(a, n, p)
  BY <1>1, <1>2, SublistsAre
<1>4. PICK p \in Places(n, k) : t = [i \in 1 .. n |-> a[p[i]]]
  BY <1>3 DEF Selected
<1>5. p \in [1 .. n -> 1 .. k] /\ \A i, j \in 1 .. n : i < j => p[i] < p[j]
  BY DEF Places
<1>6. t \in Sublists(b)
  <2>1. p \in Places(n, Len(b)) /\ n \in 0 .. Len(b)
    BY <1>1, <1>5 DEF Places
  <2>2. \A i \in 1 .. n : a[p[i]] = b[p[i]]
    BY <1>1, <1>5
  <2>3. t = Selected(b, n, p)
    BY <1>4, <2>2 DEF Selected
  <2> QED
    BY <1>1, <2>1, <2>3, SublistsAre
<1>7. Append(t, s[k + 1]) \in Sublists(b)
  <2> DEFINE q == [i \in 1 .. n + 1 |-> IF i = n + 1 THEN k + 1 ELSE p[i]]
  <2>1. q \in [1 .. n + 1 -> 1 .. Len(b)] /\ n + 1 \in 0 .. Len(b)
    BY <1>1, <1>5
  <2>2. \A i, j \in 1 .. n + 1 : i < j => q[i] < q[j]
    <3> SUFFICES ASSUME NEW i \in 1 .. n + 1, NEW j \in 1 .. n + 1, i < j
                 PROVE  q[i] < q[j]
      OBVIOUS
    <3>1. i \in 1 .. n /\ q[i] = p[i] /\ p[i] \in 1 .. k
      BY <1>5
    <3>2. CASE j = n + 1
      BY <3>1, <3>2
    <3>3. CASE j # n + 1
      <4>1. j \in 1 .. n /\ q[j] = p[j]
        BY <3>3
      <4> QED
        BY <1>5, <3>1, <4>1
    <3> QED
      BY <3>2, <3>3
  <2>3. t \in Seq(S) /\ Len(t) = n /\ s[k + 1] \in S
    BY <1>1, <1>4, <1>5
  <2>4. Append(t, s[k + 1]) = Selected(b, n + 1, q)
    <3>1. \A i \in 1 .. n : t[i] = s[p[i]]
      BY <1>1, <1>4, <1>5
    <3>2. \A i \in 1 .. n + 1 : Append(t, s[k + 1])[i] = b[q[i]]
      <4> SUFFICES ASSUME NEW i \in 1 .. n + 1
                   PROVE  Append(t, s[k + 1])[i] = b[q[i]]
        OBVIOUS
      <4>1. CASE i = n + 1
        BY <1>1, <2>3, <4>1
      <4>2. CASE i # n + 1
        <5>1. i \in 1 .. n /\ p[i] \in 1 .. k + 1 /\ q[i] = p[i]
          BY <1>5, <4>2
        <5> QED
          BY <1>1, <2>3, <3>1, <5>1
      <4> QED
        BY <4>1, <4>2
    <3>3. /\ Append(t, s[k + 1]) \in Seq(S) /\ Len(Append(t, s[k + 1])) = n + 1
          /\ DOMAIN Append(t, s[k + 1]) = 1 .. n + 1
      BY <2>3
    <3> QED
      BY <3>2, <3>3 DEF Selected
  <2> HIDE DEF q
  <2>5. q \in Places(n + 1, Len(b))
    BY <2>1, <2>2 DEF Places
  <2> QED
    BY <1>1, <2>1, <2>4, <2>5, SublistsAre
<1> QED
  BY <1>6, <1>7 DEF b
=============================================================================
