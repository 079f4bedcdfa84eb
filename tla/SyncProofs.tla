----------------------------- MODULE SyncProofs -----------------------------
(***************************************************************************)
(* Proofs about Sync for any number of nodes, connections and              *)
(* transactions, any size of the pools, any height and any number of       *)
(* messages lost or garbled and of blocks that cannot be saved.            *)
(*                                                                         *)
(* The invariant says where every block in the network comes from: it is   *)
(* one of the validator's chain or does not verify, whether a channel, a   *)
(* batch or a goroutine holds it.  With it, the checks of ProcessBlock and *)
(* ProcessBatch leave only the next block of the validator's chain to be   *)
(* added.                                                                  *)
(***************************************************************************)
EXTENDS Sync, TLAPS

Log == chain[Validator]

Genuine == {Log[i] : i \in DOMAIN Log}

\* What can be found in messages: blocks of the validator, and some that do not verify.
Travelling == Genuine \cup {b \in NodeBlock : b.spoilt}

\* The messages whose blocks are in B.
MessagesOf(B) ==
  [type : {"getStatus"}]
    \cup [type : {"status"}, height : Nat]
    \cup [type : {"getBlocks"}, from : Nat, to : Nat]
    \cup [type : {"blocks"}, blocks : Seq(B)]
    \cup [type : {"block"}, block : B]
    \cup [type : {"tx"}, tx : Tx]

Channels(M) == [Channel -> Seq(M)]

ChainsInv ==
  /\ chain \in [Node -> Seq(NodeBlock) \ {<<>>}]
  /\ \A i \in DOMAIN Log : Log[i].height = i - 1
  /\ \A n \in Node : Len(chain[n]) <= Len(Log) /\ \A i \in 1 .. Len(chain[n]) : chain[n][i] = Log[i]

\* The validator's pool keeps this transaction out of any further block.
Remembered(tx) == tx \in all[Validator] /\ tx \notin pending[Validator]

\* What the validator has executed and saved it remembers, unless the pool has dropped it.
ExecutedInv ==
  /\ pending[Validator] \subseteq all[Validator] \cup pruned
  /\ \A i \in DOMAIN Log : \A tx \in Log[i].txs :
       tx \in pruned \/ <<Validator, i>> \in unsaved \/ Remembered(tx)
  /\ TxInOneBlock

PoolsInv ==
  /\ all \in [Node -> SUBSET Tx]
  /\ before \in [Node -> SUBSET (Tx \X Tx)]
  /\ \A n \in Node : Ordered(before[n], all[n])
  /\ pending \in [Node -> SUBSET Tx]
  /\ pruned \subseteq Tx
  /\ unsaved \subseteq Node \X Nat

TrafficInv ==
  /\ peers \in [Node -> SUBSET Node]
  /\ \A n \in Node : n \notin peers[n]
  /\ net \in Channels(MessagesOf(Travelling))
  /\ batch \in [Node -> Seq(Travelling)]
  /\ DOMAIN casting = Node
  /\ \A n \in Node : DOMAIN casting[n] \subseteq MessagesOf(Travelling)
  /\ posted \in 0 .. MaxOutside
  /\ lost \in 0 .. MaxOutside

SyncInv == ChainsInv /\ PoolsInv /\ ExecutedInv /\ TrafficInv

USE SyncAssumption

LEMMA ChainFacts ==
  ASSUME ChainsInv
  PROVE  /\ \A n \in Node : /\ chain[n] \in Seq(NodeBlock) /\ chain[n] # <<>>
                            /\ Len(chain[n]) \in Nat \ {0} /\ Height(n) \in Nat
                            /\ Height(n) = Len(chain[n]) - 1
         /\ Log \in Seq(NodeBlock) /\ Len(Log) \in Nat \ {0} /\ DOMAIN Log = 1 .. Len(Log)
         /\ Genuine \subseteq NodeBlock
<1>1. ASSUME NEW n \in Node
      PROVE  /\ chain[n] \in Seq(NodeBlock) /\ chain[n] # <<>> /\ Len(chain[n]) \in Nat
             /\ Len(chain[n]) # 0
  BY <1>1 DEF ChainsInv
<1>2. Log \in Seq(NodeBlock) /\ Len(Log) \in Nat \ {0} /\ DOMAIN Log = 1 .. Len(Log)
  BY <1>1 DEF Log
<1> QED
  BY <1>1, <1>2 DEF Genuine, Height

LEMMA SeqGrows == ASSUME NEW S, NEW T, S \subseteq T PROVE Seq(S) \subseteq Seq(T)
  OBVIOUS

LEMMA MessagesGrow ==
  ASSUME NEW B, NEW C, B \subseteq C
  PROVE  MessagesOf(B) \subseteq MessagesOf(C) /\ Channels(MessagesOf(B)) \subseteq Channels(MessagesOf(C))
<1>1. MessagesOf(B) \subseteq MessagesOf(C)
  BY SeqGrows DEF MessagesOf
<1>2. Seq(MessagesOf(B)) \subseteq Seq(MessagesOf(C))
  BY <1>1, SeqGrows
<1> QED
  BY <1>1, <1>2 DEF Channels

\* Only the validator's block can be added: the others do not verify.
LEMMA TravellingFacts ==
  ASSUME ChainsInv
  PROVE  /\ Genuine \subseteq Travelling /\ Travelling \subseteq NodeBlock
         /\ \A b \in Travelling : ~b.spoilt => b \in Genuine
         /\ \A b \in Travelling : Spoil(b) \in Travelling
<1>1. Genuine \subseteq NodeBlock
  BY ChainFacts
<1>2. \A b \in NodeBlock : Spoil(b) \in NodeBlock /\ Spoil(b).spoilt
  BY DEF NodeBlock, Spoil
<1> QED
  BY <1>1, <1>2 DEF Travelling

\* The blocks of every chain are blocks of the validator.
LEMMA CopiesTravel ==
  ASSUME ChainsInv, NEW n \in Node
  PROVE  \A i \in 1 .. Len(chain[n]) : chain[n][i] \in Travelling
<1> SUFFICES ASSUME NEW i \in 1 .. Len(chain[n])
             PROVE  chain[n][i] \in Travelling
  OBVIOUS
<1>1. Len(chain[n]) \in Nat /\ Len(Log) \in Nat /\ DOMAIN Log = 1 .. Len(Log)
  BY ChainFacts
<1>2. Len(chain[n]) <= Len(Log) /\ chain[n][i] = Log[i]
  BY DEF ChainsInv
<1>3. i \in DOMAIN Log
  BY <1>1, <1>2
<1> QED
  BY <1>2, <1>3 DEF Genuine, Travelling

-----------------------------------------------------------------------------
(* Pools *)

LEMMA WithinOrdered ==
  ASSUME NEW pairs \in SUBSET (Tx \X Tx), NEW S \in SUBSET Tx, Ordered(pairs, S),
         NEW T \in SUBSET S
  PROVE  Within(pairs, T) \in SUBSET (Tx \X Tx) /\ Ordered(Within(pairs, T), T)
  BY DEF Ordered, Within

LEMMA LastOrdered ==
  ASSUME NEW pairs \in SUBSET (Tx \X Tx), NEW S \in SUBSET Tx, Ordered(pairs, S),
         NEW tx \in Tx, tx \notin S
  PROVE  /\ pairs \cup (S \X {tx}) \in SUBSET (Tx \X Tx)
         /\ Ordered(pairs \cup (S \X {tx}), S \cup {tx})
<1> DEFINE longer == pairs \cup (S \X {tx})
<1>1. \A p \in longer : p[1] \in S \cup {tx} /\ p[2] \in S \cup {tx}
  BY DEF Ordered
<1>2. ASSUME NEW t \in S, NEW u \in S
      PROVE  <<t, u>> \in longer <=> <<t, u>> \in pairs
  BY <1>2
<1>3. ASSUME NEW t \in S
      PROVE  <<t, tx>> \in longer /\ <<tx, t>> \notin longer
  <2>1. <<tx, t>> \notin pairs
    BY DEF Ordered
  <2> QED
    BY <1>3, <2>1
<1>4. \A t, u \in S \cup {tx} : t # u => (<<t, u>> \in longer <=> <<u, t>> \notin longer)
  BY <1>2, <1>3 DEF Ordered
<1> QED
  BY <1>1, <1>4 DEF Ordered

LEMMA RemoveType ==
  ASSUME PoolsInv, NEW n \in Node, NEW S, RemoveTxs(n, S), unsaved' \subseteq Node \X Nat
  PROVE  PoolsInv'
<1>1. /\ all' = [all EXCEPT ![n] = @ \ S]
      /\ before' = [before EXCEPT ![n] = Within(@, all[n] \ S)]
      /\ pending' = [pending EXCEPT ![n] = @ \ S]
      /\ pruned' = pruned
  BY DEF RemoveTxs
<1>2. /\ before[n] \in SUBSET (Tx \X Tx) /\ all[n] \in SUBSET Tx /\ Ordered(before[n], all[n])
      /\ all[n] \ S \in SUBSET all[n]
  BY DEF PoolsInv
<1>3. Within(before[n], all[n] \ S) \in SUBSET (Tx \X Tx)
      /\ Ordered(Within(before[n], all[n] \ S), all[n] \ S)
  BY <1>2, WithinOrdered
<1>4. \A k \in Node : Ordered(before'[k], all'[k])
  BY <1>1, <1>3 DEF PoolsInv
<1> QED
  BY <1>1, <1>3, <1>4 DEF PoolsInv

-----------------------------------------------------------------------------
(* Channels *)

LEMMA BroadcastType ==
  ASSUME NEW M, NEW f \in Channels(M), NEW n \in Node, NEW msg \in M
  PROVE  BroadcastOn(f, n, msg) \in Channels(M)
  BY DEF BroadcastOn, Channels

LEMMA WriteType ==
  ASSUME NEW M, NEW f \in Channels(M), NEW c \in Channel, NEW msg \in M
  PROVE  [f EXCEPT ![c] = Append(@, msg)] \in Channels(M)
  BY DEF Channels

LEMMA ReceiveType ==
  ASSUME NEW M, net \in Channels(M), TrafficInv, NEW n \in Node, NEW m \in Node, NEW type,
         Receives(n, m, type)
  PROVE  /\ <<m, n>> \in Channel /\ <<n, m>> \in Channel
         /\ Incoming(n, m) \in M /\ Incoming(n, m).type = type
         /\ Taken(n, m) \in Channels(M)
<1>1. m \in peers[n] /\ net[<<m, n>>] # <<>> /\ Incoming(n, m).type = type
  BY DEF Receives
<1>2. <<m, n>> \in Channel /\ <<n, m>> \in Channel
  BY <1>1 DEF TrafficInv, Channel
<1>3. net[<<m, n>>] \in Seq(M)
  BY <1>2 DEF Channels
<1>4. Head(net[<<m, n>>]) \in M /\ Tail(net[<<m, n>>]) \in Seq(M)
  BY <1>1, <1>3
<1> QED
  BY <1>1, <1>2, <1>4 DEF Incoming, Taken, Channels

\* Garbling makes blocks that do not verify, and nothing else that was not there.
LEMMA GarbledType ==
  ASSUME NEW B, \A b \in B : Spoil(b) \in B, NEW msg \in MessagesOf(B)
  PROVE  Garbled(msg) \subseteq MessagesOf(B)
<1> SUFFICES ASSUME NEW other \in Garbled(msg) PROVE other \in MessagesOf(B)
  OBVIOUS
<1>1. GetStatusMessage \in MessagesOf(B)
  BY DEF GetStatusMessage, MessagesOf
<1>2. 0 .. MaxHeight \subseteq Nat
  OBVIOUS
<1>3. CASE msg.type = "status" /\ other # GetStatusMessage
  <2>1. PICK h \in 0 .. MaxHeight : other = StatusMessage(h)
    BY <1>3 DEF Garbled
  <2> QED
    BY <1>2, <2>1 DEF StatusMessage, MessagesOf
<1>4. CASE msg.type = "getBlocks" /\ other # GetStatusMessage
  <2>1. PICK h \in (0 .. MaxHeight) \X (0 .. MaxHeight) : other = GetBlocksMessage(h[1], h[2])
    BY <1>4 DEF Garbled
  <2>2. h[1] \in Nat /\ h[2] \in Nat
    BY <1>2
  <2> QED
    BY <2>1, <2>2 DEF GetBlocksMessage, MessagesOf
<1>5. CASE msg.type = "blocks" /\ other # GetStatusMessage
  <2>1. PICK bad \in SUBSET DOMAIN msg.blocks :
          other = BlocksMessage([i \in DOMAIN msg.blocks |->
                                   IF i \in bad THEN Spoil(msg.blocks[i]) ELSE msg.blocks[i]])
    BY <1>5 DEF Garbled
  <2>2. msg.blocks \in Seq(B)
    BY <1>5 DEF MessagesOf
  <2>3. [i \in DOMAIN msg.blocks |->
           IF i \in bad THEN Spoil(msg.blocks[i]) ELSE msg.blocks[i]] \in Seq(B)
    BY <2>2
  <2> QED
    BY <2>1, <2>3 DEF BlocksMessage, MessagesOf
<1>6. CASE msg.type = "block" /\ other # GetStatusMessage
  <2>1. other = BlockMessage(Spoil(msg.block)) /\ msg.block \in B
    BY <1>6 DEF Garbled, MessagesOf
  <2> QED
    BY <2>1 DEF BlockMessage, MessagesOf
<1>7. CASE msg.type = "tx" /\ other # GetStatusMessage
  BY <1>7 DEF Garbled
<1>8. CASE msg.type = "getStatus"
  BY <1>1, <1>8 DEF Garbled
<1>9. msg.type \in {"getStatus", "status", "getBlocks", "blocks", "block", "tx"}
  BY DEF MessagesOf
<1> QED
  BY <1>1, <1>3, <1>4, <1>5, <1>6, <1>7, <1>8, <1>9

LEMMA LoseType ==
  ASSUME NEW B, \A b \in B : Spoil(b) \in B, net \in Channels(MessagesOf(B)),
         NEW c \in Channel, NEW i \in DOMAIN net[c], Lose(c, i)
  PROVE  net' \in Channels(MessagesOf(B))
<1> DEFINE M == MessagesOf(B)
<1>1. net[c] \in Seq(M) /\ DOMAIN net[c] = 1 .. Len(net[c]) /\ Len(net[c]) \in Nat
  BY DEF Channels
<1>2. RemoveAt(net[c], i) \in Seq(M)
  <2> HIDE DEF M
  <2>1. SubSeq(net[c], 1, i - 1) \in Seq(M) /\ SubSeq(net[c], i + 1, Len(net[c])) \in Seq(M)
    BY <1>1
  <2> QED
    BY <2>1 DEF RemoveAt
<1>3. Garbled(net[c][i]) \subseteq M
  <2>1. net[c][i] \in M
    BY <1>1
  <2> QED
    BY <2>1, GarbledType
<1>4. ASSUME i < Len(net[c]), NEW msg \in {net[c][i + 1]} \cup Garbled(net[c][i])
      PROVE  [net[c] EXCEPT ![i] = msg] \in Seq(M)
  <2> HIDE DEF M
  <2>1. msg \in M
    BY <1>1, <1>3, <1>4
  <2> QED
    BY <1>1, <2>1
<1>5. CASE net' = [net EXCEPT ![c] = RemoveAt(@, i)]
  BY <1>2, <1>5 DEF Channels
<1>6. ASSUME i < Len(net[c]), NEW msg \in {net[c][i + 1]} \cup Garbled(net[c][i]),
             net' = [net EXCEPT ![c] = [@ EXCEPT ![i] = msg]]
      PROVE  net' \in Channels(M)
  BY <1>4, <1>6 DEF Channels
<1> QED
  BY <1>5, <1>6 DEF Lose

-----------------------------------------------------------------------------
(* The initial state *)

LEMMA InitSyncInv == SyncInit => SyncInv
<1> SUFFICES ASSUME SyncInit PROVE SyncInv
  OBVIOUS
<1>1. GenesisOfAll \in NodeBlock /\ GenesisOfAll.height = 0 /\ GenesisOfAll.txs = {}
  BY DEF GenesisOfAll, NodeBlock
<1> HIDE DEF GenesisOfAll
<1>2. <<GenesisOfAll>> \in Seq(NodeBlock) /\ Len(<<GenesisOfAll>>) = 1 /\ <<GenesisOfAll>>[1] = GenesisOfAll
  BY <1>1
<1>3. chain = [n \in Node |-> <<GenesisOfAll>>]
  BY DEF SyncInit
<1>4. Log = <<GenesisOfAll>> /\ DOMAIN Log = {1}
  BY <1>2, <1>3 DEF Log
<1>5. ChainsInv
  BY <1>1, <1>2, <1>3, <1>4 DEF ChainsInv
<1>6. PoolsInv /\ ExecutedInv
  <2>1. TxInOneBlock
    <3>1. \A i, j \in DOMAIN Log : ~(i < j)
      BY <1>4
    <3> QED
      BY <3>1 DEF TxInOneBlock, Log
  <2>2. ExecutedInv
    BY <1>1, <1>2, <1>4, <2>1 DEF SyncInit, ExecutedInv
  <2>3. \A n \in Node : Ordered(before[n], all[n])
    BY DEF SyncInit, Ordered
  <2> QED
    BY <2>2, <2>3 DEF SyncInit, PoolsInv
<1>7. TrafficInv
  <2>1. DOMAIN EmptyBag = {}
    BY DEF EmptyBag, SetToBag
  <2> QED
    BY <2>1 DEF SyncInit, TrafficInv, Channels
<1> QED
  BY <1>5, <1>6, <1>7 DEF SyncInv

-----------------------------------------------------------------------------
(* Blocks are added *)

(***************************************************************************)
(* Of the blocks that exist, AddBlock accepts only the one that follows    *)
(* on the validator's chain: its height is checked, and there is one block *)
(* of each height.  The validator accepts none.                            *)
(***************************************************************************)
LEMMA OnlyTheNext ==
  ASSUME ChainsInv, NEW n \in Node, NEW b \in Travelling, Addable(n, b)
  PROVE  /\ n # Validator /\ Len(chain[n]) < Len(Log)
         /\ b = Log[Len(chain[n]) + 1] /\ b \in NodeBlock
<1>1. PICK i \in 1 .. Len(Log) : b = Log[i]
  BY ChainFacts, TravellingFacts DEF Genuine, Addable, Valid
<1>2. b.height = i - 1 /\ b \in NodeBlock
  BY <1>1, ChainFacts DEF ChainsInv
<1>3. Height(n) < b.height /\ b.height <= Height(n) + 1
  BY <1>2, ChainFacts DEF Addable, Known, Valid, NodeBlock
<1>4. i = Len(chain[n]) + 1
  BY <1>2, <1>3, ChainFacts
<1>5. Len(chain[n]) < Len(Log)
  BY <1>1, <1>4, ChainFacts
<1> QED
  BY <1>1, <1>2, <1>4, <1>5 DEF Log

LEMMA AddInv ==
  ASSUME SyncInv, NEW n \in Node, NEW b \in Travelling, Addable(n, b),
         NEW saved \in BOOLEAN, Add(n, b, saved)
  PROVE  /\ ChainsInv' /\ PoolsInv' /\ ExecutedInv' /\ Travelling' = Travelling
         /\ Replicas!Copy(n) /\ n \in Node \ {Validator}
<1>1. n # Validator /\ Len(chain[n]) < Len(Log) /\ b = Log[Len(chain[n]) + 1] /\ b \in NodeBlock
  BY OnlyTheNext DEF SyncInv
<1>2. chain' = [chain EXCEPT ![n] = Append(@, b)]
  BY DEF Add, AppendBlock
<1>3. /\ chain \in [Node -> Seq(NodeBlock) \ {<<>>}] /\ chain[n] \in Seq(NodeBlock)
      /\ Len(chain[n]) \in Nat \ {0} /\ Len(Log) \in Nat
  BY ChainFacts DEF SyncInv, ChainsInv
<1>4. /\ chain'[n] = Append(chain[n], b)
      /\ \A m \in Node \ {n} : chain'[m] = chain[m]
      /\ Len(chain'[n]) = Len(chain[n]) + 1 /\ chain'[n] \in Seq(NodeBlock)
      /\ \A i \in 1 .. Len(chain[n]) : chain'[n][i] = chain[n][i]
      /\ chain'[n][Len(chain[n]) + 1] = b
  BY <1>1, <1>2, <1>3
<1>5. Log' = Log /\ Travelling' = Travelling
  BY <1>1, <1>4 DEF Log, Genuine, Travelling
<1>6. \A i \in 1 .. Len(chain'[n]) : chain'[n][i] = Log[i]
  <2> TAKE i \in 1 .. Len(chain'[n])
  <2>1. CASE i \in 1 .. Len(chain[n])
    BY <1>4, <2>1 DEF SyncInv, ChainsInv
  <2>2. CASE i = Len(chain[n]) + 1
    BY <1>1, <1>4, <2>2
  <2> QED
    BY <1>3, <1>4, <2>1, <2>2
<1>7. ChainsInv'
  <2>1. chain' \in [Node -> Seq(NodeBlock) \ {<<>>}]
    <3>1. Append(chain[n], b) \in Seq(NodeBlock) \ {<<>>}
      BY <1>1, <1>3
    <3> QED
      BY <1>2, <1>3, <3>1
  <2>2. ASSUME NEW m \in Node
        PROVE  Len(chain'[m]) <= Len(Log) /\ \A i \in 1 .. Len(chain'[m]) : chain'[m][i] = Log[i]
    <3>1. CASE m = n
      <4>1. Len(chain'[n]) <= Len(Log)
        BY <1>1, <1>3, <1>4
      <4> QED
        BY <1>6, <3>1, <4>1
    <3>2. CASE m # n
      BY <1>4, <3>2 DEF SyncInv, ChainsInv
    <3> QED
      BY <3>1, <3>2
  <2> QED
    BY <1>5, <2>1, <2>2 DEF SyncInv, ChainsInv
<1>8. PoolsInv' /\ ExecutedInv'
  <2>1. unsaved \subseteq unsaved' /\ unsaved' \subseteq Node \X Nat
    <3>1. <<n, Len(chain[n]) + 1>> \in Node \X Nat
      BY <1>3
    <3> QED
      BY <3>1 DEF Add, AppendBlock, SyncInv, PoolsInv
  <2>2. PoolsInv' /\ pruned' = pruned
        /\ all'[Validator] = all[Validator] /\ pending'[Validator] = pending[Validator]
    <3>1. CASE RemoveTxs(n, b.txs)
      <4>1. PoolsInv'
        BY <2>1, <3>1, RemoveType DEF SyncInv
      <4> QED
        BY <1>1, <3>1, <4>1 DEF RemoveTxs, SyncInv, PoolsInv
    <3>2. CASE UNCHANGED poolVars
      BY <2>1, <3>2 DEF poolVars, SyncInv, PoolsInv
    <3> QED
      BY <3>1, <3>2 DEF Add
  <2>3. TxInOneBlock'
    BY <1>5, <2>1, <2>2 DEF SyncInv, ExecutedInv, TxInOneBlock, Log
  <2> QED
    BY <1>5, <2>1, <2>2, <2>3 DEF SyncInv, ExecutedInv, Remembered
<1>9. Replicas!Copy(n)
  <2>1. Replicas!BeginningOf(chain[n], chain'[n])
    BY <1>3, <1>4 DEF Replicas!BeginningOf
  <2>2. Replicas!BeginningOf(chain'[n], Log)
    BY <1>1, <1>3, <1>4, <1>6 DEF Replicas!BeginningOf
  <2> QED
    BY <1>4, <2>1, <2>2 DEF Replicas!Copy, Replicas!Log, Log
<1> QED
  BY <1>1, <1>5, <1>7, <1>8, <1>9

LEMMA CreateInv ==
  ASSUME SyncInv, NEW spoilt \in BOOLEAN, NEW saved \in BOOLEAN, CreateNewBlock(spoilt, saved)
  PROVE  SyncInv' /\ Replicas!Grow
<1> DEFINE h == Height(Validator)
           b == [id |-> h + 1, height |-> h + 1, prev |-> Log[h + 1].id,
                 txs |-> pending[Validator], spoilt |-> spoilt]
<1>1. /\ chain' = [chain EXCEPT ![Validator] = Append(@, b)]
      /\ pending' = IF saved THEN [pending EXCEPT ![Validator] = {}] ELSE pending
      /\ net' = IF saved THEN BroadcastOn(net, Validator, BlockMessage(b)) ELSE net
      /\ UNCHANGED <<all, before, pruned, peers, batch, casting, posted, lost>>
      /\ IF saved THEN unsaved' = unsaved
         ELSE unsaved' = unsaved \cup {<<Validator, Len(Log) + 1>>}
  BY DEF CreateNewBlock, AppendBlock, Log
<1>2. /\ h = Len(Log) - 1 /\ h \in Nat /\ Len(Log) \in Nat \ {0} /\ Log \in Seq(NodeBlock)
      /\ DOMAIN Log = 1 .. Len(Log) /\ h + 1 \in DOMAIN Log
      /\ chain \in [Node -> Seq(NodeBlock) \ {<<>>}] /\ Log = chain[Validator]
  BY ChainFacts DEF SyncInv, ChainsInv, Log
<1>3. /\ all \in [Node -> SUBSET Tx] /\ pending \in [Node -> SUBSET Tx]
      /\ pending[Validator] \subseteq all[Validator] \cup pruned
      /\ \A i \in DOMAIN Log : \A tx \in Log[i].txs :
           tx \in pruned \/ <<Validator, i>> \in unsaved \/ Remembered(tx)
  BY DEF SyncInv, PoolsInv, ExecutedInv
<1>4. b \in NodeBlock /\ b.height = Len(Log) /\ b.txs = pending[Validator]
  <2>1. Log[h + 1] \in NodeBlock
    BY <1>2
  <2> QED
    BY <1>2, <1>3, <2>1 DEF NodeBlock
<1> HIDE DEF b, h
<1>5. /\ Log' = Append(Log, b) /\ \A n \in Node \ {Validator} : chain'[n] = chain[n]
      /\ chain' \in [Node -> Seq(NodeBlock) \ {<<>>}]
  BY <1>1, <1>2, <1>4 DEF Log
<1>6. /\ Len(Log') = Len(Log) + 1 /\ Log'[Len(Log) + 1] = b
      /\ \A i \in 1 .. Len(Log) : Log'[i] = Log[i]
      /\ DOMAIN Log' = 1 .. (Len(Log) + 1)
  BY <1>2, <1>4, <1>5
<1>7. Travelling \subseteq Travelling' /\ b \in Travelling'
  BY <1>2, <1>6 DEF Genuine, Travelling
<1>8. ChainsInv'
  <2>1. \A i \in DOMAIN Log' : Log'[i].height = i - 1
    <3> TAKE i \in DOMAIN Log'
    <3>1. CASE i \in 1 .. Len(Log)
      BY <1>2, <1>6, <3>1 DEF SyncInv, ChainsInv
    <3>2. CASE i = Len(Log) + 1
      BY <1>2, <1>4, <1>6, <3>2
    <3> QED
      BY <1>2, <1>6, <3>1, <3>2
  <2>2. ASSUME NEW n \in Node
        PROVE  Len(chain'[n]) <= Len(Log') /\ \A i \in 1 .. Len(chain'[n]) : chain'[n][i] = Log'[i]
    <3>1. CASE n = Validator
      BY <1>2, <1>6, <3>1 DEF Log
    <3>2. CASE n # Validator
      <4>1. chain'[n] = chain[n] /\ Len(chain[n]) \in Nat /\ Len(chain[n]) <= Len(Log)
            /\ \A i \in 1 .. Len(chain[n]) : chain[n][i] = Log[i]
        BY <1>5, <3>2, ChainFacts DEF SyncInv, ChainsInv
      <4> QED
        BY <1>2, <1>6, <4>1
    <3> QED
      BY <3>1, <3>2
  <2> QED
    BY <1>5, <2>1, <2>2 DEF ChainsInv
<1>9. PoolsInv'
  <2>1. pending' \in [Node -> SUBSET Tx]
    BY <1>1, <1>3
  <2>2. unsaved' \subseteq Node \X Nat
    BY <1>1, <1>2 DEF SyncInv, PoolsInv
  <2> QED
    BY <1>1, <2>1, <2>2 DEF SyncInv, PoolsInv
<1>10. ExecutedInv'
  <2>1. unsaved \subseteq unsaved' /\ pending'[Validator] \subseteq pending[Validator]
        /\ pruned' = pruned /\ all' = all
    BY <1>1, <1>3
  <2>2. \A tx : Remembered(tx) => Remembered(tx)'
    BY <2>1 DEF Remembered
  <2>3. \A tx \in b.txs :
          tx \in pruned \/ <<Validator, Len(Log) + 1>> \in unsaved' \/ Remembered(tx)'
    <3>1. CASE saved
      BY <1>1, <1>3, <1>4, <3>1 DEF Remembered
    <3>2. CASE ~saved
      BY <1>1, <3>2
    <3> QED
      BY <3>1, <3>2
  <2>4. \A i \in DOMAIN Log' : \A tx \in Log'[i].txs :
          tx \in pruned \/ <<Validator, i>> \in unsaved' \/ Remembered(tx)'
    <3> TAKE i \in DOMAIN Log'
    <3>1. CASE i \in 1 .. Len(Log)
      BY <1>2, <1>3, <1>6, <2>1, <2>2, <3>1
    <3>2. CASE i = Len(Log) + 1
      BY <1>6, <2>3, <3>2
    <3>3. i \in 1 .. Len(Log) \/ i = Len(Log) + 1
      BY <1>2, <1>6
    <3> QED
      BY <3>1, <3>2, <3>3
  <2>5. ASSUME NEW i \in DOMAIN Log', NEW j \in DOMAIN Log', i < j,
               NEW tx \in Log'[i].txs \cap Log'[j].txs
        PROVE  tx \in pruned \/ <<Validator, i>> \in unsaved'
    <3>1. i \in 1 .. Len(Log) /\ Log'[i] = Log[i]
      BY <1>2, <1>6, <2>5
    <3>2. CASE j \in 1 .. Len(Log)
      <4>1. tx \in Log[i].txs \cap Log[j].txs
        BY <1>6, <2>5, <3>1, <3>2
      <4> QED
        BY <1>2, <2>1, <2>5, <3>1, <3>2, <4>1 DEF SyncInv, ExecutedInv, TxInOneBlock, Log
    <3>3. CASE j = Len(Log) + 1
      <4>1. tx \in Log[i].txs /\ tx \in pending[Validator]
        BY <1>4, <1>6, <2>5, <3>1, <3>3
      <4> QED
        BY <1>2, <1>3, <2>1, <3>1, <4>1 DEF Remembered
    <3> QED
      BY <1>2, <1>6, <3>2, <3>3
  <2>6. TxInOneBlock'
    BY <2>1, <2>5 DEF TxInOneBlock, Log
  <2>7. pending'[Validator] \subseteq all'[Validator] \cup pruned'
    BY <1>3, <2>1
  <2> QED
    BY <2>1, <2>4, <2>6, <2>7 DEF ExecutedInv
<1>11. TrafficInv'
  <2>1. BlockMessage(b) \in MessagesOf(Travelling')
    BY <1>7 DEF BlockMessage, MessagesOf
  <2>2. net \in Channels(MessagesOf(Travelling'))
    BY <1>7, MessagesGrow DEF SyncInv, TrafficInv
  <2>3. net' \in Channels(MessagesOf(Travelling'))
    BY <1>1, <2>1, <2>2, BroadcastType
  <2>4. batch \in [Node -> Seq(Travelling')]
    BY <1>7, SeqGrows DEF SyncInv, TrafficInv
  <2>5. \A n \in Node : DOMAIN casting[n] \subseteq MessagesOf(Travelling')
    BY <1>7, MessagesGrow DEF SyncInv, TrafficInv
  <2> QED
    BY <1>1, <2>3, <2>4, <2>5 DEF SyncInv, TrafficInv
<1>12. Replicas!Grow
  BY <1>2, <1>5, <1>6 DEF Replicas!Grow, Replicas!Log, Replicas!BeginningOf, Log
<1> QED
  BY <1>8, <1>9, <1>10, <1>11, <1>12 DEF SyncInv

-----------------------------------------------------------------------------
(* The other steps *)

LEMMA ChainsKept == ASSUME UNCHANGED chain PROVE Travelling' = Travelling /\ (ChainsInv => ChainsInv')
  BY DEF Travelling, Genuine, Log, ChainsInv

LEMMA PoolsKept ==
  ASSUME UNCHANGED <<chain, poolVars, unsaved>>
  PROVE  (PoolsInv => PoolsInv') /\ (ExecutedInv => ExecutedInv')
<1>1. PoolsInv => PoolsInv'
  BY DEF PoolsInv, poolVars
<1>2. TxInOneBlock => TxInOneBlock'
  BY DEF TxInOneBlock, poolVars
<1>3. ExecutedInv => ExecutedInv'
  BY <1>2 DEF ExecutedInv, Remembered, Log, poolVars
<1> QED
  BY <1>1, <1>3

\* A message loop or a goroutine writes and takes messages.
LEMMA TrafficStep ==
  ASSUME TrafficInv, Travelling' = Travelling, net' \in Channels(MessagesOf(Travelling)),
         UNCHANGED <<peers, batch, casting, posted, lost>>
  PROVE  TrafficInv'
  BY DEF TrafficInv

LEMMA NetStep ==
  ASSUME SyncInv, net' \in Channels(MessagesOf(Travelling)),
         UNCHANGED <<chain, poolVars, peers, batch, casting, posted, lost, unsaved>>
  PROVE  SyncInv'
  BY ChainsKept, PoolsKept, TrafficStep DEF SyncInv

LEMMA AddPeerInv ==
  ASSUME SyncInv, NEW n \in Node, NEW m \in Node, AddPeer(n, m)
  PROVE  SyncInv'
<1>1. <<n, m>> \in Channel /\ n # m
  BY DEF AddPeer, Connected, Channel
<1>2. GetStatusMessage \in MessagesOf(Travelling)
  BY DEF GetStatusMessage, MessagesOf
<1>3. net' \in Channels(MessagesOf(Travelling))
  BY <1>1, <1>2, WriteType DEF SyncInv, TrafficInv, AddPeer
<1>4. TrafficInv'
  BY <1>1, <1>3, ChainsKept DEF SyncInv, TrafficInv, AddPeer
<1> QED
  BY <1>4, ChainsKept, PoolsKept DEF SyncInv, AddPeer

\* GetStatus, Status and GetBlocks are answered, or not, by one message.
LEMMA AnswerInv ==
  ASSUME SyncInv, NEW n \in Node, NEW m \in Node,
         ProcessGetStatus(n, m) \/ ProcessStatus(n, m) \/ ProcessGetBlocks(n, m)
  PROVE  SyncInv'
<1> DEFINE M == MessagesOf(Travelling)
<1>1. \A type : Receives(n, m, type) =>
        /\ <<n, m>> \in Channel /\ Incoming(n, m) \in M /\ Incoming(n, m).type = type
        /\ Taken(n, m) \in Channels(M)
  BY ReceiveType DEF SyncInv, TrafficInv
<1>2. Height(n) \in Nat /\ Height(n) = Len(chain[n]) - 1 /\ chain[n] \in Seq(NodeBlock)
  BY ChainFacts DEF SyncInv
<1>3. \A msg \in M : <<n, m>> \in Channel /\ Taken(n, m) \in Channels(M) =>
        [Taken(n, m) EXCEPT ![<<n, m>>] = Append(@, msg)] \in Channels(M)
  BY WriteType
<1>4. CASE ProcessGetStatus(n, m)
  <2>1. StatusMessage(Height(n)) \in M
    BY <1>2 DEF StatusMessage, MessagesOf
  <2> QED
    BY <1>1, <1>3, <1>4, <2>1, NetStep DEF ProcessGetStatus
<1>5. CASE ProcessStatus(n, m)
  <2>1. Receives(n, m, "status")
    BY <1>5 DEF ProcessStatus
  <2>2. Incoming(n, m).height \in Nat
    BY <1>1, <2>1 DEF MessagesOf
  <2>3. GetBlocksMessage(Height(n) + 1, Incoming(n, m).height) \in M
    BY <1>2, <2>2 DEF GetBlocksMessage, MessagesOf
  <2>4. net' \in Channels(M)
    BY <1>1, <1>3, <1>5, <2>1, <2>3 DEF ProcessStatus
  <2> QED
    BY <1>5, <2>4, NetStep DEF ProcessStatus
<1>6. CASE ProcessGetBlocks(n, m)
  <2> DEFINE from == Incoming(n, m).from
             end  == EndHeight(n, Incoming(n, m).to)
             blocks == SubSeq(chain[n], from + 1, end + 1)
  <2>1. Receives(n, m, "getBlocks")
    BY <1>6 DEF ProcessGetBlocks
  <2>2. from \in Nat /\ Incoming(n, m).to \in Nat
    BY <1>1, <2>1 DEF MessagesOf
  <2>3. end \in Nat /\ end + 1 <= Len(chain[n])
    BY <1>2, <2>2 DEF EndHeight
  <2> HIDE DEF from, end
  <2>4. ASSUME from <= end PROVE blocks \in Seq(Travelling)
    <3>1. \A i \in 1 .. Len(chain[n]) : chain[n][i] \in Travelling
      BY CopiesTravel DEF SyncInv
    <3>2. chain[n] \in Seq(Travelling)
      BY <1>2, <3>1
    <3> QED
      BY <2>2, <2>3, <2>4, <3>2
  <2>5. from <= end => BlocksMessage(blocks) \in M
    BY <2>4 DEF BlocksMessage, MessagesOf
  <2>6. net' \in Channels(M)
    BY <1>1, <1>3, <1>6, <2>1, <2>5 DEF ProcessGetBlocks, from, end
  <2> QED
    BY <1>6, <2>6, NetStep DEF ProcessGetBlocks
<1> QED
  BY <1>4, <1>5, <1>6

LEMMA BlockInv ==
  ASSUME SyncInv, NEW n \in Node, NEW m \in Node, ProcessBlock(n, m)
  PROVE  SyncInv' /\ (UNCHANGED chain \/ \E k \in Node \ {Validator} : Replicas!Copy(k))
<1> DEFINE M == MessagesOf(Travelling)
           b == Incoming(n, m).block
<1>1. Receives(n, m, "block") /\ UNCHANGED <<peers, batch, casting, posted, lost>>
  BY DEF ProcessBlock
<1>2. Incoming(n, m) \in M /\ Incoming(n, m).type = "block" /\ Taken(n, m) \in Channels(M)
  BY <1>1, ReceiveType DEF SyncInv, TrafficInv
<1>3. b \in Travelling
  BY <1>2 DEF MessagesOf
<1> HIDE DEF b
<1>4. CASE Addable(n, b)
  <2>1. PICK saved \in BOOLEAN :
          /\ Add(n, b, saved)
          /\ net' = IF saved THEN BroadcastOn(Taken(n, m), n, BlockMessage(b)) ELSE Taken(n, m)
    BY <1>4 DEF ProcessBlock, b
  <2>2. /\ ChainsInv' /\ PoolsInv' /\ ExecutedInv' /\ Travelling' = Travelling
        /\ Replicas!Copy(n) /\ n \in Node \ {Validator}
    BY <1>3, <1>4, <2>1, AddInv
  <2>3. BlockMessage(b) \in M
    BY <1>3 DEF BlockMessage, MessagesOf
  <2>4. net' \in Channels(M)
    BY <1>2, <2>1, <2>3, BroadcastType
  <2>5. TrafficInv'
    BY <1>1, <2>2, <2>4, TrafficStep DEF SyncInv
  <2> QED
    BY <2>2, <2>5 DEF SyncInv
<1>5. CASE ~Addable(n, b)
  BY <1>1, <1>2, <1>5, NetStep DEF ProcessBlock, b
<1> QED
  BY <1>4, <1>5

LEMMA BatchInv ==
  ASSUME SyncInv, NEW n \in Node, ProcessBatch(n)
  PROVE  SyncInv' /\ (UNCHANGED chain \/ \E k \in Node \ {Validator} : Replicas!Copy(k))
<1> DEFINE b == Head(batch[n])
<1>1. /\ batch[n] # <<>> /\ batch' = [batch EXCEPT ![n] = Tail(@)]
      /\ UNCHANGED <<peers, net, posted, lost>>
  BY DEF ProcessBatch
<1>2. batch \in [Node -> Seq(Travelling)] /\ batch[n] \in Seq(Travelling)
  BY DEF SyncInv, TrafficInv
<1>3. b \in Travelling /\ batch' \in [Node -> Seq(Travelling)]
  BY <1>1, <1>2
<1> HIDE DEF b
<1>4. CASE Addable(n, b)
  <2>1. PICK saved \in BOOLEAN :
          /\ Add(n, b, saved)
          /\ casting' = IF saved THEN [casting EXCEPT ![n] = BagAdd(@, BlockMessage(b))] ELSE casting
    BY <1>4 DEF ProcessBatch, b
  <2>2. /\ ChainsInv' /\ PoolsInv' /\ ExecutedInv' /\ Travelling' = Travelling
        /\ Replicas!Copy(n) /\ n \in Node \ {Validator}
    BY <1>3, <1>4, <2>1, AddInv
  <2>3. BlockMessage(b) \in MessagesOf(Travelling)
    BY <1>3 DEF BlockMessage, MessagesOf
  <2>4. DOMAIN BagAdd(casting[n], BlockMessage(b)) = DOMAIN casting[n] \cup {BlockMessage(b)}
    BY DEF BagAdd
  <2>5. DOMAIN casting' = Node /\ \A k \in Node : DOMAIN casting'[k] \subseteq MessagesOf(Travelling)
    BY <2>1, <2>3, <2>4 DEF SyncInv, TrafficInv
  <2>6. TrafficInv'
    BY <1>1, <1>3, <2>2, <2>5 DEF SyncInv, TrafficInv
  <2> QED
    BY <2>2, <2>6 DEF SyncInv
<1>5. CASE ~Addable(n, b)
  <2>1. UNCHANGED <<chain, poolVars, casting, unsaved>>
    BY <1>5 DEF ProcessBatch, b
  <2>2. TrafficInv'
    BY <1>1, <1>3, <2>1, ChainsKept DEF SyncInv, TrafficInv
  <2> QED
    BY <2>1, <2>2, ChainsKept, PoolsKept DEF SyncInv
<1> QED
  BY <1>4, <1>5

LEMMA BlocksInv ==
  ASSUME SyncInv, NEW n \in Node, NEW m \in Node, ProcessBlocks(n, m)
  PROVE  SyncInv'
<1>1. /\ Receives(n, m, "blocks") /\ net' = Taken(n, m)
      /\ batch' = [batch EXCEPT ![n] = Incoming(n, m).blocks]
      /\ UNCHANGED <<chain, poolVars, peers, casting, posted, lost, unsaved>>
  BY DEF ProcessBlocks
<1>2. /\ Incoming(n, m) \in MessagesOf(Travelling) /\ Incoming(n, m).type = "blocks"
      /\ Taken(n, m) \in Channels(MessagesOf(Travelling))
  BY <1>1, ReceiveType DEF SyncInv, TrafficInv
<1>3. Incoming(n, m).blocks \in Seq(Travelling)
  BY <1>2 DEF MessagesOf
<1>4. TrafficInv'
  BY <1>1, <1>2, <1>3, ChainsKept DEF SyncInv, TrafficInv
<1> QED
  BY <1>1, <1>4, ChainsKept, PoolsKept DEF SyncInv

\* A transaction comes in: what the pool drops for it has been seen to be dropped.
LEMMA AcceptPool ==
  ASSUME PoolsInv, ExecutedInv, NEW n \in Node, NEW tx \in Tx, NEW channels,
         Accept(n, tx, channels), tx \notin all[n]
  PROVE  PoolsInv' /\ ExecutedInv'
<1> DEFINE rest == all[n] \ Pruned(n)
<1>1. /\ all' = [all EXCEPT ![n] = rest \cup {tx}]
      /\ before' = [before EXCEPT ![n] = Within(@, rest) \cup (rest \X {tx})]
      /\ pending' = [pending EXCEPT ![n] = @ \cup {tx}]
      /\ pruned' = IF n = Validator THEN pruned \cup Pruned(n) ELSE pruned
      /\ UNCHANGED <<chain, unsaved>>
  BY DEF Accept
<1>2. /\ before[n] \in SUBSET (Tx \X Tx) /\ all[n] \in SUBSET Tx /\ Ordered(before[n], all[n])
      /\ all \in [Node -> SUBSET Tx] /\ before \in [Node -> SUBSET (Tx \X Tx)]
      /\ pending \in [Node -> SUBSET Tx] /\ Pruned(n) \in SUBSET all[n]
  BY DEF PoolsInv, Pruned
<1>3. rest \in SUBSET all[n] /\ tx \notin rest /\ rest \in SUBSET Tx
  BY <1>2
<1>4. all[n] \subseteq rest \cup Pruned(n)
  OBVIOUS
<1> HIDE DEF rest
<1>5. Within(before[n], rest) \in SUBSET (Tx \X Tx) /\ Ordered(Within(before[n], rest), rest)
  BY <1>2, <1>3, WithinOrdered
<1>6. /\ Within(before[n], rest) \cup (rest \X {tx}) \in SUBSET (Tx \X Tx)
      /\ Ordered(Within(before[n], rest) \cup (rest \X {tx}), rest \cup {tx})
  BY <1>3, <1>5, LastOrdered
<1>7. /\ all' \in [Node -> SUBSET Tx] /\ before' \in [Node -> SUBSET (Tx \X Tx)]
      /\ pending' \in [Node -> SUBSET Tx] /\ pruned' \subseteq Tx
  BY <1>1, <1>2, <1>3, <1>6 DEF PoolsInv
<1>8. \A k \in Node : Ordered(before'[k], all'[k])
  <2> TAKE k \in Node
  <2>1. CASE k = n
    BY <1>1, <1>2, <1>6, <2>1
  <2>2. CASE k # n
    BY <1>1, <1>2, <2>2 DEF PoolsInv
  <2> QED
    BY <2>1, <2>2
<1>9. PoolsInv'
  BY <1>1, <1>7, <1>8 DEF PoolsInv
<1>10. TxInOneBlock'
  BY <1>1 DEF ExecutedInv, TxInOneBlock
<1>11. ASSUME NEW t, Remembered(t), n # Validator \/ t # tx
       PROVE  t \in pruned' \/ Remembered(t)'
  <2>1. CASE n = Validator
    BY <1>1, <1>2, <1>4, <1>11, <2>1 DEF Remembered
  <2>2. CASE n # Validator
    BY <1>1, <1>2, <1>11, <2>2 DEF Remembered
  <2> QED
    BY <2>1, <2>2
<1>12. \A i \in DOMAIN Log : \A t \in Log[i].txs :
         t \in pruned' \/ <<Validator, i>> \in unsaved \/ Remembered(t)'
  <2> TAKE i \in DOMAIN Log
  <2> TAKE t \in Log[i].txs
  <2>1. t \in pruned \/ <<Validator, i>> \in unsaved \/ Remembered(t)
    BY DEF ExecutedInv
  <2>2. pruned \subseteq pruned'
    BY <1>1
  <2>3. CASE Remembered(t)
    <3>1. n # Validator \/ t # tx
      BY <2>3 DEF Remembered
    <3> QED
      BY <1>11, <2>3, <3>1
  <2> QED
    BY <2>1, <2>2, <2>3
<1>13. pending'[Validator] \subseteq all'[Validator] \cup pruned'
  <2>1. CASE n = Validator
    BY <1>1, <1>2, <1>4, <2>1 DEF ExecutedInv
  <2>2. CASE n # Validator
    BY <1>1, <1>2, <2>2 DEF ExecutedInv
  <2> QED
    BY <2>1, <2>2
<1>14. ExecutedInv'
  <2>1. Log' = Log
    BY <1>1 DEF Log
  <2> QED
    BY <1>1, <1>10, <1>12, <1>13, <2>1 DEF ExecutedInv
<1> QED
  BY <1>9, <1>14

LEMMA AcceptInv ==
  ASSUME SyncInv, NEW n \in Node, NEW tx \in Tx, NEW channels \in Channels(MessagesOf(Travelling)),
         Accept(n, tx, channels), posted' \in 0 .. MaxOutside
  PROVE  SyncInv'
<1>1. net' = channels /\ UNCHANGED <<chain, peers, batch, lost, unsaved>>
  BY DEF Accept
<1>2. DOMAIN casting' = Node /\ \A k \in Node : DOMAIN casting'[k] \subseteq MessagesOf(Travelling)
  <2>1. CASE tx \in all[n]
    BY <2>1 DEF Accept, SyncInv, TrafficInv
  <2>2. CASE tx \notin all[n]
    <3>1. casting' = [casting EXCEPT ![n] = BagAdd(@, TxMessage(tx))]
      BY <2>2 DEF Accept
    <3>2. TxMessage(tx) \in MessagesOf(Travelling)
      BY DEF TxMessage, MessagesOf
    <3>3. DOMAIN BagAdd(casting[n], TxMessage(tx)) = DOMAIN casting[n] \cup {TxMessage(tx)}
      BY DEF BagAdd
    <3> QED
      BY <3>1, <3>2, <3>3 DEF SyncInv, TrafficInv
  <2> QED
    BY <2>1, <2>2
<1>3. TrafficInv'
  BY <1>1, <1>2, ChainsKept DEF SyncInv, TrafficInv
<1>4. PoolsInv' /\ ExecutedInv'
  <2>1. CASE tx \in all[n]
    <3>1. UNCHANGED <<chain, poolVars, unsaved>>
      BY <1>1, <2>1 DEF Accept
    <3> QED
      BY <3>1, PoolsKept DEF SyncInv
  <2>2. CASE tx \notin all[n]
    BY <2>2, AcceptPool DEF SyncInv
  <2> QED
    BY <2>1, <2>2
<1> QED
  BY <1>1, <1>3, <1>4, ChainsKept DEF SyncInv

LEMMA BroadcastInv ==
  ASSUME SyncInv, NEW n \in Node, NEW msg \in DOMAIN casting[n], Broadcast(n, msg)
  PROVE  SyncInv'
<1>1. /\ net' = BroadcastOn(net, n, msg) /\ casting' = [casting EXCEPT ![n] = BagRemove(@, msg)]
      /\ UNCHANGED <<chain, poolVars, peers, batch, posted, lost, unsaved>>
  BY DEF Broadcast
<1>2. msg \in MessagesOf(Travelling)
  BY DEF SyncInv, TrafficInv
<1>3. net' \in Channels(MessagesOf(Travelling))
  BY <1>1, <1>2, BroadcastType DEF SyncInv, TrafficInv
<1>4. DOMAIN BagRemove(casting[n], msg) \subseteq DOMAIN casting[n]
  BY DEF BagRemove
<1>5. DOMAIN casting' = Node /\ \A k \in Node : DOMAIN casting'[k] \subseteq MessagesOf(Travelling)
  BY <1>1, <1>4 DEF SyncInv, TrafficInv
<1>6. TrafficInv'
  BY <1>1, <1>3, <1>5, ChainsKept DEF SyncInv, TrafficInv
<1> QED
  BY <1>1, <1>6, ChainsKept, PoolsKept DEF SyncInv

LEMMA LoseInv ==
  ASSUME SyncInv, NEW c \in Channel, NEW i \in DOMAIN net[c], Lose(c, i)
  PROVE  SyncInv'
<1>1. net' \in Channels(MessagesOf(Travelling))
  <2>1. \A b \in Travelling : Spoil(b) \in Travelling
    BY TravellingFacts DEF SyncInv
  <2> QED
    BY <2>1, LoseType DEF SyncInv, TrafficInv
<1>2. lost' \in 0 .. MaxOutside /\ UNCHANGED <<chain, poolVars, peers, batch, casting, posted, unsaved>>
  BY DEF Lose, SyncInv, TrafficInv
<1>3. TrafficInv'
  BY <1>1, <1>2, ChainsKept DEF SyncInv, TrafficInv
<1> QED
  BY <1>2, <1>3, ChainsKept, PoolsKept DEF SyncInv

-----------------------------------------------------------------------------
(* Every step *)

(***************************************************************************)
(* Every step keeps the invariant, and is a step of Replication or leaves  *)
(* all chains alone.                                                       *)
(***************************************************************************)
LEMMA NextSyncInv == SyncInv /\ [SyncNext]_syncVars => SyncInv' /\ [Replicas!RNext]_chain
<1> SUFFICES ASSUME SyncInv, [SyncNext]_syncVars
             PROVE  SyncInv' /\ (Replicas!RNext \/ UNCHANGED chain)
  OBVIOUS
<1>1. CASE UNCHANGED syncVars
  <2>1. UNCHANGED <<chain, poolVars, peers, net, batch, casting, posted, lost, unsaved>>
    BY <1>1 DEF syncVars
  <2> QED
    BY <2>1, NetStep DEF SyncInv, TrafficInv
<1>2. ASSUME NEW n \in Node, NEW m \in Node, AddPeer(n, m)
      PROVE  SyncInv' /\ UNCHANGED chain
  BY <1>2, AddPeerInv DEF AddPeer
<1>3. ASSUME NEW n \in Node, NEW m \in Node, Loop(n, m)
      PROVE  SyncInv' /\ (Replicas!RNext \/ UNCHANGED chain)
  <2>1. CASE ProcessGetStatus(n, m) \/ ProcessStatus(n, m) \/ ProcessGetBlocks(n, m)
    BY <2>1, AnswerInv DEF ProcessGetStatus, ProcessStatus, ProcessGetBlocks
  <2>2. CASE ProcessBlock(n, m)
    BY <2>2, BlockInv DEF Replicas!RNext
  <2>3. CASE ProcessBlocks(n, m)
    BY <2>3, BlocksInv DEF ProcessBlocks
  <2>4. CASE ProcessTransaction(n, m)
    <3>1. Receives(n, m, "tx") /\ Accept(n, Incoming(n, m).tx, Taken(n, m))
          /\ posted' \in 0 .. MaxOutside
      BY <2>4 DEF ProcessTransaction, SyncInv, TrafficInv
    <3>2. /\ Incoming(n, m) \in MessagesOf(Travelling) /\ Incoming(n, m).type = "tx"
          /\ Taken(n, m) \in Channels(MessagesOf(Travelling))
      BY <3>1, ReceiveType DEF SyncInv, TrafficInv
    <3>3. Incoming(n, m).tx \in Tx
      BY <3>2 DEF MessagesOf
    <3> QED
      BY <3>1, <3>2, <3>3, AcceptInv DEF Accept
  <2> QED
    BY <1>3, <2>1, <2>2, <2>3, <2>4 DEF Loop
<1>4. ASSUME NEW n \in Node, ProcessBatch(n)
      PROVE  SyncInv' /\ (Replicas!RNext \/ UNCHANGED chain)
  BY <1>4, BatchInv DEF Replicas!RNext
<1>5. ASSUME NEW n \in Node, NEW msg \in DOMAIN casting[n], Broadcast(n, msg)
      PROVE  SyncInv' /\ UNCHANGED chain
  BY <1>5, BroadcastInv DEF Broadcast
<1>6. ASSUME NEW n \in Node, NEW tx \in Tx, Post(n, tx)
      PROVE  SyncInv' /\ UNCHANGED chain
  <2>1. Accept(n, tx, net) /\ posted' \in 0 .. MaxOutside /\ net \in Channels(MessagesOf(Travelling))
    BY <1>6 DEF Post, SyncInv, TrafficInv
  <2> QED
    BY <2>1, AcceptInv DEF Accept
<1>7. ASSUME NEW spoilt \in BOOLEAN, NEW saved \in BOOLEAN, CreateNewBlock(spoilt, saved)
      PROVE  SyncInv' /\ Replicas!RNext
  BY <1>7, CreateInv DEF Replicas!RNext
<1>8. ASSUME NEW c \in Channel, NEW i \in DOMAIN net[c], Lose(c, i)
      PROVE  SyncInv' /\ UNCHANGED chain
  BY <1>8, LoseInv DEF Lose
<1> QED
  BY <1>1, <1>2, <1>3, <1>4, <1>5, <1>6, <1>7, <1>8 DEF SyncNext

LEMMA InvTypes == SyncInv => SyncTypeOK
<1> SUFFICES ASSUME SyncInv PROVE SyncTypeOK
  OBVIOUS
<1>1. Travelling \subseteq NodeBlock
  BY TravellingFacts DEF SyncInv
<1>2. MessagesOf(NodeBlock) = Message
  BY DEF MessagesOf, Message
<1>3. net \in [Channel -> Seq(Message)]
  BY <1>1, <1>2, MessagesGrow DEF SyncInv, TrafficInv, Channels
<1>4. batch \in [Node -> Seq(NodeBlock)]
  BY <1>1, SeqGrows DEF SyncInv, TrafficInv
<1>5. \A n \in Node : DOMAIN casting[n] \subseteq Message
  BY <1>1, <1>2, MessagesGrow DEF SyncInv, TrafficInv
<1> QED
  BY <1>3, <1>4, <1>5 DEF SyncInv, ChainsInv, PoolsInv, TrafficInv, SyncTypeOK

\* The types of everything in the network, and every pool in one order although the limit and
\* blocks take transactions out of it.
THEOREM SyncTypeCorrect == SyncSpec => []SyncTypeOK
  BY InitSyncInv, NextSyncInv, InvTypes, PTL DEF SyncSpec

(***************************************************************************)
(* A transaction that gossip or a client brings back comes into a second   *)
(* block only after a failed Put or after the validator's pool has dropped *)
(* it: these are the only gaps in the pool's memory.                       *)
(***************************************************************************)
THEOREM TxsAreInOneBlock == SyncSpec => []TxInOneBlock
<1>1. SyncInv => TxInOneBlock
  BY DEF SyncInv, ExecutedInv
<1> QED
  BY <1>1, InitSyncInv, NextSyncInv, PTL DEF SyncSpec

(***************************************************************************)
(* The network implements Replication: each chain is a beginning of the    *)
(* validator's and only grows, whatever connections lose, repeat, reorder  *)
(* or garble and whichever blocks cannot be saved.                         *)
(***************************************************************************)
THEOREM NetworkReplicates == SyncSpec => ChainsAreCopies
<1>1. SyncInit => Replicas!RInit
  <2> SUFFICES ASSUME SyncInit PROVE Replicas!RInit
    OBVIOUS
  <2>1. \A n \in Node : chain[n] = <<GenesisOfAll>>
    BY DEF SyncInit
  <2>2. chain[Validator] = <<GenesisOfAll>> /\ Len(chain[Validator]) = 1
    <3>1. Len(<<GenesisOfAll>>) = 1
      OBVIOUS
    <3>2. chain[Validator] = <<GenesisOfAll>>
      BY <2>1, SyncAssumption
    <3> QED
      BY <3>1, <3>2
  <2> QED
    BY <2>1, <2>2 DEF Replicas!RInit, Replicas!Log
<1>2. Replicas!RSpec <=> Replicas!RInit /\ [][Replicas!RNext]_chain
  BY DEF Replicas!RSpec
<1> QED
  BY <1>1, <1>2, InitSyncInv, NextSyncInv, PTL DEF SyncSpec, ChainsAreCopies
=============================================================================
