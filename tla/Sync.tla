-------------------------------- MODULE Sync --------------------------------
(***************************************************************************)
(* A network of servers (network/server.go, network/message.go) in which   *)
(* one is the validator: how blocks and transactions travel.               *)
(*                                                                         *)
(* Every node has a chain, a pool and a message loop; the validator has a  *)
(* validator loop, too.  A connection is one sequence of messages in each  *)
(* direction.  A node asks for the height of the other side once, when it  *)
(* adds the peer, and fetches what it misses; later blocks are broadcast   *)
(* as they are added.  AddBlock is one step here, after which the block is *)
(* in the chain and may or may not be in the file: its own steps are the   *)
(* subject of Blockchain, and only one goroutine of the network builds     *)
(* blocks.  A transaction is the hash it carries.                          *)
(***************************************************************************)
EXTENDS Naturals, SequencesExt, BagsExt

CONSTANTS
  Node,
  Validator,  \* the node with a private key
  Links,      \* pairs of nodes of which the first dials the second
  ApiNodes,   \* the nodes with an API server
  Tx,         \* transactions that clients post
  MaxLength,  \* of a pool: 1000 in the code
  MaxHeight,  \* bound: the height at which the validator stops
  MaxFailed,  \* bound: how many blocks cannot be written to a file
  MaxOutside  \* bound: how often clients post a transaction and connections lose a message, in all

ASSUME SyncAssumption ==
  /\ Validator \in Node
  /\ Links \subseteq {l \in Node \X Node : l[1] # l[2]}
  /\ ApiNodes \subseteq Node
  /\ MaxLength \in Nat \ {0}
  /\ MaxHeight \in Nat
  /\ MaxFailed \in Nat
  /\ MaxOutside \in Nat

VARIABLES
  chain,    \* of each node; a block of height h has index h + 1
  all,      \* what the pool of each node remembers
  before,   \* pairs in all[n] of which the first has been there longer
  pending,  \* what is to go into the next block
  peers,    \* peerMap
  net,      \* net[<<m, n>>]: what m has written to n and n has not read
  batch,    \* blocks of a BlocksMessage that the message loop has still to process
  casting,  \* messages that goroutines of the node have still to broadcast
  posted,   \* how many transactions clients have posted
  lost,     \* how many messages have been lost or garbled
  unsaved,  \* <<n, i>>: the i-th block of n is not in its file, history
  pruned    \* what the validator's pool has dropped at its limit, history

poolVars == <<all, before, pending, pruned>>

syncVars == <<chain, poolVars, peers, net, batch, casting, posted, lost, unsaved>>

(***************************************************************************)
(* "id" stands for the hash of the header.  A block is "spoilt" when a     *)
(* transaction of it failed: AddBlock has removed it, and what the node    *)
(* passes on no longer has the hash its header states; or when part of it  *)
(* has been written over.  Verify refuses it.                              *)
(***************************************************************************)
NodeBlock == [id : Nat, height : Nat, prev : Nat, txs : SUBSET Tx, spoilt : BOOLEAN]

GenesisOfAll == [id |-> 0, height |-> 0, prev |-> 0, txs |-> {}, spoilt |-> FALSE]

Message ==
  [type : {"getStatus"}]
    \cup [type : {"status"}, height : Nat]
    \cup [type : {"getBlocks"}, from : Nat, to : Nat]
    \cup [type : {"blocks"}, blocks : Seq(NodeBlock)]
    \cup [type : {"block"}, block : NodeBlock]
    \cup [type : {"tx"}, tx : Tx]

GetStatusMessage == [type |-> "getStatus"]
StatusMessage(h) == [type |-> "status", height |-> h]
GetBlocksMessage(from, to) == [type |-> "getBlocks", from |-> from, to |-> to]
BlocksMessage(bs) == [type |-> "blocks", blocks |-> bs]
BlockMessage(b) == [type |-> "block", block |-> b]
TxMessage(tx) == [type |-> "tx", tx |-> tx]

Connected == Links \cup {<<l[2], l[1]>> : l \in Links}

Channel == {c \in Node \X Node : c[1] # c[2]}

\* The pairs of a pool whose members are all in S.
Within(pairs, S) == {p \in pairs : p[1] \in S /\ p[2] \in S}

\* The pairs put the members of S into an order.
Ordered(pairs, S) ==
  /\ \A p \in pairs : p[1] \in S /\ p[2] \in S
  /\ \A t, u \in S : t # u => (<<t, u>> \in pairs <=> <<u, t>> \notin pairs)

\* Every variable keeps its type, and a pool has its transactions in one order, that of arrival.
SyncTypeOK ==
  /\ chain \in [Node -> Seq(NodeBlock) \ {<<>>}]
  /\ all \in [Node -> SUBSET Tx]
  /\ before \in [Node -> SUBSET (Tx \X Tx)]
  /\ \A n \in Node : Ordered(before[n], all[n])
  /\ pending \in [Node -> SUBSET Tx]
  /\ peers \in [Node -> SUBSET Node]
  /\ net \in [Channel -> Seq(Message)]
  /\ batch \in [Node -> Seq(NodeBlock)]
  /\ DOMAIN casting = Node
  /\ \A n \in Node : DOMAIN casting[n] \subseteq Message
  /\ posted \in 0 .. MaxOutside
  /\ lost \in 0 .. MaxOutside
  /\ unsaved \subseteq Node \X Nat
  /\ pruned \subseteq Tx

SyncInit ==
  /\ chain = [n \in Node |-> <<GenesisOfAll>>]
  /\ all = [n \in Node |-> {}]
  /\ before = [n \in Node |-> {}]
  /\ pending = [n \in Node |-> {}]
  /\ peers = [n \in Node |-> {}]
  /\ net = [c \in Channel |-> <<>>]
  /\ batch = [n \in Node |-> <<>>]
  /\ casting = [n \in Node |-> EmptyBag]
  /\ posted = 0
  /\ lost = 0
  /\ unsaved = {}
  /\ pruned = {}

Height(n) == Len(chain[n]) - 1

\* What the channels hold after n has written msg to all its peers.
BroadcastOn(channels, n, msg) ==
  [c \in Channel |-> IF c[1] = n /\ c[2] \in peers[n] THEN Append(channels[c], msg) ELSE channels[c]]

\* The message loop of n takes the next message that m has sent.
Incoming(n, m) == Head(net[<<m, n>>])

Taken(n, m) == [net EXCEPT ![<<m, n>>] = Tail(@)]

Receives(n, m, type) ==
  /\ batch[n] = <<>>
  /\ m \in peers[n]
  /\ net[<<m, n>>] # <<>>
  /\ Incoming(n, m).type = type

-----------------------------------------------------------------------------
(* Connections *)

\* Start takes a connection, dialled or accepted, from peerCh and asks the other side for its status.
AddPeer(n, m) ==
  /\ <<n, m>> \in Connected
  /\ batch[n] = <<>>
  /\ m \notin peers[n]
  /\ peers' = [peers EXCEPT ![n] = @ \cup {m}]
  /\ net' = [net EXCEPT ![<<n, m>>] = Append(@, GetStatusMessage)]
  /\ UNCHANGED <<chain, poolVars, batch, casting, posted, lost, unsaved>>

\* A block that is partly another's: its signature or its data hash does not verify.
Spoil(b) == [b EXCEPT !.spoilt = TRUE]

(***************************************************************************)
(* What a message can be decoded as when a part of it has been written     *)
(* over: numbers are any, blocks are refused by Verify, a transaction is   *)
(* the one whose hash is left in it.  With the type byte written over, any *)
(* message can pass for the one that has no content.                       *)
(***************************************************************************)
Garbled(msg) ==
  {GetStatusMessage} \cup
    CASE msg.type = "getStatus" -> {}
      [] msg.type = "status" -> {StatusMessage(h) : h \in 0 .. MaxHeight}
      [] msg.type = "getBlocks" -> {GetBlocksMessage(h[1], h[2]) : h \in (0 .. MaxHeight) \X (0 .. MaxHeight)}
      [] msg.type = "blocks" ->
           {BlocksMessage([i \in DOMAIN msg.blocks |->
                             IF i \in bad THEN Spoil(msg.blocks[i]) ELSE msg.blocks[i]]) :
              bad \in SUBSET DOMAIN msg.blocks}
      [] msg.type = "block" -> {BlockMessage(Spoil(msg.block))}
      [] msg.type = "tx" -> {msg}

(***************************************************************************)
(* What the framing of messages does to them (one Read of at most 4096     *)
(* bytes is one message, the buffer is read while it is filled again): a   *)
(* message disappears, or its successor or a mixture of the two is decoded *)
(* in its place.                                                           *)
(***************************************************************************)
Lose(c, i) ==
  /\ posted + lost < MaxOutside
  /\ lost' = lost + 1
  /\ \/ net' = [net EXCEPT ![c] = RemoveAt(@, i)]
     \/ /\ i < Len(net[c])
        /\ \E msg \in {net[c][i + 1]} \cup Garbled(net[c][i]) :
             net' = [net EXCEPT ![c] = [@ EXCEPT ![i] = msg]]
  /\ UNCHANGED <<chain, poolVars, peers, batch, casting, posted, unsaved>>

-----------------------------------------------------------------------------
(* Synchronisation *)

ProcessGetStatus(n, m) ==
  /\ Receives(n, m, "getStatus")
  /\ net' = [Taken(n, m) EXCEPT ![<<n, m>>] = Append(@, StatusMessage(Height(n)))]
  /\ UNCHANGED <<chain, poolVars, peers, batch, casting, posted, lost, unsaved>>

ProcessStatus(n, m) ==
  /\ Receives(n, m, "status")
  /\ LET theirs == Incoming(n, m).height
     IN  net' = IF Height(n) < theirs
                THEN [Taken(n, m) EXCEPT ![<<n, m>>] =
                        Append(@, GetBlocksMessage(Height(n) + 1, theirs))]
                ELSE Taken(n, m)
  /\ UNCHANGED <<chain, poolVars, peers, batch, casting, posted, lost, unsaved>>

\* Faulty variant of EndHeight, see the README.
EndHeightExcluded(n, to) == IF to = 0 \/ to > Height(n) THEN Height(n) ELSE to - 1

\* The last height that is sent for a request up to "to"; 0 asks for all there is.
EndHeight(n, to) == IF to = 0 \/ to > Height(n) THEN Height(n) ELSE to

ProcessGetBlocks(n, m) ==
  /\ Receives(n, m, "getBlocks")
  /\ LET from == Incoming(n, m).from
         end  == EndHeight(n, Incoming(n, m).to)
     IN  net' = IF from <= end
                THEN [Taken(n, m) EXCEPT ![<<n, m>>] =
                        Append(@, BlocksMessage(SubSeq(chain[n], from + 1, end + 1)))]
                ELSE Taken(n, m)
  /\ UNCHANGED <<chain, poolVars, peers, batch, casting, posted, lost, unsaved>>

-----------------------------------------------------------------------------
(* Blocks *)

Known(n, b) == b.height <= Height(n)

\* Faulty variant of Valid, see the README.
ValidAbove(n, b) == ~b.spoilt

Valid(n, b) ==
  /\ b.height <= Height(n) + 1
  /\ chain[n][b.height].id = b.prev
  /\ ~b.spoilt

Addable(n, b) == ~Known(n, b) /\ Valid(n, b)

\* The chain of n gets b.  If Put fails, AddBlock returns its error when the block is in the chain.
AppendBlock(n, b, saved) ==
  /\ chain' = [chain EXCEPT ![n] = Append(@, b)]
  /\ \/ saved /\ UNCHANGED unsaved
     \/ /\ ~saved
        /\ Cardinality(unsaved) < MaxFailed
        /\ unsaved' = unsaved \cup {<<n, Len(chain[n]) + 1>>}

\* The transactions of S leave the pool of n.
RemoveTxs(n, S) ==
  /\ all' = [all EXCEPT ![n] = @ \ S]
  /\ before' = [before EXCEPT ![n] = Within(@, all[n] \ S)]
  /\ pending' = [pending EXCEPT ![n] = @ \ S]
  /\ UNCHANGED pruned

\* The transactions of a block leave the pool, unless AddBlock has returned an error.
Add(n, b, saved) ==
  /\ AppendBlock(n, b, saved)
  /\ IF saved THEN RemoveTxs(n, b.txs) ELSE UNCHANGED poolVars

\* Faulty variant of ProcessBlock, see the README.
ProcessBlockRemovingFirst(n, m) ==
  /\ Receives(n, m, "block")
  /\ LET b == Incoming(n, m).block
     IN  IF Addable(n, b)
         THEN Add(n, b, TRUE) /\ net' = BroadcastOn(Taken(n, m), n, BlockMessage(b))
         ELSE net' = Taken(n, m) /\ RemoveTxs(n, b.txs) /\ UNCHANGED <<chain, unsaved>>
  /\ UNCHANGED <<peers, batch, casting, posted, lost>>

\* A block that is added is passed on to all peers, the sender included.
ProcessBlock(n, m) ==
  /\ Receives(n, m, "block")
  /\ LET b == Incoming(n, m).block
     IN  IF Addable(n, b)
         THEN \E saved \in BOOLEAN :
                /\ Add(n, b, saved)
                /\ net' = IF saved THEN BroadcastOn(Taken(n, m), n, BlockMessage(b)) ELSE Taken(n, m)
         ELSE net' = Taken(n, m) /\ UNCHANGED <<chain, poolVars, unsaved>>
  /\ UNCHANGED <<peers, batch, casting, posted, lost>>

\* processBlocksMessage starts: the message loop is busy until the batch is empty.
ProcessBlocks(n, m) ==
  /\ Receives(n, m, "blocks")
  /\ net' = Taken(n, m)
  /\ batch' = [batch EXCEPT ![n] = Incoming(n, m).blocks]
  /\ UNCHANGED <<chain, poolVars, peers, casting, posted, lost, unsaved>>

\* One round of its loop.  A block that is refused does not end it; one that is added and saved is
\* broadcast by a goroutine of its own.
ProcessBatch(n) ==
  /\ batch[n] # <<>>
  /\ batch' = [batch EXCEPT ![n] = Tail(@)]
  /\ LET b == Head(batch[n])
     IN  IF Addable(n, b)
         THEN \E saved \in BOOLEAN :
                /\ Add(n, b, saved)
                /\ casting' = IF saved THEN [casting EXCEPT ![n] = BagAdd(@, BlockMessage(b))] ELSE casting
         ELSE UNCHANGED <<chain, poolVars, casting, unsaved>>
  /\ UNCHANGED <<peers, net, posted, lost>>

(***************************************************************************)
(* createNewBlock: everything pending goes into the block; a transaction   *)
(* of it may fail.  When Put fails the block is in the chain, but nothing  *)
(* is cleared and nothing broadcast: the next block repeats it.            *)
(***************************************************************************)
CreateNewBlock(spoilt, saved) ==
  LET b == [id |-> Height(Validator) + 1, height |-> Height(Validator) + 1,
            prev |-> chain[Validator][Height(Validator) + 1].id,
            txs |-> pending[Validator], spoilt |-> spoilt]
  IN  /\ Height(Validator) < MaxHeight
      /\ spoilt => pending[Validator] # {}
      /\ AppendBlock(Validator, b, saved)
      /\ pending' = IF saved THEN [pending EXCEPT ![Validator] = {}] ELSE pending
      /\ net' = IF saved THEN BroadcastOn(net, Validator, BlockMessage(b)) ELSE net
      /\ UNCHANGED <<all, before, pruned, peers, batch, casting, posted, lost>>

-----------------------------------------------------------------------------
(* Transactions *)

\* What the pool of n drops, of "all" only, when it takes one more: the oldest at the limit.
Pruned(n) ==
  {t \in all[n] : Cardinality(all[n]) = MaxLength /\ \A u \in all[n] : <<u, t>> \notin before[n]}

\* Faulty variant of Accept, see the README.
AcceptKeepingPlace(n, tx, channels) ==
  /\ net' = channels
  /\ IF tx \in all[n]
     THEN UNCHANGED <<poolVars, casting>>
     ELSE /\ all' = [all EXCEPT ![n] = (@ \ Pruned(n)) \cup {tx}]
          /\ before' = [before EXCEPT ![n] = @ \cup (all[n] \X {tx})]
          /\ pending' = [pending EXCEPT ![n] = @ \cup {tx}]
          /\ pruned' = IF n = Validator THEN pruned \cup Pruned(n) ELSE pruned
          /\ casting' = [casting EXCEPT ![n] = BagAdd(@, TxMessage(tx))]
  /\ UNCHANGED <<chain, peers, batch, lost, unsaved>>

\* processTransaction, after the message has been taken from "channels".
Accept(n, tx, channels) ==
  /\ net' = channels
  /\ IF tx \in all[n]
     THEN UNCHANGED <<poolVars, casting>>
     ELSE LET rest == all[n] \ Pruned(n)
          IN  /\ all' = [all EXCEPT ![n] = rest \cup {tx}]
              /\ before' = [before EXCEPT ![n] = Within(@, rest) \cup (rest \X {tx})]
              /\ pending' = [pending EXCEPT ![n] = @ \cup {tx}]
              /\ pruned' = IF n = Validator THEN pruned \cup Pruned(n) ELSE pruned
              /\ casting' = [casting EXCEPT ![n] = BagAdd(@, TxMessage(tx))]
  /\ UNCHANGED <<chain, peers, batch, lost, unsaved>>

\* A client posts a transaction, possibly again.
Post(n, tx) ==
  /\ n \in ApiNodes
  /\ batch[n] = <<>>
  /\ tx \notin all[n]
  /\ posted + lost < MaxOutside
  /\ posted' = posted + 1
  /\ Accept(n, tx, net)

ProcessTransaction(n, m) ==
  /\ Receives(n, m, "tx")
  /\ Accept(n, Incoming(n, m).tx, Taken(n, m))
  /\ UNCHANGED posted

\* broadcastTx and broadcastBlock in goroutines of their own: in any order.
Broadcast(n, msg) ==
  /\ BagIn(msg, casting[n])
  /\ net' = BroadcastOn(net, n, msg)
  /\ casting' = [casting EXCEPT ![n] = BagRemove(@, msg)]
  /\ UNCHANGED <<chain, poolVars, peers, batch, posted, lost, unsaved>>

-----------------------------------------------------------------------------
Loop(n, m) ==
  \/ ProcessGetStatus(n, m) \/ ProcessStatus(n, m) \/ ProcessGetBlocks(n, m)
  \/ ProcessBlock(n, m) \/ ProcessBlocks(n, m) \/ ProcessTransaction(n, m)

SyncNext ==
  \/ \E n, m \in Node : AddPeer(n, m) \/ Loop(n, m)
  \/ \E n \in Node : ProcessBatch(n)
  \/ \E n \in Node : \E msg \in DOMAIN casting[n] : Broadcast(n, msg)
  \/ \E n \in Node, tx \in Tx : Post(n, tx)
  \/ \E spoilt, saved \in BOOLEAN : CreateNewBlock(spoilt, saved)
  \/ \E c \in Channel : \E i \in DOMAIN net[c] : Lose(c, i)

SyncSpec == SyncInit /\ [][SyncNext]_syncVars

(***************************************************************************)
(* Goroutines are scheduled and TCP delivers: a message loop takes every   *)
(* message of every peer in the end, a connection that one side has is     *)
(* added by the other side as well, and a broadcast goroutine runs.        *)
(* Nobody need dial, post or build.                                        *)
(***************************************************************************)
SyncFairSpec ==
  /\ SyncSpec
  /\ \A c \in Connected :
       /\ WF_syncVars(c[1] \in peers[c[2]] /\ AddPeer(c[1], c[2]))
       /\ SF_syncVars(Loop(c[1], c[2]))
  /\ \A n \in Node :
       /\ WF_syncVars(ProcessBatch(n))
       /\ WF_syncVars(\E msg \in DOMAIN casting[n] : Broadcast(n, msg))

-----------------------------------------------------------------------------
(* Properties *)

Replicas == INSTANCE Replication WITH copy <- chain

(***************************************************************************)
(* Every node's chain is a beginning of the validator's and only grows,    *)
(* whatever is lost, repeated or reordered: each block is checked against  *)
(* the height and the hash it names when it is added.                      *)
(***************************************************************************)
ChainsAreCopies == Replicas!RSpec

(***************************************************************************)
(* A transaction is in a second block only if the first could not be       *)
(* saved, so that its transactions stayed pending, or if the validator's   *)
(* pool has dropped it at its limit: otherwise the pool still remembers    *)
(* what gossip and clients bring back after a block has executed it.       *)
(***************************************************************************)
TxInOneBlock ==
  \A i, j \in DOMAIN chain[Validator] : i < j =>
    \A tx \in chain[Validator][i].txs \cap chain[Validator][j].txs :
      tx \in pruned \/ <<Validator, i>> \in unsaved

\* A block at or below height h that no peer can accept.
SpoiltUpTo(h) == \E i \in DOMAIN chain[Validator] : i <= h + 1 /\ chain[Validator][i].spoilt

(***************************************************************************)
(* A node that asks a peer for its status comes to have all the blocks the *)
(* peer has at that moment, unless a message is lost or a block is spoilt. *)
(* It need not get the later ones: one that is broadcast before its        *)
(* predecessor has been fetched is refused, and nobody asks again.         *)
(***************************************************************************)
CatchesUp ==
  \A c \in Connected : \A h \in 1 .. MaxHeight : c[1] # Validator =>
    ((GetStatusMessage \in Range(net[c]) /\ Height(c[2]) >= h)
       ~> (Height(c[1]) >= h \/ lost > 0 \/ SpoiltUpTo(h)))
=============================================================================
