------------------------------- MODULE TxPool -------------------------------
(***************************************************************************)
(* The mempool of a server (network/txpool.go) on top of the generic list  *)
(* of types/list.go.                                                       *)
(*                                                                         *)
(* Two TxSortedMaps, each a hash map and a list of the same transactions:  *)
(* "all" remembers what has been seen, "pending" is what goes into the     *)
(* next block.  Pending returns the list's own slice, not a copy, and the  *)
(* caller reads it without a lock.  So a list is modelled as Go lays it    *)
(* out: an array of cells (its length is the capacity), of which the first *)
(* len are in use, and the slice handed out as a view of those cells for   *)
(* as long as the list keeps the array.                                    *)
(***************************************************************************)
EXTENDS Integers, Sequences, FiniteSets

CONSTANTS
  Tx,         \* transactions; a transaction stands for its hash too
  MaxLength,  \* maxLength
  Empty       \* an unused cell

ASSUME TxPoolAssumption ==
  /\ MaxLength \in Nat \ {0}
  /\ Empty \notin Tx

VARIABLES
  all,      \* TxPool.all
  pending,  \* TxPool.pending
  taken     \* the slice that the last call of Pending returned

vars == <<all, pending, taken>>

SortedMap ==
  [lookup : SUBSET Tx, cells : Seq(Tx \cup {Empty}), len : Nat]

(***************************************************************************)
(* "shares" says whether the slice still aliases pending's array, "data"   *)
(* is its content once it does not.  "orig" and "removed" are history: its *)
(* content when it was returned, and whether a transaction has been        *)
(* removed from pending while it aliased the array.                        *)
(***************************************************************************)
Slice ==
  [shares : BOOLEAN, len : Nat, data : Seq(Tx \cup {Empty}),
   orig : Seq(Tx \cup {Empty}), removed : BOOLEAN]

TypeOK ==
  /\ all \in SortedMap
  /\ pending \in SortedMap
  /\ taken \in Slice

NewTxSortedMap == [lookup |-> {}, cells |-> <<>>, len |-> 0]

Init ==
  /\ all = NewTxSortedMap
  /\ pending = NewTxSortedMap
  /\ taken = [shares |-> FALSE, len |-> 0, data |-> <<>>, orig |-> <<>>, removed |-> FALSE]

-----------------------------------------------------------------------------
(* List and TxSortedMap *)

Txx(m) == SubSeq(m.cells, 1, m.len)

First(m) == m.cells[1]

\* How append grows a full array of this size: 0, 1, 2, 4, ... cells.
GrownCap(cap) == IF cap = 0 THEN 1 ELSE 2 * cap

\* Faulty variant of Insert, see the README.
InsertInFront(m, tx) ==
  [lookup |-> m.lookup,
   cells  |-> [i \in 1 .. (IF m.len < Len(m.cells) THEN Len(m.cells) ELSE GrownCap(m.len)) |->
                 IF i = 1 THEN tx ELSE IF i <= m.len + 1 THEN m.cells[i - 1] ELSE Empty],
   len    |-> m.len + 1]

Insert(m, tx) ==
  [lookup |-> m.lookup,
   cells  |-> IF m.len < Len(m.cells)
              THEN [m.cells EXCEPT ![m.len + 1] = tx]
              ELSE [i \in 1 .. GrownCap(m.len) |->
                      IF i <= m.len THEN m.cells[i] ELSE IF i = m.len + 1 THEN tx ELSE Empty],
   len    |-> m.len + 1]

\* Faulty variants of Pop and MapRemove, see the README.
PopTooFew(m, index) ==
  [lookup |-> m.lookup,
   cells  |-> [i \in 1 .. Len(m.cells) |->
                 IF i \in index .. (m.len - 2) THEN m.cells[i + 1] ELSE m.cells[i]],
   len    |-> m.len - 1]

MapRemoveUnchecked(m, tx) == [m EXCEPT !.lookup = @ \ {tx}, !.len = @ - 1]

\* Pop moves the cells behind the index to the left, in place; the last one keeps its value.
Pop(m, index) ==
  [lookup |-> m.lookup,
   cells  |-> [i \in 1 .. Len(m.cells) |->
                 IF i \in index .. (m.len - 1) THEN m.cells[i + 1] ELSE m.cells[i]],
   len    |-> m.len - 1]

IndexIn(m, tx) == CHOOSE i \in 1 .. m.len : m.cells[i] = tx

MapAdd(m, tx) ==
  IF tx \in m.lookup THEN m ELSE [Insert(m, tx) EXCEPT !.lookup = @ \cup {tx}]

MapRemove(m, tx) ==
  IF tx \in m.lookup
  THEN [Pop(m, IndexIn(m, tx)) EXCEPT !.lookup = @ \ {tx}]
  ELSE m

Count(m) == Cardinality(m.lookup)

-----------------------------------------------------------------------------
(* The slice handed out *)

View == IF taken.shares THEN SubSeq(pending.cells, 1, taken.len) ELSE taken.data

\* pending becomes m; "same" says whether it keeps its array.
SetPending(m, same) ==
  /\ pending' = m
  /\ taken' = IF taken.shares /\ ~same
              THEN [taken EXCEPT !.shares = FALSE, !.data = View]
              ELSE taken

-----------------------------------------------------------------------------
(* TxPool *)

Contains(tx) == tx \in all.lookup

\* Faulty variants of Pruned and ClearPending, see the README.
PrunedLate == IF Count(all) = MaxLength + 1 THEN MapRemove(all, First(all)) ELSE all

ClearPendingInPlace ==
  /\ SetPending([pending EXCEPT !.lookup = {}, !.len = 0], TRUE)
  /\ UNCHANGED all

\* The oldest transaction of all makes room, even when tx turns out to be there already.
Pruned == IF Count(all) = MaxLength THEN MapRemove(all, First(all)) ELSE all

Add(tx) ==
  /\ all' = MapAdd(Pruned, tx)
  /\ IF tx \in Pruned.lookup
     THEN UNCHANGED <<pending, taken>>
     ELSE SetPending(MapAdd(pending, tx),
                     tx \in pending.lookup \/ pending.len < Len(pending.cells))

Remove(tx) ==
  /\ pending' = MapRemove(pending, tx)
  /\ all' = MapRemove(all, tx)
  /\ taken' = IF taken.shares /\ tx \in pending.lookup
              THEN [taken EXCEPT !.removed = TRUE]
              ELSE taken

Pending ==
  /\ taken' = [shares |-> TRUE, len |-> pending.len, data |-> <<>>,
               orig |-> Txx(pending), removed |-> FALSE]
  /\ UNCHANGED <<all, pending>>

\* Clear takes a new array and leaves the old one to whoever has a slice of it.
ClearPending ==
  /\ SetPending(NewTxSortedMap, FALSE)
  /\ UNCHANGED all

Next ==
  \/ \E tx \in Tx : Add(tx) \/ Remove(tx)
  \/ Pending
  \/ ClearPending

Spec == Init /\ [][Next]_vars

-----------------------------------------------------------------------------
(* Properties *)

\* The hash map and the list hold the same transactions, each one once (TestTxSortedMapAdd).
Coherent(m) ==
  /\ m.len <= Len(m.cells)
  /\ m.lookup = {m.cells[i] : i \in 1 .. m.len}
  /\ \A i, j \in 1 .. m.len : m.cells[i] = m.cells[j] => i = j

(***************************************************************************)
(* Map and list agree in both maps, whatever is added, pruned, removed and *)
(* cleared: First and Remove rely on it.                                   *)
(***************************************************************************)
PoolCoherent == Coherent(all) /\ Coherent(pending)

\* Pruning keeps what the pool remembers within maxLength.
AllBounded == Count(all) <= MaxLength

(***************************************************************************)
(* The slice that Pending returned keeps its content while transactions    *)
(* are added and pending is cleared.  Only a removal moves its cells, and  *)
(* from then on additions may overwrite them, too.                         *)
(***************************************************************************)
TakenIntact == ~taken.removed => View = taken.orig
=============================================================================
