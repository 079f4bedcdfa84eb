---------------------------- MODULE TxPoolProofs ----------------------------
(***************************************************************************)
(* Proofs about TxPool for any transactions and any maxLength.             *)
(***************************************************************************)
EXTENDS TxPool, FiniteSetTheorems, TLAPS

USE TxPoolAssumption

\* A map whose parts agree, the way every operation finds and leaves it.
Sound(m) == m \in SortedMap /\ Coherent(m) /\ IsFiniteSet(m.lookup)

LEMMA NewSound == Sound(NewTxSortedMap) /\ Count(NewTxSortedMap) = 0
<1>1. NewTxSortedMap \in SortedMap
  BY DEF NewTxSortedMap, SortedMap
<1>2. Coherent(NewTxSortedMap)
  BY DEF NewTxSortedMap, Coherent
<1> QED
  BY <1>1, <1>2, FS_EmptySet DEF Sound, NewTxSortedMap, Count

\* Insert puts tx behind the cells in use, in the old array or in a new one.
LEMMA InsertCells ==
  ASSUME NEW m \in SortedMap, Coherent(m), NEW tx \in Tx
  PROVE  LET c == Insert(m, tx).cells
         IN  /\ c \in Seq(Tx \cup {Empty})
             /\ m.len + 1 <= Len(c)
             /\ \A i \in 1 .. m.len : c[i] = m.cells[i]
             /\ c[m.len + 1] = tx
<1>1. m.len \in Nat /\ m.cells \in Seq(Tx \cup {Empty}) /\ m.len <= Len(m.cells)
  BY DEF SortedMap, Coherent
<1>2. CASE m.len < Len(m.cells)
  <2>1. Insert(m, tx).cells = [m.cells EXCEPT ![m.len + 1] = tx]
    BY <1>2 DEF Insert
  <2> QED
    BY <1>1, <1>2, <2>1
<1>3. CASE ~(m.len < Len(m.cells))
  <2>1. m.len = Len(m.cells) /\ GrownCap(m.len) \in Nat /\ m.len + 1 <= GrownCap(m.len)
    BY <1>1, <1>3 DEF GrownCap
  <2>2. Insert(m, tx).cells = [i \in 1 .. GrownCap(m.len) |->
          IF i <= m.len THEN m.cells[i] ELSE IF i = m.len + 1 THEN tx ELSE Empty]
    BY <1>3 DEF Insert
  <2>3. \A i \in 1 .. GrownCap(m.len) : Insert(m, tx).cells[i] \in Tx \cup {Empty}
    BY <1>1, <2>1, <2>2
  <2> QED
    BY <1>1, <2>1, <2>2, <2>3
<1> QED
  BY <1>2, <1>3

\* TxSortedMap.Add keeps map and list in step and adds at most one transaction.
LEMMA MapAddSound ==
  ASSUME NEW m, Sound(m), NEW tx \in Tx
  PROVE  /\ Sound(MapAdd(m, tx))
         /\ Count(MapAdd(m, tx)) <= Count(m) + 1
<1> DEFINE n == MapAdd(m, tx)
           c == Insert(m, tx).cells
<1>1. Count(m) \in Nat
  BY FS_CardinalityType DEF Sound, Count
<1>2. CASE tx \in m.lookup
  BY <1>1, <1>2 DEF MapAdd
<1>3. CASE tx \notin m.lookup
  <2>1. n = [lookup |-> m.lookup \cup {tx}, cells |-> c, len |-> m.len + 1]
    BY <1>3 DEF MapAdd, Insert
  <2>2. /\ c \in Seq(Tx \cup {Empty})
        /\ m.len + 1 <= Len(c)
        /\ \A i \in 1 .. m.len : c[i] = m.cells[i]
        /\ c[m.len + 1] = tx
    BY InsertCells DEF Sound
  <2>3. m.len \in Nat /\ m.lookup \subseteq Tx /\ m.lookup = {m.cells[i] : i \in 1 .. m.len}
    BY DEF Sound, SortedMap, Coherent
  <2>4. n \in SortedMap
    <3> HIDE DEF c, n
    <3> QED
      BY <2>1, <2>2, <2>3 DEF SortedMap
  <2>5. \A i \in 1 .. (m.len + 1) : i \in 1 .. m.len \/ i = m.len + 1
    BY <2>3
  <2>6. n.lookup = {n.cells[i] : i \in 1 .. n.len}
    <3> HIDE DEF c, n
    <3>1. ASSUME NEW x \in n.lookup PROVE \E i \in 1 .. n.len : x = n.cells[i]
      BY <2>1, <2>2, <2>3
    <3>2. ASSUME NEW i \in 1 .. n.len PROVE n.cells[i] \in n.lookup
      BY <2>1, <2>2, <2>3, <2>5
    <3> QED
      BY <3>1, <3>2
  <2>7. ASSUME NEW i \in 1 .. n.len, NEW j \in 1 .. n.len, n.cells[i] = n.cells[j]
        PROVE  i = j
    <3>1. \A k \in 1 .. m.len : m.cells[k] # tx
      BY <1>3, <2>3
    <3>2. \A k, l \in 1 .. m.len : m.cells[k] = m.cells[l] => k = l
      BY DEF Sound, Coherent
    <3> HIDE DEF c, n
    <3> QED
      BY <2>1, <2>2, <2>5, <2>7, <3>1, <3>2
  <2>8. IsFiniteSet(m.lookup \cup {tx}) /\ Cardinality(m.lookup \cup {tx}) = Cardinality(m.lookup) + 1
    BY <1>3, FS_AddElement DEF Sound
  <2>9. n.len <= Len(n.cells)
    <3> HIDE DEF c, n
    <3> QED
      BY <2>1, <2>2
  <2> HIDE DEF c, n
  <2>10. Sound(n)
    BY <2>1, <2>4, <2>6, <2>7, <2>8, <2>9 DEF Sound, Coherent
  <2>11. Count(n) = Count(m) + 1
    BY <2>1, <2>8 DEF Count
  <2> QED
    BY <1>1, <2>10, <2>11 DEF n
<1> QED
  BY <1>2, <1>3

\* TxSortedMap.Remove keeps map and list in step; it makes room if it finds the transaction.
LEMMA MapRemoveSound ==
  ASSUME NEW m, Sound(m), NEW tx
  PROVE  /\ Sound(MapRemove(m, tx))
         /\ Count(MapRemove(m, tx)) <= Count(m)
         /\ tx \in m.lookup => Count(MapRemove(m, tx)) = Count(m) - 1
<1> DEFINE n == MapRemove(m, tx)
           k == IndexIn(m, tx)
           c == Pop(m, k).cells
<1>1. Count(m) \in Nat
  BY FS_CardinalityType DEF Sound, Count
<1>2. CASE tx \notin m.lookup
  BY <1>1, <1>2 DEF MapRemove
<1>3. CASE tx \in m.lookup
  <2>1. n = [lookup |-> m.lookup \ {tx}, cells |-> c, len |-> m.len - 1]
    BY <1>3 DEF MapRemove, Pop
  <2>2. /\ m.len \in Nat /\ m.cells \in Seq(Tx \cup {Empty}) /\ m.lookup \subseteq Tx
        /\ m.len <= Len(m.cells)
        /\ m.lookup = {m.cells[i] : i \in 1 .. m.len}
        /\ \A i, j \in 1 .. m.len : m.cells[i] = m.cells[j] => i = j
    BY DEF Sound, SortedMap, Coherent
  <2>3. k \in 1 .. m.len /\ m.cells[k] = tx
    BY <1>3, <2>2 DEF IndexIn
  <2>4. c = [i \in 1 .. Len(m.cells) |->
               IF i \in k .. (m.len - 1) THEN m.cells[i + 1] ELSE m.cells[i]]
    BY DEF Pop
  <2> HIDE DEF k, n
  <2>5. c \in Seq(Tx \cup {Empty}) /\ Len(c) = Len(m.cells)
    <3>1. \A i \in 1 .. Len(m.cells) : c[i] \in Tx \cup {Empty}
      BY <2>2, <2>3, <2>4
    <3> QED
      BY <2>2, <2>4, <3>1
  <2>6. \A i \in 1 .. (m.len - 1) :
          IF i < k THEN c[i] = m.cells[i] ELSE c[i] = m.cells[i + 1]
    BY <2>2, <2>3, <2>4
  <2> HIDE DEF c
  <2>7. n \in SortedMap /\ n.len <= Len(n.cells)
    BY <2>1, <2>2, <2>3, <2>5 DEF SortedMap
  <2>8. n.lookup = {n.cells[i] : i \in 1 .. n.len}
    <3>1. ASSUME NEW x \in n.lookup PROVE \E i \in 1 .. n.len : x = n.cells[i]
      <4>1. PICK j \in 1 .. m.len : x = m.cells[j]
        BY <2>1, <2>2, <3>1
      <4>2. j # k
        BY <2>1, <2>3, <3>1, <4>1
      <4>3. CASE j < k
        BY <2>1, <2>2, <2>3, <2>6, <4>1, <4>3
      <4>4. CASE j > k
        <5>1. j - 1 \in 1 .. (m.len - 1) /\ ~(j - 1 < k) /\ (j - 1) + 1 = j
          BY <2>2, <2>3, <4>1, <4>4
        <5> QED
          BY <2>1, <2>6, <4>1, <5>1
      <4> QED
        BY <2>2, <2>3, <4>2, <4>3, <4>4
    <3>2. ASSUME NEW i \in 1 .. n.len PROVE n.cells[i] \in n.lookup
      <4>1. i \in 1 .. (m.len - 1) /\ i \in 1 .. m.len /\ i + 1 \in 1 .. m.len
        BY <2>1, <2>2
      <4>2. CASE i < k
        <5>1. i # k /\ c[i] = m.cells[i]
          BY <2>3, <2>6, <4>1, <4>2
        <5>2. m.cells[i] # tx /\ m.cells[i] \in m.lookup
          BY <2>2, <2>3, <4>1, <5>1
        <5> QED
          BY <2>1, <5>1, <5>2
      <4>3. CASE ~(i < k)
        <5>1. i + 1 # k
          BY <2>3, <4>1, <4>3
        <5>2. c[i] = m.cells[i + 1]
          BY <2>6, <4>1, <4>3
        <5>3. m.cells[i + 1] # tx /\ m.cells[i + 1] \in m.lookup
          BY <2>2, <2>3, <4>1, <5>1
        <5> QED
          BY <2>1, <5>2, <5>3
      <4> QED
        BY <4>2, <4>3
    <3> QED
      BY <3>1, <3>2
  <2>9. ASSUME NEW i \in 1 .. n.len, NEW j \in 1 .. n.len, n.cells[i] = n.cells[j]
        PROVE  i = j
    <3>1. /\ i \in 1 .. (m.len - 1) /\ i \in 1 .. m.len /\ i + 1 \in 1 .. m.len
          /\ j \in 1 .. (m.len - 1) /\ j \in 1 .. m.len /\ j + 1 \in 1 .. m.len
      BY <2>1, <2>2
    <3>2. c[i] = c[j]
      BY <2>1, <2>9
    <3>3. k \in 1 .. m.len /\ m.len \in Nat
      BY <2>2, <2>3
    <3>4. CASE i < k /\ j < k
      BY <2>2, <2>6, <3>1, <3>2, <3>4
    <3>5. CASE ~(i < k) /\ ~(j < k)
      <4>1. i + 1 = j + 1
        BY <2>2, <2>6, <3>1, <3>2, <3>5
      <4> QED
        BY <3>1, <4>1
    <3>6. CASE i < k /\ ~(j < k)
      <4>1. i = j + 1
        BY <2>2, <2>6, <3>1, <3>2, <3>6
      <4> QED
        BY <3>1, <3>3, <3>6, <4>1
    <3>7. CASE ~(i < k) /\ j < k
      <4>1. i + 1 = j
        BY <2>2, <2>6, <3>1, <3>2, <3>7
      <4> QED
        BY <3>1, <3>3, <3>7, <4>1
    <3> QED
      BY <3>4, <3>5, <3>6, <3>7
  <2>10. IsFiniteSet(m.lookup \ {tx}) /\ Cardinality(m.lookup \ {tx}) = Cardinality(m.lookup) - 1
    BY <1>3, FS_RemoveElement DEF Sound
  <2>11. Sound(n)
    BY <2>1, <2>7, <2>8, <2>9, <2>10 DEF Sound, Coherent
  <2>12. Count(n) = Count(m) - 1
    BY <2>1, <2>10 DEF Count
  <2> QED
    BY <1>1, <2>11, <2>12 DEF n
<1> QED
  BY <1>2, <1>3

-----------------------------------------------------------------------------
(* The pool *)

PoolInv == Sound(all) /\ Sound(pending) /\ AllBounded

LEMMA InitPoolInv == Init => PoolInv
  BY NewSound DEF Init, PoolInv, AllBounded

\* Pruning leaves room for one more, because the oldest transaction is one that all holds.
LEMMA PrunedRoom ==
  ASSUME PoolInv
  PROVE  Sound(Pruned) /\ Count(Pruned) + 1 <= MaxLength
<1>1. Count(all) \in Nat /\ Count(all) <= MaxLength
  BY FS_CardinalityType DEF PoolInv, Sound, Count, AllBounded
<1>2. CASE Count(all) # MaxLength
  BY <1>1, <1>2 DEF Pruned, PoolInv
<1>3. CASE Count(all) = MaxLength
  <2>1. all.lookup # {}
    BY <1>3, FS_EmptySet DEF Count
  <2>2. First(all) \in all.lookup
    BY <2>1 DEF PoolInv, Sound, Coherent, SortedMap, First
  <2> QED
    BY <1>1, <1>3, <2>2, MapRemoveSound DEF Pruned, PoolInv
<1> QED
  BY <1>2, <1>3

LEMMA NextPoolInv == PoolInv /\ [Next]_vars => PoolInv'
<1> SUFFICES ASSUME PoolInv, [Next]_vars PROVE PoolInv'
  OBVIOUS
<1>1. CASE UNCHANGED vars
  BY <1>1 DEF vars, PoolInv, AllBounded
<1>2. ASSUME NEW tx \in Tx, Add(tx)
      PROVE  PoolInv'
  <2>1. Sound(all') /\ Count(all') <= MaxLength
    <3>1. Count(Pruned) \in Nat /\ Count(all') \in Nat
      BY <1>2, PrunedRoom, MapAddSound, FS_CardinalityType DEF Add, Sound, Count
    <3>2. Sound(all') /\ Count(all') <= Count(Pruned) + 1
      BY <1>2, PrunedRoom, MapAddSound DEF Add
    <3> QED
      BY <3>1, <3>2, PrunedRoom
  <2>2. pending' = pending \/ pending' = MapAdd(pending, tx)
    BY <1>2 DEF Add, SetPending
  <2>3. Sound(pending')
    BY <2>2, MapAddSound DEF PoolInv
  <2> QED
    BY <2>1, <2>3 DEF PoolInv, AllBounded
<1>3. ASSUME NEW tx \in Tx, Remove(tx)
      PROVE  PoolInv'
  <2>1. Sound(all') /\ Sound(pending') /\ Count(all') <= Count(all)
    BY <1>3, MapRemoveSound DEF Remove, PoolInv
  <2>2. Count(all) \in Nat /\ Count(all') \in Nat
    BY <2>1, FS_CardinalityType DEF PoolInv, Sound, Count
  <2> QED
    BY <2>1, <2>2 DEF PoolInv, AllBounded
<1>4. CASE Pending
  BY <1>4 DEF Pending, PoolInv, AllBounded
<1>5. CASE ClearPending
  BY <1>5, NewSound DEF ClearPending, SetPending, PoolInv, AllBounded
<1> QED
  BY <1>1, <1>2, <1>3, <1>4, <1>5 DEF Next

(***************************************************************************)
(* Map and list of both TxSortedMaps hold the same transactions, each one  *)
(* once, after any sequence of pool operations.                            *)
(***************************************************************************)
THEOREM PoolIsCoherent == Spec => []PoolCoherent
<1>1. PoolInv => PoolCoherent
  BY DEF PoolInv, Sound, PoolCoherent
<1> QED
  BY <1>1, InitPoolInv, NextPoolInv, PTL DEF Spec

\* Whatever is added, the pool remembers at most maxLength transactions (the pending list does not).
THEOREM AllIsBounded == Spec => []AllBounded
<1>1. PoolInv => AllBounded
  BY DEF PoolInv
<1> QED
  BY <1>1, InitPoolInv, NextPoolInv, PTL DEF Spec

-----------------------------------------------------------------------------
(* The slice handed out *)

(***************************************************************************)
(* As long as the slice is a view of pending's array, the array is long    *)
(* enough for it and has a transaction in each of its cells.  And if       *)
(* nothing has been removed, it is in the part of the array that is in     *)
(* use, where additions do not reach.                                      *)
(***************************************************************************)
TakenCells ==
  taken.shares =>
    /\ taken.len <= Len(pending.cells)
    /\ \A i \in 1 .. taken.len : pending.cells[i] \in Tx
    /\ ~taken.removed => taken.len <= pending.len

SliceInv == taken \in Slice /\ TakenCells /\ TakenIntact

LEMMA InitSliceInv == Init => SliceInv
<1> SUFFICES ASSUME Init PROVE SliceInv
  OBVIOUS
<1>1. taken = [shares |-> FALSE, len |-> 0, data |-> <<>>, orig |-> <<>>, removed |-> FALSE]
  BY DEF Init
<1> QED
  BY <1>1 DEF SliceInv, Slice, TakenCells, TakenIntact, View

\* The view is a sequence as long as the slice.
LEMMA ViewType ==
  ASSUME SliceInv, Sound(pending)
  PROVE  View \in Seq(Tx \cup {Empty})
  BY DEF View, SliceInv, TakenCells, Slice, Sound, SortedMap

\* pending gets a new array: the slice keeps the old one, which nobody writes any more.
LEMMA SliceDetached ==
  ASSUME SliceInv, Sound(pending), NEW m, SetPending(m, FALSE)
  PROVE  SliceInv'
<1>1. CASE taken.shares
  <2>1. taken' = [taken EXCEPT !.shares = FALSE, !.data = View]
    BY <1>1 DEF SetPending
  <2>2. View \in Seq(Tx \cup {Empty})
    BY ViewType
  <2>3. taken' \in Slice /\ ~taken'.shares
    BY <2>1, <2>2 DEF SliceInv, Slice
  <2>4. View' = View /\ taken'.orig = taken.orig /\ taken'.removed = taken.removed
    BY <2>1, <2>3 DEF View, SliceInv, Slice
  <2> QED
    BY <2>3, <2>4 DEF SliceInv, TakenCells, TakenIntact
<1>2. CASE ~taken.shares
  <2>1. taken' = taken
    BY <1>2 DEF SetPending
  <2> QED
    BY <1>2, <2>1 DEF SliceInv, TakenCells, TakenIntact, View
<1> QED
  BY <1>1, <1>2

\* pending keeps its array, and the cells of the slice keep what is in them.
LEMMA SliceKept ==
  ASSUME SliceInv, Sound(pending), taken' = taken,
         pending'.cells \in Seq(Tx \cup {Empty}), Len(pending'.cells) = Len(pending.cells),
         taken.shares => \A i \in 1 .. taken.len : pending'.cells[i] \in Tx,
         taken.shares /\ ~taken.removed =>
           /\ taken.len <= pending'.len
           /\ \A i \in 1 .. taken.len : pending'.cells[i] = pending.cells[i]
  PROVE  SliceInv'
<1>1. taken' \in Slice /\ TakenCells'
  BY DEF SliceInv, TakenCells
<1>2. ASSUME ~taken.removed PROVE View' = View
  <2>1. CASE taken.shares
    <3>1. SubSeq(pending'.cells, 1, taken.len) = SubSeq(pending.cells, 1, taken.len)
      BY <1>2, <2>1 DEF SliceInv, TakenCells, Slice, Sound, SortedMap
    <3> QED
      BY <2>1, <3>1 DEF View
  <2>2. CASE ~taken.shares
    BY <2>2 DEF View
  <2> QED
    BY <2>1, <2>2
<1> QED
  BY <1>1, <1>2 DEF SliceInv, TakenIntact

LEMMA NextSliceInv == PoolInv /\ SliceInv /\ [Next]_vars => SliceInv'
<1> SUFFICES ASSUME PoolInv, SliceInv, [Next]_vars PROVE SliceInv'
  OBVIOUS
<1>1. /\ Sound(pending) /\ pending.len \in Nat /\ pending.cells \in Seq(Tx \cup {Empty})
      /\ pending.len <= Len(pending.cells)
      /\ \A i \in 1 .. pending.len : pending.cells[i] \in Tx
      /\ taken \in Slice /\ taken.len \in Nat
  BY DEF PoolInv, Sound, SortedMap, Coherent, SliceInv, Slice
<1>2. CASE UNCHANGED vars
  BY <1>2 DEF vars, SliceInv, TakenCells, TakenIntact, View
<1>3. ASSUME NEW tx \in Tx, Add(tx)
      PROVE  SliceInv'
  <2>1. CASE tx \in Pruned.lookup
    BY <1>3, <2>1 DEF Add, SliceInv, TakenCells, TakenIntact, View
  <2>2. CASE tx \notin Pruned.lookup /\ tx \in pending.lookup
    <3>1. pending' = pending /\ taken' = taken
      BY <1>3, <2>2 DEF Add, SetPending, MapAdd
    <3> QED
      BY <3>1 DEF SliceInv, TakenCells, TakenIntact, View
  <2>3. CASE tx \notin Pruned.lookup /\ tx \notin pending.lookup /\ pending.len < Len(pending.cells)
    <3>1. pending' = MapAdd(pending, tx) /\ taken' = taken
      BY <1>3, <2>3 DEF Add, SetPending
    <3>2. pending'.cells = [pending.cells EXCEPT ![pending.len + 1] = tx]
          /\ pending'.len = pending.len + 1
      BY <2>3, <3>1 DEF MapAdd, Insert
    <3>3. /\ pending'.cells \in Seq(Tx \cup {Empty}) /\ Len(pending'.cells) = Len(pending.cells)
          /\ \A i \in 1 .. Len(pending.cells) :
               pending'.cells[i] = IF i = pending.len + 1 THEN tx ELSE pending.cells[i]
      BY <1>1, <2>3, <3>2
    <3>4. taken.shares => \A i \in 1 .. taken.len : pending'.cells[i] \in Tx
      BY <1>1, <3>3 DEF SliceInv, TakenCells
    <3>5. taken.shares /\ ~taken.removed =>
            /\ taken.len <= pending'.len
            /\ \A i \in 1 .. taken.len : pending'.cells[i] = pending.cells[i]
      BY <1>1, <3>2, <3>3 DEF SliceInv, TakenCells
    <3> QED
      BY <1>1, <3>1, <3>3, <3>4, <3>5, SliceKept
  <2>4. CASE tx \notin Pruned.lookup /\ tx \notin pending.lookup /\ ~(pending.len < Len(pending.cells))
    <3>1. SetPending(MapAdd(pending, tx), FALSE)
      BY <1>3, <2>4 DEF Add, SetPending
    <3> QED
      BY <1>1, <3>1, SliceDetached
  <2> QED
    BY <2>1, <2>2, <2>3, <2>4
<1>4. ASSUME NEW tx \in Tx, Remove(tx)
      PROVE  SliceInv'
  <2>1. CASE tx \notin pending.lookup
    <3>1. pending' = pending /\ taken' = taken
      BY <1>4, <2>1 DEF Remove, MapRemove
    <3> QED
      BY <3>1 DEF SliceInv, TakenCells, TakenIntact, View
  <2>2. CASE tx \in pending.lookup
    <3> DEFINE k == IndexIn(pending, tx)
    <3>1. k \in 1 .. pending.len
      BY <2>2 DEF IndexIn, PoolInv, Sound, Coherent
    <3>2. pending'.cells = [i \in 1 .. Len(pending.cells) |->
            IF i \in k .. (pending.len - 1) THEN pending.cells[i + 1] ELSE pending.cells[i]]
      BY <1>4, <2>2 DEF Remove, MapRemove, Pop
    <3> HIDE DEF k
    <3>3. Sound(pending')
      BY <1>4, MapRemoveSound DEF Remove, PoolInv
    <3>4. Len(pending'.cells) = Len(pending.cells)
      BY <1>1, <3>2
    <3>5. ASSUME taken.shares, NEW i \in 1 .. taken.len
          PROVE  pending'.cells[i] \in Tx
      <4>1. i \in 1 .. Len(pending.cells) /\ pending.cells[i] \in Tx
        BY <1>1, <3>5 DEF SliceInv, TakenCells
      <4>2. CASE i \in k .. (pending.len - 1)
        <5>1. i + 1 \in 1 .. pending.len
          BY <1>1, <3>1, <4>2
        <5> QED
          BY <1>1, <3>2, <4>1, <4>2, <5>1
      <4>3. CASE i \notin k .. (pending.len - 1)
        BY <3>2, <4>1, <4>3
      <4> QED
        BY <4>2, <4>3
    <3>6. taken' = IF taken.shares THEN [taken EXCEPT !.removed = TRUE] ELSE taken
      BY <1>4, <2>2 DEF Remove
    <3>7. CASE taken.shares
      <4>1. taken' \in Slice /\ taken'.shares /\ taken'.removed /\ taken'.len = taken.len
        BY <1>1, <3>6, <3>7 DEF Slice
      <4> QED
        BY <1>1, <3>4, <3>5, <3>7, <4>1 DEF SliceInv, TakenCells, TakenIntact
    <3>8. CASE ~taken.shares
      BY <3>6, <3>8 DEF SliceInv, TakenCells, TakenIntact, View
    <3> QED
      BY <3>7, <3>8
  <2> QED
    BY <2>1, <2>2
<1>5. CASE Pending
  <2>1. /\ taken' = [shares |-> TRUE, len |-> pending.len, data |-> <<>>,
                     orig |-> Txx(pending), removed |-> FALSE]
        /\ pending' = pending
    BY <1>5 DEF Pending
  <2>2. taken' \in Slice
    BY <1>1, <2>1 DEF Slice, Txx
  <2>3. View' = Txx(pending)
    BY <2>1 DEF View, Txx
  <2> QED
    BY <1>1, <2>1, <2>2, <2>3 DEF SliceInv, TakenCells, TakenIntact
<1>6. CASE ClearPending
  BY <1>1, <1>6, SliceDetached DEF ClearPending
<1> QED
  BY <1>2, <1>3, <1>4, <1>5, <1>6 DEF Next

(***************************************************************************)
(* Maps, lists and the slice stay well formed: no index of txpool.go and   *)
(* list.go leaves its array.                                               *)
(***************************************************************************)
THEOREM PoolTypeCorrect == Spec => []TypeOK
<1>1. PoolInv /\ SliceInv => TypeOK
  BY DEF PoolInv, SliceInv, Sound, TypeOK
<1> QED
  BY <1>1, InitPoolInv, NextPoolInv, InitSliceInv, NextSliceInv, PTL DEF Spec

(***************************************************************************)
(* The slice that Pending returns without a copy and without a lock keeps  *)
(* its content through any additions, prunings and ClearPending; only a    *)
(* removal from pending disturbs it.                                       *)
(***************************************************************************)
THEOREM TakenStaysIntact == Spec => []TakenIntact
<1>1. SliceInv => TakenIntact
  BY DEF SliceInv
<1> QED
  BY <1>1, InitPoolInv, NextPoolInv, InitSliceInv, NextSliceInv, PTL DEF Spec

(***************************************************************************)
(* Whatever happens to pending while a block is built, each place of the   *)
(* slice holds a transaction: createNewBlock never reads an unused cell.   *)
(***************************************************************************)
THEOREM TakenHoldsTxs == Spec => [](taken.shares => \A i \in 1 .. taken.len : pending.cells[i] \in Tx)
<1>1. SliceInv => (taken.shares => \A i \in 1 .. taken.len : pending.cells[i] \in Tx)
  BY DEF SliceInv, TakenCells
<1> QED
  BY <1>1, InitPoolInv, NextPoolInv, InitSliceInv, NextSliceInv, PTL DEF Spec

-----------------------------------------------------------------------------
(* The slice as its reader sees it, whoever changes the pool meanwhile     *)

LEMMA InitView == Init => View = <<>>
  BY DEF Init, View

\* Neither additions nor removals nor ClearPending change the length of the slice.
LEMMA ViewLength ==
  ASSUME PoolInv, SliceInv,
         ClearPending \/ \E tx \in Tx : Add(tx) \/ Remove(tx)
  PROVE  /\ Len(View') = Len(View)
         /\ taken'.orig = taken.orig
         /\ taken.removed => taken'.removed
         /\ ~taken'.shares => View' = View
<1>1. /\ taken \in Slice /\ taken.len \in Nat
      /\ pending.cells \in Seq(Tx \cup {Empty})
      /\ taken.shares => taken.len <= Len(pending.cells)
  BY DEF SliceInv, Slice, TakenCells, PoolInv, Sound, SortedMap
<1>2. SliceInv'
  BY NextSliceInv DEF Next
<1>3. PoolInv'
  BY NextPoolInv DEF Next
<1>4. /\ taken' \in Slice /\ taken'.len \in Nat
      /\ pending'.cells \in Seq(Tx \cup {Empty})
      /\ taken'.shares => taken'.len <= Len(pending'.cells)
  BY <1>2, <1>3 DEF SliceInv, Slice, TakenCells, PoolInv, Sound, SortedMap
<1>5. ASSUME NEW m, NEW same \in BOOLEAN, SetPending(m, same)
      PROVE  \/ taken' = taken
             \/ taken.shares /\ taken' = [taken EXCEPT !.shares = FALSE, !.data = View]
  BY <1>5 DEF SetPending
<1>6. \/ taken' = taken
      \/ taken.shares /\ taken' = [taken EXCEPT !.shares = FALSE, !.data = View]
      \/ taken.shares /\ taken' = [taken EXCEPT !.removed = TRUE]
  <2>1. ASSUME NEW tx \in Tx, Add(tx)
        PROVE  \/ taken' = taken
               \/ taken.shares /\ taken' = [taken EXCEPT !.shares = FALSE, !.data = View]
    BY <1>5, <2>1 DEF Add
  <2>2. ASSUME NEW tx \in Tx, Remove(tx)
        PROVE  \/ taken' = taken
               \/ taken.shares /\ taken' = [taken EXCEPT !.removed = TRUE]
    BY <2>2 DEF Remove
  <2>3. CASE ClearPending
    BY <1>5, <2>3 DEF ClearPending
  <2> QED
    BY <2>1, <2>2, <2>3
<1>7. CASE taken' = taken
  <2>1. CASE taken.shares
    <3>1. Len(View') = taken.len /\ Len(View) = taken.len
      BY <1>1, <1>4, <1>7, <2>1 DEF View
    <3> QED
      BY <1>7, <2>1, <3>1
  <2>2. CASE ~taken.shares
    BY <1>7, <2>2 DEF View
  <2> QED
    BY <2>1, <2>2
<1>8. CASE taken.shares /\ taken' = [taken EXCEPT !.shares = FALSE, !.data = View]
  <2>1. /\ ~taken'.shares /\ taken'.data = View
        /\ taken'.orig = taken.orig /\ taken'.removed = taken.removed
    BY <1>1, <1>8 DEF Slice
  <2> QED
    BY <2>1 DEF View
<1>9. CASE taken.shares /\ taken' = [taken EXCEPT !.removed = TRUE]
  <2>1. /\ taken'.shares /\ taken'.len = taken.len
        /\ taken'.orig = taken.orig /\ taken'.removed
    BY <1>1, <1>9 DEF Slice
  <2>2. Len(View') = taken.len /\ Len(View) = taken.len
    BY <1>1, <1>4, <1>9, <2>1 DEF View
  <2> QED
    BY <2>1, <2>2
<1> QED
  BY <1>6, <1>7, <1>8, <1>9

\* The reader sees transactions only, never an unused cell.
LEMMA ViewTxs ==
  ASSUME PoolInv, SliceInv, View \in Seq(Tx), [Next]_vars
  PROVE  View' \in Seq(Tx)
<1>1. SliceInv' /\ PoolInv'
  BY NextSliceInv, NextPoolInv
<1>2. CASE taken'.shares
  <2>1. /\ taken'.len \in Nat /\ taken'.len <= Len(pending'.cells)
        /\ pending'.cells \in Seq(Tx \cup {Empty})
        /\ \A i \in 1 .. taken'.len : pending'.cells[i] \in Tx
    BY <1>1, <1>2 DEF SliceInv, Slice, TakenCells, PoolInv, Sound, SortedMap
  <2>2. SubSeq(pending'.cells, 1, taken'.len) \in Seq(Tx)
    BY <2>1
  <2> QED
    BY <1>2, <2>2 DEF View
<1>3. CASE ~taken'.shares
  <2>1. CASE ClearPending \/ \E tx \in Tx : Add(tx) \/ Remove(tx)
    <3>1. View' = View
      BY <1>3, <2>1, ViewLength
    <3> QED
      BY <3>1
  <2>2. CASE Pending
    BY <1>3, <2>2 DEF Pending
  <2>3. CASE UNCHANGED vars
    BY <2>3 DEF vars, View
  <2> QED
    BY <2>1, <2>2, <2>3 DEF Next
<1> QED
  BY <1>2, <1>3

-----------------------------------------------------------------------------
(* Which transactions pending and the slice hold after an operation        *)

Elements(s) == {s[i] : i \in 1 .. Len(s)}

\* Add puts its transaction behind all that is pending; the slice's reader may see it, too.
LEMMA AddSeen ==
  ASSUME PoolInv, SliceInv, NEW tx \in Tx, Add(tx)
  PROVE  /\ \/ pending' = pending
            \/ /\ pending'.lookup = pending.lookup \cup {tx}
               /\ pending'.len = pending.len + 1
               /\ pending'.cells[pending.len + 1] = tx
               /\ \A i \in 1 .. pending.len : pending'.cells[i] = pending.cells[i]
         /\ taken'.shares => taken.shares
         /\ ~taken'.shares => View' = View
         /\ Elements(View') \subseteq Elements(View) \cup {tx}
<1>1. /\ taken \in Slice /\ taken.len \in Nat /\ pending \in SortedMap /\ Coherent(pending)
      /\ pending.cells \in Seq(Tx \cup {Empty}) /\ pending.len \in Nat
      /\ pending.len <= Len(pending.cells)
      /\ taken.shares => taken.len <= Len(pending.cells)
  BY DEF SliceInv, Slice, TakenCells, PoolInv, Sound, SortedMap, Coherent
<1>2. ASSUME pending' = pending, taken' = taken
      PROVE  View' = View
  BY <1>2 DEF View
<1>3. CASE tx \in Pruned.lookup \/ tx \in pending.lookup
  <2>1. pending' = pending /\ taken' = taken
    BY <1>3 DEF Add, SetPending, MapAdd
  <2> QED
    BY <1>2, <2>1
<1>4. CASE tx \notin Pruned.lookup /\ tx \notin pending.lookup
  <2>1. SetPending(MapAdd(pending, tx), pending.len < Len(pending.cells))
    BY <1>4 DEF Add
  <2>2. /\ pending'.lookup = pending.lookup \cup {tx}
        /\ pending'.len = pending.len + 1
        /\ pending'.cells = Insert(pending, tx).cells
    BY <1>4, <2>1 DEF SetPending, MapAdd, Insert
  <2>3. /\ pending'.cells[pending.len + 1] = tx
        /\ \A i \in 1 .. pending.len : pending'.cells[i] = pending.cells[i]
    BY <1>1, <2>2, InsertCells
  <2>4. CASE taken.shares /\ pending.len < Len(pending.cells)
    <3>1. taken' = taken
      BY <2>1, <2>4 DEF SetPending
    <3>2. pending'.cells = [pending.cells EXCEPT ![pending.len + 1] = tx]
      BY <2>2, <2>4 DEF Insert
    <3>3. View = SubSeq(pending.cells, 1, taken.len) /\ View' = SubSeq(pending'.cells, 1, taken.len)
      BY <2>4, <3>1 DEF View
    <3>4. /\ Len(View) = taken.len /\ Len(View') = taken.len
          /\ \A i \in 1 .. taken.len : View[i] = pending.cells[i] /\ View'[i] = pending'.cells[i]
      BY <1>1, <2>4, <3>2, <3>3
    <3>5. \A i \in 1 .. taken.len : View'[i] = tx \/ View'[i] = View[i]
      BY <1>1, <2>4, <3>2, <3>4
    <3>6. Elements(View') \subseteq Elements(View) \cup {tx}
      BY <3>4, <3>5 DEF Elements
    <3> QED
      BY <2>2, <2>3, <2>4, <3>1, <3>6
  <2>5. CASE taken.shares /\ ~(pending.len < Len(pending.cells))
    <3>1. taken' = [taken EXCEPT !.shares = FALSE, !.data = View]
      BY <2>1, <2>5 DEF SetPending
    <3>2. ~taken'.shares /\ taken'.data = View
      BY <1>1, <3>1 DEF Slice
    <3> QED
      BY <2>2, <2>3, <3>2 DEF View
  <2>6. CASE ~taken.shares
    <3>1. taken' = taken
      BY <2>1, <2>6 DEF SetPending
    <3> QED
      BY <2>2, <2>3, <2>6, <3>1 DEF View
  <2> QED
    BY <2>4, <2>5, <2>6
<1> QED
  BY <1>3, <1>4

\* Remove keeps the order of what stays pending; the slice's reader sees what was pending or in it.
LEMMA RemoveSeen ==
  ASSUME PoolInv, SliceInv, NEW tx \in Tx, Remove(tx)
  PROVE  /\ pending'.lookup = pending.lookup \ {tx}
         /\ \A i, j \in 1 .. pending'.len : i < j =>
              \E k, l \in 1 .. pending.len :
                k < l /\ pending'.cells[i] = pending.cells[k] /\ pending'.cells[j] = pending.cells[l]
         /\ taken'.shares = taken.shares
         /\ ~taken'.shares => View' = View
         /\ Elements(View') \subseteq Elements(View) \cup pending.lookup
<1>1. /\ taken \in Slice /\ taken.len \in Nat
      /\ pending.cells \in Seq(Tx \cup {Empty}) /\ pending.len \in Nat
      /\ pending.len <= Len(pending.cells)
      /\ pending.lookup = {pending.cells[i] : i \in 1 .. pending.len}
      /\ taken.shares => taken.len <= Len(pending.cells)
  BY DEF SliceInv, Slice, TakenCells, PoolInv, Sound, SortedMap, Coherent
<1>2. CASE tx \notin pending.lookup
  <2>1. pending' = pending /\ taken' = taken
    BY <1>2 DEF Remove, MapRemove
  <2>2. View' = View
    BY <2>1 DEF View
  <2> QED
    BY <1>2, <2>1, <2>2
<1>3. CASE tx \in pending.lookup
  <2> DEFINE p == IndexIn(pending, tx)
  <2>1. p \in 1 .. pending.len
    BY <1>1, <1>3 DEF IndexIn
  <2>2. /\ pending'.lookup = pending.lookup \ {tx} /\ pending'.len = pending.len - 1
        /\ pending'.cells = [i \in 1 .. Len(pending.cells) |->
             IF i \in p .. (pending.len - 1) THEN pending.cells[i + 1] ELSE pending.cells[i]]
    BY <1>3 DEF Remove, MapRemove, Pop
  <2> HIDE DEF p
  <2>3. \A i \in 1 .. pending.len - 1 :
          /\ i < p => pending'.cells[i] = pending.cells[i]
          /\ ~(i < p) => pending'.cells[i] = pending.cells[i + 1]
    BY <1>1, <2>1, <2>2
  <2>4. ASSUME NEW i \in 1 .. pending.len - 1, NEW j \in 1 .. pending.len - 1, i < j
        PROVE  \E k, l \in 1 .. pending.len :
                 k < l /\ pending'.cells[i] = pending.cells[k] /\ pending'.cells[j] = pending.cells[l]
    <3>1. i \in 1 .. pending.len /\ i + 1 \in 1 .. pending.len /\ j \in 1 .. pending.len /\ j + 1 \in 1 .. pending.len
      BY <1>1
    <3>2. CASE i < p /\ j < p
      BY <2>3, <2>4, <3>1, <3>2
    <3>3. CASE i < p /\ ~(j < p)
      <4>1. i < j + 1
        BY <1>1, <2>4
      <4> QED
        BY <2>3, <3>1, <3>3, <4>1
    <3>4. CASE ~(i < p)
      <4>1. i + 1 < j + 1 /\ ~(j < p)
        BY <1>1, <2>1, <2>4, <3>4
      <4> QED
        BY <2>3, <3>1, <3>4, <4>1
    <3> QED
      BY <3>2, <3>3, <3>4
  <2>5. taken' = IF taken.shares THEN [taken EXCEPT !.removed = TRUE] ELSE taken
    BY <1>3 DEF Remove
  <2>6. taken'.shares = taken.shares /\ taken'.len = taken.len
    BY <1>1, <2>5 DEF Slice
  <2>7. CASE ~taken.shares
    <3>1. View' = View
      BY <2>5, <2>7 DEF View
    <3> QED
      BY <2>2, <2>4, <2>6, <3>1
  <2>8. CASE taken.shares
    <3>1. View = SubSeq(pending.cells, 1, taken.len) /\ View' = SubSeq(pending'.cells, 1, taken.len)
      BY <2>6, <2>8 DEF View
    <3>2. pending'.cells \in Seq(Tx \cup {Empty}) /\ Len(pending'.cells) = Len(pending.cells)
      <4>1. \A i \in 1 .. Len(pending.cells) : pending'.cells[i] \in Tx \cup {Empty}
        BY <1>1, <2>1, <2>2
      <4> QED
        BY <1>1, <2>2, <4>1
    <3>3. /\ Len(View) = taken.len /\ Len(View') = taken.len
          /\ \A i \in 1 .. taken.len : View[i] = pending.cells[i] /\ View'[i] = pending'.cells[i]
      BY <1>1, <2>8, <3>1, <3>2
    <3>4. ASSUME NEW i \in 1 .. taken.len
          PROVE  View'[i] = View[i] \/ View'[i] \in pending.lookup
      <4>1. i \in 1 .. Len(pending.cells)
        BY <1>1, <2>8
      <4>2. CASE i \in p .. (pending.len - 1)
        <5>1. i + 1 \in 1 .. pending.len
          BY <1>1, <2>1, <4>2
        <5>2. pending'.cells[i] = pending.cells[i + 1]
          BY <2>2, <4>1, <4>2
        <5> QED
          BY <1>1, <3>3, <5>1, <5>2
      <4>3. CASE i \notin p .. (pending.len - 1)
        <5>1. pending'.cells[i] = pending.cells[i]
          BY <2>2, <4>1, <4>3
        <5> QED
          BY <3>3, <5>1
      <4> QED
        BY <4>2, <4>3
    <3>5. Elements(View') \subseteq Elements(View) \cup pending.lookup
      BY <3>3, <3>4 DEF Elements
    <3> QED
      BY <2>2, <2>4, <2>6, <2>8, <3>5
  <2> QED
    BY <2>7, <2>8
<1> QED
  BY <1>2, <1>3
=============================================================================
