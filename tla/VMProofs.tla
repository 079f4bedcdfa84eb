------------------------------ MODULE VMProofs ------------------------------
(***************************************************************************)
(* The VM, for programs of any length and stacks of any size.              *)
(***************************************************************************)
EXTENDS VM, FiniteSetTheorems, WellFoundedInduction, TLAPS

-----------------------------------------------------------------------------
(* Induction over natural numbers, for a set of numbers: the same two      *)
(* lemmas, with the same proofs, as in LedgerProofs, which has constants   *)
(* of its own.                                                             *)

LEMMA LeastNat ==
  ASSUME NEW S \in SUBSET Nat, S # {}
  PROVE  \E n \in S : \A m \in S : n <= m
<1> DEFINE T == {1 .. n : n \in S}
<1>1. \A n \in S : 1 .. n \in FiniteSubsetsOf(Nat)
  <2>1. \A n \in S : IsFiniteSet(1 .. n)
    BY FS_Interval
  <2> QED BY <2>1 DEF FiniteSubsetsOf
<1>2. T \subseteq FiniteSubsetsOf(Nat) /\ T # {}
  BY <1>1
<1>3. IsWellFoundedOn(StrictSubsetOrdering(Nat), FiniteSubsetsOf(Nat))
  BY FS_StrictSubsetOrderingWellFounded
<1>4. \E x \in T : \A y \in T : ~ (<<y, x>> \in StrictSubsetOrdering(Nat))
  <2> HIDE DEF T
  <2> QED BY <1>2, <1>3, WFMin
<1>5. PICK n \in S : \A m \in S : <<1 .. m, 1 .. n>> \notin StrictSubsetOrdering(Nat)
  BY <1>4
<1>6. ASSUME NEW m \in S, m < n
      PROVE  <<1 .. m, 1 .. n>> \in StrictSubsetOrdering(Nat)
  <2>1. 1 .. m \subseteq 1 .. n /\ n \in 1 .. n /\ n \notin 1 .. m
    BY <1>6
  <2>2. 1 .. m \in SUBSET Nat /\ 1 .. n \in SUBSET Nat
    OBVIOUS
  <2> QED BY <2>1, <2>2 DEF StrictSubsetOrdering
<1>7. n \in Nat /\ \A m \in S : m \in Nat
  OBVIOUS
<1>8. \A m \in S : ~ (m < n)
  BY <1>5, <1>6
<1>9. \A m \in S : n <= m
  <2> HIDE DEF T
  <2> QED BY <1>7, <1>8
<1> QED BY <1>9

LEMMA SetInduction ==
  ASSUME NEW S, 0 \in S, \A n \in Nat : n \in S => n + 1 \in S
  PROVE  Nat \subseteq S
<1> SUFFICES ASSUME Nat \ S # {} PROVE FALSE
  OBVIOUS
<1>1. PICK n \in Nat \ S : \A m \in Nat \ S : n <= m
  BY LeastNat
<1>2. n # 0 /\ n - 1 \in Nat /\ n - 1 \in S
  BY <1>1
<1> QED BY <1>1, <1>2

-----------------------------------------------------------------------------
(* The bytes of a program                                                  *)

Byte == 0 .. 255

Program == {p \in Seq(Used) : p # <<>>}

LEMMA BytesType ==
  ASSUME NEW i \in Used
  PROVE  Bytes(i) \in Seq(Byte) /\ Len(Bytes(i)) \in {1, 2}
<1>1. i \in Instruction
  BY VMAssumption
<1>2. Operand \subseteq Byte
  BY DEF Operand, Byte
<1>3. CASE i \in [op : {"pushInt", "pushByte", "skip"}, arg : Operand]
  <2>1. i.arg \in Byte /\ i.op \in {"pushInt", "pushByte", "skip"}
    BY <1>2, <1>3
  <2>2. Opcode["pushInt"] = 10 /\ Opcode["pushByte"] = 12
    BY DEF Opcode
  <2>3. CASE i.op = "skip"
    BY <2>1, <2>3 DEF Bytes
  <2>4. CASE i.op \in {"pushInt", "pushByte"}
    <3>1. Opcode[i.op] \in Byte
      BY <2>2, <2>4 DEF Byte
    <3>2. Bytes(i) = <<i.arg, Opcode[i.op]>>
      BY <2>4 DEF Bytes
    <3> QED BY <2>1, <3>1, <3>2
  <2> QED BY <2>1, <2>3, <2>4
<1>4. CASE i \in [op : {"add", "sub", "pack", "store"}]
  <2>1. i.op \in {"add", "sub", "pack", "store"}
    BY <1>4
  <2>2. Opcode[i.op] \in Byte
    BY <2>1 DEF Opcode, Byte
  <2>3. Bytes(i) = <<Opcode[i.op]>>
    BY <2>1 DEF Bytes
  <2> QED BY <2>2, <2>3
<1> QED BY <1>1, <1>3, <1>4 DEF Instruction

\* The recursive function of Assemble.
IsAssembly(upTo, p, n) ==
  upTo = [k \in 0 .. n |-> IF k = 0 THEN <<>> ELSE upTo[k - 1] \o Bytes(p[k])]

LEMMA AssemblyUnfolds ==
  ASSUME NEW p, NEW n \in Nat, NEW upTo, IsAssembly(upTo, p, n)
  PROVE  /\ upTo[0] = <<>>
         /\ \A k \in 1 .. n : upTo[k] = upTo[k - 1] \o Bytes(p[k])
<1> DEFINE body == [k \in 0 .. n |-> IF k = 0 THEN <<>> ELSE upTo[k - 1] \o Bytes(p[k])]
<1>1. upTo = body
  BY DEF IsAssembly
<1>2. body[0] = <<>>
  OBVIOUS
<1>3. ASSUME NEW k \in 1 .. n
      PROVE  body[k] = upTo[k - 1] \o Bytes(p[k])
  <2>1. k \in 0 .. n /\ k # 0
    OBVIOUS
  <2> QED BY <2>1
<1> QED
  <2> HIDE DEF body
  <2> QED BY <1>1, <1>2, <1>3

LEMMA AssemblyType ==
  ASSUME NEW p \in Seq(Used), NEW upTo, IsAssembly(upTo, p, Len(p))
  PROVE  \A k \in 0 .. Len(p) : upTo[k] \in Seq(Byte)
<1> DEFINE S == {k \in Nat : k <= Len(p) => upTo[k] \in Seq(Byte)}
<1>0. Len(p) \in Nat /\ \A k \in 1 .. Len(p) : p[k] \in Used
  OBVIOUS
<1>u. /\ upTo[0] = <<>>
      /\ \A k \in 1 .. Len(p) : upTo[k] = upTo[k - 1] \o Bytes(p[k])
  BY <1>0, AssemblyUnfolds
<1>1. 0 \in S
  <2>1. upTo[0] \in Seq(Byte)
    BY <1>u
  <2> QED BY <2>1
<1>2. ASSUME NEW k \in Nat, k \in S
      PROVE  k + 1 \in S
  <2> SUFFICES ASSUME k + 1 <= Len(p) PROVE upTo[k + 1] \in Seq(Byte)
    OBVIOUS
  <2>1. k + 1 \in 1 .. Len(p) /\ (k + 1) - 1 = k
    BY <1>0
  <2>2. upTo[k + 1] = upTo[k] \o Bytes(p[k + 1])
    BY <1>u, <2>1
  <2>3. upTo[k] \in Seq(Byte) /\ Bytes(p[k + 1]) \in Seq(Byte)
    BY <1>0, <1>2, <2>1, BytesType
  <2> QED BY <2>2, <2>3
<1>3. Nat \subseteq S
  <2> HIDE DEF S
  <2> QED BY <1>1, <1>2, SetInduction
<1> QED BY <1>0, <1>3

LEMMA AssemblyExists ==
  ASSUME NEW p \in Seq(Used)
  PROVE  \E upTo : IsAssembly(upTo, p, Len(p))
<1> DEFINE S == {n \in Nat : \E upTo : IsAssembly(upTo, p, n)}
<1>1. 0 \in S
  <2> DEFINE upTo == [k \in 0 .. 0 |-> <<>>]
  <2>1. upTo = [k \in 0 .. 0 |-> IF k = 0 THEN <<>> ELSE upTo[k - 1] \o Bytes(p[k])]
    OBVIOUS
  <2>2. IsAssembly(upTo, p, 0)
    BY <2>1 DEF IsAssembly
  <2> QED BY <2>2
<1>2. ASSUME NEW n \in Nat, n \in S
      PROVE  n + 1 \in S
  <2>1. PICK f : IsAssembly(f, p, n)
    BY <1>2
  <2>2. /\ f[0] = <<>>
        /\ \A k \in 1 .. n : f[k] = f[k - 1] \o Bytes(p[k])
    BY <2>1, AssemblyUnfolds
  <2> DEFINE last == f[n] \o Bytes(p[n + 1])
             g == [k \in 0 .. n + 1 |-> IF k = n + 1 THEN last ELSE f[k]]
             b(k) == IF k = 0 THEN <<>> ELSE g[k - 1] \o Bytes(p[k])
  <2>3. ASSUME NEW k \in 0 .. n + 1
        PROVE  g[k] = b(k)
    <3>1. CASE k = 0
      BY <2>2, <3>1
    <3>2. CASE k \in 1 .. n
      <4>1. g[k] = f[k] /\ g[k - 1] = f[k - 1]
        BY <3>2
      <4>2. b(k) = g[k - 1] \o Bytes(p[k])
        BY <3>2
      <4> HIDE DEF g, b
      <4> QED BY <2>2, <3>2, <4>1, <4>2
    <3>3. CASE k = n + 1
      <4>1. g[k] = last /\ g[n] = f[n]
        BY <3>3
      <4>2. b(k) = g[n] \o Bytes(p[n + 1])
        BY <3>3
      <4> HIDE DEF g, b
      <4> QED BY <4>1, <4>2
    <3> QED BY <3>1, <3>2, <3>3
  <2>4. g = [k \in 0 .. n + 1 |-> b(k)]
    BY <2>3
  <2>5. IsAssembly(g, p, n + 1)
    BY <2>4 DEF IsAssembly
  <2> QED BY <2>5
<1>3. Nat \subseteq S
  <2> HIDE DEF S
  <2> QED BY <1>1, <1>2, SetInduction
<1> QED BY <1>3

LEMMA AssembleIs ==
  ASSUME NEW p \in Seq(Used)
  PROVE  \E upTo : IsAssembly(upTo, p, Len(p)) /\ Assemble(p) = upTo[Len(p)]
<1> DEFINE f == CHOOSE upTo : IsAssembly(upTo, p, Len(p))
<1>1. IsAssembly(f, p, Len(p))
  BY AssemblyExists
<1>2. Assemble(p) = f[Len(p)]
  BY DEF Assemble, IsAssembly
<1> QED BY <1>1, <1>2

\* The bytes of the first k instructions.
Beginning(p, k) == Assemble(SubSeq(p, 1, k))

LEMMA BeginningIs ==
  ASSUME NEW p \in Seq(Used), NEW f, IsAssembly(f, p, Len(p)), NEW k \in 0 .. Len(p)
  PROVE  Beginning(p, k) = f[k]
<1> DEFINE q == SubSeq(p, 1, k)
<1>1. q \in Seq(Used) /\ Len(q) = k /\ \A j \in 1 .. k : q[j] = p[j]
  OBVIOUS
<1>2. Len(p) \in Nat /\ k \in Nat /\ k <= Len(p)
  OBVIOUS
<1> HIDE DEF q
<1>3. PICK g : IsAssembly(g, q, k) /\ Assemble(q) = g[k]
  BY <1>1, AssembleIs
<1>4. /\ f[0] = <<>>
      /\ \A j \in 1 .. Len(p) : f[j] = f[j - 1] \o Bytes(p[j])
  BY <1>2, AssemblyUnfolds
<1>5. /\ g[0] = <<>>
      /\ \A j \in 1 .. k : g[j] = g[j - 1] \o Bytes(q[j])
  BY <1>2, <1>3, AssemblyUnfolds
<1> DEFINE S == {j \in Nat : j <= k => f[j] = g[j]}
<1>6. 0 \in S
  BY <1>4, <1>5
<1>7. ASSUME NEW j \in Nat, j \in S
      PROVE  j + 1 \in S
  <2> SUFFICES ASSUME j + 1 <= k PROVE f[j + 1] = g[j + 1]
    OBVIOUS
  <2>1. j + 1 \in 1 .. Len(p) /\ j + 1 \in 1 .. k /\ (j + 1) - 1 = j
    BY <1>2
  <2>2. f[j] = g[j]
    BY <1>7, <2>1
  <2>3. f[j + 1] = f[j] \o Bytes(p[j + 1]) /\ g[j + 1] = g[j] \o Bytes(q[j + 1])
    BY <1>4, <1>5, <2>1
  <2> QED BY <1>1, <2>1, <2>2, <2>3
<1>8. Nat \subseteq S
  <2> HIDE DEF S
  <2> QED BY <1>6, <1>7, SetInduction
<1> QED BY <1>2, <1>3, <1>8 DEF Beginning, q

LEMMA BeginningGrows ==
  ASSUME NEW p \in Seq(Used)
  PROVE  /\ Beginning(p, 0) = <<>>
         /\ Beginning(p, Len(p)) = Assemble(p)
         /\ \A k \in 0 .. Len(p) : Beginning(p, k) \in Seq(Byte)
         /\ \A k \in 1 .. Len(p) : Beginning(p, k) = Beginning(p, k - 1) \o Bytes(p[k])
<1>1. Len(p) \in Nat
  OBVIOUS
<1>2. PICK f : IsAssembly(f, p, Len(p)) /\ Assemble(p) = f[Len(p)]
  BY AssembleIs
<1>3. /\ f[0] = <<>>
      /\ \A k \in 1 .. Len(p) : f[k] = f[k - 1] \o Bytes(p[k])
  BY <1>1, <1>2, AssemblyUnfolds
<1>4. \A k \in 0 .. Len(p) : f[k] \in Seq(Byte)
  BY <1>2, AssemblyType
<1>5. \A k \in 0 .. Len(p) : Beginning(p, k) = f[k]
  BY <1>2, BeginningIs
<1>6. 0 \in 0 .. Len(p) /\ Len(p) \in 0 .. Len(p)
  BY <1>1
<1>7. ASSUME NEW k \in 1 .. Len(p)
      PROVE  Beginning(p, k) = Beginning(p, k - 1) \o Bytes(p[k])
  <2>1. k \in 0 .. Len(p) /\ k - 1 \in 0 .. Len(p)
    BY <1>1
  <2>2. f[k] = f[k - 1] \o Bytes(p[k])
    BY <1>3
  <2> QED BY <1>5, <2>1, <2>2
<1>8. Beginning(p, 0) = <<>> /\ Beginning(p, Len(p)) = Assemble(p)
  BY <1>2, <1>3, <1>5, <1>6
<1>9. \A k \in 0 .. Len(p) : Beginning(p, k) \in Seq(Byte)
  BY <1>4, <1>5
<1> QED BY <1>7, <1>8, <1>9

\* The bytes of the first m instructions are the first bytes of the first n.
LEMMA BeginningStays ==
  ASSUME NEW p \in Seq(Used), NEW m \in 0 .. Len(p), NEW n \in m .. Len(p)
  PROVE  /\ Len(Beginning(p, n)) >= Len(Beginning(p, m)) + (n - m)
         /\ \A i \in 1 .. Len(Beginning(p, m)) : Beginning(p, n)[i] = Beginning(p, m)[i]
<1> DEFINE B(k) == Beginning(p, k)
           Holds(k) == /\ Len(B(k)) >= Len(B(m)) + (k - m)
                       /\ \A i \in 1 .. Len(B(m)) : B(k)[i] = B(m)[i]
           S == {d \in Nat : m + d <= Len(p) => Holds(m + d)}
<1>1. Len(p) \in Nat /\ m \in Nat /\ n \in Nat /\ m <= n /\ n <= Len(p)
  OBVIOUS
<1>2. \A k \in 0 .. Len(p) : B(k) \in Seq(Byte)
  BY BeginningGrows
<1>3. 0 \in S
  <2>1. Len(B(m)) \in Nat
    BY <1>2
  <2> HIDE DEF B
  <2> QED BY <1>1, <2>1
<1>4. ASSUME NEW d \in Nat, d \in S
      PROVE  d + 1 \in S
  <2> SUFFICES ASSUME m + (d + 1) <= Len(p) PROVE Holds(m + (d + 1))
    OBVIOUS
  <2> DEFINE k == m + d
  <2>1. k \in 0 .. Len(p) /\ k + 1 \in 1 .. Len(p) /\ m + (d + 1) = k + 1 /\ (k + 1) - 1 = k
    BY <1>1
  <2>2. Holds(k)
    BY <1>4, <2>1
  <2>3. B(k + 1) = B(k) \o Bytes(p[k + 1])
    BY <2>1, BeginningGrows
  <2>4. Bytes(p[k + 1]) \in Seq(Byte) /\ Len(Bytes(p[k + 1])) \in {1, 2}
    BY <2>1, BytesType
  <2>5. B(k) \in Seq(Byte) /\ B(m) \in Seq(Byte)
    BY <1>2, <2>1
  <2> HIDE DEF B, k
  <2>6. Len(B(k + 1)) = Len(B(k)) + Len(Bytes(p[k + 1])) /\ Len(B(k)) \in Nat /\ Len(B(m)) \in Nat
    BY <2>3, <2>4, <2>5
  <2>7. \A i \in 1 .. Len(B(k)) : B(k + 1)[i] = B(k)[i]
    BY <2>3, <2>4, <2>5
  <2>8. \A i \in 1 .. Len(B(m)) : i \in 1 .. Len(B(k))
    BY <1>1, <2>1, <2>2, <2>6 DEF k
  <2>9. Len(B(k + 1)) >= Len(B(m)) + ((k + 1) - m)
    <3>1. Len(B(k)) >= Len(B(m)) + (k - m)
      BY <2>2
    <3>2. Len(Bytes(p[k + 1])) \in Nat /\ Len(Bytes(p[k + 1])) >= 1
      <4>1. \A l \in {1, 2} : l \in Nat /\ l >= 1
        OBVIOUS
      <4> QED BY <2>4, <4>1, Zenon
    <3>3. k \in Nat /\ m \in Nat
      BY <1>1, <2>1
    <3> HIDE DEF Holds
    <3> QED BY <2>6, <3>1, <3>2, <3>3
  <2> QED BY <2>1, <2>2, <2>7, <2>8, <2>9
<1>5. Nat \subseteq S
  <2> HIDE DEF S
  <2> QED BY <1>3, <1>4, SetInduction
<1>6. n - m \in Nat /\ m + (n - m) = n
  BY <1>1
<1> QED BY <1>1, <1>5, <1>6

LEMMA AssembleType ==
  ASSUME NEW p \in Program
  PROVE  Assemble(p) \in Seq(Byte) /\ Len(Assemble(p)) > 0
<1>1. p \in Seq(Used) /\ Len(p) \in Nat /\ Len(p) > 0
  BY DEF Program
<1>2. Assemble(p) = Beginning(p, Len(p)) /\ Beginning(p, 0) = <<>> /\ Assemble(p) \in Seq(Byte)
  BY <1>1, BeginningGrows
<1>3. Len(Beginning(p, Len(p))) >= Len(Beginning(p, 0)) + (Len(p) - 0)
  BY <1>1, BeginningStays
<1> QED BY <1>1, <1>2, <1>3

-----------------------------------------------------------------------------
(* The stack                                                               *)

Cell == [int : Int] \cup [byte : Int] \cup [key : Seq(Int)]

\* Values up to sp, nothing beyond.
StackOK(s) ==
  /\ s \in [array : Seq(Cell \cup {Nil}), sp : Nat]
  /\ s.sp <= Len(s.array)
  /\ \A i \in DOMAIN s.array : i > s.sp <=> s.array[i] = Nil

LEMMA CellKinds ==
  /\ \A c \in Cell : c # Nil
  /\ \A c \in Cell \cup {Nil} :
       /\ "int" \in DOMAIN c => c \in [int : Int]
       /\ "byte" \in DOMAIN c => c \in [byte : Int]
       /\ "key" \in DOMAIN c => c \in [key : Seq(Int)]
<1>1. DOMAIN Nil = {"nil"}
  BY DEF Nil
<1>2. /\ \A c \in [int : Int] : DOMAIN c = {"int"}
      /\ \A c \in [byte : Int] : DOMAIN c = {"byte"}
      /\ \A c \in [key : Seq(Int)] : DOMAIN c = {"key"}
  OBVIOUS
<1> QED BY <1>1, <1>2 DEF Cell

\* An instruction finds its arguments among the values.
LEMMA IsPresent ==
  ASSUME StackOK(stack), NEW i \in Nat \ {0}, NEW kind \in {"int", "byte", "key"}, Is(i, kind)
  PROVE  i \in 1 .. stack.sp /\ Value(i) = stack.array[i] /\ stack.array[i] \in Cell
<1>1. DOMAIN Nil = {"nil"}
  BY DEF Nil
<1>2. Value(i) # Nil
  BY <1>1 DEF Is
<1>3. i <= Len(stack.array) /\ Value(i) = stack.array[i]
  BY <1>2 DEF Value
<1>4. stack.array \in Seq(Cell \cup {Nil}) /\ stack.sp \in Nat
  BY DEF StackOK
<1>5. i \in DOMAIN stack.array
  BY <1>3, <1>4
<1>6. stack.array[i] \in Cell \cup {Nil}
  BY <1>4, <1>5
<1>7. ~ (i > stack.sp)
  BY <1>2, <1>3, <1>5 DEF StackOK
<1> QED BY <1>2, <1>3, <1>4, <1>6, <1>7

LEMMA PoppedOK ==
  ASSUME StackOK(stack), NEW n \in 0 .. stack.sp
  PROVE  /\ StackOK(Popped(n))
         /\ Popped(n).sp = stack.sp - n
         /\ Len(Popped(n).array) = Len(stack.array) - n
         /\ \A i \in 1 .. Len(stack.array) - n : Popped(n).array[i] = stack.array[i + n]
<1> DEFINE a == stack.array
           b == SubSeq(a, n + 1, Len(a))
<1>1. /\ a \in Seq(Cell \cup {Nil}) /\ Len(a) \in Nat /\ stack.sp \in Nat /\ stack.sp <= Len(a)
      /\ n \in Nat /\ n <= stack.sp
      /\ \A i \in DOMAIN a : i > stack.sp <=> a[i] = Nil
  BY DEF StackOK
<1>2. Popped(n).array = b /\ Popped(n).sp = stack.sp - n
  BY DEF Popped
<1> HIDE DEF a
<1>3. Len(b) = Len(a) - n /\ b \in Seq(Cell \cup {Nil})
  BY <1>1
<1>4. \A i \in 1 .. Len(a) - n : b[i] = a[i + n]
  BY <1>1
<1>5. Popped(n) \in [array : Seq(Cell \cup {Nil}), sp : Nat]
  <2>1. Popped(n) = [array |-> b, sp |-> stack.sp - n]
    BY DEF Popped, a
  <2>2. stack.sp - n \in Nat
    BY <1>1
  <2> HIDE DEF b
  <2> QED BY <1>3, <2>1, <2>2
<1> HIDE DEF b
<1>6. \A i \in DOMAIN b : i \in 1 .. Len(a) - n /\ i + n \in DOMAIN a
  BY <1>1, <1>3
<1>7. \A i \in DOMAIN b : i > stack.sp - n <=> b[i] = Nil
  <2> SUFFICES ASSUME NEW i \in DOMAIN b PROVE i > stack.sp - n <=> b[i] = Nil
    OBVIOUS
  <2>1. i \in Nat /\ b[i] = a[i + n] /\ i + n \in DOMAIN a
    BY <1>1, <1>4, <1>6
  <2>2. (i > stack.sp - n) <=> (i + n > stack.sp)
    BY <1>1, <2>1
  <2> QED BY <1>1, <2>1, <2>2
<1>8. stack.sp - n <= Len(b)
  BY <1>1, <1>3
<1> QED BY <1>2, <1>3, <1>4, <1>5, <1>7, <1>8 DEF StackOK, a

LEMMA PushOK ==
  ASSUME NEW s, StackOK(s), NEW value \in Cell, ~Full(s)
  PROVE  StackOK(Push(s, value)) /\ Push(s, value).sp = s.sp + 1
<1> DEFINE a == s.array
           b == [a EXCEPT ![s.sp + 1] = value]
<1>1. /\ a \in Seq(Cell \cup {Nil}) /\ Len(a) \in Nat /\ s.sp \in Nat /\ s.sp < Len(a)
      /\ \A i \in DOMAIN a : i > s.sp <=> a[i] = Nil
  BY DEF StackOK, Full
<1>2. Push(s, value) = [array |-> b, sp |-> s.sp + 1]
  BY DEF Push
<1> HIDE DEF a
<1>3. s.sp + 1 \in DOMAIN a /\ DOMAIN a = 1 .. Len(a)
  BY <1>1
<1>4. b \in Seq(Cell \cup {Nil}) /\ Len(b) = Len(a) /\ DOMAIN b = DOMAIN a
  BY <1>1, <1>3
<1>5. /\ b[s.sp + 1] = value
      /\ \A i \in DOMAIN a : i # s.sp + 1 => b[i] = a[i]
  BY <1>3
<1> HIDE DEF b
<1>6. value # Nil
  BY CellKinds
<1>7. \A i \in DOMAIN b : i > s.sp + 1 <=> b[i] = Nil
  <2> SUFFICES ASSUME NEW i \in DOMAIN a PROVE i > s.sp + 1 <=> b[i] = Nil
    BY <1>4
  <2>1. i \in Nat
    BY <1>3
  <2>2. CASE i = s.sp + 1
    BY <1>1, <1>5, <1>6, <2>1, <2>2
  <2>3. CASE i # s.sp + 1
    <3>1. b[i] = a[i]
      BY <1>5, <2>3
    <3>2. (i > s.sp + 1) <=> (i > s.sp)
      BY <1>1, <2>1, <2>3
    <3> QED BY <1>1, <3>1, <3>2
  <2> QED BY <2>2, <2>3
<1>8. Push(s, value) \in [array : Seq(Cell \cup {Nil}), sp : Nat]
  BY <1>1, <1>2, <1>4
<1>9. Push(s, value).sp = s.sp + 1 /\ Push(s, value).array = b /\ s.sp + 1 <= Len(b)
  BY <1>1, <1>2, <1>4
<1> QED BY <1>7, <1>8, <1>9 DEF StackOK

LEMMA ReplaceOK ==
  ASSUME StackOK(stack), NEW n \in 0 .. stack.sp, NEW value \in Cell, Replace(n, value)
  PROVE  StackOK(stack') /\ contract' = contract
<1>1. StackOK(Popped(n)) /\ ~Full(Popped(n))
  BY PoppedOK DEF Replace
<1>2. StackOK(Push(Popped(n), value))
  BY <1>1, PushOK
<1>3. stack' = Push(Popped(n), value) /\ contract' = contract
  BY DEF Replace
<1> QED BY <1>2, <1>3 DEF StackOK

-----------------------------------------------------------------------------
(* Types                                                                   *)

\* VMTypeOK, and what the values are: without their kinds, an instruction could put something into
\* the array or the contract state that is no value.
VMInv ==
  /\ source \in Program
  /\ StackOK(stack)
  /\ VMTypeOK

LEMMA DataType ==
  ASSUME VMInv
  PROVE  /\ data \in Seq(Byte)
         /\ ip \in Nat
         /\ \A i \in 1 .. Len(data) : data[i] \in Int
<1>1. data \in Seq(Byte)
  BY AssembleType DEF VMInv, VMTypeOK
<1>2. \A b \in Byte : b \in Int
  BY DEF Byte
<1>3. Len(data) \in Nat
  BY <1>1
<1>4. ip \in Nat
  BY <1>3 DEF VMInv, VMTypeOK
<1>5. \A i \in 1 .. Len(data) : data[i] \in Byte
  BY <1>1
<1> QED BY <1>1, <1>2, <1>4, <1>5

LEMMA ExecOK ==
  ASSUME VMInv, status = "running", Exec
  PROVE  StackOK(stack') /\ contract' \in [DOMAIN contract' -> Int]
<1>1. StackOK(stack) /\ contract \in [DOMAIN contract -> Int] /\ stack.sp \in Nat
  BY DEF VMInv, VMTypeOK, StackOK
<1>2. ip > 0 => Preceding \in Int
  <2>1. ip < Len(data) /\ ip \in Nat /\ Len(data) \in Nat
    BY DataType DEF VMInv, VMTypeOK
  <2>2. ip > 0 => ip \in 1 .. Len(data)
    BY <2>1
  <2> QED BY <2>2, DataType DEF Preceding
<1>3. ASSUME NEW n \in 0 .. stack.sp, NEW value \in Cell, Replace(n, value)
      PROVE  StackOK(stack') /\ contract' \in [DOMAIN contract' -> Int]
  BY <1>1, <1>3, ReplaceOK
<1>4. ASSUME NEW i \in Nat \ {0}, Is(i, "int")
      PROVE  i \in 1 .. stack.sp /\ Value(i).int \in Int
  <2>1. i \in 1 .. stack.sp /\ Value(i) \in Cell
    BY <1>1, <1>4, IsPresent
  <2>2. Value(i) \in [int : Int]
    BY <1>4, <2>1, CellKinds DEF Is
  <2> QED BY <2>1, <2>2
<1>5. ASSUME NEW i \in Nat \ {0}, Is(i, "byte")
      PROVE  i \in 1 .. stack.sp /\ Value(i).byte \in Int
  <2>1. i \in 1 .. stack.sp /\ Value(i) \in Cell
    BY <1>1, <1>5, IsPresent
  <2>2. Value(i) \in [byte : Int]
    BY <1>5, <2>1, CellKinds DEF Is
  <2> QED BY <2>1, <2>2
<1>6. \A v \in Int : [int |-> v] \in Cell /\ [byte |-> v] \in Cell
  BY DEF Cell
<1>7. 0 \in 0 .. stack.sp
  BY <1>1
<1>8. Is(1, "int") /\ Is(2, "int") => 2 \in 0 .. stack.sp /\ Value(1).int \in Int /\ Value(2).int \in Int
  <2>1. ASSUME Is(1, "int"), Is(2, "int")
        PROVE  2 \in 1 .. stack.sp /\ Value(1).int \in Int /\ Value(2).int \in Int
    BY <1>4, <2>1
  <2> QED BY <1>1, <2>1
<1>9. CASE InstrPushInt
  BY <1>2, <1>3, <1>6, <1>7, <1>9 DEF InstrPushInt
<1>10. CASE InstrPushByte
  BY <1>2, <1>3, <1>6, <1>7, <1>10 DEF InstrPushByte
<1>11. CASE InstrAdd
  <2>1. Is(1, "int") /\ Is(2, "int") /\ Replace(2, [int |-> Value(1).int + Value(2).int])
    BY <1>11 DEF InstrAdd
  <2>2. Value(1).int + Value(2).int \in Int
    BY <1>8, <2>1
  <2> QED BY <1>3, <1>6, <1>8, <2>1, <2>2
<1>12. CASE InstrSub
  <2>1. Is(1, "int") /\ Is(2, "int") /\ Replace(2, [int |-> Value(1).int - Value(2).int])
    BY <1>12 DEF InstrSub
  <2>2. Value(1).int - Value(2).int \in Int
    BY <1>8, <2>1
  <2> QED BY <1>3, <1>6, <1>8, <2>1, <2>2
<1>13. CASE InstrPack
  <2> DEFINE n == Value(1).int
             key == [i \in 1 .. n |-> Value(i + 1).byte]
  <2>1. /\ Is(1, "int") /\ n >= 0
        /\ \A i \in 1 .. n : Is(i + 1, "byte")
        /\ Replace(n + 1, [key |-> key])
    BY <1>13 DEF InstrPack
  <2>2. n \in Nat /\ 1 \in 1 .. stack.sp
    BY <1>4, <2>1
  <2>3. ASSUME NEW i \in 1 .. n
        PROVE  i + 1 \in 1 .. stack.sp /\ Value(i + 1).byte \in Int
    <3>1. i + 1 \in Nat \ {0} /\ Is(i + 1, "byte")
      BY <2>1, <2>2
    <3> QED BY <1>5, <3>1
  <2> HIDE DEF n
  <2>4. n + 1 \in 0 .. stack.sp
    <3>1. CASE n = 0
      BY <2>2, <3>1
    <3>2. CASE n > 0
      <4>1. n \in 1 .. n
        BY <2>2, <3>2
      <4> QED BY <2>2, <2>3, <4>1
    <3> QED BY <2>2, <3>1, <3>2
  <2>5. key \in Seq(Int)
    BY <2>2, <2>3
  <2> HIDE DEF key
  <2>6. [key |-> key] \in Cell
    BY <2>5 DEF Cell
  <2> QED BY <1>3, <2>1, <2>4, <2>6
<1>14. CASE InstrStore
  <2>1. /\ Is(1, "key") /\ Is(2, "int")
        /\ contract' = Put(Value(1).key, Value(2).int)
        /\ stack' = Popped(2)
    BY <1>14 DEF InstrStore
  <2>2. 2 \in 0 .. stack.sp /\ Value(2).int \in Int
    BY <1>1, <1>4, <2>1
  <2>3. StackOK(Popped(2))
    BY <1>1, <2>2, PoppedOK
  <2>4. StackOK(stack')
    BY <2>1, <2>3 DEF StackOK
  <2>5. \A key : Put(key, Value(2).int) \in [DOMAIN contract \cup {key} -> Int]
    BY <1>1, <2>2 DEF Put
  <2> QED BY <2>1, <2>4, <2>5
<1>15. CASE Unknown
  BY <1>1, <1>15 DEF Unknown, StackOK
<1> QED BY <1>9, <1>10, <1>11, <1>12, <1>13, <1>14, <1>15 DEF Exec

LEMMA InitInv ==
  VMInit => VMInv
<1> SUFFICES ASSUME VMInit PROVE VMInv
  OBVIOUS
<1>1. source \in Program
  BY DEF VMInit, Program
<1>2. data = Assemble(source) /\ Len(data) \in Nat /\ Len(data) > 0 /\ ip = 0 /\ status = "running"
  BY <1>1, AssembleType DEF VMInit
<1>3. StackSize \in Nat
  BY VMAssumption
<1>4. stack = [array |-> [i \in 1 .. StackSize |-> Nil], sp |-> 0]
  BY DEF VMInit
<1>5. [i \in 1 .. StackSize |-> Nil] \in Seq(Cell \cup {Nil}) /\ Len([i \in 1 .. StackSize |-> Nil]) = StackSize
  BY <1>3
<1>6. StackOK(stack)
  BY <1>3, <1>4, <1>5 DEF StackOK
<1>7. contract \in [DOMAIN contract -> Int]
  BY DEF VMInit
<1> QED
  BY <1>1, <1>2, <1>6, <1>7 DEF VMInv, VMTypeOK, StackOK

LEMMA StepInv ==
  VMInv /\ [VMNext]_vmVars => VMInv'
<1> SUFFICES ASSUME VMInv, [VMNext]_vmVars PROVE VMInv'
  OBVIOUS
<1>1. CASE RunStep /\ status = "running"
  <2>1. Exec /\ ip' = ip + 1 /\ source' = source /\ data' = data
        /\ status' = IF ip' > Len(data) - 1 THEN "done" ELSE "running"
    BY <1>1 DEF RunStep
  <2>2. StackOK(stack') /\ contract' \in [DOMAIN contract' -> Int]
    BY <1>1, <2>1, ExecOK
  <2>3. Len(data) \in Nat /\ ip \in Nat /\ ip < Len(data)
    BY <1>1, DataType DEF VMInv, VMTypeOK
  <2>4. ip' \in 0 .. Len(data')
    BY <2>1, <2>3
  <2>5. status' \in {"running", "done", "panic"} /\ (status' = "running" => ip' < Len(data'))
    BY <2>1, <2>3
  <2>6. data' = Assemble(source') /\ source' \in Program
    BY <2>1 DEF VMInv, VMTypeOK
  <2> QED BY <2>2, <2>4, <2>5, <2>6 DEF VMInv, VMTypeOK, StackOK
<1>2. CASE Panic
  <2>1. status' = "panic" /\ UNCHANGED <<source, data, ip, stack, contract>>
    BY <1>2 DEF Panic
  <2> QED BY <2>1 DEF VMInv, VMTypeOK, StackOK
<1>3. CASE UNCHANGED vmVars
  BY <1>3 DEF vmVars, VMInv, VMTypeOK, StackOK
<1> QED BY <1>1, <1>2, <1>3 DEF VMNext

\* The machine keeps its types whatever program it runs: nothing but values gets onto the stack and
\* into the contract state, and a panic leaves both as they are (VM.Run, Stack.Push, Stack.Pop).
THEOREM VMTypeCorrect == VMSpec => []VMTypeOK
<1>1. VMInit => VMInv
  BY InitInv
<1>2. VMInv /\ [VMNext]_vmVars => VMInv'
  BY StepInv
<1>3. VMInv => VMTypeOK
  BY DEF VMInv
<1> QED BY <1>1, <1>2, <1>3, PTL DEF VMSpec

-----------------------------------------------------------------------------
(* Which instruction a byte belongs to                                     *)

\* k instructions of p end before byte i, counted from 0.
At(p, i, k) ==
  /\ k \in 0 .. Len(p)
  /\ Len(Beginning(p, k)) <= i
  /\ k < Len(p) => i < Len(Beginning(p, k + 1))

Left(p, i) ==
  LET executed == {k \in 0 .. Len(p) : Len(Beginning(p, k)) <= i}
      last == CHOOSE k \in executed : \A j \in executed : j <= k
  IN  SubSeq(p, last + 1, Len(p))

LEMMA PositionExists ==
  ASSUME NEW p \in Seq(Used), NEW i \in Nat
  PROVE  \E k : At(p, i, k)
<1> DEFINE S == {k \in Nat : k = Len(p) \/ i < Len(Beginning(p, k + 1))}
<1>1. Len(p) \in Nat /\ Len(p) \in S
  OBVIOUS
<1>2. PICK k \in S : \A j \in S : k <= j
  <2>1. S \in SUBSET Nat /\ S # {}
    BY <1>1
  <2> HIDE DEF S
  <2> QED BY <2>1, LeastNat
<1>3. k \in Nat /\ k <= Len(p)
  BY <1>1, <1>2
<1>4. Len(Beginning(p, k)) <= i
  <2>1. CASE k = 0
    BY <2>1, BeginningGrows
  <2>2. CASE k # 0
    <3>1. k - 1 \in Nat /\ k - 1 # Len(p) /\ (k - 1) + 1 = k /\ k \in 0 .. Len(p)
      BY <1>3, <2>2
    <3>2. k - 1 \notin S
      BY <1>2, <1>3, <3>1
    <3>3. ~ (i < Len(Beginning(p, k)))
      BY <3>1, <3>2
    <3>4. Len(Beginning(p, k)) \in Nat
      <4>1. Beginning(p, k) \in Seq(Byte)
        BY <3>1, BeginningGrows
      <4> QED BY <4>1
    <3> QED BY <3>3, <3>4
  <2> QED BY <2>1, <2>2
<1>5. k < Len(p) => i < Len(Beginning(p, k + 1))
  BY <1>2, <1>3
<1> QED BY <1>1, <1>3, <1>4, <1>5 DEF At

LEMMA PositionIsLast ==
  ASSUME NEW p \in Seq(Used), NEW i \in Nat, NEW k, At(p, i, k)
  PROVE  Left(p, i) = SubSeq(p, k + 1, Len(p))
<1> DEFINE executed == {j \in 0 .. Len(p) : Len(Beginning(p, j)) <= i}
           IsLast(j) == j \in executed /\ \A m \in executed : m <= j
<1>1. k \in executed /\ Len(p) \in Nat /\ k \in Nat
  BY DEF At
<1>2. ASSUME NEW m \in executed, m > k
      PROVE  FALSE
  <2>1. k + 1 \in 0 .. Len(p) /\ m \in k + 1 .. Len(p) /\ k < Len(p)
    BY <1>1, <1>2 DEF At
  <2>2. Len(Beginning(p, m)) >= Len(Beginning(p, k + 1)) + (m - (k + 1))
    BY <2>1, BeginningStays
  <2>3. Len(Beginning(p, m)) <= i /\ i < Len(Beginning(p, k + 1))
    BY <1>2, <2>1 DEF At
  <2>4. Len(Beginning(p, m)) \in Nat /\ Len(Beginning(p, k + 1)) \in Nat
    <3>1. Beginning(p, m) \in Seq(Byte) /\ Beginning(p, k + 1) \in Seq(Byte)
      BY <2>1, BeginningGrows
    <3> QED BY <3>1
  <2> QED BY <1>1, <2>1, <2>2, <2>3, <2>4
<1>3. executed \subseteq Nat
  OBVIOUS
<1> HIDE DEF executed
<1>4. \A m \in executed : m <= k
  BY <1>1, <1>2, <1>3
<1>5. IsLast(k) /\ \A j : IsLast(j) => j = k
  <2>1. IsLast(k)
    BY <1>1, <1>4
  <2>2. ASSUME NEW j, IsLast(j)
        PROVE  j = k
    <3>1. j \in Nat /\ j <= k /\ k <= j /\ k \in Nat
      BY <1>1, <1>3, <1>4, <2>2
    <3> QED BY <3>1
  <2> QED BY <2>1, <2>2
<1>6. (CHOOSE j \in executed : \A m \in executed : m <= j) = k
  BY <1>5
<1> QED BY <1>6 DEF Left, executed

\* The byte that is executed next is one of instruction k + 1, the only or the second one if the
\* instruction ends with it.
LEMMA ByteIs ==
  ASSUME VMInv, status = "running", NEW k, At(source, ip, k)
  PROVE  /\ k \in 0 .. Len(source) - 1
         /\ LET b == Bytes(source[k + 1])
            IN  \/ /\ Len(b) = 2 /\ Instr = b[1]
                   /\ At(source, ip + 1, k)
                   /\ ip + 1 < Len(data)
                \/ /\ \/ Len(b) = 1 /\ Instr = b[1]
                      \/ Len(b) = 2 /\ Instr = b[2] /\ ip > 0 /\ Preceding = b[1]
                   /\ At(source, ip + 1, k + 1)
                   /\ ip + 1 = Len(data) <=> k + 1 = Len(source)
<1> DEFINE p == source
           B(n) == Beginning(p, n)
           L(n) == Len(B(n))
           b == Bytes(p[k + 1])
<1>1. p \in Seq(Used) /\ Len(p) \in Nat
  BY DEF VMInv, Program
<1>2. data = B(Len(p)) /\ data \in Seq(Byte) /\ ip \in Nat /\ ip < Len(data) /\ Len(data) \in Nat
  BY <1>1, BeginningGrows, DataType DEF VMInv, VMTypeOK
<1>3. k \in Nat /\ k <= Len(p) /\ L(k) <= ip /\ (k < Len(p) => ip < L(k + 1))
  BY <1>1 DEF At
<1>4. k # Len(p)
  BY <1>2, <1>3
<1>5. k < Len(p) /\ k \in 0 .. Len(p) - 1 /\ k \in 0 .. Len(p) /\ k + 1 \in 1 .. Len(p)
      /\ k + 1 \in 0 .. Len(p) /\ (k + 1) - 1 = k
  BY <1>1, <1>3, <1>4
<1>6. b \in Seq(Byte) /\ (Len(b) = 1 \/ Len(b) = 2)
  BY <1>1, <1>5, BytesType
<1>7. B(k + 1) = B(k) \o b /\ B(k) \in Seq(Byte) /\ B(k + 1) \in Seq(Byte)
  BY <1>1, <1>5, BeginningGrows
<1>8. L(k + 1) <= Len(data) /\ \A i \in 1 .. L(k + 1) : data[i] = B(k + 1)[i]
  <2>1. Len(p) \in k + 1 .. Len(p)
    BY <1>1, <1>5
  <2>2. Len(B(Len(p))) >= L(k + 1) + (Len(p) - (k + 1))
        /\ \A i \in 1 .. L(k + 1) : B(Len(p))[i] = B(k + 1)[i]
    BY <1>1, <1>5, <2>1, BeginningStays
  <2>3. L(k + 1) \in Nat
    BY <1>7
  <2> HIDE DEF B
  <2> QED BY <1>1, <1>2, <1>5, <2>2, <2>3
<1> HIDE DEF B, b, p
<1>9. L(k) \in Nat /\ L(k + 1) = L(k) + Len(b)
      /\ \A i \in 1 .. Len(b) : B(k + 1)[L(k) + i] = b[i]
  BY <1>6, <1>7
<1>10. ip < L(k + 1)
  BY <1>3, <1>5
<1>11. \A i \in 1 .. Len(b) : data[L(k) + i] = b[i]
  <2> SUFFICES ASSUME NEW i \in 1 .. Len(b) PROVE data[L(k) + i] = b[i]
    OBVIOUS
  <2>1. L(k) + i \in 1 .. L(k + 1)
    BY <1>6, <1>9
  <2> QED BY <1>8, <1>9, <2>1
<1> HIDE DEF L
<1>12. CASE ip + 1 < L(k + 1)
  <2>1. Len(b) = 2 /\ ip = L(k)
    <3>1. L(k) \in Nat /\ L(k + 1) = L(k) + Len(b) /\ L(k) <= ip /\ ip \in Nat
      BY <1>2, <1>3, <1>9
    <3>2. CASE Len(b) = 1
      BY <1>12, <3>1, <3>2
    <3>3. CASE Len(b) = 2
      BY <1>12, <3>1, <3>3
    <3> QED BY <1>6, <3>2, <3>3
  <2>2. Instr = b[1]
    BY <1>11, <2>1 DEF Instr
  <2>3. At(p, ip + 1, k)
    BY <1>2, <1>3, <1>5, <1>9, <1>12 DEF At, L, B
  <2>4. ip + 1 < Len(data)
    BY <1>2, <1>8, <1>9, <1>6, <1>12
  <2> QED BY <1>5, <2>1, <2>2, <2>3, <2>4 DEF b, p
<1>13. CASE ip + 1 = L(k + 1)
  <2>1. ip + 1 = L(k) + Len(b)
    BY <1>9, <1>13
  <2>2. \/ Len(b) = 1 /\ Instr = b[1]
        \/ Len(b) = 2 /\ Instr = b[2] /\ ip > 0 /\ Preceding = b[1]
    <3>1. CASE Len(b) = 1
      BY <1>11, <2>1, <3>1 DEF Instr
    <3>2. CASE Len(b) = 2
      <4>1. ip = L(k) + 1 /\ ip > 0 /\ ip + 1 = L(k) + 2
        BY <1>2, <1>9, <2>1, <3>2
      <4>2. data[ip] = b[1] /\ data[ip + 1] = b[2]
        BY <1>11, <3>2, <4>1
      <4> QED BY <3>2, <4>1, <4>2 DEF Instr, Preceding
    <3> QED BY <1>6, <3>1, <3>2
  <2>3. ASSUME k + 1 < Len(p)
        PROVE  L(k + 1) < L((k + 1) + 1) /\ L(k + 1) < Len(data)
    <3>1. (k + 1) + 1 \in k + 1 .. Len(p) /\ Len(p) \in k + 1 .. Len(p)
      BY <1>1, <1>5, <2>3
    <3>2. L((k + 1) + 1) >= L(k + 1) + (((k + 1) + 1) - (k + 1))
      BY <1>1, <1>5, <3>1, BeginningStays DEF L, B
    <3>3. L(Len(p)) >= L(k + 1) + (Len(p) - (k + 1))
      BY <1>1, <1>5, <3>1, BeginningStays DEF L, B
    <3>4. L(Len(p)) = Len(data)
      BY <1>2 DEF L
    <3>5. L((k + 1) + 1) \in Nat
      <4>1. (k + 1) + 1 \in 0 .. Len(p)
        BY <1>1, <1>3, <2>3
      <4>2. B((k + 1) + 1) \in Seq(Byte)
        BY <1>1, <4>1, BeginningGrows DEF B
      <4> QED BY <4>2 DEF L
    <3>6. L(k + 1) \in Nat
      BY <1>6, <1>9
    <3>7. L((k + 1) + 1) > L(k + 1)
      BY <1>3, <3>2, <3>5, <3>6
    <3>8. L(k + 1) < Len(data)
      BY <1>1, <1>2, <1>3, <2>3, <3>3, <3>4, <3>6
    <3> QED BY <3>7, <3>8
  <2>4. At(p, ip + 1, k + 1)
    <3>1. L(k + 1) <= ip + 1
      BY <1>2, <1>13
    <3>2. k + 1 < Len(p) => ip + 1 < L((k + 1) + 1)
      BY <1>13, <2>3
    <3> QED BY <1>5, <3>1, <3>2 DEF At, L, B
  <2>5. ip + 1 = Len(data) <=> k + 1 = Len(p)
    <3>1. k + 1 = Len(p) => L(k + 1) = Len(data)
      BY <1>2 DEF L
    <3>2. k + 1 # Len(p) => k + 1 < Len(p)
      BY <1>1, <1>3, <1>5
    <3>3. k + 1 # Len(p) => ip + 1 < Len(data)
      BY <1>13, <2>3, <3>2
    <3>4. ~ (ip + 1 < Len(data) /\ ip + 1 = Len(data))
      BY <1>2
    <3> QED BY <1>13, <3>1, <3>3, <3>4
  <2> QED BY <1>5, <2>2, <2>4, <2>5 DEF b, p
<1>14. ip + 1 < L(k + 1) \/ ip + 1 = L(k + 1)
  BY <1>2, <1>6, <1>9, <1>10
<1> QED BY <1>12, <1>13, <1>14

-----------------------------------------------------------------------------
(* The stack as a queue                                                    *)

LEMMA QueueIs ==
  ASSUME StackOK(stack)
  PROVE  LET q == SubSeq(stack.array, 1, stack.sp)
         IN  /\ q \in Seq(Cell \cup {Nil})
             /\ Len(q) = stack.sp
             /\ \A i \in 1 .. stack.sp : q[i] = stack.array[i]
<1>1. stack.array \in Seq(Cell \cup {Nil}) /\ stack.sp \in Nat /\ stack.sp <= Len(stack.array)
  BY DEF StackOK
<1> QED BY <1>1

LEMMA SameSeq ==
  ASSUME NEW S, NEW s \in Seq(S), NEW t \in Seq(S), Len(s) = Len(t),
         \A i \in 1 .. Len(s) : s[i] = t[i]
  PROVE  s = t
OBVIOUS

\* What an instruction finds on the stack it finds in the queue.
LEMMA IsInQueue ==
  ASSUME StackOK(stack), NEW i \in Nat \ {0}, NEW kind \in {"int", "byte", "key"}, Is(i, kind)
  PROVE  /\ Queue!Is(i, kind)
         /\ Value(i) = SubSeq(stack.array, 1, stack.sp)[i]
         /\ i \in 1 .. stack.sp
<1> DEFINE q == SubSeq(stack.array, 1, stack.sp)
<1>1. i \in 1 .. stack.sp /\ Value(i) = stack.array[i]
  BY IsPresent
<1>2. Len(q) = stack.sp /\ q[i] = stack.array[i]
  BY <1>1, QueueIs
<1>3. kind \in DOMAIN Value(i)
  BY DEF Is
<1>4. stack.sp \in Nat
  BY DEF StackOK
<1> HIDE DEF q
<1>5. i <= Len(q) /\ kind \in DOMAIN q[i]
  BY <1>1, <1>2, <1>3, <1>4
<1> QED BY <1>1, <1>2, <1>5 DEF Queue!Is, q

LEMMA RestIs ==
  ASSUME StackOK(stack), NEW n \in 0 .. stack.sp
  PROVE  SubSeq(Popped(n).array, 1, Popped(n).sp) = Queue!After(n)
<1> DEFINE q == SubSeq(stack.array, 1, stack.sp)
           r == SubSeq(Popped(n).array, 1, Popped(n).sp)
           t == SubSeq(q, n + 1, Len(q))
<1>1. /\ stack.sp \in Nat /\ n \in Nat /\ n <= stack.sp
      /\ stack.array \in Seq(Cell \cup {Nil}) /\ stack.sp <= Len(stack.array)
  BY DEF StackOK
<1>2. /\ StackOK(Popped(n))
      /\ Popped(n).sp = stack.sp - n
      /\ \A i \in 1 .. Len(stack.array) - n : Popped(n).array[i] = stack.array[i + n]
  BY PoppedOK
<1>3. /\ Popped(n).array \in Seq(Cell \cup {Nil}) /\ Popped(n).sp \in Nat
      /\ Popped(n).sp <= Len(Popped(n).array)
  BY <1>2 DEF StackOK
<1>4. /\ q \in Seq(Cell \cup {Nil}) /\ Len(q) = stack.sp
      /\ \A i \in 1 .. stack.sp : q[i] = stack.array[i]
  BY QueueIs
<1>5. r \in Seq(Cell \cup {Nil}) /\ Len(r) = stack.sp - n
      /\ \A i \in 1 .. stack.sp - n : r[i] = Popped(n).array[i]
  BY <1>2, <1>3
<1> HIDE DEF q, r
<1>6. t \in Seq(Cell \cup {Nil}) /\ Len(t) = stack.sp - n
      /\ \A i \in 1 .. stack.sp - n : t[i] = q[i + n]
  BY <1>1, <1>4
<1> HIDE DEF t
<1>7. ASSUME NEW i \in 1 .. stack.sp - n
      PROVE  r[i] = t[i]
  <2>1. i + n \in 1 .. stack.sp /\ i \in 1 .. Len(stack.array) - n
    <3>1. Len(stack.array) \in Nat
      BY <1>1
    <3> QED BY <1>1, <3>1
  <2> QED BY <1>2, <1>4, <1>5, <1>6, <2>1
<1>8. r = t
  BY <1>5, <1>6, <1>7, SameSeq
<1> QED BY <1>8 DEF r, t, q, Queue!After

LEMMA ReplaceEnters ==
  ASSUME StackOK(stack), NEW n \in 0 .. stack.sp, NEW value \in Cell, Replace(n, value)
  PROVE  Queue!Enter(Queue!After(n), value)
<1> DEFINE s == Popped(n)
           a == s.array
           b == [a EXCEPT ![s.sp + 1] = value]
           r == SubSeq(a, 1, s.sp)
<1>1. StackOK(s) /\ ~Full(s) /\ stack' = Push(s, value) /\ contract' = contract
  BY PoppedOK DEF Replace
<1>2. s.sp = stack.sp - n /\ Len(a) = Len(stack.array) - n
  BY PoppedOK
<1>3. a \in Seq(Cell \cup {Nil}) /\ s.sp \in Nat /\ s.sp < Len(a) /\ Len(a) \in Nat
  BY <1>1 DEF StackOK, Full
<1>4. stack'.array = b /\ stack'.sp = s.sp + 1
  BY <1>1 DEF Push
<1> HIDE DEF s, a
<1>5. b \in Seq(Cell \cup {Nil}) /\ Len(b) = Len(a) /\ b[s.sp + 1] = value
      /\ \A i \in 1 .. s.sp : b[i] = a[i]
  BY <1>3
<1>6. r \in Seq(Cell \cup {Nil}) /\ Len(r) = s.sp /\ \A i \in 1 .. s.sp : r[i] = a[i]
  BY <1>3
<1> HIDE DEF b, r
<1> DEFINE u == SubSeq(b, 1, s.sp + 1)
           v == Append(r, value)
<1>7. u \in Seq(Cell \cup {Nil}) /\ Len(u) = s.sp + 1 /\ \A i \in 1 .. s.sp + 1 : u[i] = b[i]
  BY <1>3, <1>5
<1>8. v \in Seq(Cell \cup {Nil}) /\ Len(v) = s.sp + 1 /\ v[s.sp + 1] = value
      /\ \A i \in 1 .. s.sp : v[i] = r[i]
  BY <1>3, <1>6
<1> HIDE DEF u, v
<1>9. ASSUME NEW i \in 1 .. s.sp + 1
      PROVE  u[i] = v[i]
  <2>1. i = s.sp + 1 \/ i \in 1 .. s.sp
    BY <1>3
  <2> QED BY <1>5, <1>6, <1>7, <1>8, <2>1
<1>10. u = v
  BY <1>7, <1>8, <1>9, SameSeq
<1>11. r = Queue!After(n)
  BY RestIs DEF r, a, s
<1>12. SubSeq(stack.array, 1, stack.sp)' = Append(Queue!After(n), value)
  BY <1>4, <1>10, <1>11 DEF u, v
<1>13. Len(stack.array) \in Nat /\ stack.sp \in Nat /\ n \in Nat
  BY DEF StackOK
<1>14. Len(stack.array) - stack.sp > 0
  BY <1>2, <1>3, <1>13
<1>15. (Len(stack.array) - stack.sp)' = (Len(stack.array) - stack.sp) - 1
  BY <1>2, <1>3, <1>4, <1>5, <1>13
<1> QED BY <1>1, <1>12, <1>14, <1>15 DEF Queue!Enter

-----------------------------------------------------------------------------
(* The refinement                                                          *)

\* Which action a byte allows.
LEMMA OneInstruction ==
  ASSUME Exec
  PROVE  /\ Instr \in Operand => Unknown
         /\ Instr = Opcode.pushInt => InstrPushInt
         /\ Instr = Opcode.pushByte => InstrPushByte
         /\ Instr = Opcode.add => InstrAdd
         /\ Instr = Opcode.sub => InstrSub
         /\ Instr = Opcode.pack => InstrPack
         /\ Instr = Opcode.store => InstrStore
<1>1. /\ Opcode.pushInt = 10 /\ Opcode.add = 11 /\ Opcode.pushByte = 12
      /\ Opcode.pack = 13 /\ Opcode.sub = 14 /\ Opcode.store = 15
  BY DEF Opcode
<1>2. \A c \in 10 .. 15 : c \notin Operand
  <2>1. {Opcode[o] : o \in DOMAIN Opcode} = {10, 11, 12, 13, 14, 15}
    BY DEF Opcode
  <2> QED BY <2>1 DEF Operand
<1>3. 10 \in 10 .. 15 /\ 11 \in 10 .. 15 /\ 12 \in 10 .. 15 /\ 13 \in 10 .. 15 /\ 14 \in 10 .. 15 /\ 15 \in 10 .. 15
  OBVIOUS
<1>4. \/ InstrPushInt /\ Instr = 10
      \/ InstrAdd /\ Instr = 11
      \/ InstrPushByte /\ Instr = 12
      \/ InstrPack /\ Instr = 13
      \/ InstrSub /\ Instr = 14
      \/ InstrStore /\ Instr = 15
      \/ Unknown /\ Instr \in Operand
  BY <1>1 DEF Exec, InstrPushInt, InstrAdd, InstrPushByte, InstrPack, InstrSub, InstrStore, Unknown
<1>5. Instr \in Operand => Instr \notin {10, 11, 12, 13, 14, 15}
  BY <1>2, <1>3
<1>6. \A i : /\ i = 10 => i \notin {11, 12, 13, 14, 15}
             /\ i = 11 => i \notin {10, 12, 13, 14, 15}
             /\ i = 12 => i \notin {10, 11, 13, 14, 15}
             /\ i = 13 => i \notin {10, 11, 12, 14, 15}
             /\ i = 14 => i \notin {10, 11, 12, 13, 15}
             /\ i = 15 => i \notin {10, 11, 12, 13, 14}
  OBVIOUS
<1> QED BY <1>1, <1>4, <1>5, <1>6, Zenon

\* The last byte of instruction j ends it: the queue changes as j says.
EndsInstruction(j) ==
  \/ Len(Bytes(j)) = 1 /\ Instr = Bytes(j)[1]
  \/ Len(Bytes(j)) = 2 /\ Instr = Bytes(j)[2] /\ ip > 0 /\ Preceding = Bytes(j)[1]

LEMMA LastByte ==
  ASSUME NEW j \in Used, EndsInstruction(j)
  PROVE  \/ j.op = "skip" /\ Instr \in Operand
         \/ j.op = "pushInt" /\ Instr = Opcode.pushInt /\ Preceding = j.arg
         \/ j.op = "pushByte" /\ Instr = Opcode.pushByte /\ Preceding = j.arg
         \/ j.op = "add" /\ Instr = Opcode.add
         \/ j.op = "sub" /\ Instr = Opcode.sub
         \/ j.op = "pack" /\ Instr = Opcode.pack
         \/ j.op = "store" /\ Instr = Opcode.store
<1>1. j \in Instruction
  BY VMAssumption
<1>2. CASE j \in [op : {"pushInt", "pushByte", "skip"}, arg : Operand]
  <2>1. j.arg \in Operand /\ (j.op = "skip" \/ j.op = "pushInt" \/ j.op = "pushByte")
    BY <1>2
  <2>2. CASE j.op = "skip"
    <3>1. Bytes(j) = <<j.arg>>
      BY <2>2 DEF Bytes
    <3>2. Len(Bytes(j)) = 1 /\ Bytes(j)[1] = j.arg
      BY <3>1
    <3> QED BY <2>1, <2>2, <3>2 DEF EndsInstruction
  <2>3. CASE j.op = "pushInt" \/ j.op = "pushByte"
    <3>1. Bytes(j) = <<j.arg, Opcode[j.op]>>
      BY <2>3 DEF Bytes
    <3>2. Len(Bytes(j)) = 2 /\ Bytes(j)[1] = j.arg /\ Bytes(j)[2] = Opcode[j.op]
      BY <3>1
    <3>3. Instr = Opcode[j.op] /\ Preceding = j.arg
      BY <3>2 DEF EndsInstruction
    <3> QED BY <2>3, <3>3
  <2> QED BY <2>1, <2>2, <2>3
<1>3. CASE j \in [op : {"add", "sub", "pack", "store"}]
  <2>1. j.op = "add" \/ j.op = "sub" \/ j.op = "pack" \/ j.op = "store"
    BY <1>3
  <2>2. Bytes(j) = <<Opcode[j.op]>>
    BY <2>1 DEF Bytes
  <2>3. Len(Bytes(j)) = 1 /\ Bytes(j)[1] = Opcode[j.op]
    BY <2>2
  <2>4. Instr = Opcode[j.op]
    BY <2>3 DEF EndsInstruction
  <2> QED BY <2>1, <2>4
<1> QED BY <1>1, <1>2, <1>3 DEF Instruction

LEMMA ExecutesInstruction ==
  ASSUME VMInv, status = "running", Exec, NEW j \in Used, EndsInstruction(j), Head(Remaining) = j
  PROVE  Queue!Execute
<1> DEFINE q == SubSeq(stack.array, 1, stack.sp)
<1>1. StackOK(stack) /\ stack.sp \in Nat
  BY DEF VMInv, StackOK
<1>2. ASSUME NEW n \in 0 .. stack.sp, NEW value \in Cell, Replace(n, value)
      PROVE  Queue!Enter(Queue!After(n), value)
  BY <1>1, <1>2, ReplaceEnters
<1>3. ASSUME NEW i \in Nat \ {0}, NEW kind \in {"int", "byte", "key"}, Is(i, kind)
      PROVE  /\ Queue!Is(i, kind) /\ Value(i) = q[i]
             /\ i \in 1 .. stack.sp /\ Value(i) \in Cell /\ kind \in DOMAIN Value(i)
  BY <1>1, <1>3, IsInQueue, IsPresent DEF Is
<1>4. \A v \in Int : [int |-> v] \in Cell /\ [byte |-> v] \in Cell
  BY DEF Cell
<1>5. ip > 0 => Preceding \in Int
  <2>1. ip < Len(data) /\ ip \in Nat /\ Len(data) \in Nat
    BY DataType DEF VMInv, VMTypeOK
  <2>2. ip > 0 => ip \in 1 .. Len(data)
    BY <2>1
  <2> QED BY <2>2, DataType DEF Preceding
<1>6. CASE j.op = "skip" /\ Instr \in Operand
  <2>1. UNCHANGED <<stack, contract>>
    BY <1>6, OneInstruction DEF Unknown
  <2> QED BY <1>6, <2>1 DEF Queue!Execute, Queue!QSkip
<1>7. CASE \/ j.op = "pushInt" /\ Instr = Opcode.pushInt /\ Preceding = j.arg
           \/ j.op = "pushByte" /\ Instr = Opcode.pushByte /\ Preceding = j.arg
  <2>1. Queue!After(0) = q
    <3>1. q \in Seq(Cell \cup {Nil})
      BY <1>1, QueueIs
    <3> HIDE DEF q
    <3>2. SubSeq(q, 0 + 1, Len(q)) = q
      BY <3>1
    <3> QED BY <3>2 DEF Queue!After, q
  <2>2. 0 \in 0 .. stack.sp
    BY <1>1
  <2>3. CASE j.op = "pushInt" /\ Instr = Opcode.pushInt /\ Preceding = j.arg
    <3>1. ip > 0 /\ Replace(0, [int |-> j.arg])
      BY <2>3, OneInstruction DEF InstrPushInt
    <3>2. Queue!Enter(q, [int |-> j.arg])
      BY <1>2, <1>4, <1>5, <2>1, <2>2, <2>3, <3>1
    <3> QED BY <2>3, <3>2 DEF Queue!Execute, Queue!QPush
  <2>4. CASE j.op = "pushByte" /\ Instr = Opcode.pushByte /\ Preceding = j.arg
    <3>1. ip > 0 /\ Replace(0, [byte |-> j.arg])
      BY <2>4, OneInstruction DEF InstrPushByte
    <3>2. Queue!Enter(q, [byte |-> j.arg])
      BY <1>2, <1>4, <1>5, <2>1, <2>2, <2>4, <3>1
    <3> QED BY <2>4, <3>2 DEF Queue!Execute, Queue!QPush
  <2> QED BY <1>7, <2>3, <2>4
<1>8. ASSUME Is(1, "int"), Is(2, "int")
      PROVE  /\ Queue!Is(1, "int") /\ Queue!Is(2, "int") /\ 2 \in 0 .. stack.sp
             /\ Value(1) = q[1] /\ Value(2) = q[2]
             /\ Value(1).int \in Int /\ Value(2).int \in Int
  <2>1. Value(1) \in [int : Int] /\ Value(2) \in [int : Int]
    BY <1>3, <1>8, CellKinds
  <2> QED BY <1>1, <1>3, <1>8, <2>1
<1>9. CASE j.op = "add" /\ Instr = Opcode.add
  <2>1. Is(1, "int") /\ Is(2, "int") /\ Replace(2, [int |-> Value(1).int + Value(2).int])
    BY <1>9, OneInstruction DEF InstrAdd
  <2>2. Value(1).int + Value(2).int \in Int
    BY <1>8, <2>1
  <2>3. Queue!Enter(Queue!After(2), [int |-> q[1].int + q[2].int])
    BY <1>2, <1>4, <1>8, <2>1, <2>2
  <2> QED BY <1>8, <1>9, <2>1, <2>3 DEF Queue!Execute, Queue!QArithmetic
<1>10. CASE j.op = "sub" /\ Instr = Opcode.sub
  <2>1. Is(1, "int") /\ Is(2, "int") /\ Replace(2, [int |-> Value(1).int - Value(2).int])
    BY <1>10, OneInstruction DEF InstrSub
  <2>2. Value(1).int - Value(2).int \in Int
    BY <1>8, <2>1
  <2>3. Queue!Enter(Queue!After(2), [int |-> q[1].int - q[2].int])
    BY <1>2, <1>4, <1>8, <2>1, <2>2
  <2> QED BY <1>8, <1>10, <2>1, <2>3 DEF Queue!Execute, Queue!QArithmetic
<1>11. CASE j.op = "pack" /\ Instr = Opcode.pack
  <2> DEFINE n == Value(1).int
             key == [i \in 1 .. n |-> Value(i + 1).byte]
  <2>1. /\ Is(1, "int") /\ n >= 0
        /\ \A i \in 1 .. n : Is(i + 1, "byte")
        /\ Replace(n + 1, [key |-> key])
    BY <1>11, OneInstruction DEF InstrPack
  <2>2. Value(1) = q[1] /\ Queue!Is(1, "int") /\ 1 \in 1 .. stack.sp /\ n \in Nat
    <3>1. /\ Value(1) = q[1] /\ Queue!Is(1, "int") /\ 1 \in 1 .. stack.sp
          /\ Value(1) \in Cell /\ "int" \in DOMAIN Value(1)
      <4>1. Is(1, "int") /\ 1 \in Nat \ {0}
        BY <2>1
      <4> HIDE DEF n, key, q
      <4> QED BY <1>3, <4>1
    <3>2. Value(1) \in [int : Int]
      BY <3>1, CellKinds
    <3>3. n \in Int /\ n >= 0
      BY <2>1, <3>2
    <3>4. n \in Nat
      <4> HIDE DEF n
      <4> QED BY <3>3
    <3> QED BY <3>1, <3>4
  <2>3. ASSUME NEW i \in 1 .. n
        PROVE  /\ Queue!Is(i + 1, "byte") /\ Value(i + 1) = q[i + 1]
               /\ i + 1 \in 1 .. stack.sp /\ Value(i + 1).byte \in Int
    <3>1. i + 1 \in Nat \ {0} /\ Is(i + 1, "byte")
      BY <2>1, <2>2
    <3>2. Value(i + 1) \in Cell /\ "byte" \in DOMAIN Value(i + 1)
      BY <1>3, <3>1
    <3>3. Value(i + 1) \in [byte : Int]
      BY <3>2, CellKinds
    <3> QED BY <1>3, <3>1, <3>3
  <2>n. n = q[1].int
    BY <2>2
  <2> HIDE DEF n, q
  <2>4. n + 1 \in 0 .. stack.sp
    <3>1. CASE n = 0
      BY <1>1, <2>2, <3>1
    <3>2. CASE n > 0
      <4>1. n \in 1 .. n
        BY <2>2, <3>2
      <4> QED BY <1>1, <2>2, <2>3, <4>1
    <3> QED BY <2>2, <3>1, <3>2
  <2>5. key \in Seq(Int)
    BY <2>2, <2>3
  <2>6. key = [i \in 1 .. n |-> q[i + 1].byte]
    BY <2>3
  <2> HIDE DEF key
  <2>7. [key |-> key] \in Cell
    BY <2>5 DEF Cell
  <2>8. Queue!Enter(Queue!After(n + 1), [key |-> key])
    BY <1>2, <2>1, <2>4, <2>7
  <2>9. \A i \in 1 .. n : Queue!Is(i + 1, "byte")
    BY <2>3
  <2>10. Queue!QPack
    BY <1>11, <2>1, <2>2, <2>n, <2>6, <2>8, <2>9 DEF Queue!QPack, q
  <2> QED BY <2>10 DEF Queue!Execute
<1>12. CASE j.op = "store" /\ Instr = Opcode.store
  <2>1. /\ Is(1, "key") /\ Is(2, "int")
        /\ contract' = Put(Value(1).key, Value(2).int)
        /\ stack' = Popped(2)
    BY <1>12, OneInstruction DEF InstrStore
  <2>2. /\ Queue!Is(1, "key") /\ Queue!Is(2, "int") /\ 2 \in 0 .. stack.sp
        /\ Value(1) = q[1] /\ Value(2) = q[2]
    BY <1>1, <1>3, <2>1
  <2>3. SubSeq(stack.array, 1, stack.sp)' = Queue!After(2)
    BY <1>1, <2>1, <2>2, RestIs
  <2>4. (Len(stack.array) - stack.sp)' = Len(stack.array) - stack.sp
    <3>1. stack'.sp = stack.sp - 2 /\ Len(stack'.array) = Len(stack.array) - 2
      BY <1>1, <2>1, <2>2, PoppedOK
    <3>2. Len(stack.array) \in Nat
      BY <1>1 DEF StackOK
    <3> QED BY <1>1, <3>1, <3>2
  <2>5. contract' = [k \in DOMAIN contract \cup {q[1].key} |->
                       IF k = q[1].key THEN q[2].int ELSE contract[k]]
    BY <2>1, <2>2 DEF Put
  <2> QED BY <1>12, <2>2, <2>3, <2>4, <2>5 DEF Queue!Execute, Queue!QStore
<1> QED BY <1>6, <1>7, <1>9, <1>10, <1>11, <1>12, LastByte

LEMMA StepIsInstruction ==
  ASSUME VMInv, status = "running", RunStep
  PROVE  Queue!QStep \/ UNCHANGED Queue!queueVars
<1> DEFINE p == source
<1>1. p \in Seq(Used) /\ Len(p) \in Nat /\ ip \in Nat /\ ip + 1 \in Nat
  BY DataType DEF VMInv, Program
<1>2. /\ Exec /\ ip' = ip + 1 /\ source' = source /\ data' = data
      /\ status' = IF ip + 1 > Len(data) - 1 THEN "done" ELSE "running"
  BY DEF RunStep
<1>3. Len(data) \in Nat /\ ip < Len(data)
  BY DataType DEF VMInv, VMTypeOK
<1>4. PICK k : At(p, ip, k)
  BY <1>1, PositionExists
<1>5. k \in 0 .. Len(p) - 1 /\ k \in Nat /\ k + 1 \in 1 .. Len(p) /\ p[k + 1] \in Used
  <2>1. k \in 0 .. Len(p) - 1
    BY <1>4, ByteIs
  <2> QED BY <1>1, <2>1
<1>6. /\ Remaining = Left(p, ip)
      /\ Remaining' = Left(p, ip + 1)
  BY <1>2 DEF Remaining, Left, Beginning
<1>7. Remaining = SubSeq(p, k + 1, Len(p))
  BY <1>1, <1>4, <1>6, PositionIsLast
<1>8. Head(Remaining) = p[k + 1] /\ Tail(Remaining) = SubSeq(p, (k + 1) + 1, Len(p))
  BY <1>1, <1>5, <1>7
<1> DEFINE b == Bytes(p[k + 1])
<1>9. CASE /\ Len(b) = 2 /\ Instr = b[1]
           /\ At(p, ip + 1, k)
           /\ ip + 1 < Len(data)
  <2>1. Instr \in Operand
    <3>1. p[k + 1] \in Instruction
      BY <1>5, VMAssumption
    <3>2. CASE p[k + 1] \in [op : {"pushInt", "pushByte", "skip"}, arg : Operand]
      <4>1. p[k + 1].arg \in Operand
        BY <3>2
      <4>2. b[1] = p[k + 1].arg
        <5>1. CASE p[k + 1].op = "skip"
          BY <5>1 DEF Bytes
        <5>2. CASE p[k + 1].op \in {"pushInt", "pushByte"}
          <6>1. b = <<p[k + 1].arg, Opcode[p[k + 1].op]>>
            BY <5>2 DEF Bytes
          <6> QED BY <6>1
        <5> QED BY <3>2, <5>1, <5>2
      <4> QED BY <1>9, <4>1, <4>2
    <3>3. CASE p[k + 1] \in [op : {"add", "sub", "pack", "store"}]
      <4>1. p[k + 1].op \in {"add", "sub", "pack", "store"}
        BY <3>3
      <4>2. b = <<Opcode[p[k + 1].op]>>
        BY <4>1 DEF Bytes
      <4>3. Len(b) = 1
        BY <4>2
      <4> QED BY <1>9, <4>3
    <3> QED BY <3>1, <3>2, <3>3 DEF Instruction
  <2>2. UNCHANGED <<stack, contract>>
    BY <1>2, <2>1, OneInstruction DEF Unknown
  <2>3. status' = status
    BY <1>2, <1>3, <1>9
  <2>4. Remaining' = Remaining
    <3>1. Left(p, ip + 1) = SubSeq(p, k + 1, Len(p))
      BY <1>1, <1>9, PositionIsLast
    <3> QED BY <1>6, <1>7, <3>1
  <2> QED BY <2>2, <2>3, <2>4 DEF Queue!queueVars
<1>10. CASE /\ \/ Len(b) = 1 /\ Instr = b[1]
               \/ Len(b) = 2 /\ Instr = b[2] /\ ip > 0 /\ Preceding = b[1]
            /\ At(p, ip + 1, k + 1)
            /\ ip + 1 = Len(data) <=> k + 1 = Len(p)
  <2>1. EndsInstruction(p[k + 1])
    BY <1>10 DEF EndsInstruction
  <2>2. Queue!Execute
    BY <1>2, <1>5, <1>8, <2>1, ExecutesInstruction
  <2>3. Remaining' = SubSeq(p, (k + 1) + 1, Len(p))
    BY <1>1, <1>6, <1>10, PositionIsLast
  <2>4. Remaining' = Tail(Remaining)
    BY <1>8, <2>3
  <2>5. Remaining' = <<>> <=> k + 1 = Len(p)
    <3>1. SubSeq(p, (k + 1) + 1, Len(p)) = <<>> <=> k + 1 = Len(p)
      <4>1. CASE k + 1 = Len(p)
        BY <1>1, <4>1
      <4>2. CASE k + 1 < Len(p)
        <5>1. Len(SubSeq(p, (k + 1) + 1, Len(p))) = Len(p) - (k + 1)
          BY <1>1, <1>5, <4>2
        <5>2. Len(p) - (k + 1) # 0
          BY <1>1, <1>5, <4>2
        <5>3. Len(<<>>) = 0
          OBVIOUS
        <5>4. SubSeq(p, (k + 1) + 1, Len(p)) # <<>>
          BY <5>1, <5>2, <5>3
        <5> QED BY <1>1, <1>5, <4>2, <5>4
      <4>3. k + 1 = Len(p) \/ k + 1 < Len(p)
        BY <1>1, <1>5
      <4> QED BY <4>1, <4>2, <4>3
    <3> QED BY <2>3, <3>1
  <2>6. ip + 1 > Len(data) - 1 <=> ip + 1 = Len(data)
    BY <1>1, <1>3
  <2>7. status' = IF Remaining' = <<>> THEN "done" ELSE "running"
    BY <1>2, <1>10, <2>5, <2>6
  <2> QED BY <2>2, <2>4, <2>7 DEF Queue!QStep
<1> QED BY <1>4, <1>9, <1>10, ByteIs

LEMMA InitIsInit ==
  VMInit => Queue!QInit
<1> SUFFICES ASSUME VMInit PROVE Queue!QInit
  OBVIOUS
<1>1. VMInv
  BY InitInv
<1>2. source \in Seq(Used) /\ source # <<>> /\ Len(source) \in Nat
  BY <1>1 DEF VMInv, Program
<1>3. At(source, 0, 0)
  <2>1. Beginning(source, 0) = <<>>
    BY <1>2, BeginningGrows
  <2>2. 0 < Len(source) => 0 < Len(Beginning(source, 0 + 1))
    <3> SUFFICES ASSUME 0 < Len(source) PROVE 0 < Len(Beginning(source, 1))
      OBVIOUS
    <3>1. 0 \in 0 .. Len(source) /\ 1 \in 0 .. Len(source)
      BY <1>2
    <3>2. Len(Beginning(source, 1)) >= Len(Beginning(source, 0)) + (1 - 0)
      BY <1>2, <3>1, BeginningStays
    <3>3. Beginning(source, 1) \in Seq(Byte)
      BY <1>2, <3>1, BeginningGrows
    <3> QED BY <2>1, <3>2, <3>3
  <2> QED BY <1>2, <2>1, <2>2 DEF At
<1>4. Remaining = SubSeq(source, 0 + 1, Len(source))
  <2>1. Remaining = Left(source, 0)
    BY DEF VMInit, Remaining, Left, Beginning
  <2> QED BY <1>2, <1>3, <2>1, PositionIsLast
<1>5. Remaining = source
  BY <1>2, <1>4
<1>6. source \in Seq(Instruction)
  BY <1>2, VMAssumption
<1>7. StackSize \in Nat
  BY VMAssumption
<1>8. stack.sp = 0 /\ Len(stack.array) = StackSize
  BY <1>7 DEF VMInit
<1>9. SubSeq(stack.array, 1, stack.sp) = <<>> /\ Len(stack.array) - stack.sp = StackSize
  <2>1. stack.array \in Seq(Cell \cup {Nil})
    BY <1>1 DEF VMInv, StackOK
  <2> QED BY <1>7, <1>8, <2>1
<1> QED BY <1>2, <1>5, <1>6, <1>9 DEF Queue!QInit, VMInit

\* A program of any length does on a stack of any size what its instructions say: a byte is executed
\* as the operand of an instruction, which changes nothing, or ends an instruction, which changes
\* the queue as QueueMachine says, one instruction after the other (VM.Exec, Stack).  When a run
\* panics is not part of it.
THEOREM BytesDoTheInstructions ==
  VMSpec => Queue!QInit /\ [][RunStep => Queue!QStep \/ UNCHANGED Queue!queueVars]_vmVars
<1>1. VMInit => VMInv
  BY InitInv
<1>2. VMInv /\ [VMNext]_vmVars => VMInv'
  BY StepInv
<1>3. VMInit => Queue!QInit
  BY InitIsInit
<1>4. VMInv /\ [VMNext]_vmVars => [RunStep => Queue!QStep \/ UNCHANGED Queue!queueVars]_vmVars
  <2> SUFFICES ASSUME VMInv, [VMNext]_vmVars, RunStep, ~ UNCHANGED vmVars
               PROVE  Queue!QStep \/ UNCHANGED Queue!queueVars
    OBVIOUS
  <2>1. status = "running"
    BY DEF VMNext
  <2> QED BY <2>1, StepIsInstruction
<1> QED BY <1>1, <1>2, <1>3, <1>4, PTL DEF VMSpec
=============================================================================
