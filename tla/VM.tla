--------------------------------- MODULE VM ---------------------------------
(***************************************************************************)
(* The VM that runs the data of a transaction (core/vm.go): one step per   *)
(* byte.  Every byte is executed, and an operand stands before its         *)
(* instruction, so that it is executed too, as an instruction nobody       *)
(* knows.                                                                  *)
(***************************************************************************)
EXTENDS Integers, Sequences

CONSTANTS
  Used,       \* the instructions that programs are written in
  MaxLength,  \* bound: instructions of a program
  StackSize   \* 128: the array that NewStack makes

Opcode == [pushInt |-> 10, add |-> 11, pushByte |-> 12, pack |-> 13, sub |-> 14, store |-> 15]

\* No operand may be an opcode: it would be executed.
Operand == (0 .. 255) \ {Opcode[o] : o \in DOMAIN Opcode}

Instruction ==
  [op : {"pushInt", "pushByte", "skip"}, arg : Operand] \cup [op : {"add", "sub", "pack", "store"}]

ASSUME VMAssumption ==
  /\ Used \subseteq Instruction
  /\ MaxLength \in Nat
  /\ StackSize \in Nat

VARIABLES
  source,    \* history: the program
  data,      \* VM.data
  ip,        \* counted from 0
  stack,     \* Stack: its array, and sp, the number of values in it
  contract,  \* contractState: values by key
  status

vmVars == <<source, data, ip, stack, contract, status>>

\* The bytes of an instruction, and of a program.
Bytes(i) ==
  IF i.op = "skip" THEN <<i.arg>>
  ELSE IF i.op \in {"pushInt", "pushByte"} THEN <<i.arg, Opcode[i.op]>>
  ELSE <<Opcode[i.op]>>

Assemble(p) ==
  LET upTo[k \in 0 .. Len(p)] == IF k = 0 THEN <<>> ELSE upTo[k - 1] \o Bytes(p[k])
  IN  upTo[Len(p)]

\* What Go finds in the array where nothing has been put.
Nil == [nil |-> TRUE]

VMInit ==
  /\ \E n \in 1 .. MaxLength : source \in [1 .. n -> Used]
  /\ data = Assemble(source)
  /\ ip = 0
  /\ stack = [array |-> [i \in 1 .. StackSize |-> Nil], sp |-> 0]
  /\ contract = <<>>
  /\ status = "running"

-----------------------------------------------------------------------------
(* Stack *)

Full(s) == s.sp >= Len(s.array)

Push(s, value) == [array |-> [s.array EXCEPT ![s.sp + 1] = value], sp |-> s.sp + 1]

\* The i-th value that will be popped.  Beyond the array Pop panics, and so does every use of Nil.
Value(i) == IF i <= Len(stack.array) THEN stack.array[i] ELSE Nil

Is(i, kind) == kind \in DOMAIN Value(i)

\* Faulty variant of Popped, see the README.
PoppedKeepingSp(n) == [array |-> SubSeq(stack.array, n + 1, Len(stack.array)), sp |-> stack.sp]

\* n values popped: the array is moved up, and does not get its length back.
Popped(n) == [array |-> SubSeq(stack.array, n + 1, Len(stack.array)), sp |-> stack.sp - n]

\* The result of an instruction is pushed when its arguments, the first n values, are popped.
Replace(n, value) ==
  /\ ~Full(Popped(n))
  /\ stack' = Push(Popped(n), value)
  /\ UNCHANGED contract

-----------------------------------------------------------------------------
(* Exec *)

Instr == data[ip + 1]

\* Faulty variant of Preceding, see the README.
Following == data[IF ip + 2 <= Len(data) THEN ip + 2 ELSE ip + 1]

Preceding == data[ip]

InstrPushInt == Instr = Opcode.pushInt /\ ip > 0 /\ Replace(0, [int |-> Preceding])

InstrPushByte == Instr = Opcode.pushByte /\ ip > 0 /\ Replace(0, [byte |-> Preceding])

InstrAdd ==
  Instr = Opcode.add /\ Is(1, "int") /\ Is(2, "int") /\ Replace(2, [int |-> Value(1).int + Value(2).int])

InstrSub ==
  Instr = Opcode.sub /\ Is(1, "int") /\ Is(2, "int") /\ Replace(2, [int |-> Value(1).int - Value(2).int])

InstrPack ==
  /\ Instr = Opcode.pack
  /\ Is(1, "int")
  /\ LET n == Value(1).int
     IN  /\ n >= 0
         /\ \A i \in 1 .. n : Is(i + 1, "byte")
         /\ Replace(n + 1, [key |-> [i \in 1 .. n |-> Value(i + 1).byte]])

\* State.Put
Put(key, value) == [k \in DOMAIN contract \cup {key} |-> IF k = key THEN value ELSE contract[k]]

InstrStore ==
  /\ Instr = Opcode.store
  /\ Is(1, "key") /\ Is(2, "int")
  /\ contract' = Put(Value(1).key, Value(2).int)
  /\ stack' = Popped(2)

Unknown == Instr \in Operand /\ UNCHANGED <<stack, contract>>

Exec == InstrPushInt \/ InstrPushByte \/ InstrAdd \/ InstrSub \/ InstrPack \/ InstrStore \/ Unknown

-----------------------------------------------------------------------------
(* Run *)

RunStep ==
  /\ Exec
  /\ ip' = ip + 1
  /\ status' = IF ip' > Len(data) - 1 THEN "done" ELSE "running"
  /\ UNCHANGED <<source, data>>

\* A type assertion or an index fails.  The contract state keeps what was stored before.
Panic ==
  /\ ~ENABLED Exec
  /\ status' = "panic"
  /\ UNCHANGED <<source, data, ip, stack, contract>>

VMNext == status = "running" /\ (RunStep \/ Panic)

VMSpec == VMInit /\ [][VMNext]_vmVars

-----------------------------------------------------------------------------
(* Properties *)

\* Every variable keeps its type; the array holds values up to sp and nothing beyond.
VMTypeOK ==
  /\ data = Assemble(source)
  /\ ip \in 0 .. Len(data)
  /\ stack.sp \in 0 .. Len(stack.array)
  /\ \A i \in DOMAIN stack.array : i > stack.sp <=> stack.array[i] = Nil
  /\ contract \in [DOMAIN contract -> Int]
  /\ status \in {"running", "done", "panic"}
  /\ status = "running" => ip < Len(data)

\* Instructions whose bytes are not all executed.
Remaining ==
  LET executed == {k \in 0 .. Len(source) : Len(Assemble(SubSeq(source, 1, k))) <= ip}
      last == CHOOSE k \in executed : \A j \in executed : j <= k
  IN  SubSeq(source, last + 1, Len(source))

Queue == INSTANCE QueueMachine
  WITH Budget <- StackSize, todo <- Remaining, queue <- SubSeq(stack.array, 1, stack.sp),
       budget <- Len(stack.array) - stack.sp, stored <- contract

(***************************************************************************)
(* The bytes of a program, operands before their instructions and every    *)
(* one of them executed, on a "stack" that takes from the front and        *)
(* shrinks, do what the program's instructions say: VM is a QueueMachine,  *)
(* whose budget is what the shrinking leaves.                              *)
(***************************************************************************)
RunsThePrograms == Queue!QSpec
=============================================================================
