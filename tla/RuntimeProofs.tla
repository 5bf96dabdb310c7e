--------------------------- MODULE RuntimeProofs ---------------------------
(***************************************************************************)
(* The virtual machine.  For every module, every limit and every answer of *)
(* the Runtime: what load_program accepts, Vm::run executes within the     *)
(* code, the constants, the locals and the stack, and no function touches  *)
(* the operands of its callers.                                            *)
(*                                                                         *)
(* The socket of ipc_listen, which the marker detector takes over in the   *)
(* same way: for any number of processes.                                  *)
(***************************************************************************)
EXTENDS Vm, StaleSocket, SequenceTheorems, TLAPS

-----------------------------------------------------------------------------
(* The inductive invariant *)

\* A frame is at an instruction or at the end of its code.
FrameValid(p, fr) ==
    LET f == p.functions[fr.function + 1]
    IN  /\ fr.function < Len(p.functions)
        /\ Len(fr.locals) = f.params + f.locals
        /\ fr.ip \in Boundaries(f) \cup {Len(f.code)}

Inv ==
    /\ VmTypeOK
    /\ FramesNest
    /\ status = "loading" => stack = <<>> /\ frames = <<>>
    /\ status = "running" =>
          /\ load_program(program)
          /\ frames # <<>>
          /\ \A i \in DOMAIN frames : FrameValid(program, frames[i])

-----------------------------------------------------------------------------
(* Values *)

LEMMA IntIsValue ==
    ASSUME NEW n \in MinInt..MaxInt
    PROVE  IntValue(n) \in Value
BY DEF IntValue, Value

LEMMA IntOf ==
    ASSUME NEW v \in Value, v.kind = "Int"
    PROVE  v.int \in MinInt..MaxInt
BY DEF Value

LEMMA TextOf ==
    ASSUME NEW v \in Value, v.kind = "String"
    PROVE  v.text \in STRING
BY DEF Value

LEMMA SmallIntsAreValues ==
    /\ 0 \in MinInt..MaxInt /\ 1 \in MinInt..MaxInt /\ -1 \in MinInt..MaxInt
    /\ IntValue(0) \in Value /\ IntValue(1) \in Value /\ IntValue(-1) \in Value
    /\ FloatValue \in Value
<1>1. 0 \in MinInt..MaxInt /\ 1 \in MinInt..MaxInt /\ -1 \in MinInt..MaxInt
  BY VmAssumption
<1>2. FloatValue \in Value
  BY DEF FloatValue, Value
<1> QED BY <1>1, <1>2, IntIsValue

-----------------------------------------------------------------------------
(* The stack and the frames as sequences *)

\* What remains after n operands have been popped.
LEMMA UnderKeeps ==
    ASSUME NEW n \in Nat, stack \in Seq(Value), n =< Len(stack)
    PROVE  /\ Under(n) \in Seq(Value)
           /\ Len(Under(n)) = Len(stack) - n
           /\ \A i \in 1..(Len(stack) - n) : Under(n)[i] = stack[i]
BY DEF Under

LEMMA FirstOf ==
    ASSUME NEW S, NEW s \in Seq(S), Len(s) = 1
    PROVE  s[1] \in S
BY ElementOfSeq, SMTT(30)

LEMMA AppendKeeps ==
    ASSUME NEW s \in Seq(Value), NEW v \in Value
    PROVE  /\ Append(s, v) \in Seq(Value)
           /\ Len(Append(s, v)) = Len(s) + 1
           /\ \A i \in 1..Len(s) : Append(s, v)[i] = s[i]
OBVIOUS

\* Only the top frame changes.
LEMMA TopReplaced ==
    ASSUME frames \in Seq(Frame), frames # <<>>, NEW fr \in Frame
    PROVE  LET new == [frames EXCEPT ![Len(frames)] = fr]
           IN  /\ new \in Seq(Frame)
               /\ Len(new) = Len(frames)
               /\ new[Len(frames)] = fr
               /\ \A i \in 1..(Len(frames) - 1) : new[i] = frames[i]
OBVIOUS

-----------------------------------------------------------------------------
(* What load_program has established about the current instruction *)

LEMMA TopFrame ==
    ASSUME Inv, status = "running"
    PROVE  /\ Len(frames) \in Nat \ {0} /\ Len(frames) \in DOMAIN frames
           /\ frame \in Frame /\ FrameValid(program, frame)
           /\ function \in Function
           /\ frame.base \in Nat /\ frame.base =< Len(stack)
           /\ Depth \in Nat
<1>1. /\ Len(frames) \in Nat \ {0} /\ Len(frames) \in DOMAIN frames
      /\ frame \in Frame /\ FrameValid(program, frame)
  BY DEF Inv, VmTypeOK, frame
<1>2. program.functions \in Seq(Function)
  BY DEF Inv, VmTypeOK, Program
<1>3. frame.function \in Nat /\ frame.function < Len(program.functions) /\ frame.base \in Nat
  BY <1>1 DEF Frame, FrameValid
<1>4. function \in Function
  BY <1>2, <1>3 DEF function
<1>5. frame.base =< Len(stack)
  BY <1>1 DEF Inv, FramesNest, frame
<1>6. Len(stack) \in Nat
  BY DEF Inv, VmTypeOK
<1> QED BY <1>1, <1>3, <1>4, <1>5, <1>6 DEF Depth

LEMMA Decoded ==
    ASSUME Inv, status = "running", frame.ip < Len(function.code)
    PROVE  /\ frame.ip \in Boundaries(function)
           /\ instruction \in Byte
           /\ OperandsValid(program, function, instruction)
           /\ NextIp \in Boundaries(function) \cup {Len(function.code)}
<1>1. frame \in Frame /\ FrameValid(program, frame) /\ function \in Function
  BY TopFrame
<1>2. frame.ip \in Boundaries(function)
  BY <1>1, SMTT(30) DEF FrameValid, function, Frame, Function
<1>3. frame.function + 1 \in DOMAIN program.functions
  BY <1>1, SMTT(30) DEF FrameValid, Frame, Inv, VmTypeOK, Program
<1>4. Decodes(function) /\ \A o \in Boundaries(function) : OperandsValid(program, function, function.code[o + 1])
  BY <1>3 DEF Inv, load_program, function
<1>5. instruction \in Byte
  BY <1>1, <1>2 DEF instruction, Boundaries, Function
<1> QED BY <1>2, <1>4, <1>5 DEF instruction, NextIp, Decodes

-----------------------------------------------------------------------------
(* The kinds of steps *)

Kept == Len(stack') >= frame.base /\ \A i \in 1..frame.base : stack'[i] = stack[i]

\* The top frame moves within its function.
FramesMove ==
    /\ frames' \in Seq(Frame) /\ Len(frames') = Len(frames)
    /\ \A i \in 1..(Len(frames) - 1) : frames'[i] = frames[i]
    /\ frames'[Len(frames)].function = frame.function
    /\ frames'[Len(frames)].base = frame.base
    /\ Len(frames'[Len(frames)].locals) = Len(frame.locals)
    /\ frames'[Len(frames)].ip \in Boundaries(function) \cup {Len(function.code)}

\* The stack changes above the base of the top frame.
StackMoves == stack' \in Seq(Value) /\ Len(stack') =< kMaxStack /\ Kept

\* A step of an instruction that neither calls nor returns.
LocalStep ==
    /\ program' = program /\ status' = status /\ result' = result
    /\ output' \in Seq(STRING)
    /\ FramesMove /\ StackMoves

LEMMA ThrowKeeps ==
    ASSUME Inv, NEW cause \in Statuses \ {"loading", "running"}, Throw(cause)
    PROVE  Inv'
<1> USE DEF Throw
<1>1. VmTypeOK'
  BY DEF Inv, VmTypeOK
<1>2. FramesNest'
  BY DEF Inv, FramesNest
<1> QED BY <1>1, <1>2 DEF Inv

LEMMA LocalStepKeeps ==
    ASSUME Inv, status = "running", LocalStep
    PROVE  Inv'
<1> DEFINE top == Len(frames)
<1>0. /\ frames \in Seq(Frame) /\ top \in Nat \ {0} /\ frame = frames[top]
      /\ frame.base \in Nat /\ frame \in Frame /\ FrameValid(program, frame)
      /\ stack \in Seq(Value)
  BY TopFrame DEF Inv, VmTypeOK, frame
<1>1. VmTypeOK'
  BY DEF Inv, VmTypeOK, LocalStep, FramesMove, StackMoves
<1>d. DOMAIN frames' = 1..top /\ DOMAIN frames = 1..top /\ Len(stack') \in Nat
  BY <1>0 DEF LocalStep, FramesMove, StackMoves
<1>i. \A i \in 1..top : i = top \/ i \in 1..(top - 1)
  BY <1>0
<1>b. \A i \in 1..top : frames'[i].base = frames[i].base
  BY <1>0, <1>i DEF LocalStep, FramesMove
<1>f. \A i \in 1..top : frames[i] \in Frame
  BY <1>0, <1>d
<1>n. \A i \in 1..top : frames[i].base \in Nat
  BY <1>f DEF Frame
<1>2. FramesNest'
  <2>1. \A i, j \in 1..top : i < j => frames[i].base =< frames[j].base
    BY <1>d DEF Inv, FramesNest
  <2>2. \A i \in 1..top : frames[i].base =< frame.base
    BY <1>0, <1>n, <1>i, <2>1
  <2>3. \A i \in 1..top : frames[i].base =< Len(stack')
    BY <1>0, <1>d, <1>n, <2>2 DEF LocalStep, StackMoves, Kept
  <2> QED BY <1>b, <1>d, <2>1, <2>3 DEF FramesNest
<1>3. \A i \in DOMAIN frames' : FrameValid(program', frames'[i])
  <2>1. program' = program
    BY DEF LocalStep
  <2>2. \A i \in 1..(top - 1) : FrameValid(program', frames'[i])
    BY <1>0, <1>d, <2>1, SMTT(30) DEF LocalStep, FramesMove, Inv
  <2>3. FrameValid(program', frames'[top])
    BY <1>0, <2>1, Zenon DEF FrameValid, function, LocalStep, FramesMove
  <2> QED BY <1>d, <1>i, <2>2, <2>3, Zenon
<1>4. load_program(program') /\ frames' # <<>>
  BY <1>0, <1>d DEF Inv, LocalStep
<1>5. status' = "running"
  BY DEF LocalStep
<1> QED BY <1>1, <1>2, <1>3, <1>4, <1>5 DEF Inv

LEMMA AdvancedKeeps ==
    ASSUME Inv, status = "running", NEW ip \in Boundaries(function) \cup {Len(function.code)}
    PROVE  /\ Advanced(ip) \in Seq(Frame) /\ Len(Advanced(ip)) = Len(frames)
           /\ \A i \in 1..(Len(frames) - 1) : Advanced(ip)[i] = frames[i]
           /\ Advanced(ip)[Len(frames)].function = frame.function
           /\ Advanced(ip)[Len(frames)].base = frame.base
           /\ Advanced(ip)[Len(frames)].locals = frame.locals
           /\ Advanced(ip)[Len(frames)].ip = ip
<1> DEFINE moved == [frame EXCEPT !.ip = ip]
<1>1. frames \in Seq(Frame) /\ frames # <<>> /\ frame \in Frame /\ function \in Function
  BY TopFrame DEF Inv, VmTypeOK
<1>2. ip \in Nat
  BY <1>1 DEF Boundaries, Function
<1>3. /\ moved \in Frame /\ moved.function = frame.function /\ moved.base = frame.base
      /\ moved.locals = frame.locals /\ moved.ip = ip
  BY <1>1, <1>2, Zenon DEF Frame
<1>4. Advanced(ip) = [frames EXCEPT ![Len(frames)] = moved]
  BY DEF Advanced
<1> HIDE DEF moved
<1> QED BY <1>1, <1>3, <1>4, TopReplaced

LEMMA MovesToMoves ==
    ASSUME Inv, status = "running", NEW ip \in Boundaries(function) \cup {Len(function.code)},
           MovesTo(ip)
    PROVE  FramesMove
BY AdvancedKeeps DEF MovesTo, FramesMove

\* n operands of the top frame are within the stack.
LEMMA Within ==
    ASSUME Inv, status = "running", NEW n \in Nat, n =< Depth
    PROVE  /\ stack \in Seq(Value) /\ Len(stack) \in Nat /\ Len(stack) =< kMaxStack
           /\ frame.base \in Nat /\ frame.base =< Len(stack) - n /\ n =< Len(stack)
           /\ Len(stack) - n \in Nat
BY TopFrame DEF Inv, VmTypeOK, Depth

LEMMA PopsMoves ==
    ASSUME Inv, status = "running", NEW n \in Nat, n =< Depth, stack' = Under(n)
    PROVE  StackMoves
<1>1. /\ stack \in Seq(Value) /\ Len(stack) \in Nat /\ Len(stack) =< kMaxStack
      /\ frame.base \in Nat /\ frame.base =< Len(stack) - n /\ n =< Len(stack)
  BY Within
<1>2. /\ stack' \in Seq(Value) /\ Len(stack') = Len(stack) - n
      /\ \A i \in 1..(Len(stack) - n) : stack'[i] = stack[i]
  BY <1>1, UnderKeeps
<1>3. kMaxStack \in Nat
  BY VmAssumption
<1> QED BY <1>1, <1>2, <1>3 DEF StackMoves, Kept

LEMMA PushMoves ==
    ASSUME Inv, status = "running", NEW n \in Nat, n =< Depth, Len(stack) - n < kMaxStack,
           NEW v \in Value, stack' = Append(Under(n), v)
    PROVE  StackMoves
<1>1. /\ stack \in Seq(Value) /\ Len(stack) \in Nat
      /\ frame.base \in Nat /\ frame.base =< Len(stack) - n /\ n =< Len(stack)
  BY Within
<1>2. /\ Under(n) \in Seq(Value) /\ Len(Under(n)) = Len(stack) - n
      /\ \A i \in 1..(Len(stack) - n) : Under(n)[i] = stack[i]
  BY <1>1, UnderKeeps, Zenon
<1>3. /\ stack' \in Seq(Value) /\ Len(stack') = Len(stack) - n + 1
      /\ \A i \in 1..(Len(stack) - n) : stack'[i] = stack[i]
  BY <1>2, AppendKeeps, Zenon
<1>4. kMaxStack \in Nat
  BY VmAssumption
<1>5. Len(stack') =< kMaxStack /\ Len(stack') >= frame.base
  BY <1>1, <1>3, <1>4
<1>6. \A i \in 1..frame.base : i \in 1..(Len(stack) - n)
  BY <1>1
<1> QED BY <1>3, <1>5, <1>6 DEF StackMoves, Kept

LEMMA ReplaceIsLocal ==
    ASSUME Inv, status = "running", frame.ip < Len(function.code),
           NEW n \in Nat, n =< Depth, n > 0 \/ Len(stack) < kMaxStack,
           NEW v \in Value, Replace(n, v)
    PROVE  LocalStep
<1>1. FramesMove
  BY Decoded, MovesToMoves DEF Replace
<1>2. Len(stack) \in Nat /\ Len(stack) =< kMaxStack /\ output \in Seq(STRING)
  BY DEF Inv, VmTypeOK
<1>3. Len(stack) - n < kMaxStack
  BY <1>2, VmAssumption
<1>4. StackMoves
  BY <1>3, PushMoves DEF Replace
<1> QED BY <1>1, <1>2, <1>4 DEF LocalStep, Replace

\* A new frame is at the beginning of its function.
LEMMA MakeFrame ==
    ASSUME program \in Program, load_program(program),
           NEW index \in Nat, index < Len(program.functions), NEW base \in Nat, NEW args \in Seq(Value)
    PROVE  /\ make_frame(index, base, args) \in Frame
           /\ FrameValid(program, make_frame(index, base, args))
           /\ make_frame(index, base, args).base = base
<1> DEFINE f == program.functions[index + 1]
           size == f.params + f.locals
           new == [i \in 1..size |-> IF i =< Len(args) THEN args[i] ELSE IntValue(0)]
           fr == make_frame(index, base, args)
<1>1. f \in Function /\ index + 1 \in DOMAIN program.functions
  BY DEF Program
<1>2. f.code \in Seq(Byte) /\ size \in Nat
  BY <1>1 DEF Function
<1>3. new \in Seq(Value) /\ Len(new) = size
  <2>1. new \in [1..size -> Value]
    BY SmallIntsAreValues
  <2> HIDE DEF new, size
  <2>2. new \in Seq(Value)
    BY <1>2, <2>1, SeqDef
  <2>3. Len(new) \in Nat /\ 1..Len(new) = 1..size
    BY <2>1, <2>2, LenProperties
  <2> QED BY <1>2, <2>2, <2>3
<1>4. /\ fr.function = index /\ fr.ip = 0 /\ fr.base = base /\ fr.locals = new
      /\ fr = [function |-> index, ip |-> 0, base |-> base, locals |-> new,
               initialized |-> 0..(Len(args) - 1)]
  BY DEF make_frame
<1>5. 0..(Len(args) - 1) \in SUBSET Nat
  OBVIOUS
<1>6. fr \in Frame
  BY <1>3, <1>4, <1>5 DEF Frame
<1>7. 0 \in Boundaries(f) \cup {Len(f.code)}
  BY <1>1, <1>2 DEF load_program, Decodes
<1> QED BY <1>3, <1>4, <1>6, <1>7, Zenon DEF FrameValid

-----------------------------------------------------------------------------
(* One instruction after the other *)

\* What every step of run keeps.
Good == Inv' /\ Kept

LEMMA ThrowGood ==
    ASSUME Inv, status = "running", NEW cause \in Statuses \ {"loading", "running"}, Throw(cause)
    PROVE  Good
<1>1. Kept
  BY TopFrame DEF Kept, Throw, Inv, VmTypeOK
<1> QED BY <1>1, ThrowKeeps DEF Good

LEMMA LocalGood ==
    ASSUME Inv, status = "running", LocalStep
    PROVE  Good
BY LocalStepKeeps DEF Good, LocalStep, StackMoves

LEMMA ReplaceGood ==
    ASSUME Inv, status = "running", frame.ip < Len(function.code),
           NEW n \in Nat, n =< Depth, n > 0 \/ Len(stack) < kMaxStack,
           NEW v \in Value, Replace(n, v)
    PROVE  Good
BY ReplaceIsLocal, LocalGood

LEMMA PushGood ==
    ASSUME Inv, status = "running", frame.ip < Len(function.code), NEW v \in Value, Push(v)
    PROVE  Good
<1>1. CASE Len(stack) >= kMaxStack /\ Throw("limit")
  BY <1>1, ThrowGood DEF Statuses
<1>2. CASE Len(stack) < kMaxStack /\ Replace(0, v)
  BY <1>2, ReplaceGood, TopFrame
<1> QED BY <1>1, <1>2 DEF Push

LEMMA OperandIsValue ==
    ASSUME Inv, status = "running", NEW n \in Nat \ {0}, n =< Depth
    PROVE  Operand(n) \in Value
<1>1. stack \in Seq(Value) /\ Len(stack) \in Nat /\ n =< Len(stack)
  BY TopFrame DEF Inv, VmTypeOK, Depth
<1> QED BY <1>1 DEF Operand

LEMMA HasOperands ==
    ASSUME Inv, status = "running", NEW n \in Nat, NEW kind, Has(n, kind)
    PROVE  /\ n =< Depth
           /\ \A i \in 1..n : Operand(i) \in Value /\ Operand(i).kind = kind
<1>1. n =< Depth /\ Depth \in Nat
  BY TopFrame DEF Has
<1>2. \A i \in 1..n : i \in Nat \ {0} /\ i =< Depth
  BY <1>1
<1> QED BY <1>1, <1>2, OperandIsValue DEF Has

LEMMA PushConstGood ==
    ASSUME Inv, PushConst
    PROVE  Good
<1>1. status = "running" /\ frame.ip < Len(function.code) /\ instruction.op = "PUSH_CONST"
  BY DEF PushConst, Fetches
<1>2. instruction \in Byte /\ OperandsValid(program, function, instruction)
  BY <1>1, Decoded
<1>3. instruction.arg \in Nat /\ instruction.arg < Len(program.constants)
  BY <1>1, <1>2 DEF OperandsValid, FloatOps, PlainOps, Byte
<1>4. program.constants \in Seq(Value)
  BY DEF Inv, VmTypeOK, Program
<1>5. program.constants[instruction.arg + 1] \in Value
  BY <1>3, <1>4
<1> QED BY <1>1, <1>5, PushGood DEF PushConst

\* The slot of a LOAD or STORE is one of the frame's locals.
LEMMA SlotIsLocal ==
    ASSUME Inv, status = "running", frame.ip < Len(function.code), instruction.op \in {"LOAD", "STORE"}
    PROVE  /\ instruction.arg \in Nat
           /\ frame.locals \in Seq(Value)
           /\ instruction.arg + 1 \in 1..Len(frame.locals)
<1>1. instruction \in Byte /\ OperandsValid(program, function, instruction)
  BY Decoded
<1>2. instruction.arg \in Nat /\ instruction.arg < function.params + function.locals
  BY <1>1 DEF OperandsValid, FloatOps, PlainOps, Byte
<1>3. frame \in Frame /\ FrameValid(program, frame) /\ function \in Function
  BY TopFrame
<1>4. frame.locals \in Seq(Value) /\ Len(frame.locals) = function.params + function.locals
  BY <1>3 DEF Frame, FrameValid, function
<1>5. function.params + function.locals \in Nat
  BY <1>3 DEF Function
<1> QED BY <1>2, <1>4, <1>5

LEMMA LoadGood ==
    ASSUME Inv, Load
    PROVE  Good
<1>1. status = "running" /\ frame.ip < Len(function.code) /\ instruction.op = "LOAD"
  BY DEF Load, Fetches
<1>2. frame.locals[instruction.arg + 1] \in Value
  BY <1>1, SlotIsLocal
<1>3. CASE instruction.arg \in frame.initialized
  BY <1>1, <1>2, <1>3, PushGood DEF Load
<1>4. CASE instruction.arg \notin frame.initialized
  BY <1>1, <1>4, ThrowGood DEF Load, Statuses
<1> QED BY <1>3, <1>4

LEMMA StoreGood ==
    ASSUME Inv, Store
    PROVE  Good
<1>1. status = "running" /\ frame.ip < Len(function.code) /\ instruction.op = "STORE"
  BY DEF Store, Fetches
<1>2. CASE Depth < 1 /\ Throw("operand")
  BY <1>1, <1>2, ThrowGood DEF Statuses
<1>3. CASE /\ Depth >= 1 /\ stack' = Under(1)
           /\ frames' = [frames EXCEPT ![Len(frames)] = Stored(instruction.arg, Operand(1))]
           /\ UNCHANGED <<program, status, result, output>>
  <2> DEFINE new == [frame.locals EXCEPT ![instruction.arg + 1] = Operand(1)]
             moved == Stored(instruction.arg, Operand(1))
  <2>1. frames \in Seq(Frame) /\ frames # <<>> /\ frame \in Frame /\ function \in Function
    BY <1>1, TopFrame DEF Inv, VmTypeOK
  <2>2. /\ instruction.arg \in Nat /\ frame.locals \in Seq(Value)
        /\ instruction.arg + 1 \in 1..Len(frame.locals) /\ Operand(1) \in Value
    BY <1>1, <1>3, SlotIsLocal, OperandIsValue
  <2>3. new \in Seq(Value) /\ Len(new) = Len(frame.locals)
    BY <2>2
  <2>4. NextIp \in Boundaries(function) \cup {Len(function.code)}
    BY <1>1, Decoded
  <2>5. NextIp \in Nat
    BY <2>1, <2>4 DEF Boundaries, Function
  <2>6. frames' = [frames EXCEPT ![Len(frames)] = moved]
    BY <1>3
  <2>7. /\ moved \in Frame /\ moved.function = frame.function /\ moved.base = frame.base
        /\ moved.locals = new /\ moved.ip = NextIp
    BY <2>1, <2>2, <2>3, <2>5, Zenon DEF Frame, Stored
  <2> HIDE DEF moved
  <2>8. FramesMove
    BY <2>1, <2>3, <2>4, <2>6, <2>7, TopReplaced DEF FramesMove
  <2>9. StackMoves
    BY <1>1, <1>3, PopsMoves
  <2>10. output \in Seq(STRING)
    BY DEF Inv, VmTypeOK
  <2> QED BY <1>1, <1>3, <2>8, <2>9, <2>10, LocalGood DEF LocalStep
<1> QED BY <1>2, <1>3 DEF Store

LEMMA ArithmeticGood ==
    ASSUME Inv, Arithmetic
    PROVE  Good
<1>1. status = "running" /\ frame.ip < Len(function.code)
  BY DEF Arithmetic, Fetches
<1> DEFINE fits == Results(instruction.op, Operand(2).int, Operand(1).int) \cap MinInt..MaxInt
<1>2. CASE Throw("operand") \/ Throw("arithmetic")
  BY <1>1, <1>2, ThrowGood DEF Statuses
<1>3. ASSUME Has(2, "Int"), NEW n \in fits, Replace(2, IntValue(n))
      PROVE  Good
  <2>1. 2 =< Depth
    BY <1>1, <1>3, HasOperands
  <2>2. IntValue(n) \in Value
    BY IntIsValue
  <2> QED BY <1>1, <1>3, <2>1, <2>2, ReplaceGood
<1> QED BY <1>2, <1>3 DEF Arithmetic

LEMMA FloatArithmeticGood ==
    ASSUME Inv, FloatArithmetic
    PROVE  Good
<1>1. status = "running" /\ frame.ip < Len(function.code)
  BY DEF FloatArithmetic, Fetches
<1>2. CASE Throw("operand") \/ Throw("arithmetic")
  BY <1>1, <1>2, ThrowGood DEF Statuses
<1>3. CASE Has(2, "Float") /\ Replace(2, FloatValue)
  <2>1. 2 =< Depth
    BY <1>1, <1>3, HasOperands
  <2> QED BY <1>1, <1>3, <2>1, SmallIntsAreValues, ReplaceGood
<1> QED BY <1>2, <1>3 DEF FloatArithmetic

LEMMA FloatCompareGood ==
    ASSUME Inv, FloatCompare
    PROVE  Good
<1>1. status = "running" /\ frame.ip < Len(function.code)
  BY DEF FloatCompare, Fetches
<1>2. CASE Throw("operand")
  BY <1>1, <1>2, ThrowGood DEF Statuses
<1>3. ASSUME Has(2, "Float"), NEW n \in {0, 1}, Replace(2, IntValue(n))
      PROVE  Good
  <2>1. 2 =< Depth
    BY <1>1, <1>3, HasOperands
  <2>2. IntValue(n) \in Value
    BY SmallIntsAreValues
  <2> QED BY <1>1, <1>3, <2>1, <2>2, ReplaceGood
<1> QED BY <1>2, <1>3 DEF FloatCompare

LEMMA FNegGood ==
    ASSUME Inv, FNeg
    PROVE  Good
<1>1. status = "running" /\ frame.ip < Len(function.code)
  BY DEF FNeg, Fetches
<1>2. CASE Throw("operand")
  BY <1>1, <1>2, ThrowGood DEF Statuses
<1>3. CASE Has(1, "Float") /\ Replace(1, FloatValue)
  <2>1. 1 =< Depth
    BY <1>1, <1>3, HasOperands
  <2> QED BY <1>1, <1>3, <2>1, SmallIntsAreValues, ReplaceGood
<1> QED BY <1>2, <1>3 DEF FNeg

LEMMA CmpEqGood ==
    ASSUME Inv, CmpEq
    PROVE  Good
<1>1. status = "running" /\ frame.ip < Len(function.code)
  BY DEF CmpEq, Fetches
<1>2. CASE Throw("operand")
  BY <1>1, <1>2, ThrowGood DEF Statuses
<1>3. CASE /\ Has(2, "Int") \/ Has(2, "String")
           /\ Replace(2, IntValue(IF Operand(2) = Operand(1) THEN 1 ELSE 0))
  <2>1. 2 =< Depth
    BY <1>1, <1>3, HasOperands
  <2>2. IntValue(IF Operand(2) = Operand(1) THEN 1 ELSE 0) \in Value
    BY SmallIntsAreValues
  <2> QED BY <1>1, <1>3, <2>1, <2>2, ReplaceGood
<1> QED BY <1>2, <1>3 DEF CmpEq

LEMMA NotGood ==
    ASSUME Inv, Not
    PROVE  Good
<1>1. status = "running" /\ frame.ip < Len(function.code)
  BY DEF Not, Fetches
<1>2. CASE Throw("operand")
  BY <1>1, <1>2, ThrowGood DEF Statuses
<1>3. CASE HasBool /\ Replace(1, IntValue(1 - Operand(1).int))
  <2>1. 1 =< Depth /\ Operand(1).int \in {0, 1}
    BY <1>1, <1>3, HasOperands DEF HasBool
  <2>2. 1 - Operand(1).int \in {0, 1}
    BY <2>1
  <2>3. IntValue(1 - Operand(1).int) \in Value
    BY <2>2, SmallIntsAreValues
  <2> QED BY <1>1, <1>3, <2>1, <2>3, ReplaceGood
<1> QED BY <1>2, <1>3 DEF Not

\* The target of a jump is an instruction.
LEMMA TargetIsValid ==
    ASSUME Inv, status = "running", frame.ip < Len(function.code),
           instruction.op \in {"JMP", "JMP_IF_FALSE"}
    PROVE  instruction.arg \in Boundaries(function)
<1>1. OperandsValid(program, function, instruction)
  BY Decoded
<1> QED BY <1>1 DEF OperandsValid, FloatOps, PlainOps

LEMMA JmpGood ==
    ASSUME Inv, Jmp
    PROVE  Good
<1>1. status = "running" /\ frame.ip < Len(function.code) /\ instruction.op = "JMP"
  BY DEF Jmp, Fetches
<1>2. FramesMove
  BY <1>1, TargetIsValid, MovesToMoves DEF Jmp
<1>3. StackMoves
  BY <1>1, TopFrame DEF Jmp, StackMoves, Kept, Inv, VmTypeOK
<1>4. output \in Seq(STRING)
  BY DEF Inv, VmTypeOK
<1> QED BY <1>1, <1>2, <1>3, <1>4, LocalGood DEF LocalStep, Jmp

LEMMA JmpIfFalseGood ==
    ASSUME Inv, JmpIfFalse
    PROVE  Good
<1>1. status = "running" /\ frame.ip < Len(function.code) /\ instruction.op = "JMP_IF_FALSE"
  BY DEF JmpIfFalse, Fetches
<1>2. CASE Throw("operand")
  BY <1>1, <1>2, ThrowGood DEF Statuses
<1>3. CASE /\ HasBool /\ stack' = Under(1)
           /\ MovesTo(IF Operand(1).int = 0 THEN instruction.arg ELSE NextIp)
           /\ UNCHANGED <<program, status, result, output>>
  <2>1. FramesMove
    BY <1>1, <1>3, TargetIsValid, Decoded, MovesToMoves
  <2>2. 1 =< Depth
    BY <1>1, <1>3, HasOperands DEF HasBool
  <2>3. StackMoves
    BY <1>1, <1>3, <2>2, PopsMoves
  <2>4. output \in Seq(STRING)
    BY DEF Inv, VmTypeOK
  <2> QED BY <1>1, <1>3, <2>1, <2>3, <2>4, LocalGood DEF LocalStep
<1> QED BY <1>2, <1>3 DEF JmpIfFalse

LEMMA PopGood ==
    ASSUME Inv, Pop
    PROVE  Good
<1>1. status = "running" /\ frame.ip < Len(function.code)
  BY DEF Pop, Fetches
<1>2. CASE Throw("operand")
  BY <1>1, <1>2, ThrowGood DEF Statuses
<1>3. CASE /\ Depth >= 1 /\ stack' = Under(1) /\ MovesTo(NextIp)
           /\ UNCHANGED <<program, status, result, output>>
  <2>1. FramesMove
    BY <1>1, <1>3, Decoded, MovesToMoves
  <2>2. StackMoves
    BY <1>1, <1>3, PopsMoves, TopFrame
  <2>3. output \in Seq(STRING)
    BY DEF Inv, VmTypeOK
  <2> QED BY <1>1, <1>3, <2>1, <2>2, <2>3, LocalGood DEF LocalStep
<1> QED BY <1>2, <1>3 DEF Pop

\* The bases below the top.
LEMMA Bases ==
    ASSUME Inv, status = "running"
    PROVE  \A i \in 1..Len(frames) : frames[i].base \in Nat /\ frames[i].base =< frame.base
<1>1. frames \in Seq(Frame) /\ Len(frames) \in Nat \ {0} /\ DOMAIN frames = 1..Len(frames)
  BY TopFrame DEF Inv, VmTypeOK
<1>2. \A i \in 1..Len(frames) : frames[i] \in Frame
  BY <1>1
<1>3. \A i \in 1..Len(frames) : frames[i].base \in Nat
  BY <1>2 DEF Frame
<1>4. \A i \in 1..Len(frames) : i < Len(frames) => frames[i].base =< frames[Len(frames)].base
  BY <1>1 DEF Inv, FramesNest
<1>5. \A n \in Nat : \A i \in 1..n : i < n \/ i = n
  OBVIOUS
<1>6. SUFFICES ASSUME NEW i \in 1..Len(frames)
               PROVE  frames[i].base =< frame.base
  BY <1>3
<1>7. i < Len(frames) \/ i = Len(frames)
  BY <1>1, <1>5, Zenon
<1>8. frame = frames[Len(frames)]
  BY DEF frame
<1>9. CASE i = Len(frames)
  BY <1>3, <1>8, <1>9
<1> QED BY <1>4, <1>7, <1>8, <1>9

\* The arguments of a call.
LEMMA TopIsValues ==
    ASSUME NEW n \in Nat, stack \in Seq(Value), n =< Len(stack)
    PROVE  /\ SubSeq(stack, Len(stack) - n + 1, Len(stack)) \in Seq(Value)
           /\ Len(SubSeq(stack, Len(stack) - n + 1, Len(stack))) = n
OBVIOUS

LEMMA ArgumentsAreValues ==
    ASSUME Inv, status = "running", instruction.argc \in Nat, instruction.argc =< Depth
    PROVE  /\ arguments \in Seq(Value)
           /\ Len(arguments) = instruction.argc
<1>1. stack \in Seq(Value) /\ instruction.argc =< Len(stack)
  BY Within
<1> QED BY <1>1, TopIsValues DEF arguments

LEMMA CallGood ==
    ASSUME Inv, Call
    PROVE  Good
<1>1. status = "running" /\ frame.ip < Len(function.code) /\ instruction.op = "CALL"
  BY DEF Call, Fetches
<1>2. CASE Throw("operand") \/ Throw("limit")
  BY <1>1, <1>2, ThrowGood DEF Statuses
<1> DEFINE base == Len(stack) - instruction.argc
           callee == make_frame(instruction.arg, base, arguments)
           caller == Advanced(NextIp)
           top == Len(frames)
<1>3. CASE /\ instruction.argc =< Depth /\ Len(frames) < kMaxFrames
           /\ stack' = Under(instruction.argc)
           /\ frames' = Append(caller, callee)
           /\ UNCHANGED <<program, status, result, output>>
  <2>1. instruction \in Byte /\ OperandsValid(program, function, instruction)
        /\ NextIp \in Boundaries(function) \cup {Len(function.code)}
    BY <1>1, Decoded
  <2>2. instruction.arg \in Nat /\ instruction.argc \in Nat /\ instruction.arg < Len(program.functions)
    BY <1>1, <2>1 DEF OperandsValid, FloatOps, PlainOps, Byte
  <2>3. /\ Len(stack) \in Nat /\ frame.base \in Nat /\ base \in Nat /\ frame.base =< base
        /\ top \in Nat \ {0}
    BY <1>1, <1>3, <2>2, TopFrame, Within
  <2>4. callee \in Frame /\ FrameValid(program, callee) /\ callee.base = base
    <3>1. arguments \in Seq(Value)
      BY <1>1, <1>3, <2>2, ArgumentsAreValues
    <3>2. program \in Program /\ load_program(program)
      BY <1>1 DEF Inv, VmTypeOK
    <3> HIDE DEF base
    <3> QED BY <2>2, <2>3, <3>1, <3>2, MakeFrame
  <2>5. StackMoves /\ Len(stack') = base
    BY <1>1, <1>3, <2>2, PopsMoves, UnderKeeps, Within
  <2>6. /\ caller \in Seq(Frame) /\ Len(caller) = top
        /\ \A i \in 1..(top - 1) : caller[i] = frames[i]
        /\ caller[top].function = frame.function /\ caller[top].base = frame.base
        /\ caller[top].locals = frame.locals /\ caller[top].ip = NextIp
    BY <1>1, <2>1, AdvancedKeeps
  <2>7. \A i \in 1..top : i = top \/ i \in 1..(top - 1)
    BY <2>3
  <2>8. \A i \in 1..top : caller[i].base = frames[i].base
    BY <2>6, <2>7 DEF frame
  <2>9. \A i \in 1..top : FrameValid(program, caller[i])
    <3>1. \A i \in 1..(top - 1) : FrameValid(program, caller[i])
      BY <1>1, <2>3, <2>6 DEF Inv, VmTypeOK
    <3>2. FrameValid(program, frame)
      BY <1>1, TopFrame, SMTT(30)
    <3>3. FrameValid(program, caller[top])
      BY <2>1, <2>6, <3>2, Zenon DEF FrameValid, function
    <3> QED BY <2>7, <3>1, <3>3
  <2> HIDE DEF caller, callee, base
  <2>10. /\ frames' \in Seq(Frame) /\ Len(frames') = top + 1 /\ DOMAIN frames' = 1..(top + 1)
         /\ frames'[top + 1] = callee
         /\ \A i \in 1..top : frames'[i] = caller[i]
    BY <1>3, <2>3, <2>4, <2>6
  <2>11. \A i \in 1..(top + 1) : i = top + 1 \/ i \in 1..top
    BY <2>3
  <2>12. VmTypeOK'
    BY <1>3, <2>3, <2>5, <2>10, VmAssumption DEF Inv, VmTypeOK, StackMoves
  <2>13. \A i \in 1..top : frames'[i].base = frames[i].base /\ frames[i].base \in Nat /\ frames[i].base =< base
    BY <1>1, <2>3, <2>8, <2>10, Bases
  <2>14. FramesNest'
    <3>1. \A i \in 1..(top + 1) : frames'[i].base =< base
      BY <2>3, <2>4, <2>10, <2>11, <2>13
    <3>2. \A i, j \in 1..top : i < j => frames[i].base =< frames[j].base
      BY <2>3 DEF Inv, FramesNest, VmTypeOK
    <3>3. \A i, j \in 1..(top + 1) : i < j => frames'[i].base =< frames'[j].base
      <4> TAKE i, j \in 1..(top + 1)
      <4> HAVE i < j
      <4>1. i \in 1..top
        BY <2>3
      <4>2. CASE j = top + 1
        BY <2>4, <2>10, <3>1, <4>2
      <4>3. CASE j \in 1..top
        BY <2>13, <3>2, <4>1, <4>3
      <4> QED BY <2>11, <4>2, <4>3
    <3> QED BY <2>5, <2>10, <3>1, <3>3 DEF FramesNest
  <2>15. \A i \in DOMAIN frames' : FrameValid(program', frames'[i])
    BY <1>3, <2>4, <2>9, <2>10, <2>11
  <2>16. load_program(program') /\ frames' # <<>> /\ status' = "running"
    BY <1>1, <1>3, <2>3, <2>10 DEF Inv
  <2>17. Inv'
    BY <2>12, <2>14, <2>15, <2>16 DEF Inv
  <2> QED BY <2>5, <2>17 DEF Good, StackMoves
<1> QED BY <1>2, <1>3 DEF Call

LEMMA RuntimeReturnsGood ==
    ASSUME Inv, status = "running", frame.ip < Len(function.code),
           NEW name, NEW n \in Nat, n =< Depth, NEW v \in Value, RuntimeReturns(name, n, v),
           name = "runtime.log" => arguments[1].text \in STRING
    PROVE  Good
<1>1. output' \in Seq(STRING)
  <2>1. output \in Seq(STRING)
    BY DEF Inv, VmTypeOK
  <2>2. CASE name = "runtime.log"
    <3>1. output' = Append(output, arguments[1].text) /\ arguments[1].text \in STRING
      BY <2>2 DEF RuntimeReturns
    <3> QED BY <2>1, <3>1, AppendProperties
  <2>3. CASE name # "runtime.log"
    BY <2>1, <2>3 DEF RuntimeReturns
  <2> QED BY <2>2, <2>3
<1>2. CASE status' = "limit" /\ UNCHANGED <<program, stack, frames, result>>
  <2>1. VmTypeOK'
    BY <1>1, <1>2 DEF Inv, VmTypeOK, Statuses
  <2>2. FramesNest'
    BY <1>2 DEF Inv, FramesNest
  <2>3. Kept
    BY <1>2, TopFrame DEF Kept, Inv, VmTypeOK
  <2> QED BY <1>2, <2>1, <2>2, <2>3 DEF Good, Inv
<1>3. CASE /\ Len(stack) - n < kMaxStack /\ stack' = Append(Under(n), v) /\ MovesTo(NextIp)
           /\ UNCHANGED <<program, status, result>>
  <2>1. FramesMove
    BY <1>3, Decoded, MovesToMoves
  <2>2. StackMoves
    BY <1>3, PushMoves, SMTT(30)
  <2> QED BY <1>1, <1>3, <2>1, <2>2, LocalGood DEF LocalStep
<1> QED BY <1>2, <1>3 DEF RuntimeReturns

LEMMA CallRuntimeGood ==
    ASSUME Inv, CallRuntime
    PROVE  Good
<1> DEFINE name == program.constants[instruction.arg + 1].text
           n == instruction.argc
<1>1. status = "running" /\ frame.ip < Len(function.code) /\ instruction.op = "CALL_RUNTIME"
  BY DEF CallRuntime, Fetches
<1>2. CASE Throw("operand") \/ Throw("runtime")
  BY <1>1, <1>2, ThrowGood DEF Statuses
<1>3. ASSUME n =< Depth, ArgumentsFit(name, arguments), NEW v \in Returns(name), RuntimeReturns(name, n, v)
      PROVE  Good
  <2>1. instruction \in Byte /\ OperandsValid(program, function, instruction)
    BY <1>1, Decoded
  <2>2. n \in Nat /\ has_function(name, n)
    BY <1>1, <2>1 DEF OperandsValid, FloatOps, PlainOps, Byte
  <2>3. v \in Value
    BY SmallIntsAreValues, VmAssumption DEF Returns, StringValue, Value
  <2>4. arguments \in Seq(Value) /\ Len(arguments) = n
    BY <1>1, <1>3, <2>2, ArgumentsAreValues
  <2>5. ASSUME name = "runtime.log"
        PROVE  arguments[1].text \in STRING
    <3>1. n = 1 /\ arguments[1].kind = "String"
      BY <1>3, <2>2, <2>5 DEF has_function, ArgCount, ArgumentsFit
    <3>2. arguments[1] \in Value
      <4>1. Len(arguments) = 1
        BY <2>4, <3>1
      <4> QED BY <2>4, <4>1, FirstOf
    <3> QED BY <3>1, <3>2, TextOf
  <2> HIDE DEF name, n
  <2> QED BY <1>1, <1>3, <2>2, <2>3, <2>5, RuntimeReturnsGood
<1> QED BY <1>2, <1>3, Zenon DEF CallRuntime

LEMMA RetGood ==
    ASSUME Inv, Ret
    PROVE  Good
<1>1. status = "running" /\ frame.ip < Len(function.code)
  BY DEF Ret, Fetches
<1>2. CASE Throw("operand")
  BY <1>1, <1>2, ThrowGood DEF Statuses
<1> DEFINE under == SubSeq(stack, 1, frame.base)
<1>3. ASSUME Depth >= 1
      PROVE  /\ stack \in Seq(Value) /\ Len(stack) \in Nat /\ Len(stack) =< kMaxStack
             /\ frame.base \in Nat /\ frame.base + 1 =< Len(stack) /\ Operand(1) \in Value
             /\ under \in Seq(Value) /\ Len(under) = frame.base
             /\ \A i \in 1..frame.base : under[i] = stack[i]
  <2>1. /\ stack \in Seq(Value) /\ Len(stack) \in Nat /\ Len(stack) =< kMaxStack
        /\ frame.base \in Nat /\ frame.base + 1 =< Len(stack) /\ Operand(1) \in Value
    BY <1>1, <1>3, TopFrame, Within, OperandIsValue
  <2> QED BY <2>1
<1> HIDE DEF under
<1>4. CASE /\ Depth >= 1 /\ Len(frames) = 1
           /\ status' = "returned" /\ result' = Operand(1) /\ stack' = under /\ frames' = <<>>
           /\ UNCHANGED <<program, output>>
  <2>1. Len(stack') =< kMaxStack
    BY <1>3, <1>4, VmAssumption
  <2>2. VmTypeOK'
    BY <1>3, <1>4, <2>1, VmAssumption DEF Inv, VmTypeOK, Statuses
  <2>3. FramesNest'
    BY <1>4 DEF FramesNest
  <2>4. Kept
    BY <1>3, <1>4 DEF Kept
  <2> QED BY <1>4, <2>2, <2>3, <2>4 DEF Good, Inv
<1>5. CASE /\ Depth >= 1 /\ Len(frames) > 1
           /\ stack' = Append(under, Operand(1))
           /\ frames' = SubSeq(frames, 1, Len(frames) - 1)
           /\ UNCHANGED <<program, status, result, output>>
  <2>1. /\ stack' \in Seq(Value) /\ Len(stack') = frame.base + 1
        /\ \A i \in 1..frame.base : stack'[i] = stack[i]
    BY <1>3, <1>5, AppendKeeps, Zenon
  <2>2. Len(stack') =< kMaxStack /\ Kept
    BY <1>3, <1>5, <2>1, VmAssumption DEF Kept
  <2>3. frames \in Seq(Frame) /\ Len(frames) \in Nat /\ Len(frames) =< kMaxFrames
    BY DEF Inv, VmTypeOK
  <2>4. /\ frames' \in Seq(Frame) /\ Len(frames') = Len(frames) - 1 /\ frames' # <<>>
        /\ DOMAIN frames' = 1..(Len(frames) - 1)
        /\ \A i \in 1..(Len(frames) - 1) : frames'[i] = frames[i] /\ i \in 1..Len(frames)
    BY <1>5, <2>3
  <2>5. VmTypeOK'
    BY <1>5, <2>1, <2>2, <2>3, <2>4, VmAssumption DEF Inv, VmTypeOK
  <2>6. \A i \in DOMAIN frames' : frames'[i] = frames[i] /\ i \in DOMAIN frames /\ i \in 1..Len(frames)
    BY <2>3, <2>4
  <2>7. FramesNest'
    <3>1. \A i, j \in DOMAIN frames' : i < j => frames'[i].base =< frames'[j].base
      BY <2>6 DEF Inv, FramesNest
    <3>2. \A i \in DOMAIN frames' : frames'[i].base \in Nat /\ frames'[i].base =< frame.base
      BY <1>1, <2>6, Bases
    <3>3. \A i \in DOMAIN frames' : frames'[i].base =< Len(stack')
      BY <1>3, <1>5, <2>1, <3>2
    <3> QED BY <3>1, <3>3 DEF FramesNest
  <2>8. \A i \in DOMAIN frames' : FrameValid(program', frames'[i])
    BY <1>1, <1>5, <2>6 DEF Inv
  <2>9. load_program(program') /\ status' = "running"
    BY <1>1, <1>5 DEF Inv
  <2> QED BY <2>2, <2>4, <2>5, <2>7, <2>8, <2>9 DEF Good, Inv
<1> QED BY <1>2, <1>4, <1>5, Zenon DEF Ret, under

-----------------------------------------------------------------------------
(* Every step *)

LEMMA LoadProgramKeeps ==
    ASSUME Inv, Load_program
    PROVE  Inv'
<1>1. status = "loading" /\ stack = <<>> /\ frames = <<>>
  BY DEF Inv, Load_program
<1>2. CASE Throw("rejected")
  BY <1>2, ThrowKeeps DEF Statuses
<1>3. CASE /\ load_program(program) /\ status' = "running"
           /\ frames' = <<make_frame(program.entry, 0, <<>>)>>
           /\ UNCHANGED <<program, stack, result, output>>
  <2> DEFINE fr == make_frame(program.entry, 0, <<>>)
  <2>1. program \in Program /\ program.entry \in Nat /\ program.entry < Len(program.functions)
    BY <1>3 DEF Inv, VmTypeOK, Program, load_program
  <2>2. fr \in Frame /\ FrameValid(program, fr) /\ fr.base = 0
    <3>1. <<>> \in Seq(Value) /\ 0 \in Nat
      OBVIOUS
    <3> QED BY <1>3, <2>1, <3>1, MakeFrame, Zenon
  <2> HIDE DEF fr
  <2>3. /\ frames' \in Seq(Frame) /\ Len(frames') = 1 /\ frames' # <<>>
        /\ DOMAIN frames' = {1} /\ frames'[1] = fr
    BY <1>3, <2>2 DEF fr
  <2>4. VmTypeOK'
    BY <1>3, <2>3, VmAssumption DEF Inv, VmTypeOK, Statuses
  <2>5. FramesNest'
    BY <1>1, <1>3, <2>2, <2>3 DEF FramesNest
  <2>6. \A i \in DOMAIN frames' : FrameValid(program', frames'[i])
    BY <1>3, <2>2, <2>3
  <2> QED BY <1>3, <2>3, <2>4, <2>5, <2>6, SMTT(30) DEF Inv
<1> QED BY <1>2, <1>3 DEF Load_program

LEMMA EndsWithoutRetGood ==
    ASSUME Inv, EndsWithoutRet
    PROVE  Good
BY ThrowGood DEF EndsWithoutRet, Statuses

LEMMA RunGood ==
    ASSUME Inv, run
    PROVE  Good
BY EndsWithoutRetGood, PushConstGood, LoadGood, StoreGood, ArithmeticGood, FloatArithmeticGood,
   FloatCompareGood, FNegGood, CmpEqGood, NotGood, JmpGood, JmpIfFalseGood, CallGood,
   CallRuntimeGood, PopGood, RetGood DEF run

LEMMA Initially ==
    VmInit => Inv
BY SmallIntsAreValues, VmAssumption DEF VmInit, Inv, VmTypeOK, FramesNest, Statuses

LEMMA NextKeeps ==
    Inv /\ [VmNext]_vmVars => Inv'
<1> SUFFICES ASSUME Inv, [VmNext]_vmVars PROVE Inv'
  OBVIOUS
<1>1. CASE Load_program
  BY <1>1, LoadProgramKeeps
<1>2. CASE run
  BY <1>2, RunGood DEF Good
<1>3. CASE UNCHANGED vmVars
  BY <1>3 DEF vmVars, Inv, VmTypeOK, FramesNest
<1> QED BY <1>1, <1>2, <1>3 DEF VmNext

LEMMA Invariance ==
    VmSpec => []Inv
BY Initially, NextKeeps, PTL DEF VmSpec

\* Vm::run never exceeds kMaxStack and kMaxFrames, whatever the module.
THEOREM VmTypeCorrect ==
    VmSpec => []VmTypeOK
<1>1. Inv => VmTypeOK
  BY SMTT(30) DEF Inv
<1> QED BY <1>1, Invariance, PTL

LEMMA ValidFrames ==
    Inv => FetchesAreValid
<1> SUFFICES ASSUME Inv, status = "running",
                    NEW i \in DOMAIN frames, NEW f, f = program.functions[frames[i].function + 1]
             PROVE  /\ frames[i].function < Len(program.functions)
                    /\ Len(frames[i].locals) = f.params + f.locals
                    /\ \/ frames[i].ip = Len(f.code)
                       \/ /\ frames[i].ip \in Boundaries(f)
                          /\ OperandsValid(program, f, f.code[frames[i].ip + 1])
  BY DEF FetchesAreValid, Inv
<1>1. FrameValid(program, frames[i]) /\ load_program(program)
  BY DEF Inv
<1>2. frames[i] \in Frame /\ program.functions \in Seq(Function)
  BY DEF Inv, VmTypeOK, Program
<1>3. frames[i].function \in Nat /\ frames[i].function < Len(program.functions)
  BY <1>1, <1>2 DEF FrameValid, Frame
<1>4. frames[i].function + 1 \in DOMAIN program.functions
  BY <1>2, <1>3, SMTT(30)
<1>5. \A o \in Boundaries(f) : OperandsValid(program, f, f.code[o + 1])
  BY <1>1, <1>4, Zenon DEF load_program
<1> QED BY <1>1, <1>3, <1>5, Zenon DEF FrameValid

\* What load_program accepts, Vm::run executes within the code, the constants,
\* the locals and the functions of the module.
THEOREM FetchesAreValidHolds ==
    VmSpec => []FetchesAreValid
BY Invariance, ValidFrames, PTL

\* No instruction of a function consumes or changes an operand of its callers.
THEOREM CallerOperandsKeptHolds ==
    VmSpec => CallerOperandsKept
<1>1. Inv /\ [VmNext]_vmVars => [status = "running" => Kept]_vmVars
  BY RunGood DEF VmNext, Load_program, Good
<1>2. [status = "running" => Kept]_vmVars
      => [status = "running" =>
             /\ Len(stack') >= frame.base
             /\ \A i \in 1..frame.base : stack'[i] = stack[i]]_vmVars
  BY DEF Kept
<1> QED BY <1>1, <1>2, Invariance, PTL DEF VmSpec, CallerOperandsKept

-----------------------------------------------------------------------------
(* A stale socket *)

\* What a process that is alone knows of the path, at each step of either
\* program.
Knows(p) ==
    /\ pc[p] \in {"probe", "dial", "unlink", "remove"} => file \notin {NoFile, Foreign}
    /\ pc[p] \in {"bind", "unlinked"} => file = NoFile
    /\ pc[p] \in {"listen", "undo", "chmod", "serving", "closed"} => file = p
    /\ pc[p] \in {"chmod", "serving"} => p \in listening
    /\ p \in listening => pc[p] \in {"chmod", "serving", "unlinked"}
    /\ pc[p] = "refused" => file = Foreign

Alone ==
    /\ SocketTypeOK /\ DOMAIN pc = Procs
    /\ ~overlap => /\ \A p \in Procs : Knows(p)
                   /\ \A p, q \in Runtime!Alive : p = q

\* A step of p, whichever program it runs.
Moves(p) ==
    /\ SocketTypeOK' /\ \E to : pc' = [pc EXCEPT ![p] = to]
    /\ pc[p] = "start" \/ p \in Runtime!Alive
    /\ \A q \in Procs \ {p} : q \in listening' => q \in listening
    /\ Knows(p) /\ listening \subseteq {p} => Knows(p)' /\ (file' = file \/ file # Foreign)

\* The calls of Runtime::ipc_listen and of the destructor.
LEMMA RuntimeMoves ==
    ASSUME NEW p \in Procs, SocketTypeOK, DOMAIN pc = Procs, Runtime!Step(p)
    PROVE  Moves(p)
<1> USE UnixSocketAssumption DEF Moves, Knows, SocketTypeOK, Runtime!Alive
<1>1. CASE Runtime!Start(p)
  BY <1>1, Zenon DEF Runtime!Start, Runtime!Goes, Runtime!socketVars
<1>2. CASE Runtime!Lstat(p)
  BY <1>2, Zenon DEF Runtime!Lstat, Runtime!Goes, Runtime!socketVars
<1>3. CASE Runtime!Probe(p)
  BY <1>3, Zenon DEF Runtime!Probe, Runtime!Goes, Runtime!Refuses, Runtime!socketVars
<1>4. CASE Runtime!UnlinkStale(p)
  BY <1>4 DEF Runtime!UnlinkStale, Runtime!Goes, Runtime!Unlink, Runtime!socketVars
<1>5. CASE Runtime!BindPath(p)
  BY <1>5 DEF Runtime!BindPath, Runtime!Goes, Runtime!Bind, Runtime!socketVars
<1>6. CASE Runtime!CallFails(p)
  BY <1>6, Zenon DEF Runtime!CallFails, Runtime!socketVars
<1>7. CASE Runtime!ListenPath(p)
  BY <1>7, Zenon DEF Runtime!ListenPath, Runtime!Goes, Runtime!ListenOn
<1>8. CASE Runtime!ListenFails(p)
  BY <1>8, Zenon DEF Runtime!ListenFails, Runtime!Goes, Runtime!CloseSocket
<1>9. CASE Runtime!ListenUndone(p)
  BY <1>9, Zenon DEF Runtime!ListenUndone, Runtime!Goes, Runtime!Unlink
<1>10. CASE Runtime!CloseListen(p)
  BY <1>10, Zenon DEF Runtime!CloseListen, Runtime!Goes, Runtime!CloseSocket
<1>11. CASE Runtime!UnlinkPath(p)
  BY <1>11, Zenon DEF Runtime!UnlinkPath, Runtime!Goes, Runtime!Unlink
<1>12. CASE Runtime!Die(p)
  BY <1>12, Zenon DEF Runtime!Die, Runtime!CloseSocket
<1> QED BY <1>1, <1>2, <1>3, <1>4, <1>5, <1>6, <1>7, <1>8, <1>9, <1>10, <1>11, <1>12, Zenon DEF Runtime!Step, Runtime!IpcListen

\* The calls of Listen, removeStale and Close of the detector.
LEMMA DetectorMoves ==
    ASSUME NEW p \in Procs, SocketTypeOK, DOMAIN pc = Procs, Detector!Step(p)
    PROVE  Moves(p)
<1> USE UnixSocketAssumption DEF Moves, Knows, SocketTypeOK, Runtime!Alive
<1>1. CASE Detector!Start(p)
  BY <1>1, Zenon DEF Detector!Start, Detector!Goes, Detector!socketVars
<1>2. CASE Detector!Lstat(p)
  BY <1>2, Zenon DEF Detector!Lstat, Detector!Goes, Detector!socketVars
<1>3. CASE Detector!Dial(p)
  BY <1>3, Zenon DEF Detector!Dial, Detector!Goes, Detector!Refuses, Detector!socketVars
<1>4. CASE Detector!Remove(p)
  BY <1>4 DEF Detector!Remove, Detector!Goes, Detector!Unlink, Detector!socketVars
<1>5. CASE Detector!BindPath(p)
  BY <1>5 DEF Detector!BindPath, Detector!Goes, Detector!Bind, Detector!socketVars
<1>6. CASE Detector!ListenPath(p)
  BY <1>6, Zenon DEF Detector!ListenPath, Detector!Goes, Detector!ListenOn
<1>7. CASE Detector!Chmod(p)
  BY <1>7, Zenon DEF Detector!Chmod, Detector!Goes, Detector!socketVars
<1>8. CASE Detector!CloseUnlinks(p)
  BY <1>8, Zenon DEF Detector!CloseUnlinks, Detector!Unlink
<1>9. CASE Detector!CloseCloses(p)
  BY <1>9, Zenon DEF Detector!CloseCloses, Detector!Goes, Detector!CloseSocket
<1>10. CASE Detector!Die(p)
  BY <1>10, Zenon DEF Detector!Die, Detector!Alive, Detector!CloseSocket
<1> QED BY <1>1, <1>2, <1>3, <1>4, <1>5, <1>6, <1>7, <1>8, <1>9, <1>10, Zenon DEF Detector!Step, Detector!Listen

\* Of processes that do not overlap, each step of either program keeps what
\* the one that runs knows of the path.
LEMMA AloneStep ==
    ASSUME Alone, [Next]_vars
    PROVE  Alone'
<1>1. CASE UNCHANGED vars
  BY <1>1, Zenon DEF vars, socketVars, Alone, SocketTypeOK, Knows, Runtime!Alive
<1>2. ASSUME NEW p \in Procs, MayTake(p), Moves(p), overlap' = overlap
      PROVE  Alone'
  <2> USE <1>2
  <2>1. PICK to : pc' = [pc EXCEPT ![p] = to]
    BY Zenon DEF Moves
  <2>2. SocketTypeOK' /\ DOMAIN pc' = Procs
    BY <2>1, Zenon DEF Alone, Moves
  <2>3. CASE overlap
    BY <2>2, <2>3, Zenon DEF Alone
  <2>4. CASE ~overlap
    <3>1. /\ \A q \in Procs : Knows(q)
          /\ \A q, r \in Runtime!Alive : q = r
      BY <2>4, Zenon DEF Alone
    <3>2. \A q \in Procs \ {p} : q \notin Runtime!Alive
      BY <2>4, <3>1, Zenon DEF Moves, MayTake
    <3>3. ASSUME NEW q \in Procs \ {p}
          PROVE  pc[q] \in {"start", "refused", "end"} /\ pc'[q] = pc[q] /\ q \notin listening
      BY <2>1, <3>1, <3>2, <3>3, Zenon DEF Alone, Runtime!Alive, Knows
    <3>4. listening \subseteq {p}
      BY <3>3, Zenon DEF Alone, SocketTypeOK
    <3>5. Knows(p)' /\ (file' = file \/ file # Foreign)
      BY <3>1, <3>4, ZenonT(40) DEF Moves
    <3>6. ASSUME NEW q \in Procs \ {p} PROVE Knows(q)' /\ q \notin (Runtime!Alive)'
      <4>1. q \notin listening'
        BY <3>3, <3>6, Zenon DEF Moves
      <4> QED BY <3>1, <3>3, <3>5, <3>6, <4>1, Zenon DEF Knows, Runtime!Alive
    <3>7. \A q \in (Runtime!Alive)' : q = p
      BY <3>6, Zenon DEF Runtime!Alive
    <3>8. \A q \in Procs : Knows(q)'
      BY <3>5, <3>6, Zenon
    <3> QED BY <2>2, <3>7, <3>8, Zenon DEF Alone
  <2> QED BY <2>3, <2>4, Zenon
<1>3. CASE Next
  <2>1. PICK p \in Procs : MayTake(p) /\ (Runtime!Step(p) \/ Detector!Step(p))
    BY <1>3, Zenon DEF Next
  <2>2. Moves(p)
    BY <2>1, RuntimeMoves, DetectorMoves, Zenon DEF Alone
  <2> QED BY <1>2, <1>3, <2>1, <2>2, Zenon DEF Next
<1> QED BY <1>1, <1>3, Zenon

\* Once Runtime::ipc_listen or Listen of the detector has returned, the path
\* leads to the process, and they fail only for a file that is not a socket,
\* for any number of processes that run one after the other and that are killed
\* between any two calls.
THEOREM LoneGetsSocketHolds == Spec => []LoneGetsSocket
<1>1. Init => Alone
  BY Zenon DEF Init, Runtime!Init, Runtime!SocketInit, Alone, SocketTypeOK, Knows, Runtime!Alive
<1>2. Alone => LoneGetsSocket
  BY DEF Alone, Knows, LoneGetsSocket
<1> QED BY <1>1, <1>2, AloneStep, PTL DEF Spec

====
