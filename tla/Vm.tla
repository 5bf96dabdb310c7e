--------------------------------- MODULE Vm ---------------------------------
(***************************************************************************)
(* The virtual machine, vm/src/vm.cpp: load_program checks a bytecode file *)
(* and Vm::run executes it, one instruction per step.                      *)
(*                                                                         *)
(* The code of a function maps the offsets at which its instructions begin *)
(* to the instructions, so offsets are those of the bytes.  A Float is     *)
(* only its kind: what Float arithmetic yields is left open.  Errors are   *)
(* told apart by their cause, not by their wording.                        *)
(***************************************************************************)
EXTENDS Integers, Sequences

CONSTANTS
    MinInt, MaxInt,   \* the range of Int
    kMaxFrames,
    kMaxStack,
    Received          \* the texts that the Runtime may hand to a program

ASSUME VmAssumption ==
    /\ MinInt \in Int /\ MaxInt \in Int /\ MinInt < 0 /\ MaxInt > 0
    /\ kMaxFrames \in Nat \ {0} /\ kMaxStack \in Nat
    /\ Received \subseteq STRING

Value == [kind : {"Int"}, int : MinInt..MaxInt]
            \cup [kind : {"String"}, text : STRING]
            \cup [kind : {"Float"}]

IntValue(n) == [kind |-> "Int", int |-> n]
StringValue(s) == [kind |-> "String", text |-> s]
FloatValue == [kind |-> "Float"]

FloatOps == {"FADD", "FSUB", "FMUL", "FDIV", "FNEG", "FCMP_EQ", "FCMP_LT"}
PlainOps == {"ADD", "SUB", "MUL", "DIV", "CMP_EQ", "CMP_LT", "NOT", "RET", "POP"}

\* A byte of code: the first byte of an instruction stands for all of it, the
\* others are its "operand" bytes.
Byte == [op : STRING, arg : Nat, argc : Nat]
OperandByte == [op |-> "operand", arg |-> 0, argc |-> 0]

Width(op) ==
    CASE op \in {"PUSH_CONST"} -> 3
      [] op \in {"LOAD", "STORE"} -> 2
      [] op \in {"JMP", "JMP_IF_FALSE"} -> 5
      [] op \in {"CALL", "CALL_RUNTIME"} -> 4
      [] OTHER -> 1

Function == [params : Nat, locals : Nat, code : Seq(Byte)]
Program == [constants : Seq(Value), functions : Seq(Function), entry : Nat, version : Nat]
Frame == [function : Nat, ip : Nat, base : Nat, locals : Seq(Value), initialized : SUBSET Nat]

\* The offsets at which instructions begin.
Boundaries(f) == {o \in 0..(Len(f.code) - 1) : f.code[o + 1].op # "operand"}

VARIABLES
    program,
    status,       \* "loading", "running", "returned", or why it stopped
    stack,
    frames,
    result,       \* what the entry function returned
    output        \* what runtime.log wrote

vmVars == <<program, status, stack, frames, result, output>>

-----------------------------------------------------------------------------
(* The Runtime functions *)

RuntimeNames == {"runtime.log", "camera.detectMarkers", "window.create", "window.show",
                 "window.close", "window.quit", "runtime.ipc_listen", "runtime.ipc_receive",
                 "runtime.ipc_send"}

ArgCount(name) ==
    CASE name \in {"runtime.log", "runtime.ipc_send"} -> 1
      [] name = "window.create" -> 3
      [] OTHER -> 0

has_function(name, argc) == name \in RuntimeNames /\ ArgCount(name) = argc

\* The kinds and values that a handler insists on.
ArgumentsFit(name, args) ==
    CASE name \in {"runtime.log", "runtime.ipc_send"} -> args[1].kind = "String"
      [] name = "window.create" ->
            /\ args[1].kind = "String" /\ args[2].kind = "Int" /\ args[3].kind = "Int"
            /\ args[2].int > 0 /\ args[3].int > 0
      [] OTHER -> TRUE

\* What a call that its handler accepts may return.
Returns(name) ==
    CASE name \in {"camera.detectMarkers", "runtime.ipc_receive"} -> {StringValue(s) : s \in Received}
      [] name = "runtime.ipc_send" -> {IntValue(0), IntValue(-1)}
      [] OTHER -> {IntValue(0)}

\* Only runtime.log and ipc_send never fail on arguments that fit.
MayThrow(name) == name \notin {"runtime.log", "runtime.ipc_send"}

-----------------------------------------------------------------------------
(* load_program *)

\* A jump target is only tested against the length of the code.
OperandsValidShort(p, f, i) ==
    \/ i.op = "PUSH_CONST" /\ i.arg < Len(p.constants)
    \/ i.op \in {"LOAD", "STORE"} /\ i.arg < f.params + f.locals
    \/ i.op \in {"JMP", "JMP_IF_FALSE"} /\ i.arg < Len(f.code)
    \/ /\ i.op = "CALL" /\ i.arg < Len(p.functions)
       /\ i.argc = p.functions[i.arg + 1].params
    \/ /\ i.op = "CALL_RUNTIME" /\ i.arg < Len(p.constants)
       /\ p.constants[i.arg + 1].kind = "String"
       /\ has_function(p.constants[i.arg + 1].text, i.argc)
    \/ i.op \in FloatOps /\ p.version = 2
    \/ i.op \in PlainOps

OperandsValid(p, f, i) ==
    \/ i.op = "PUSH_CONST" /\ i.arg < Len(p.constants)
    \/ i.op \in {"LOAD", "STORE"} /\ i.arg < f.params + f.locals
    \/ i.op \in {"JMP", "JMP_IF_FALSE"} /\ i.arg \in Boundaries(f)
    \/ /\ i.op = "CALL" /\ i.arg < Len(p.functions)
       /\ i.argc = p.functions[i.arg + 1].params
    \/ /\ i.op = "CALL_RUNTIME" /\ i.arg < Len(p.constants)
       /\ p.constants[i.arg + 1].kind = "String"
       /\ has_function(p.constants[i.arg + 1].text, i.argc)
    \/ i.op \in FloatOps /\ p.version = 2
    \/ i.op \in PlainOps

\* The instructions follow one another from the first byte to the last one.
Decodes(f) ==
    /\ Len(f.code) > 0 => 0 \in Boundaries(f)
    /\ \A o \in Boundaries(f) : o + Width(f.code[o + 1].op) \in Boundaries(f) \cup {Len(f.code)}

load_program(p) ==
    /\ p.version \in {1, 2}
    /\ \A i \in DOMAIN p.constants : p.constants[i].kind = "Float" => p.version = 2
    /\ p.entry < Len(p.functions)
    /\ p.functions[p.entry + 1].params = 0
    /\ \A k \in DOMAIN p.functions :
          LET f == p.functions[k]
          IN  Decodes(f) /\ \A o \in Boundaries(f) : OperandsValid(p, f, f.code[o + 1])

-----------------------------------------------------------------------------
(* Vm::run *)

frame == frames[Len(frames)]
function == program.functions[frame.function + 1]
instruction == function.code[frame.ip + 1]

\* pop looks only at the stack, not at the frame's base.
DepthOfStack == Len(stack)

Depth == Len(stack) - frame.base
Operand(n) == stack[Len(stack) + 1 - n]   \* the n-th from the top
Under(n) == SubSeq(stack, 1, Len(stack) - n)

make_frame(index, base, args) ==
    LET f == program.functions[index + 1]
    IN  [function |-> index, ip |-> 0, base |-> base,
         locals |-> [i \in 1..(f.params + f.locals) |-> IF i =< Len(args) THEN args[i] ELSE IntValue(0)],
         initialized |-> 0..(Len(args) - 1)]

Throw(cause) ==
    status' = cause /\ UNCHANGED <<program, stack, frames, result, output>>

Advanced(ip) == [frames EXCEPT ![Len(frames)] = [frame EXCEPT !.ip = ip]]
MovesTo(ip) == frames' = Advanced(ip)
NextIp == frame.ip + Width(instruction.op)

\* The instruction consumes n operands and pushes v; push cannot fail when
\* n > 0, because the stack never exceeds kMaxStack.
Replace(n, v) ==
    /\ stack' = Append(Under(n), v)
    /\ MovesTo(NextIp)
    /\ UNCHANGED <<program, status, result, output>>

Push(v) ==
    \/ Len(stack) >= kMaxStack /\ Throw("limit")
    \/ Len(stack) < kMaxStack /\ Replace(0, v)

\* n operands of this frame, all of the given kind.
Has(n, kind) == Depth >= n /\ \A i \in 1..n : Operand(i).kind = kind
HasBool == Has(1, "Int") /\ Operand(1).int \in {0, 1}
Fetches(ops) == status = "running" /\ frame.ip < Len(function.code) /\ instruction.op \in ops

Load_program ==
    /\ status = "loading"
    /\ \/ /\ ~load_program(program)
          /\ Throw("rejected")
       \/ /\ load_program(program)
          /\ status' = "running"
          /\ frames' = <<make_frame(program.entry, 0, <<>>)>>
          /\ UNCHANGED <<program, stack, result, output>>

EndsWithoutRet ==
    /\ status = "running" /\ frame.ip >= Len(function.code)
    /\ Throw("fetch")

PushConst == Fetches({"PUSH_CONST"}) /\ Push(program.constants[instruction.arg + 1])

Load ==
    /\ Fetches({"LOAD"})
    /\ IF instruction.arg \in frame.initialized
       THEN Push(frame.locals[instruction.arg + 1])
       ELSE Throw("uninitialized")

Stored(index, v) ==
    [frame EXCEPT !.ip = NextIp, !.locals = [@ EXCEPT ![index + 1] = v], !.initialized = @ \cup {index}]

Store ==
    /\ Fetches({"STORE"})
    /\ \/ Depth < 1 /\ Throw("operand")
       \/ /\ Depth >= 1
          /\ stack' = Under(1)
          /\ frames' = [frames EXCEPT ![Len(frames)] = Stored(instruction.arg, Operand(1))]
          /\ UNCHANGED <<program, status, result, output>>

\* C++ division: towards zero.
Quotient(a, b) ==
    LET abs(n) == IF n < 0 THEN -n ELSE n
    IN  IF (a < 0) = (b < 0) THEN abs(a) \div abs(b) ELSE -(abs(a) \div abs(b))

\* The mathematical result, if there is one.
Results(op, lhs, rhs) ==
    CASE op = "ADD" -> {lhs + rhs}
      [] op = "SUB" -> {lhs - rhs}
      [] op = "MUL" -> {lhs * rhs}
      [] op = "DIV" -> IF rhs = 0 THEN {} ELSE {Quotient(lhs, rhs)}
      [] OTHER -> {IF lhs < rhs THEN 1 ELSE 0}

Arithmetic ==
    /\ Fetches({"ADD", "SUB", "MUL", "DIV", "CMP_LT"})
    /\ \/ ~Has(2, "Int") /\ Throw("operand")
       \/ /\ Has(2, "Int")
          /\ LET fits == Results(instruction.op, Operand(2).int, Operand(1).int) \cap MinInt..MaxInt
             IN  \/ fits = {} /\ Throw("arithmetic")
                 \/ \E n \in fits : Replace(2, IntValue(n))

FloatArithmetic ==
    /\ Fetches({"FADD", "FSUB", "FMUL", "FDIV"})
    /\ \/ ~Has(2, "Float") /\ Throw("operand")
       \/ Has(2, "Float") /\ Throw("arithmetic")
       \/ Has(2, "Float") /\ Replace(2, FloatValue)

FloatCompare ==
    /\ Fetches({"FCMP_EQ", "FCMP_LT"})
    /\ \/ ~Has(2, "Float") /\ Throw("operand")
       \/ Has(2, "Float") /\ \E n \in {0, 1} : Replace(2, IntValue(n))

FNeg ==
    /\ Fetches({"FNEG"})
    /\ \/ ~Has(1, "Float") /\ Throw("operand")
       \/ Has(1, "Float") /\ Replace(1, FloatValue)

CmpEq ==
    /\ Fetches({"CMP_EQ"})
    /\ \/ ~Has(2, "Int") /\ ~Has(2, "String") /\ Throw("operand")
       \/ /\ Has(2, "Int") \/ Has(2, "String")
          /\ Replace(2, IntValue(IF Operand(2) = Operand(1) THEN 1 ELSE 0))

Not ==
    /\ Fetches({"NOT"})
    /\ \/ ~HasBool /\ Throw("operand")
       \/ HasBool /\ Replace(1, IntValue(1 - Operand(1).int))

Jmp ==
    /\ Fetches({"JMP"})
    /\ MovesTo(instruction.arg)
    /\ UNCHANGED <<program, status, stack, result, output>>

JmpIfFalse ==
    /\ Fetches({"JMP_IF_FALSE"})
    /\ \/ ~HasBool /\ Throw("operand")
       \/ /\ HasBool
          /\ stack' = Under(1)
          /\ MovesTo(IF Operand(1).int = 0 THEN instruction.arg ELSE NextIp)
          /\ UNCHANGED <<program, status, result, output>>

arguments == SubSeq(stack, Len(stack) - instruction.argc + 1, Len(stack))

Call ==
    /\ Fetches({"CALL"})
    /\ \/ instruction.argc > Depth /\ Throw("operand")
       \/ instruction.argc =< Depth /\ Len(frames) >= kMaxFrames /\ Throw("limit")
       \/ /\ instruction.argc =< Depth /\ Len(frames) < kMaxFrames
          /\ stack' = Under(instruction.argc)
          /\ frames' = Append(Advanced(NextIp),
                              make_frame(instruction.arg, Len(stack) - instruction.argc, arguments))
          /\ UNCHANGED <<program, status, result, output>>

\* push(Value::from_runtime(runtime_.call(...))); runtime.log writes before the
\* push can fail.
RuntimeReturns(name, n, v) ==
    /\ output' = IF name = "runtime.log" THEN Append(output, arguments[1].text) ELSE output
    /\ \/ Len(stack) - n >= kMaxStack /\ status' = "limit" /\ UNCHANGED <<program, stack, frames, result>>
       \/ /\ Len(stack) - n < kMaxStack
          /\ stack' = Append(Under(n), v)
          /\ MovesTo(NextIp)
          /\ UNCHANGED <<program, status, result>>

CallRuntime ==
    LET name == program.constants[instruction.arg + 1].text
        n == instruction.argc
    IN  /\ Fetches({"CALL_RUNTIME"})
        /\ \/ n > Depth /\ Throw("operand")
           \/ /\ n =< Depth
              /\ \E i \in 1..n : arguments[i].kind = "Float"
              /\ Throw("operand")
           \/ /\ n =< Depth
              /\ \A i \in 1..n : arguments[i].kind # "Float"
              /\ MayThrow(name) \/ ~ArgumentsFit(name, arguments)
              /\ Throw("runtime")
           \/ /\ n =< Depth
              /\ \A i \in 1..n : arguments[i].kind # "Float"
              /\ ArgumentsFit(name, arguments)
              /\ \E v \in Returns(name) : RuntimeReturns(name, n, v)

Pop ==
    /\ Fetches({"POP"})
    /\ \/ Depth < 1 /\ Throw("operand")
       \/ /\ Depth >= 1
          /\ stack' = Under(1)
          /\ MovesTo(NextIp)
          /\ UNCHANGED <<program, status, result, output>>

Ret ==
    /\ Fetches({"RET"})
    /\ \/ Depth < 1 /\ Throw("operand")
       \/ /\ Depth >= 1 /\ Len(frames) = 1
          /\ status' = "returned"
          /\ result' = Operand(1)
          /\ stack' = SubSeq(stack, 1, frame.base)
          /\ frames' = <<>>
          /\ UNCHANGED <<program, output>>
       \/ /\ Depth >= 1 /\ Len(frames) > 1
          /\ stack' = Append(SubSeq(stack, 1, frame.base), Operand(1))
          /\ frames' = SubSeq(frames, 1, Len(frames) - 1)
          /\ UNCHANGED <<program, status, result, output>>

run ==
    \/ EndsWithoutRet \/ PushConst \/ Load \/ Store \/ Arithmetic \/ FloatArithmetic
    \/ FloatCompare \/ FNeg \/ CmpEq \/ Not \/ Jmp \/ JmpIfFalse \/ Call \/ CallRuntime
    \/ Pop \/ Ret

VmNext == Load_program \/ run

\* The machine with a module in its file.
VmInit ==
    /\ program \in Program
    /\ status = "loading"
    /\ stack = <<>> /\ frames = <<>> /\ output = <<>>
    /\ result = IntValue(0)

VmSpec == VmInit /\ [][VmNext]_vmVars

-----------------------------------------------------------------------------
Statuses == {"loading", "rejected", "running", "returned", "operand", "uninitialized",
             "arithmetic", "limit", "fetch", "runtime"}

VmTypeOK ==
    /\ program \in Program
    /\ status \in Statuses
    /\ stack \in Seq(Value) /\ Len(stack) =< kMaxStack
    /\ frames \in Seq(Frame) /\ Len(frames) =< kMaxFrames
    /\ result \in Value
    /\ output \in Seq(STRING)

\* run trusts the file after load_program: every frame is at the beginning of
\* an instruction or at the end of its code, has a local for every slot, and the
\* instruction's operands name a constant, a slot, a function with as many
\* parameters, or a target.
FetchesAreValid ==
    status = "running" =>
        /\ frames # <<>>
        /\ \A i \in DOMAIN frames :
              LET f == program.functions[frames[i].function + 1]
              IN  /\ frames[i].function < Len(program.functions)
                  /\ Len(frames[i].locals) = f.params + f.locals
                  /\ \/ frames[i].ip = Len(f.code)
                     \/ /\ frames[i].ip \in Boundaries(f)
                        /\ OperandsValid(program, f, f.code[frames[i].ip + 1])

\* The operands of the frames lie above one another in the one stack, so that
\* pop's test against the base protects every caller.
FramesNest ==
    /\ \A i \in DOMAIN frames : frames[i].base =< Len(stack)
    /\ \A i, j \in DOMAIN frames : i < j => frames[i].base =< frames[j].base

\* A function never consumes or changes an operand of its callers: what was
\* under its base stays until it has returned, and after that too.
CallerOperandsKept ==
    [][status = "running" =>
          /\ Len(stack') >= frame.base
          /\ \A i \in 1..frame.base : stack'[i] = stack[i]]_vmVars

=============================================================================
