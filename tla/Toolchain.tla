----------------------------- MODULE Toolchain -----------------------------
(***************************************************************************)
(* tacc and tacvm one after the other: a program is compiled (compile in   *)
(* Main.kt), and what the compiler writes is loaded and run (run_file).    *)
(* The machine is also given modules that no compiler wrote.               *)
(***************************************************************************)
EXTENDS Compiler

CONSTANTS
    MaxCalls, MaxLoops,   \* of Language
    MaxOutput             \* bound on the lines a program logs

Language == INSTANCE Language

VARIABLES
    source,       \* the program: the functions of its syntax tree, or <<>> for a
                  \* module from elsewhere
    stage         \* "source", "refused" or "module"

vars == <<vmVars, source, stage>>

\* tacc is given the program, or tacvm the module.
Given(functions) == source = functions /\ stage = "source" /\ program = NoModule /\ VmInit
GivenModule(module) == source = <<>> /\ stage = "module" /\ program = module /\ VmInit

Compile ==
    /\ stage = "source"
    /\ \E out \in {compile(source)} :
          \/ /\ ~out.ok
             /\ stage' = "refused"
             /\ UNCHANGED vmVars
          \/ /\ out.ok
             /\ stage' = "module"
             /\ program' = out.module
             /\ UNCHANGED <<status, stack, frames, result, output>>
    /\ UNCHANGED source

Execute ==
    /\ stage = "module" /\ Len(output) < MaxOutput
    /\ VmNext
    /\ UNCHANGED <<source, stage>>

Next == Compile \/ Execute

-----------------------------------------------------------------------------
Compiled == stage = "module" /\ source # <<>>

\* What the checker accepts does not go wrong: the machine meets no operand of
\* a wrong kind, no empty stack, no uninitialized local and no end of the code.
CheckedNeverFaults == Compiled => status \notin {"operand", "uninitialized", "fetch"}

Number(v) == IF v.kind = "Bool" THEN IntValue(IF v.bool THEN 1 ELSE 0) ELSE v

Agrees(m) ==
    \/ m.stop = "open"
    \/ m.stop = "arithmetic" /\ status = "arithmetic" /\ output = m.out
    \/ m.stop = "" /\ status = "returned" /\ output = m.out /\ result = Number(m.value)

\* A compiled program returns and logs what the language says, and stops for
\* its arithmetic exactly where the language has no result.
ComputesSource ==
    Compiled /\ status \in {"returned", "arithmetic"} => Agrees(Language!Meaning(source))

\* Between two statements a compiled function has nothing on the stack, so that
\* a loop may run for ever: a jump backwards always finds the frame's base.
LoopsKeepStack ==
    [][Compiled /\ status = "running" /\ Len(frames') = Len(frames)
          /\ frames'[Len(frames)].ip < frame.ip => Depth = 0]_vars

\* load_program accepts everything the compiler writes: no jump targets the end
\* of the code (CodeGen.kt and the compiler's README).
CompiledLoads == Compiled => status # "rejected"

=============================================================================
