------------------------------ MODULE Language ------------------------------
(***************************************************************************)
(* What programs of the .tc language mean (spec/language.md), as a         *)
(* reference for the compiler and the machine: names instead of slots,     *)
(* scopes instead of frames, no stack.  Evaluation goes from left to       *)
(* right.                                                                  *)
(*                                                                         *)
(* A run stops with "arithmetic" where the language has no result, and     *)
(* with "open" where this definition makes no claim: Float arithmetic,     *)
(* Runtime functions other than runtime.log, and too many steps or calls.  *)
(***************************************************************************)
EXTENDS Integers, Sequences, SequencesExt, TLC

CONSTANTS
    MinInt, MaxInt,
    MaxCalls,     \* calls inside one another that are evaluated
    MaxLoops      \* rounds of a loop that are evaluated

Bool(b) == [kind |-> "Bool", bool |-> b]
Number(n) == [kind |-> "Int", int |-> n]
Text(s) == [kind |-> "String", text |-> s]
Float == [kind |-> "Float"]

\* The state of an evaluation: scopes, inner ones last; what was logged; why it
\* stopped, "" if it goes on; the value of the last expression.
Fresh(out) == [scopes |-> <<>>, out |-> out, stop |-> "", value |-> Number(0)]
Stop(st, why) == [st EXCEPT !.stop = why]
Gives(st, v) == [st EXCEPT !.value = v]

ScopeOf(st, name) == CHOOSE i \in DOMAIN st.scopes :
    /\ name \in DOMAIN st.scopes[i]
    /\ \A j \in DOMAIN st.scopes : name \in DOMAIN st.scopes[j] => j =< i

Bind(st, i, name, v) == [st EXCEPT !.scopes[i] = name :> v @@ @]

Truncated(a, b) == CHOOSE q \in -(MaxInt - MinInt)..(MaxInt - MinInt) :
    LET r == a - b * q
        abs(n) == IF n < 0 THEN -n ELSE n
    IN  abs(r) < abs(b) /\ (r = 0 \/ (r < 0) = (a < 0))

Computes(st, n) == IF n \in MinInt..MaxInt THEN Gives(st, Number(n)) ELSE Stop(st, "arithmetic")

\* Operators on Int; equality also on Bool and String.
Apply(st, op, l, r) ==
    CASE "Float" \in {l.kind, r.kind} -> Stop(st, "open")
      [] op = "ADD" -> Computes(st, l.int + r.int)
      [] op = "SUB" -> Computes(st, l.int - r.int)
      [] op = "MUL" -> Computes(st, l.int * r.int)
      [] op = "DIV" -> IF r.int = 0 THEN Stop(st, "arithmetic") ELSE Computes(st, Truncated(l.int, r.int))
      [] op = "EQ" -> Gives(st, Bool(l = r))
      [] op = "NE" -> Gives(st, Bool(l # r))
      [] op = "LT" -> Gives(st, Bool(l.int < r.int))
      [] op = "LE" -> Gives(st, Bool(l.int =< r.int))
      [] op = "GT" -> Gives(st, Bool(l.int > r.int))
      [] op = "GE" -> Gives(st, Bool(l.int >= r.int))

RECURSIVE Eval(_, _, _, _), Exec(_, _, _, _), Loop(_, _, _, _, _)

\* The arguments' values, and the state after the last one.
EvalArgs(p, args, st, depth) ==
    FoldLeft(LAMBDA acc, e :
                 LET after == Eval(p, e, acc.st, depth)
                 IN  [st |-> after, values |-> Append(acc.values, after.value)],
             [st |-> st, values |-> <<>>], args)

ExecAll(p, stmts, st, depth) == FoldLeft(LAMBDA acc, s : Exec(p, s, acc, depth), st, stmts)

\* The caller goes on with what the body of its callee has returned.
Resumed(st, end) ==
    CASE end.stop = "return" -> [end EXCEPT !.scopes = st.scopes, !.stop = ""]
      [] end.stop = "" -> [end EXCEPT !.scopes = st.scopes, !.value = Number(0)]
      [] OTHER -> end

EvalFunction(p, name, values, st, depth) ==
    LET f == p[CHOOSE i \in DOMAIN p : p[i].name = name]
        slot(x) == CHOOSE i \in DOMAIN f.params : f.params[i].name = x
        scope == [x \in {f.params[i].name : i \in DOMAIN f.params} |-> values[slot(x)]]
    IN  IF depth >= MaxCalls THEN Stop(st, "open")
        ELSE Resumed(st, ExecAll(p, f.body.statements, [Fresh(st.out) EXCEPT !.scopes = <<scope>>], depth + 1))

EvalRuntime(name, values, st) ==
    IF name = "runtime.log" THEN Gives([st EXCEPT !.out = Append(@, values[1].text)], Number(0))
    ELSE Stop(st, "open")

EvalCall(p, e, args, depth) ==
    IF args.st.stop # "" THEN args.st
    ELSE IF e.runtime THEN EvalRuntime(e.name, args.values, args.st)
    ELSE EvalFunction(p, e.name, args.values, args.st, depth)

EvalUnary(op, o) ==
    IF o.stop # "" \/ o.value.kind = "Float" THEN o
    ELSE IF op = "NOT" THEN Gives(o, Bool(~o.value.bool))
    ELSE Computes(o, -o.value.int)

\* l and r: after the left operand and after the right one.
EvalBinary(op, l, r) == IF r.stop # "" THEN r ELSE Apply(r, op, l.value, r.value)
EvalRight(p, e, l, depth) == EvalBinary(e.op, l, Eval(p, e.right, l, depth))

Eval(p, e, st, depth) ==
    CASE st.stop # "" -> st
      [] e.node = "IntLit" -> Gives(st, Number(e.value))
      [] e.node = "BoolLit" -> Gives(st, Bool(e.value))
      [] e.node = "StringLit" -> Gives(st, Text(e.value))
      [] e.node = "FloatLit" -> Gives(st, Float)
      [] e.node = "VarRef" -> Gives(st, st.scopes[ScopeOf(st, e.name)][e.name])
      [] e.node = "Unary" -> EvalUnary(e.op, Eval(p, e.operand, st, depth))
      [] e.node = "Binary" -> EvalRight(p, e, Eval(p, e.left, st, depth), depth)
      [] e.node = "Call" -> EvalCall(p, e, EvalArgs(p, e.args, st, depth), depth)

\* After the expression of a statement.
Declares(v, name) == IF v.stop # "" THEN v ELSE Bind(v, Len(v.scopes), name, v.value)
Assigns(v, name) == IF v.stop # "" THEN v ELSE Bind(v, ScopeOf(v, name), name, v.value)
Ends(v) == IF v.stop # "" THEN v ELSE Stop(v, "return")

Branch(p, s, c, depth) ==
    IF c.stop # "" THEN c ELSE Exec(p, IF c.value.bool THEN s.thenBlock ELSE s.elseBranch, c, depth)

Exec(p, s, st, depth) ==
    CASE st.stop # "" \/ s.node = "none" -> st
      [] s.node = "VarDecl" -> Declares(Eval(p, s.initializer, st, depth), s.name)
      [] s.node = "Assign" -> Assigns(Eval(p, s.value, st, depth), s.name)
      [] s.node = "Block" ->
            [ExecAll(p, s.statements, [st EXCEPT !.scopes = Append(@, <<>>)], depth) EXCEPT !.scopes = Front(@)]
      [] s.node = "If" -> Branch(p, s, Eval(p, s.condition, st, depth), depth)
      [] s.node = "While" -> Loop(p, s, st, depth, MaxLoops)
      [] s.node = "Return" /\ s.value.node = "none" -> Ends(Gives(st, Number(0)))
      [] s.node = "Return" -> Ends(Eval(p, s.value, st, depth))
      [] s.node = "CallStmt" -> Eval(p, s.call, st, depth)

Round(p, s, c, depth, rounds) ==
    IF c.stop # "" \/ ~c.value.bool THEN c
    ELSE Loop(p, s, Exec(p, s.body, c, depth), depth, rounds - 1)

Loop(p, s, st, depth, rounds) ==
    CASE st.stop # "" -> st
      [] rounds = 0 -> Stop(st, "open")
      [] OTHER -> Round(p, s, Eval(p, s.condition, st, depth), depth, rounds)

\* The run of a program: how it stops ("" if main ends), its value, its log.
Meaning(p) == EvalFunction(p, "main", <<>>, Fresh(<<>>), 0)

=============================================================================
