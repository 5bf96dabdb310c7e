------------------------------ MODULE Compiler ------------------------------
(***************************************************************************)
(* The compiler from the syntax tree on: Checker.kt, CodeGen.kt and        *)
(* Bytecode.kt.  The tree is annotated in place there; here each check     *)
(* returns the annotated tree.                                             *)
(***************************************************************************)
EXTENDS Vm, Ast, SequencesExt, TLC

CONSTANTS
    MAX_U8,   \* the largest slot and operand of one byte, 255 in the code
    MAX_U16   \* the largest function and constant index, 0xFFFF in the code

ASSUME CompilerAssumption == MAX_U8 \in Nat /\ MAX_U16 \in Nat

-----------------------------------------------------------------------------
(* Checker *)

\* The type of an expression without a value is "none"; "error" is a
\* SemanticError anywhere in it.
Numeric == {"Int", "Float"}

RuntimeSignature(name) ==
    CASE name = "runtime.log" -> [params |-> <<"String">>, returnType |-> "none"]
      [] name = "runtime.ipc_listen" -> [params |-> <<>>, returnType |-> "Int"]
      [] name = "runtime.ipc_receive" -> [params |-> <<>>, returnType |-> "String"]
      [] name = "runtime.ipc_send" -> [params |-> <<"String">>, returnType |-> "Int"]
      [] OTHER -> [params |-> <<>>, returnType |-> "error"]

\* env: the functions, the scopes (sets of variables, inner ones last), the
\* next free slot, the function being checked, and whether there was an error.
lookup(env, name) ==
    LET at == {i \in DOMAIN env.scopes : \E v \in env.scopes[i] : v.name = name}
    IN  IF at = {} THEN {}
        ELSE {v \in env.scopes[CHOOSE i \in at : \A j \in at : j =< i] : v.name = name}

declare(env, name, type, kind) ==
    LET top == Len(env.scopes)
        variable == [name |-> name, type |-> type, kind |-> kind, slot |-> env.nextSlot]
    IN  [env EXCEPT !.scopes[top] = @ \cup {variable},
                    !.nextSlot = @ + 1,
                    !.ok = /\ @
                           /\ \A v \in env.scopes[top] : v.name # name
                           /\ env.nextSlot =< MAX_U8
                           /\ kind = "PARAM" \/ env.nextSlot - Len(env.current.params) < MAX_U8]

\* Any two operands of the same type will do.
BinaryTypeAny(op, left, right) ==
    CASE left # right \/ left \in {"none", "error"} -> "error"
      [] op \in {"ADD", "SUB", "MUL", "DIV"} -> left
      [] OTHER -> "Bool"

BinaryType(op, left, right) ==
    CASE left # right \/ left \in {"none", "error"} -> "error"
      [] op \in {"EQ", "NE"} -> "Bool"
      [] left \notin Numeric -> "error"
      [] op \in {"ADD", "SUB", "MUL", "DIV"} -> left
      [] OTHER -> "Bool"

UnaryType(op, operand) ==
    CASE op = "NEG" /\ operand \in Numeric -> operand
      [] op = "NOT" /\ operand = "Bool" -> "Bool"
      [] OTHER -> "error"

FunctionNamed(env, name) == {i \in DOMAIN env.functions : env.functions[i].name = name}

RECURSIVE checkExpr(_, _)

checkCall(call, env) ==
    LET args == [i \in DOMAIN call.args |-> checkExpr(call.args[i], env)]
        found == FunctionNamed(env, call.name)
        index == CHOOSE i \in found : TRUE
        f == env.functions[index]
        signature == CASE call.runtime -> RuntimeSignature(call.name)
                       [] found = {} -> [params |-> <<>>, returnType |-> "error"]
                       [] OTHER -> [params |-> [i \in DOMAIN f.params |-> f.params[i].type],
                                    returnType |-> f.returnType]
        fits == [i \in DOMAIN args |-> args[i].type] = signature.params
    IN  [call EXCEPT !.args = args,
                     !.functionIndex = IF call.runtime \/ found = {} THEN 0 ELSE index - 1,
                     !.type = IF fits THEN signature.returnType ELSE "error"]

checkExpr(e, env) ==
    CASE e.node = "IntLit" -> [e EXCEPT !.type = "Int"]
      [] e.node = "FloatLit" -> [e EXCEPT !.type = "Float"]
      [] e.node = "BoolLit" -> [e EXCEPT !.type = "Bool"]
      [] e.node = "StringLit" -> [e EXCEPT !.type = "String"]
      [] e.node = "VarRef" ->
            IF lookup(env, e.name) = {} THEN [e EXCEPT !.type = "error"]
            ELSE LET v == CHOOSE v \in lookup(env, e.name) : TRUE
                 IN  [e EXCEPT !.slot = v.slot, !.type = v.type]
      [] e.node = "Unary" ->
            LET operand == checkExpr(e.operand, env)
            IN  [e EXCEPT !.operand = operand, !.type = UnaryType(e.op, operand.type)]
      [] e.node = "Binary" ->
            LET left == checkExpr(e.left, env)
                right == checkExpr(e.right, env)
            IN  [e EXCEPT !.left = left, !.right = right,
                          !.type = BinaryType(e.op, left.type, right.type)]
      [] e.node = "Call" -> checkCall(e, env)

\* The environment after a statement that was correct if ok.
Checked(stmt, env, ok) == [stmt |-> stmt, env |-> [env EXCEPT !.ok = @ /\ ok]]

HasValue(e) == e.type \notin {"none", "error"}

RECURSIVE checkStmt(_, _)

checkStatements(stmts, env) ==
    FoldLeft(LAMBDA acc, s :
                 LET c == checkStmt(s, acc.env)
                 IN  [stmts |-> Append(acc.stmts, c.stmt), env |-> c.env],
             [stmts |-> <<>>, env |-> env], stmts)

checkBlock(block, env) ==
    LET inner == checkStatements(block.statements, [env EXCEPT !.scopes = Append(@, {})])
    IN  Checked([block EXCEPT !.statements = inner.stmts],
                [inner.env EXCEPT !.scopes = Front(@)], TRUE)

checkReturn(s, env) ==
    LET value == checkExpr(s.value, env)
    IN  IF s.value.node = "none" THEN Checked(s, env, env.current.returnType = "none")
        ELSE Checked([s EXCEPT !.value = value], env,
                     HasValue(value) /\ value.type = env.current.returnType)

checkStmt(s, env) ==
    CASE s.node = "Block" -> checkBlock(s, env)
      [] s.node = "VarDecl" ->
            LET e == checkExpr(s.initializer, env)
            IN  Checked([s EXCEPT !.initializer = e, !.slot = env.nextSlot],
                        declare(env, s.name, e.type, IF s.isConst THEN "CONST" ELSE "LET"),
                        HasValue(e) /\ s.declaredType \in {"none", e.type})
      [] s.node = "Assign" ->
            LET found == lookup(env, s.name)
                v == CHOOSE v \in found : TRUE
                e == checkExpr(s.value, env)
            IN  IF found = {} THEN Checked(s, env, FALSE)
                ELSE Checked([s EXCEPT !.value = e, !.slot = v.slot], env,
                             v.kind = "LET" /\ HasValue(e) /\ e.type = v.type)
      [] s.node = "If" ->
            LET c == checkExpr(s.condition, env)
                then == checkBlock(s.thenBlock, env)
                else == checkStmt(s.elseBranch, then.env)
            IN  Checked([s EXCEPT !.condition = c, !.thenBlock = then.stmt, !.elseBranch = else.stmt],
                        else.env, c.type = "Bool")
      [] s.node = "While" ->
            LET c == checkExpr(s.condition, env)
                body == checkBlock(s.body, env)
            IN  Checked([s EXCEPT !.condition = c, !.body = body.stmt], body.env, c.type = "Bool")
      [] s.node = "Return" -> checkReturn(s, env)
      [] s.node = "CallStmt" ->
            LET c == checkCall(s.call, env)
            IN  Checked([s EXCEPT !.call = c], env, c.type # "error")
      [] s.node = "none" -> Checked(s, env, TRUE)

\* f with what the check of its body has found.
Annotated(f, body) ==
    [f |-> [f EXCEPT !.body.statements = body.stmts, !.localCount = body.env.nextSlot - Len(f.params)],
     ok |-> body.env.ok /\ (f.returnType # "none" => alwaysReturns(f.body))]

checkFunction(f, functions) ==
    LET start == [functions |-> functions, scopes |-> <<{}>>, nextSlot |-> 0, current |-> f,
                  ok |-> Len(f.params) =< MAX_U8]
        env == FoldLeft(LAMBDA acc, x : declare(acc, x.name, x.type, "PARAM"), start, f.params)
    IN  Annotated(f, checkStatements(f.body.statements, env))

\* The checked functions, in the order of the source.
check(functions) == [i \in DOMAIN functions |-> checkFunction(functions[i], functions)]

NoErrors(functions, checked) ==
    /\ \A i, j \in DOMAIN functions : i # j => functions[i].name # functions[j].name
    /\ \E i \in DOMAIN functions : functions[i].name = "main" /\ functions[i].params = <<>>
    /\ \A i \in DOMAIN functions : checked[i].ok

-----------------------------------------------------------------------------
(* CodeGen.  g is the generator's state: the constant pool, the code of the *)
(* current function and its temporaries.                                    *)

\* pool.intConstant and its likes: one entry for each value.
Pooled(pool, v) == IF \E i \in DOMAIN pool : pool[i] = v THEN pool ELSE Append(pool, v)
PoolIndex(pool, v) == (CHOOSE i \in DOMAIN pool : pool[i] = v) - 1

Emit(g, op, arg, argc) ==
    [g EXCEPT !.code = @ \o <<[op |-> op, arg |-> arg, argc |-> argc]>>
                         \o [i \in 1..(Width(op) - 1) |-> OperandByte]]
op1(g, op) == Emit(g, op, 0, 0)

\* Operands are cut to their width.
U8(n) == n % (MAX_U8 + 1)
U16(n) == n % (MAX_U16 + 1)

\* The pool takes constants that no operand can name.
constantUnchecked(g, v) == [g EXCEPT !.pool = Pooled(@, v)]

\* The pool has the constant v, unless there are too many (checkPoolSize).
constant(g, v) ==
    LET pool == Pooled(g.pool, v)
    IN  [g EXCEPT !.pool = pool, !.ok = @ /\ PoolIndex(pool, v) =< MAX_U16]

pushConst(g, v) ==
    LET pooled == constant(g, v) IN Emit(pooled, "PUSH_CONST", U16(PoolIndex(pooled.pool, v)), 0)
offset(g) == Len(g.code)
patch(g, at) == [g EXCEPT !.code[at + 1].arg = offset(g)]
emitReturnZero(g) == op1(pushConst(g, IntValue(0)), "RET")

Swapped == {"GT", "LE"}

IntOp(op) ==
    CASE op \in {"ADD", "SUB", "MUL", "DIV"} -> op
      [] op \in {"EQ", "NE"} -> "CMP_EQ"
      [] OTHER -> "CMP_LT"
FloatOp(op) ==
    CASE op = "ADD" -> "FADD" [] op = "SUB" -> "FSUB" [] op = "MUL" -> "FMUL" [] op = "DIV" -> "FDIV"
      [] op \in {"EQ", "NE"} -> "FCMP_EQ"
      [] OTHER -> "FCMP_LT"

RECURSIVE genExpr(_, _)

\* The operands are evaluated in the order CMP_LT wants them.
genSwappedReversed(g, e) == genExpr(genExpr(g, e.right), e.left)

\* Every comparison of a function keeps its left operand in the same local.
genSwappedOneSlot(g, e) ==
    LET deeper == [g EXCEPT !.maxTempDepth = 1]
        left == Emit(genExpr(deeper, e.left), "STORE", U8(g.tempBase), 0)
    IN  Emit(genExpr(left, e.right), "LOAD", U8(g.tempBase), 0)

\* The left operand is evaluated first and kept in a temporary local while the
\* right one is.
genSwapped(g, e) ==
    LET slot == g.tempBase + g.tempDepth
        deeper == [g EXCEPT !.tempDepth = @ + 1,
                            !.maxTempDepth = IF @ > g.tempDepth THEN @ ELSE g.tempDepth + 1,
                            !.ok = @ /\ slot =< MAX_U8]
        left == Emit(genExpr(deeper, e.left), "STORE", U8(slot), 0)
        right == Emit(genExpr(left, e.right), "LOAD", U8(slot), 0)
    IN  [right EXCEPT !.tempDepth = @ - 1]

genBinary(g, e) ==
    LET operands == IF e.op \in Swapped THEN genSwapped(g, e) ELSE genExpr(genExpr(g, e.left), e.right)
        compared == op1(operands, IF e.left.type = "Float" THEN FloatOp(e.op) ELSE IntOp(e.op))
    IN  IF e.op \in {"NE", "LE", "GE"} THEN op1(compared, "NOT") ELSE compared

genCall(g, e) ==
    LET args == FoldLeft(LAMBDA acc, a : genExpr(acc, a), g, e.args)
        named == constant(args, StringValue(e.name))
    IN  IF e.runtime
        THEN Emit(named, "CALL_RUNTIME", U16(PoolIndex(named.pool, StringValue(e.name))), U8(Len(e.args)))
        ELSE Emit(args, "CALL", U16(e.functionIndex), U8(Len(e.args)))

genExpr(g, e) ==
    CASE e.node = "IntLit" -> pushConst(g, IntValue(e.value))
      [] e.node = "FloatLit" -> pushConst(g, FloatValue)
      [] e.node = "BoolLit" -> pushConst(g, IntValue(IF e.value THEN 1 ELSE 0))
      [] e.node = "StringLit" -> pushConst(g, StringValue(e.value))
      [] e.node = "VarRef" -> Emit(g, "LOAD", U8(e.slot), 0)
      [] e.node = "Unary" /\ e.op = "NOT" -> op1(genExpr(g, e.operand), "NOT")
      [] e.node = "Unary" /\ e.type = "Float" -> op1(genExpr(g, e.operand), "FNEG")
      [] e.node = "Unary" -> op1(genExpr(pushConst(g, IntValue(0)), e.operand), "SUB")
      [] e.node = "Binary" -> genBinary(g, e)
      [] e.node = "Call" -> genCall(g, e)

RECURSIVE genStmt(_, _)

genStatements(g, stmts) == FoldLeft(LAMBDA acc, s : genStmt(acc, s), g, stmts)

genIf(g, s) ==
    LET condition == genExpr(g, s.condition)
        toElse == offset(condition)
        then == genStmt(op1(condition, "JMP_IF_FALSE"), s.thenBlock)
        toEnd == offset(then)
        jumps == ~alwaysReturns(s.thenBlock)
        else == genStmt(patch(IF jumps THEN op1(then, "JMP") ELSE then, toElse), s.elseBranch)
    IN  CASE s.elseBranch.node = "none" -> patch(then, toElse)
          [] jumps -> patch(else, toEnd)
          [] OTHER -> else

genWhile(g, s) ==
    LET condition == genExpr(g, s.condition)
        toEnd == offset(condition)
        body == genStmt(op1(condition, "JMP_IF_FALSE"), s.body)
    IN  patch(Emit(body, "JMP", offset(g), 0), toEnd)

\* The value of a call used as a statement stays on the stack.
genCallStmtKeeps(g, s) == genExpr(g, s.call)

genCallStmt(g, s) == op1(genExpr(g, s.call), "POP")

genStmt(g, s) ==
    CASE s.node = "Block" -> genStatements(g, s.statements)
      [] s.node = "VarDecl" -> Emit(genExpr(g, s.initializer), "STORE", U8(s.slot), 0)
      [] s.node = "Assign" -> Emit(genExpr(g, s.value), "STORE", U8(s.slot), 0)
      [] s.node = "If" -> genIf(g, s)
      [] s.node = "While" -> genWhile(g, s)
      [] s.node = "Return" -> IF s.value.node = "none" THEN emitReturnZero(g)
                              ELSE op1(genExpr(g, s.value), "RET")
      [] s.node = "CallStmt" -> genCallStmt(g, s)

\* The function f, whose code has been generated, joins the others.
CompiledFunction(g, f) ==
    LET locals == f.localCount + g.maxTempDepth
    IN  [g EXCEPT !.functions = Append(@, [params |-> U8(Len(f.params)), locals |-> U8(locals),
                                           code |-> g.code]),
                  !.ok = @ /\ locals =< MAX_U8 /\ g.tempBase + g.maxTempDepth =< MAX_U8 + 1]

genReturn(g, f) == IF f.returnType = "none" THEN emitReturnZero(g) ELSE g

genFunction(g, f) ==
    LET start == [g EXCEPT !.code = <<>>, !.tempBase = Len(f.params) + f.localCount,
                           !.tempDepth = 0, !.maxTempDepth = 0]
    IN  CompiledFunction(genReturn(genStatements(start, f.body.statements), f), f)

RECURSIVE containsFloat(_)
containsFloat(n) ==
    CASE n.node = "Block" -> \E i \in DOMAIN n.statements : containsFloat(n.statements[i])
      [] n.node = "VarDecl" -> n.declaredType = "Float" \/ containsFloat(n.initializer)
      [] n.node = "Assign" -> containsFloat(n.value)
      [] n.node = "If" -> containsFloat(n.condition) \/ containsFloat(n.thenBlock) \/ containsFloat(n.elseBranch)
      [] n.node = "While" -> containsFloat(n.condition) \/ containsFloat(n.body)
      [] n.node = "Return" -> containsFloat(n.value)
      [] n.node = "CallStmt" -> containsFloat(n.call)
      [] n.node = "none" -> FALSE
      [] n.node = "Unary" -> n.type = "Float" \/ containsFloat(n.operand)
      [] n.node = "Binary" -> n.type = "Float" \/ containsFloat(n.left) \/ containsFloat(n.right)
      [] n.node = "Call" -> n.type = "Float" \/ \E i \in DOMAIN n.args : containsFloat(n.args[i])
      [] OTHER -> n.type = "Float"

usesFloat(functions) ==
    \E i \in DOMAIN functions :
        \/ functions[i].returnType = "Float"
        \/ \E j \in DOMAIN functions[i].params : functions[i].params[j].type = "Float"
        \/ containsFloat(functions[i].body)

BytecodeModule(g, functions) ==
    [ok |-> g.ok,
     module |-> [constants |-> g.pool, functions |-> g.functions,
                 entry |-> (CHOOSE i \in DOMAIN functions : functions[i].name = "main") - 1,
                 version |-> IF usesFloat(functions) THEN 2 ELSE 1]]

generate(functions) ==
    LET start == [pool |-> <<>>, functions |-> <<>>, code |-> <<>>, tempBase |-> 0,
                  tempDepth |-> 0, maxTempDepth |-> 0, ok |-> Len(functions) =< MAX_U16 + 1]
    IN  BytecodeModule(FoldLeft(LAMBDA acc, f : genFunction(acc, f), start, functions), functions)

NoModule == [constants |-> <<>>, functions |-> <<>>, entry |-> 0, version |-> 1]

\* The module, unless the checker or the generator has found an error.
generateChecked(functions, checked) ==
    IF NoErrors(functions, checked) THEN generate([i \in DOMAIN functions |-> checked[i].f])
    ELSE [ok |-> FALSE, module |-> NoModule]

compile(functions) == generateChecked(functions, check(functions))

=============================================================================
