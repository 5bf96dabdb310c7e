-------------------------------- MODULE Ast --------------------------------
(***************************************************************************)
(* The syntax trees of the compiler, compiler/.../Ast.kt.                  *)
(***************************************************************************)
\* type, slot and functionIndex are set by Checker.
IntLit(n) == [node |-> "IntLit", value |-> n, type |-> "none"]
FloatLit == [node |-> "FloatLit", type |-> "none"]
BoolLit(b) == [node |-> "BoolLit", value |-> b, type |-> "none"]
StringLit(s) == [node |-> "StringLit", value |-> s, type |-> "none"]
VarRef(name) == [node |-> "VarRef", name |-> name, slot |-> 0, type |-> "none"]
Unary(op, e) == [node |-> "Unary", op |-> op, operand |-> e, type |-> "none"]
Binary(op, l, r) == [node |-> "Binary", op |-> op, left |-> l, right |-> r, type |-> "none"]
Invoke(name, args) ==
    [node |-> "Call", runtime |-> FALSE, name |-> name, args |-> args, functionIndex |-> 0, type |-> "none"]
InvokeRuntime(name, args) ==
    [node |-> "Call", runtime |-> TRUE, name |-> name, args |-> args, functionIndex |-> 0, type |-> "none"]

\* "none" is no declared type, no else branch and no return value.
VarDecl(isConst, name, type, e) ==
    [node |-> "VarDecl", isConst |-> isConst, name |-> name, declaredType |-> type,
     initializer |-> e, slot |-> 0]
Assign(name, e) == [node |-> "Assign", name |-> name, value |-> e, slot |-> 0]
Block(stmts) == [node |-> "Block", statements |-> stmts]
NoElse == [node |-> "none"]
If(c, then, else) == [node |-> "If", condition |-> c, thenBlock |-> then, elseBranch |-> else]
While(c, body) == [node |-> "While", condition |-> c, body |-> body]
NoExpr == [node |-> "none"]
Return(e) == [node |-> "Return", value |-> e]
CallStmt(c) == [node |-> "CallStmt", call |-> c]

Param(name, type) == [name |-> name, type |-> type]
FunctionDecl(name, params, type, stmts) ==
    [name |-> name, params |-> params, returnType |-> type, body |-> Block(stmts), localCount |-> 0]

RECURSIVE alwaysReturns(_)
alwaysReturns(s) ==
    CASE s.node = "Return" -> TRUE
      [] s.node = "Block" -> \E i \in DOMAIN s.statements : alwaysReturns(s.statements[i])
      [] s.node = "If" -> /\ s.elseBranch.node # "none"
                          /\ alwaysReturns(s.thenBlock) /\ alwaysReturns(s.elseBranch)
      [] OTHER -> FALSE

=============================================================================
