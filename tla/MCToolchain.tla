---------------------------- MODULE MCToolchain ----------------------------
(***************************************************************************)
(* Toolchain on all small programs of six families, and on all modules   *)
(* with a few instructions.                                                *)
(***************************************************************************)
EXTENDS Toolchain

Lowest == -4

\* fun tick(x: Int): Int { runtime.log("tick"); return x; }
Tick == FunctionDecl("tick", <<Param("x", "Int")>>, "Int",
            <<CallStmt(InvokeRuntime("runtime.log", <<StringLit("tick")>>)), Return(VarRef("x"))>>)

Main(type, stmts) == FunctionDecl("main", <<>>, type, stmts)

\* One expression: which operand is evaluated first shows in the log.
Leaves == {IntLit(1), IntLit(3), BoolLit(TRUE), StringLit("a"), FloatLit,
           Unary("NEG", IntLit(2)), Invoke("tick", <<IntLit(2)>>)}
Compound == {Unary("NOT", BoolLit(FALSE)), Unary("NEG", FloatLit),
             Binary("GT", IntLit(1), Invoke("tick", <<IntLit(0)>>)),
             Binary("LE", Invoke("tick", <<IntLit(0)>>), IntLit(1)),
             Binary("SUB", Unary("NEG", IntLit(3)), IntLit(1)), Binary("DIV", IntLit(1), IntLit(0)),
             Invoke("main", <<>>), Invoke("tick", <<BoolLit(TRUE)>>),
             InvokeRuntime("runtime.ipc_send", <<StringLit("a")>>),
             InvokeRuntime("runtime.ipc_receive", <<>>)}
Operators == {"ADD", "SUB", "MUL", "DIV", "EQ", "NE", "LT", "LE", "GT", "GE"}
Operations == {Binary(op, l, r) : op \in Operators, l \in Leaves \cup Compound, r \in Leaves \cup Compound}
Expressions == Operations
    \cup {Binary(op, l, r) : op \in {"LE", "GT", "NE", "SUB"},
                             l \in {Binary("GT", IntLit(1), Invoke("tick", <<IntLit(2)>>)),
                                    Binary("MUL", IntLit(2), Invoke("tick", <<IntLit(1)>>))},
                             r \in {o \in Operations : o.left.node # "Call" /\ o.op \in {"LE", "GT", "MUL"}}}

GivenExpression ==
    \E type \in {"Int", "Bool", "Float"}, e \in Expressions : Given(<<Tick, Main(type, <<Return(e)>>)>>)

\* fun pick(b: Bool): Int { if (b) { return 1; } return 0; }
Pick == FunctionDecl("pick", <<Param("b", "Bool")>>, "Int",
            <<If(VarRef("b"), Block(<<Return(IntLit(1))>>), NoElse), Return(IntLit(0))>>)

\* Comparisons inside the operands of comparisons, up to three deep.
Picked(comparisons) == {Invoke("pick", <<c>>) : c \in comparisons}
Comparisons(left, right) == {Binary(op, l, r) : op \in {"GT", "LE"}, l \in left, r \in right}
Plain == {IntLit(1), IntLit(2)}
Simple == Picked(Comparisons(Plain, Plain))
GivenNested ==
    \E e \in Comparisons(Plain \cup Simple, Plain \cup Simple)
            \cup Comparisons(Plain, Picked(Comparisons(Plain, Simple))) :
        Given(<<Main("Bool", <<Return(e)>>), Pick>>)

\* As many constants and functions as an operand can name, and more.
Names == <<"n1", "n2", "n3", "n4", "n5", "n6", "n7">>
GivenConstants ==
    \E n \in 2..Len(Names) :
        Given(<<Main("Int", [i \in 1..n |->
                    IF i = n THEN Return(IntLit(0))
                    ELSE If(Binary("EQ", StringLit(Names[1]), StringLit(Names[i + 1])),
                            Block(<<Return(IntLit(1))>>), NoElse)])>>)
GivenFunctions ==
    \E n \in 1..Len(Names) :
        Given(<<Main("Int", <<Return(Invoke(Names[n], <<>>))>>)>>
              \o [i \in 1..n |-> FunctionDecl(Names[i], <<>>, "Int", <<Return(IntLit(i % 4))>>)])

\* Some statements: declarations, scopes, branches, loops and returns.
a == VarRef("a")
Statements == {
    VarDecl(FALSE, "a", "none", IntLit(0)),
    VarDecl(TRUE, "a", "Bool", BoolLit(TRUE)),
    VarDecl(FALSE, "b", "Int", Binary("ADD", a, IntLit(1))),
    Assign("a", Binary("ADD", a, IntLit(1))),
    CallStmt(InvokeRuntime("runtime.log", <<StringLit("s")>>)),
    CallStmt(Invoke("tick", <<a>>)),
    If(Binary("GT", a, IntLit(0)), Block(<<Return(IntLit(1))>>), NoElse),
    If(Binary("LT", a, IntLit(1)), Block(<<Return(a)>>), Block(<<Assign("a", IntLit(2))>>)),
    If(BoolLit(FALSE), Block(<<Return(IntLit(1))>>),
       If(BoolLit(TRUE), Block(<<Return(IntLit(2))>>), Block(<<Return(IntLit(3))>>))),
    If(BoolLit(TRUE), Block(<<VarDecl(FALSE, "a", "none", IntLit(3)), CallStmt(Invoke("tick", <<a>>))>>),
       Block(<<Assign("a", IntLit(1))>>)),
    While(Binary("LT", a, IntLit(2)), Block(<<CallStmt(Invoke("tick", <<a>>)), Assign("a", Binary("ADD", a, IntLit(1)))>>)),
    While(BoolLit(TRUE), Block(<<CallStmt(Invoke("tick", <<IntLit(1)>>)), Return(IntLit(0))>>)),
    Return(a),
    Return(NoExpr)}

GivenStatements ==
    \E type \in {"none", "Int"}, n \in 0..3 : \E s \in [1..n -> Statements] : Given(<<Tick, Main(type, s)>>)

\* Recursion, which ends, or meets the limit of the frames or of the stack.
Down(first, last) == FunctionDecl("down", <<Param("n", "Int")>>, "Int",
    <<If(Binary("LE", VarRef("n"), IntLit(0)), Block(<<Return(VarRef("n"))>>), NoElse),
      Return(Binary("ADD", first, last))>>)
One(e) == Binary("ADD", IntLit(1), e)
Again == Invoke("down", <<Binary("SUB", VarRef("n"), IntLit(1))>>)
GivenRecursion ==
    \E n \in 0..3, pair \in {<<Again, IntLit(1)>>, <<IntLit(1), Again>>, <<Again, VarRef("n")>>,
                        <<IntLit(1), One(One(One(VarRef("n"))))>>} :
        Given(<<Main("Int", <<Return(Invoke("down", <<IntLit(n)>>))>>), Down(pair[1], pair[2])>>)

-----------------------------------------------------------------------------
I(op, arg, argc) == [op |-> op, arg |-> arg, argc |-> argc]
Pool == <<IntValue(1), StringValue("runtime.log"), FloatValue, StringValue("runtime.ipc_receive")>>

\* The code that consists of the given instructions.
Assembled(instructions, params, locals) ==
    LET g == FoldLeft(LAMBDA acc, i : Emit(acc, i.op, i.arg, i.argc), [code |-> <<>>], instructions)
    IN  [params |-> params, locals |-> locals, code |-> g.code]

Alphabet ==
    {I(op, 0, 0) : op \in {"ADD", "FADD", "FNEG", "FCMP_LT", "CMP_EQ", "NOT", "POP", "RET", "BAD",
                           "LOAD", "STORE", "JMP", "JMP_IF_FALSE"}}
    \cup {I("PUSH_CONST", i, 0) : i \in 0..4}
    \cup {I("LOAD", 1, 0), I("JMP", 1, 0), I("CALL", 0, 0), I("CALL", 1, 1), I("CALL_RUNTIME", 1, 1),
          I("CALL_RUNTIME", 3, 0), I("CALL_RUNTIME", 0, 0)}

Callees == {<<I("LOAD", 0, 0), I("RET", 0, 0)>>, <<I("POP", 0, 0)>>}

GivenCode ==
    \E n \in 0..3, callee \in Callees : \E code \in [1..n -> Alphabet] :
        GivenModule([constants |-> Pool, entry |-> 0, version |-> 2,
                     functions |-> <<Assembled(code, 0, 1), Assembled(callee, 1, 0)>>])

GivenHeader ==
    \E i \in Alphabet, params \in 0..1, entry \in 0..1, version \in 0..2 :
        LET code == <<I("PUSH_CONST", 0, 0), i, I("RET", 0, 0)>>
        IN  GivenModule([constants |-> <<IntValue(0)>>, functions |-> <<Assembled(code, params, 1)>>,
                         entry |-> entry, version |-> version])

Init ==
    \/ GivenExpression \/ GivenNested \/ GivenConstants \/ GivenFunctions \/ GivenStatements \/ GivenRecursion
    \/ GivenCode \/ GivenHeader

Spec == Init /\ [][Next]_vars

=============================================================================
