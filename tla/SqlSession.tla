----------------------------- MODULE SqlSession -----------------------------
(***************************************************************************)
(* One database process: the command line (Run of internal/cli/cli.go),    *)
(* which frames statements on its standard input, or the socket server     *)
(* (executor of internal/server/protocol.go), which gets one statement per *)
(* frame and whose response the client of Target Service validates.        *)
(***************************************************************************)
EXTENDS Sql, Database

CONSTANTS
    Texts,        \* what is typed, or sent in one frame
    Edited,       \* texts with a mistake in them
    MaxTexts,     \* texts in one session
    MaxFrame      \* the values a response frame has room for

VARIABLES
    door,         \* "cli" or "socket"
    pc,           \* where the process is
    typed,        \* how many texts have come
    input, eof,   \* standard input
    source,       \* the text given to Execute
    statement,    \* the statement it parses to
    status,       \* the exit status of the command line
    reply         \* what the client's Exec returns

sessionVars == <<door, pc, typed, input, eof, source, statement, status, reply>>
vars == <<dbVars, sessionVars>>

NoReply == [ok |-> FALSE, code |-> "none"]

Init ==
    /\ DbInit
    /\ door \in {"cli", "socket"} /\ pc = "read"
    /\ typed = 0 /\ input = <<>> /\ eof = FALSE
    /\ source = <<>> /\ statement = NoStatement
    /\ status = 0 /\ reply = NoReply

-----------------------------------------------------------------------------
\* A text comes, and how many have come by then.  A mistake comes first and
\* alone: a text that is refused changes nothing, so that one in a later place
\* would show no more.
Comes(stream, before) ==
    \/ \E text \in Texts : stream' = before \o text /\ typed' = typed + 1
    \/ typed = 0 /\ \E text \in Edited : stream' = before \o text /\ typed' = MaxTexts

\* The user waits for the answer to a complete statement, and may go on with an
\* incomplete one.
Type ==
    /\ door = "cli" /\ pc = "read" /\ ~eof
    /\ typed < MaxTexts \/ (typed = MaxTexts /\ HasContent(input))
    /\ StatementEnd(input) = 0
    /\ Comes(input, input)
    /\ UNCHANGED <<dbVars, door, pc, eof, source, statement, status, reply>>

EndInput ==
    /\ door = "cli" /\ pc = "read" /\ ~eof
    /\ eof' = TRUE
    /\ UNCHANGED <<dbVars, door, pc, typed, input, source, statement, status, reply>>

Frame(length) ==
    /\ source' = SubSeq(input, 1, length)
    /\ input' = SubSeq(input, length + 1, Len(input))
    /\ pc' = "execute"
    /\ UNCHANGED <<dbVars, door, typed, eof, statement, status, reply>>

\* readStatement returns a statement, or at the end of the input what there is.
ReadStatement ==
    /\ door = "cli" /\ pc = "read"
    /\ \/ StatementEnd(input) # 0 /\ Frame(StatementEnd(input))
       \/ StatementEnd(input) = 0 /\ eof /\ HasContent(input) /\ Frame(Len(input))

\* Standard input ends, or cannot be read.
Leave ==
    /\ door = "cli" /\ pc = "read"
    /\ \/ eof /\ ~HasContent(input) /\ UNCHANGED status
       \/ status' = 1
    /\ pc' = "exited"
    /\ UNCHANGED <<dbVars, door, typed, input, eof, source, statement, reply>>

\* A frame reaches execute of the socket server.
Receive ==
    /\ door = "socket" /\ pc = "read" /\ typed < MaxTexts
    /\ Comes(source, <<>>)
    /\ pc' = "execute"
    /\ UNCHANGED <<dbVars, door, input, eof, statement, status, reply>>

\* Database.Execute.
RunStatement ==
    /\ pc = "execute" /\ HasContent(source)
    /\ statement' = Parse(Lex(source))
    /\ IF statement' = NoStatement THEN Refuse ELSE Execute(statement')
    /\ pc' = "answer"
    /\ UNCHANGED <<door, typed, input, eof, source, status, reply>>

\* printResult, or the diagnostic, which may fail.
PrintAnswer ==
    /\ door = "cli" /\ pc = "answer"
    /\ \/ pc' = "read" /\ status' = IF result.ok THEN status ELSE 1
       \/ pc' = "exited" /\ status' = 1
    /\ UNCHANGED <<dbVars, door, typed, input, eof, source, statement, reply>>

-----------------------------------------------------------------------------
\* The JSON of a value: its number or its string.
Encoded(v) == [json |-> IF v.type = "TEXT" THEN "string" ELSE "number", data |-> v.data]

\* query: the response to the result of Execute.
query(r) ==
    IF ~r.ok THEN [ok |-> FALSE, code |-> "SQL_ERROR", position |-> TRUE]
    ELSE [ok |-> TRUE,
          columns |-> [i \in DOMAIN r.columns |-> [name |-> r.columns[i], type |-> r.types[i]]],
          rows |-> [k \in DOMAIN r.rows |-> [i \in DOMAIN r.rows[k] |-> Encoded(r.rows[k][i])]]]

\* The rest of execute: a response that is too large becomes an error.
Limited(r) ==
    IF r.ok /\ Len(r.rows) * Len(r.columns) > MaxFrame
    THEN [ok |-> FALSE, code |-> "RESULT_TOO_LARGE", position |-> FALSE] ELSE r

\* validate of dbclient.
IsInteger(data) == ~Contains(data, ".")

ValidCell(type, cell) ==
    CASE type = "TEXT" -> cell.json = "string"
      [] type = "INTEGER" -> cell.json = "number" /\ IsInteger(cell.data)
      [] OTHER -> cell.json = "number"

validate(r) ==
    IF r.ok THEN \A k \in DOMAIN r.rows :
                    /\ Len(r.rows[k]) = Len(r.columns)
                    /\ \A i \in DOMAIN r.columns : ValidCell(r.columns[i].type, r.rows[k][i])
    ELSE r.position <=> r.code = "SQL_ERROR"

\* A blank payload does not reach the database.
RejectBlank ==
    /\ door = "socket" /\ pc = "execute" /\ ~HasContent(source)
    /\ reply' = [ok |-> FALSE, code |-> "BAD_REQUEST", position |-> FALSE]
    /\ pc' = "read"
    /\ UNCHANGED <<dbVars, door, typed, input, eof, source, statement, status>>

Respond ==
    /\ door = "socket" /\ pc = "answer"
    /\ reply' = IF validate(Limited(query(result))) THEN Limited(query(result)) ELSE NoReply
    /\ pc' = "read"
    /\ UNCHANGED <<dbVars, door, typed, input, eof, source, statement, status>>

Next ==
    \/ Type \/ EndInput \/ ReadStatement \/ Leave \/ Receive \/ RunStatement \/ PrintAnswer
    \/ RejectBlank \/ Respond

Spec == Init /\ [][Next]_vars

-----------------------------------------------------------------------------
(* The grammar of spec/sql.md, as the shapes a sequence of tokens may have *)

\* n copies of an item with commas between them.
Separated(item, n) ==
    LET w == Len(item) + 1
    IN  [k \in 1..n * w - 1 |-> IF k % w = 0 THEN "," ELSE item[k % w]]

WhereShape == <<"WHERE", "name", "=", "value">>

StatementShapes(n, m) ==
    LET create == <<"CREATE", "TABLE", "name", "(">> \o Separated(<<"name", "type">>, n) \o <<")">>
        insert == <<"INSERT", "INTO", "name", "(">> \o Separated(<<"name">>, n)
                  \o <<")", "VALUES", "(">> \o Separated(<<"value">>, m) \o <<")">>
        select == <<"SELECT">> \o Separated(<<"name">>, n) \o <<"FROM", "name">>
        every  == <<"SELECT", "*", "FROM", "name">>
        update == <<"UPDATE", "name", "SET">> \o Separated(<<"name", "=", "value">>, n)
    IN  {create, insert, select, select \o WhereShape, every, every \o WhereShape,
         update \o WhereShape}

HasShape(t, shape) ==
    CASE shape = "name" -> t.kind = "word"
      [] shape = "type" -> IsType(t)
      [] shape = "value" -> IsLiteral(t)
      [] shape \in Symbols -> t.kind = shape
      [] OTHER -> IsKeyword(t, shape)

\* The shapes that fit the tokens of a statement before its ';' and the end.
ShapesOf(ts) ==
    {p \in UNION {StatementShapes(n, m) : n, m \in 1..Cardinality({i \in DOMAIN ts : ts[i].kind = ","}) + 1} :
        /\ Len(ts) = Len(p) + 2 /\ ts[Len(p) + 1].kind = ";" /\ ts[Len(p) + 2].kind = "end"
        /\ \A i \in DOMAIN p : HasShape(ts[i], p[i])}

\* What the tokens in the variable places of a shape say, in their order.
Said(ts, p) ==
    LET places == SelectSeq([i \in DOMAIN p |-> i], LAMBDA i : p[i] \in {"name", "type", "value"})
    IN  [k \in DOMAIN places |->
            CASE p[places[k]] = "name" -> [name |-> ts[places[k]].text]
              [] p[places[k]] = "type" -> [type |-> Keyword[ts[places[k]].text[1]]]
              [] OTHER -> [value |-> LiteralValue(ts[places[k]])]]

Paired(first, second) ==
    [k \in 1..2 * Len(first) |-> IF k % 2 = 1 THEN first[(k + 1) \div 2] ELSE second[k \div 2]]

\* What a statement says, in the order of its text.
Meant(s) ==
    LET table  == <<[name |-> s.table]>>
        names  == [i \in DOMAIN s.columns |-> [name |-> s.columns[i]]]
        values == [i \in DOMAIN s.values |-> [value |-> s.values[i]]]
        where  == IF s.predicate = <<>> THEN <<>>
                  ELSE <<[name |-> s.predicate[1].column], [value |-> s.predicate[1].literal]>>
    IN  CASE s.operation = "create" ->
               table \o Paired([i \in DOMAIN s.definitions |-> [name |-> s.definitions[i].name]],
                               [i \in DOMAIN s.definitions |-> [type |-> s.definitions[i].type]])
          [] s.operation = "insert" -> table \o names \o values
          [] s.operation = "select" -> names \o table \o where
          [] OTHER -> table \o Paired(names, values) \o where

-----------------------------------------------------------------------------
\* Execute accepts as a statement exactly the texts of the grammar, where any
\* word may be a name, and takes from them what they say: parse looks one token
\* ahead and decides at once, and must not drop, skip or reuse a token.
ParsesItsGrammar ==
    pc = "answer" =>
        \E ts \in {Lex(source)} : \E shapes \in {ShapesOf(ts)} :
            /\ statement = NoStatement <=> shapes = {}
            /\ \A p \in shapes : Said(ts, p) = Meant(statement)

\* The number of quotes before atom i of a text.
QuotesBefore(text, i) == Cardinality({k \in 1..i - 1 : text[k] = Quote})
EndsStatement(text, i) == text[i] = ";" /\ QuotesBefore(text, i) % 2 = 0

\* The command line cuts its input exactly after the semicolons that are
\* outside of literals, where the lexer sees a semicolon as well: a statement
\* is neither cut in a literal nor run together with the next one.
FramesOneStatement ==
    door = "cli" /\ pc = "execute" =>
        /\ \A i \in 1..Len(source) - 1 : ~EndsStatement(source, i)
        /\ EndsStatement(source, Len(source)) \/ (eof /\ input = <<>>)
        /\ \E ts \in {Lex(source)} :
              \A i \in DOMAIN ts : ts[i].kind = ";" <=> EndsStatement(source, Len(source)) /\ i = Len(ts) - 1

\* The client accepts every response of the server and returns what Execute
\* returned: names, types and values of the selected columns, in their order.
\* Only a blank statement is a bad request.
ClientGetsResult ==
    door = "socket" /\ pc = "read" /\ typed > 0 =>
        \/ ~reply.ok /\ reply.code = "BAD_REQUEST" /\ ~HasContent(source)
        \/ ~reply.ok /\ reply.code = "SQL_ERROR" /\ HasContent(source) /\ result = Refused
        \/ ~reply.ok /\ reply.code = "RESULT_TOO_LARGE" /\ HasContent(source) /\ Len(result.rows) > 0
        \/ /\ reply.ok /\ HasContent(source) /\ result.ok
           /\ \A i \in DOMAIN reply.columns :
                 reply.columns[i] = [name |-> result.columns[i], type |-> result.types[i]]
           /\ \A k \in DOMAIN result.rows : \A i \in DOMAIN reply.columns :
                 [type |-> reply.columns[i].type, data |-> reply.rows[k][i].data] = result.rows[k][i]

\* The executor implements the store of spec/sql.md: a table as a bag of
\* records that name their columns.
RecordOf(t, row) ==
    [c \in {t.columns[n].name : n \in DOMAIN t.columns} |-> row[columnIndex(t, c)]]

Contents(t) ==
    [types |-> [c \in {t.columns[n].name : n \in DOMAIN t.columns} |->
                   t.columns[columnIndex(t, c)].type],
     rows |-> ToBag([k \in DOMAIN t.rows |-> RecordOf(t, t.rows[k])])]

AnswerOf(r) ==
    CASE ~r.ok -> [kind |-> "refused"]
      [] r.columns = <<>> -> [kind |-> "done"]
      [] OTHER ->
           [kind |-> "rows",
            rows |-> ToBag(IF statement.all
                           THEN [k \in DOMAIN r.rows |->
                                    [c \in ToSet(r.columns) |->
                                        r.rows[k][CHOOSE i \in DOMAIN r.columns : r.columns[i] = c]]]
                           ELSE r.rows)]

Promised == INSTANCE SqlStore WITH
    store <- [name \in DOMAIN tables |-> Contents(tables[name])],
    answer <- AnswerOf(result)

ImplementsStore == Promised!Spec

====
