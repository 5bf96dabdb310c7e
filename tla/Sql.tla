--------------------------------- MODULE Sql ---------------------------------
(***************************************************************************)
(* The lexer and the parser of server/dbms (lexer.go, parser.go), the      *)
(* statement framing of its command line (internal/cli/cli.go) and         *)
(* SQLString of target-service/dbclient.  A text is a sequence of atoms:   *)
(* runs of letters, runs of digits, and single other characters.           *)
(***************************************************************************)
EXTENDS Integers, SequencesExt

CONSTANTS
    Words,        \* runs of letters
    Keyword,      \* the upper-case form of a word that is a keyword in any case
    Digits,       \* runs of digits
    Huge          \* those of them that are beyond int64 and float64

Quote == "'"
Blanks == {" "}
Symbols == {"(", ")", ",", "=", "*", ";"}

-----------------------------------------------------------------------------
(* lexer.go *)

\* The end of the run of atoms of S that starts at i; i - 1 if there is none.
RunEnd(text, i, S) ==
    (CHOOSE j \in i..Len(text) + 1 :
        /\ j = Len(text) + 1 \/ text[j] \notin S
        /\ \A k \in i..j - 1 : text[k] \in S) - 1

\* The quote that ends the literal opened at i, 0 if there is none: a doubled
\* quote is part of the literal.
ClosingQuote(text, i) ==
    LET from[j \in i + 1..Len(text) + 2] ==
          IF j > Len(text) THEN 0
          ELSE IF text[j] # Quote THEN from[j + 1]
          ELSE IF j < Len(text) /\ text[j + 1] = Quote THEN from[j + 2]
          ELSE j
    IN  from[i + 1]

\* The content of a literal with its doubled quotes made single.
Decoded(body) ==
    LET from[j \in 1..Len(body) + 2] ==
          IF j > Len(body) THEN <<>>
          ELSE <<body[j]>> \o from[IF body[j] = Quote THEN j + 2 ELSE j + 1]
    IN  from[1]

\* An integer or real literal at i: its last atom, 0 if digits are missing.
NumberEnd(text, i) ==
    LET whole == RunEnd(text, IF text[i] = "-" THEN i + 1 ELSE i, Digits)
        point == whole < Len(text) /\ text[whole + 1] = "."
        last  == IF point THEN RunEnd(text, whole + 2, Digits) ELSE whole
    IN  IF (text[i] = "-" /\ whole = i) \/ (point /\ last = whole + 1) THEN 0 ELSE last

\* The token that starts at i, with the position after it; [next |-> 0] if the
\* text is in error there.
TokenAt(text, i) ==
    CASE text[i] \in Words ->
           LET last == RunEnd(text, i, Words \cup Digits)
           IN  [kind |-> "word", text |-> SubSeq(text, i, last), next |-> last + 1]
      [] text[i] \in Digits \cup {"-"} ->
           LET last == NumberEnd(text, i)
           IN  IF last = 0 THEN [next |-> 0]
               ELSE LET lexeme == SubSeq(text, i, last)
                    IN  [kind |-> IF Contains(lexeme, ".") THEN "real" ELSE "integer",
                         text |-> lexeme, next |-> last + 1]
      [] text[i] = Quote ->
           LET last == ClosingQuote(text, i)
           IN  IF last = 0 THEN [next |-> 0]
               ELSE [kind |-> "text", text |-> Decoded(SubSeq(text, i + 1, last - 1)),
                     next |-> last + 1]
      [] text[i] \in Symbols -> [kind |-> text[i], text |-> <<text[i]>>, next |-> i + 1]
      [] OTHER -> [next |-> 0]

\* The tokens of a text, <<>> if it has a lexical error.
Lex(text) ==
    LET from[i \in 1..Len(text) + 1] ==
          IF i = Len(text) + 1 THEN <<[kind |-> "end"]>>
          ELSE IF text[i] \in Blanks THEN from[i + 1]
          ELSE LET t == TokenAt(text, i)
               IN  IF t.next = 0 THEN <<>>
                   ELSE LET rest == from[t.next]
                        IN  IF rest = <<>> THEN <<>> ELSE <<t>> \o rest
    IN  from[1]

-----------------------------------------------------------------------------
(* parser.go.  A position is 0 once the parser has failed. *)

TakeKind(ts, i, kind) == IF i # 0 /\ ts[i].kind = kind THEN i + 1 ELSE 0

IsKeyword(t, k) == t.kind = "word" /\ t.text \in {<<w>> : w \in DOMAIN Keyword}
                                   /\ Keyword[t.text[1]] = k

TakeKeyword(ts, i, k) == IF i # 0 /\ IsKeyword(ts[i], k) THEN i + 1 ELSE 0

\* The numerals without the zeros that say nothing: ParseInt and ParseFloat.
Trimmed(digits) ==
    LET significant == {i \in DOMAIN digits : digits[i] # "0"}
    IN  IF significant = {} THEN <<"0">> ELSE SubSeq(digits, Min(significant), Len(digits))

IntegerValue(lexeme) ==
    IF lexeme[1] # "-" THEN Trimmed(lexeme)
    ELSE IF Trimmed(Tail(lexeme)) = <<"0">> THEN <<"0">> ELSE <<"-">> \o Trimmed(Tail(lexeme))

RealValue(lexeme) ==
    LET sign  == IF lexeme[1] = "-" THEN <<"-">> ELSE <<>>
        point == CHOOSE i \in DOMAIN lexeme : lexeme[i] = "."
        whole == SubSeq(lexeme, Len(sign) + 1, point - 1)
        part  == Reverse(Trimmed(Reverse(SubSeq(lexeme, point + 1, Len(lexeme)))))
    IN  sign \o Trimmed(whole) \o (IF part = <<"0">> THEN <<>> ELSE <<".">> \o part)

\* ParseInt and ParseFloat report no overflow; decimals may be as long as they
\* like.
InRange(t) ==
    t.kind = "text" \/ \A i \in DOMAIN t.text : t.text[i] \in Huge => \E j \in 1..i : t.text[j] = "."

LiteralValue(t) ==
    CASE t.kind = "text" -> [type |-> "TEXT", data |-> t.text]
      [] t.kind = "integer" -> [type |-> "INTEGER", data |-> IntegerValue(t.text)]
      [] OTHER -> [type |-> "REAL", data |-> RealValue(t.text)]

IsLiteral(t) == t.kind \in {"text", "integer", "real"} /\ InRange(t)
IsType(t) == \E k \in {"INTEGER", "REAL", "TEXT"} : IsKeyword(t, k)

\* The items of comma-separated lists: how many tokens they have, which tokens
\* these are and what they stand for.
ItemWidth == [name |-> 1, definition |-> 2, value |-> 1, assignment |-> 3]

IsItem(item, ts, i) ==
    CASE item = "name" -> ts[i].kind = "word"
      [] item = "definition" -> ts[i].kind = "word" /\ IsType(ts[i + 1])
      [] item = "value" -> IsLiteral(ts[i])
      [] item = "assignment" -> ts[i].kind = "word" /\ ts[i + 1].kind = "=" /\ IsLiteral(ts[i + 2])

ItemAt(item, ts, i) ==
    CASE item = "name" -> ts[i].text
      [] item = "definition" -> [name |-> ts[i].text, type |-> Keyword[ts[i + 1].text[1]]]
      [] item = "value" -> LiteralValue(ts[i])
      [] item = "assignment" -> [column |-> ts[i].text, value |-> LiteralValue(ts[i + 2])]

\* The loops over comma-separated items.
ListAt(item, ts, i) ==
    LET width == ItemWidth[item]
        from[j \in 1..Len(ts)] ==
          IF ~IsItem(item, ts, j) THEN [next |-> 0, items |-> <<>>]
          ELSE IF ts[j + width].kind # ","
               THEN [next |-> j + width, items |-> <<ItemAt(item, ts, j)>>]
          ELSE LET rest == from[j + width + 1]
               IN  [next |-> rest.next, items |-> <<ItemAt(item, ts, j)>> \o rest.items]
    IN  IF i = 0 THEN [next |-> 0, items |-> <<>>] ELSE from[i]

NoStatement == [operation |-> "none"]

Bare(operation, table) ==
    [operation |-> operation, table |-> table, definitions |-> <<>>, columns |-> <<>>,
     values |-> <<>>, all |-> FALSE, predicate |-> <<>>]

\* What follows the ';' is not looked at.
FinishedEarly(ts, next, statement) ==
    IF TakeKind(ts, next, ";") = 0 THEN NoStatement ELSE statement

\* ';' and the end of the input after a statement that ends before next.
Finished(ts, next, statement) ==
    IF TakeKind(ts, TakeKind(ts, next, ";"), "end") = 0 THEN NoStatement ELSE statement

ParseCreate(ts) ==
    LET name == TakeKeyword(ts, 2, "TABLE")
        defs == ListAt("definition", ts, TakeKind(ts, TakeKind(ts, name, "word"), "("))
    IN  Finished(ts, TakeKind(ts, defs.next, ")"),
                 [Bare("create", ts[name].text) EXCEPT !.definitions = defs.items])

ParseInsert(ts) ==
    LET name == TakeKeyword(ts, 2, "INTO")
        cols == ListAt("name", ts, TakeKind(ts, TakeKind(ts, name, "word"), "("))
        vals == ListAt("value", ts,
                       TakeKind(ts, TakeKeyword(ts, TakeKind(ts, cols.next, ")"), "VALUES"), "("))
    IN  Finished(ts, TakeKind(ts, vals.next, ")"),
                 [Bare("insert", ts[name].text) EXCEPT !.columns = cols.items,
                                                       !.values = vals.items])

\* One condition column = value after the keyword WHERE at i.
ConditionAt(ts, i) ==
    IF i # 0 /\ IsKeyword(ts[i], "WHERE") /\ IsItem("assignment", ts, i + 1)
    THEN LET c == ItemAt("assignment", ts, i + 1)
         IN  [next |-> i + 4, predicate |-> <<[column |-> c.column, literal |-> c.value]>>]
    ELSE [next |-> 0, predicate |-> <<>>]

ParseSelect(ts) ==
    LET all   == ts[2].kind = "*"
        cols  == IF all THEN [next |-> 3, items |-> <<>>] ELSE ListAt("name", ts, 2)
        name  == TakeKeyword(ts, cols.next, "FROM")
        after == TakeKind(ts, name, "word")
        where == IF after # 0 /\ IsKeyword(ts[after], "WHERE") THEN ConditionAt(ts, after)
                 ELSE [next |-> after, predicate |-> <<>>]
    IN  Finished(ts, where.next,
                 [Bare("select", ts[name].text) EXCEPT !.columns = cols.items, !.all = all,
                                                       !.predicate = where.predicate])

ParseUpdate(ts) ==
    LET sets  == ListAt("assignment", ts, TakeKeyword(ts, TakeKind(ts, 2, "word"), "SET"))
        where == ConditionAt(ts, sets.next)
    IN  Finished(ts, where.next,
                 [Bare("update", ts[2].text) EXCEPT
                     !.columns = [n \in DOMAIN sets.items |-> sets.items[n].column],
                     !.values = [n \in DOMAIN sets.items |-> sets.items[n].value],
                     !.predicate = where.predicate])

Parse(ts) ==
    CASE ts = <<>> -> NoStatement
      [] IsKeyword(ts[1], "CREATE") -> ParseCreate(ts)
      [] IsKeyword(ts[1], "INSERT") -> ParseInsert(ts)
      [] IsKeyword(ts[1], "SELECT") -> ParseSelect(ts)
      [] IsKeyword(ts[1], "UPDATE") -> ParseUpdate(ts)
      [] OTHER -> NoStatement

-----------------------------------------------------------------------------
(* Framing of cli.go, and SQLString *)

\* Quotes are not looked at.
StatementEndUnquoted(input) ==
    LET ends == {i \in DOMAIN input : input[i] = ";"}
    IN  IF ends = {} THEN 0 ELSE Min(ends)

\* readStatement: the last atom of the first statement, 0 if the input ends
\* before it.  A quote inside a literal is looked at together with the next
\* atom.
StatementEnd(input) ==
    LET from[i \in 1..Len(input) + 2, quoted \in BOOLEAN] ==
          IF i > Len(input) THEN 0
          ELSE IF input[i] = Quote
               THEN IF quoted /\ i < Len(input) /\ input[i + 1] = Quote THEN from[i + 2, TRUE]
                    ELSE from[i + 1, ~quoted]
          ELSE IF input[i] = ";" /\ ~quoted THEN i
          ELSE from[i + 1, quoted]
    IN  from[1, FALSE]

HasContent(input) == \E i \in DOMAIN input : input[i] \notin Blanks

\* A TEXT literal that denotes the given text.
SQLString(text) ==
    LET escaped[i \in 1..Len(text) + 1] ==
          IF i > Len(text) THEN <<>>
          ELSE (IF text[i] = Quote THEN <<Quote, Quote>> ELSE <<text[i]>>) \o escaped[i + 1]
    IN  <<Quote>> \o escaped[1] \o <<Quote>>

====
