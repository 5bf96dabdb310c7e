------------------------------ MODULE Database ------------------------------
(***************************************************************************)
(* The in-memory executor of server/dbms/database.go: tables with typed    *)
(* columns and positional rows, and the four statements.  What a statement *)
(* looks like once it is parsed is `statement' of parser.go.               *)
(***************************************************************************)
EXTENDS Integers, Sequences, FiniteSetsExt

CONSTANTS
    Names,        \* identifiers of tables and columns
    Data          \* what a value holds: a canonical numeral or a text

Types == {"INTEGER", "REAL", "TEXT"}
Value == [type : Types, data : Data]

\* The zero of Go's Value, and the two zeros of a float64.
ZeroValue == [type |-> "INTEGER", data |-> <<"0">>]
PlusZero == [type |-> "REAL", data |-> <<"0">>]
MinusZero == [type |-> "REAL", data |-> <<"-", "0">>]

ASSUME DatabaseAssumption == {<<"0">>, <<"-", "0">>} \subseteq Data

Column == [name : Names, type : Types]
Table == [columns : Seq(Column), rows : Seq(Seq(Value))]

Condition == [column : Names, literal : Value]

\* The parser gives an UPDATE as many columns as values, and a predicate.
Statement ==
    {s \in [operation : {"create", "insert", "select", "update"}, table : Names,
            definitions : Seq(Column), columns : Seq(Names), values : Seq(Value), all : BOOLEAN,
            predicate : {<<>>} \cup {<<p>> : p \in Condition}] :
        s.operation = "update" => Len(s.columns) = Len(s.values) /\ s.predicate # <<>>}

VARIABLES
    tables,       \* db.tables
    result        \* what the last Execute returned

dbVars == <<tables, result>>

Refused == [ok |-> FALSE]
Done == [ok |-> TRUE, columns |-> <<>>, types |-> <<>>, rows |-> <<>>]

DbInit == tables = << >> /\ result = Done

-----------------------------------------------------------------------------
\* A comparison of representations.
SameBits(v, w) == v = w

\* == of two Values: a negative zero equals a positive one.
Same(v, w) == v = w \/ {v, w} = {PlusZero, MinusZero}

\* The position of a column, 0 if there is none of that name.
columnIndex(t, name) ==
    LET named == {i \in DOMAIN t.columns : t.columns[i].name = name}
    IN  IF named = {} THEN 0 ELSE Min(named)

\* columnIndex followed by checkType.
checkType(t, name, v) ==
    /\ columnIndex(t, name) # 0
    /\ t.columns[columnIndex(t, name)].type = v.type

Distinct(names) == \A i, j \in DOMAIN names : names[i] = names[j] => i = j

\* Columns and values given pairwise: each column known, named once, and of the
\* type of its value.
Assignable(t, s) ==
    /\ Distinct(s.columns)
    /\ \A i \in DOMAIN s.columns : checkType(t, s.columns[i], s.values[i])

\* row with the listed columns set to their values.
Assigned(t, s, row) ==
    [n \in DOMAIN row |->
        LET given == {i \in DOMAIN s.columns : columnIndex(t, s.columns[i]) = n}
        IN  IF given = {} THEN row[n] ELSE s.values[CHOOSE i \in given : TRUE]]

Blank(t) == [n \in DOMAIN t.columns |-> ZeroValue]

\* row satisfies the WHERE clause, if there is one.
Selected(t, s, row) ==
    s.predicate # <<>> =>
        Same(row[columnIndex(t, s.predicate[1].column)], s.predicate[1].literal)

PredicateFits(t, s) ==
    s.predicate # <<>> => checkType(t, s.predicate[1].column, s.predicate[1].literal)

-----------------------------------------------------------------------------
CreateAccepted(s) ==
    /\ s.table \notin DOMAIN tables
    /\ \A i, j \in DOMAIN s.definitions : s.definitions[i].name = s.definitions[j].name => i = j

Created(s) == [columns |-> s.definitions, rows |-> <<>>]

\* Columns may be left out.
InsertAcceptedPartial(t, s) ==
    /\ Len(s.columns) = Len(s.values)
    /\ Assignable(t, s)

InsertAccepted(t, s) ==
    /\ Len(s.columns) = Len(s.values)
    /\ Assignable(t, s)
    /\ Len(s.columns) = Len(t.columns)

Inserted(t, s) == [t EXCEPT !.rows = Append(@, Assigned(t, s, Blank(t)))]

UpdateAccepted(t, s) == Assignable(t, s) /\ PredicateFits(t, s)

Updated(t, s) ==
    [t EXCEPT !.rows =
        [k \in DOMAIN @ |-> IF Selected(t, s, @[k]) THEN Assigned(t, s, @[k]) ELSE @[k]]]

\* The names a SELECT lists, * being all of them in the table's order.
Listed(t, s) ==
    IF s.all THEN [n \in DOMAIN t.columns |-> t.columns[n].name] ELSE s.columns

SelectAccepted(t, s) ==
    /\ \A i \in DOMAIN Listed(t, s) : columnIndex(t, Listed(t, s)[i]) # 0
    /\ PredicateFits(t, s)

Projected(t, names, row) == [i \in DOMAIN names |-> row[columnIndex(t, names[i])]]

\* The types come in the table's order.
SelectedRowsTableTypes(t, s) ==
    LET kept == SelectSeq(t.rows, LAMBDA row : Selected(t, s, row))
    IN  [ok |-> TRUE, columns |-> Listed(t, s),
         types |-> [i \in DOMAIN Listed(t, s) |-> t.columns[i].type],
         rows |-> [k \in DOMAIN kept |-> Projected(t, Listed(t, s), kept[k])]]

SelectedRows(t, s) ==
    LET kept == SelectSeq(t.rows, LAMBDA row : Selected(t, s, row))
    IN  [ok |-> TRUE, columns |-> Listed(t, s),
         types |-> [i \in DOMAIN Listed(t, s) |->
                       t.columns[columnIndex(t, Listed(t, s)[i])].type],
         rows |-> [k \in DOMAIN kept |-> Projected(t, Listed(t, s), kept[k])]]

-----------------------------------------------------------------------------
Store(name, t) ==
    tables' = [n \in DOMAIN tables \cup {name} |-> IF n = name THEN t ELSE tables[n]]

Refuse == result' = Refused /\ UNCHANGED tables

Create(s) ==
    /\ s.operation = "create" /\ CreateAccepted(s)
    /\ Store(s.table, Created(s)) /\ result' = Done

Insert(s) ==
    /\ s.operation = "insert" /\ s.table \in DOMAIN tables
    /\ InsertAccepted(tables[s.table], s)
    /\ Store(s.table, Inserted(tables[s.table], s)) /\ result' = Done

Update(s) ==
    /\ s.operation = "update" /\ s.table \in DOMAIN tables
    /\ UpdateAccepted(tables[s.table], s)
    /\ Store(s.table, Updated(tables[s.table], s)) /\ result' = Done

Select(s) ==
    /\ s.operation = "select" /\ s.table \in DOMAIN tables
    /\ SelectAccepted(tables[s.table], s)
    /\ result' = SelectedRows(tables[s.table], s) /\ UNCHANGED tables

\* Any check fails: all of them come before the first change.
Invalid(s) ==
    /\ CASE s.operation = "create" -> ~CreateAccepted(s)
         [] s.table \notin DOMAIN tables -> TRUE
         [] s.operation = "insert" -> ~InsertAccepted(tables[s.table], s)
         [] s.operation = "update" -> ~UpdateAccepted(tables[s.table], s)
         [] OTHER -> ~SelectAccepted(tables[s.table], s)
    /\ Refuse

Execute(s) == Create(s) \/ Insert(s) \/ Update(s) \/ Select(s) \/ Invalid(s)

\* The executor alone, fed with any statement.
DbNext == \E s \in Statement : Execute(s)
DbSpec == DbInit /\ [][DbNext]_dbVars

-----------------------------------------------------------------------------
WellFormed(t) ==
    /\ \A i, j \in DOMAIN t.columns : t.columns[i].name = t.columns[j].name => i = j
    /\ \A k \in DOMAIN t.rows :
          /\ Len(t.rows[k]) = Len(t.columns)
          /\ \A n \in DOMAIN t.columns : t.rows[k][n].type = t.columns[n].type

\* A row has one value per column of its table, each of the column's type, and
\* column names are unique, whatever statements were executed in whatever
\* column order: rows are positional and INSERT and UPDATE name their columns.
RowsTyped == \A name \in DOMAIN tables : WellFormed(tables[name])

====
