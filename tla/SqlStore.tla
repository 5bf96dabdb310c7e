------------------------------ MODULE SqlStore ------------------------------
(***************************************************************************)
(* What spec/sql.md promises of the executor: a table is a bag of records, *)
(* a record gives every column name a value, and row order is unspecified. *)
(* Each step performs the statement it is given, at once or not at all.    *)
(***************************************************************************)
EXTENDS Integers, Sequences, Bags, Functions

VARIABLES
    statement,    \* the statement performed last
    store,        \* table name -> [types : column -> type, rows : bag of records]
    answer        \* its answer: refused, done, or a bag of projected rows

NothingSaid == [kind |-> "done"]
No == [kind |-> "refused"]

Init == store = << >> /\ answer = NothingSaid

\* An assignment list names known columns, each once, with values of their
\* types.
Proper(types, s) ==
    /\ Len(s.columns) = Len(s.values)
    /\ IsInjective(s.columns)
    /\ \A i \in DOMAIN s.columns :
          s.columns[i] \in DOMAIN types /\ types[s.columns[i]] = s.values[i].type

Where(types, s) ==
    s.predicate # <<>> => /\ s.predicate[1].column \in DOMAIN types
                          /\ types[s.predicate[1].column] = s.predicate[1].literal.type

\* Equality of stored values: numbers are equal when they denote the same one.
Equal(v, w) ==
    \/ v = w
    \/ v.type = "REAL" /\ w.type = "REAL" /\ {v.data, w.data} = {<<"0">>, <<"-", "0">>}

Holds(record, s) ==
    s.predicate # <<>> => Equal(record[s.predicate[1].column], s.predicate[1].literal)

\* record with the values of the list in the columns it names.
With(record, s) ==
    [c \in DOMAIN record |->
        IF \E i \in DOMAIN s.columns : s.columns[i] = c
        THEN s.values[CHOOSE i \in DOMAIN s.columns : s.columns[i] = c]
        ELSE record[c]]

\* The bag of the images of a bag's elements.
Image(f(_), bag) ==
    [y \in {f(x) : x \in DOMAIN bag} |->
        BagCardinality([x \in {z \in DOMAIN bag : f(z) = y} |-> bag[x]])]

Known(s) == s.table \in DOMAIN store

-----------------------------------------------------------------------------
Allowed(s) ==
    CASE s.operation = "none" -> FALSE   \* the text is not a statement
      [] s.operation = "create" ->
           ~Known(s) /\ IsInjective([i \in DOMAIN s.definitions |-> s.definitions[i].name])
      [] ~Known(s) -> FALSE
      [] s.operation = "insert" ->
           /\ Proper(store[s.table].types, s)
           /\ {s.columns[i] : i \in DOMAIN s.columns} = DOMAIN store[s.table].types
      [] s.operation = "update" ->
           Proper(store[s.table].types, s) /\ Where(store[s.table].types, s)
      [] OTHER ->
           /\ s.all \/ \A i \in DOMAIN s.columns : s.columns[i] \in DOMAIN store[s.table].types
           /\ Where(store[s.table].types, s)

Put(name, content) ==
    store' = [n \in DOMAIN store \cup {name} |-> IF n = name THEN content ELSE store[n]]

Perform(s) ==
    \/ ~Allowed(s) /\ answer' = No /\ UNCHANGED store
    \/ /\ Allowed(s) /\ s.operation = "create"
       /\ Put(s.table, [types |-> [c \in {s.definitions[i].name : i \in DOMAIN s.definitions} |->
                                      s.definitions[CHOOSE i \in DOMAIN s.definitions :
                                                       s.definitions[i].name = c].type],
                        rows |-> EmptyBag])
       /\ answer' = NothingSaid
    \/ /\ Allowed(s) /\ s.operation = "insert"
       /\ Put(s.table, [store[s.table] EXCEPT !.rows =
                           @ (+) SetToBag({[c \in DOMAIN store[s.table].types |->
                                 s.values[CHOOSE i \in DOMAIN s.columns : s.columns[i] = c]]})])
       /\ answer' = NothingSaid
    \/ /\ Allowed(s) /\ s.operation = "update"
       /\ Put(s.table, [store[s.table] EXCEPT !.rows =
                           Image(LAMBDA r : IF Holds(r, s) THEN With(r, s) ELSE r, @)])
       /\ answer' = NothingSaid
    \/ /\ Allowed(s) /\ s.operation = "select"
       /\ answer' = [kind |-> "rows",
                     rows |-> Image(LAMBDA r : IF s.all THEN r
                                               ELSE [i \in DOMAIN s.columns |-> r[s.columns[i]]],
                                    [r \in {x \in DOMAIN store[s.table].rows : Holds(x, s)} |->
                                        store[s.table].rows[r]])]
       /\ UNCHANGED store

Next == Perform(statement')
Spec == Init /\ [][Next]_<<statement, store, answer>>

====
