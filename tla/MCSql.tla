------------------------------- MODULE MCSql -------------------------------
(* An instance of SqlSession for TLC: a table of two columns, one of them    *)
(* named like a keyword, and values whose texts hold quotes and semicolons. *)
EXTENDS SqlSession

MCKeyword ==
    [w \in {"CREATE", "TABLE", "INSERT", "INTO", "VALUES", "SELECT", "FROM", "WHERE", "UPDATE",
            "SET", "INTEGER", "REAL", "TEXT"} |-> w] @@ ("from" :> "FROM") @@ ("Set" :> "SET")

MCWords == DOMAIN MCKeyword \cup {"t"}
MCDigits == {"0", "5", "9"}
MCData == {<<"0">>, <<"-", "0">>}   \* the texts below bring the others
MCNames == {<<w>> : w \in MCWords}

sp == <<" ">>
Tricky == SQLString(<<Quote, ";">>)
Other == SQLString(<<>>)

Creates ==
    {<<"CREATE", " ", "TABLE", " ", "t", "(">> \o defs \o <<")", ";">> : defs \in
        {<<"from", " ", "REAL", ",", "t", " ", "TEXT">>,
         <<"t", " ", "TEXT", ",", "from", " ", "REAL">>,
         <<"t", " ", "TEXT", ",", "t", " ", "INTEGER">>}}

Inserts ==
    {<<"INSERT", " ", "INTO", " ", "t", "(">> \o cols \o <<")", "VALUES", "(">> \o vals
        \o <<")", ";">> :
        cols \in {<<"t", ",", "from">>, <<"from">>},
        vals \in {Tricky \o <<",", "0", ".", "5">>, Other \o <<",", "-", "0", ".", "0">>,
                  <<"0", ".", "5">>}}

Selects ==
    {<<"SELECT", " ">> \o cols \o <<" ", "FROM", " ", "t">> \o where \o <<";">> :
        cols \in {<<"*">>, <<"t", ",", "t">>, <<"from", ",", "t">>},
        where \in {<<>>, <<" ", "WHERE", " ", "t", "=">> \o Tricky,
                   <<" ", "WHERE", " ", "from", "=", "0", ".", "0", "0">>}}

Updates ==
    {<<"UPDATE", " ", "t", " ", "Set", " ">> \o sets \o <<" ", "WHERE", " ">> \o where \o <<";">> :
        sets \in {<<"t", "=">> \o Other \o <<",", "from", "=", "0", ".", "5">>,
                  <<"from", "=", "5", ".", "0">>, <<"t", "=", "5">>},
        where \in {<<"from", "=", "0", ".", "5">>, <<"t", "=">> \o Tricky,
                   <<"from", "=", "0">>}}

MCTexts == Creates \cup Inserts \cup Selects \cup Updates

\* One text of each form.
Misspelt ==
    {<<"CREATE", " ", "TABLE", " ", "t", "(", "from", " ", "REAL", ",", "t", " ", "TEXT", ")", ";">>,
     <<"INSERT", " ", "INTO", " ", "t", "(", "t", ",", "from", ")", "VALUES", "(">> \o Tricky
        \o <<",", "0", ".", "5", ")", ";">>,
     <<"SELECT", " ", "from", ",", "t", " ", "FROM", " ", "t", " ", "WHERE", " ", "t", "=">>
        \o Tricky \o <<";">>,
     <<"SELECT", " ", "*", " ", "FROM", " ", "t", ";">>,
     <<"UPDATE", " ", "t", " ", "Set", " ", "t", "=">> \o Other
        \o <<",", "from", "=", "5", " ", "WHERE", " ", "t", "=", "-", "5", ";">>}

Typos == {Quote, ";", " ", "-", "FROM", "WHERE", "t", ",", "9", "?"}

MCEdited ==
    LET Edits(text) ==
          {RemoveAt(text, i) : i \in DOMAIN text}
          \cup {ReplaceAt(text, i, a) : i \in DOMAIN text, a \in Typos}
          \cup {InsertAt(text, i, a) : i \in 1..Len(text) + 1, a \in Typos}
    IN  UNION {Edits(text) : text \in Misspelt} \cup {sp}

====
