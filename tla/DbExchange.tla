----------------------------- MODULE DbExchange -----------------------------
(***************************************************************************)
(* Clients and the server of the DBMS over their connections.              *)
(***************************************************************************)
EXTENDS DbClient, DbServer, FiniteSets

vars == <<wireVars, clientVars, serverVars>>

Init == WireInit /\ ClientInit /\ ServerInit

Next ==
    \/ ClientNext /\ UNCHANGED serverVars
    \/ ServerNext /\ UNCHANGED clientVars

Spec == Init /\ [][Next]_vars

\* The client's side goes on: every deadline passes in the end, and a mutex
\* that is free is taken.  The server may do anything, or nothing.
ClientFairness == \A c \in Callers : WF_vars(Exec(c) /\ UNCHANGED serverVars)

\* The server's goroutines go on; clients may do anything, or nothing.
ServerFairness ==
    /\ WF_vars(Serve /\ UNCHANGED clientVars)
    /\ \A k \in Conns : WF_vars(Handle(k) /\ UNCHANGED clientVars)

-----------------------------------------------------------------------------
Executed == {executed[i] : i \in DOMAIN executed}

\* A response that Exec returns is the response to its own statement: the
\* protocol has no request IDs, so one connection must never carry the reply
\* of an exchange that its client gave up.
ResponseMatches ==
    \A s \in Statements : result[s].kind = "answer" => result[s].of = s

\* What Exec returns tells what became of the statement, whatever fails and
\* reconnects.  A statement whose response was returned is in the database and
\* stays there, whatever other connections execute.  One whose error does not
\* say "outcome unknown" is not and never will be.  None is executed twice:
\* nothing is replayed.
OutcomeIsTrue ==
    /\ Answered \subseteq Executed
    /\ \A s \in Statements : result[s] = Refused => s \notin Executed
    /\ \A i, j \in DOMAIN executed : executed[i] = executed[j] => i = j

\* After Close has visited the connections no handler has an open one, although
\* Accept may have returned another before and its handler start later.  Once
\* Serve has returned, no goroutine works for it and the database is at rest.
StoppedIsQuiet ==
    /\ stopped => \A k \in Workers : "server" \notin ends[k]
    /\ serve = "returned" => Workers = {} /\ executing = Nobody

\* Exec returns if its own goroutine goes on, whether or not the server answers.
ExecReturns == ClientFairness => \A c \in Callers : pc[c] # "idle" ~> pc[c] = "idle"

\* A server whose context is done stops serving if its goroutines go on,
\* whatever its clients do.
ServeStops == ServerFairness => (stopped ~> serve = "returned")

====
