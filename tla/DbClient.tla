------------------------------ MODULE DbClient ------------------------------
(***************************************************************************)
(* target-service/dbclient/client.go: goroutines that share clients, each  *)
(* with one persistent connection guarded by its mutex.                    *)
(***************************************************************************)
EXTENDS DbWire

CONSTANTS
    Clients,
    ClientOf,     \* the client a caller uses
    Free          \* nobody holds a client's mutex

ASSUME DbClientAssumption == ClientOf \in [Callers -> Clients] /\ Free \notin Callers

VARIABLES
    pc,           \* where a caller is in Exec
    statement,    \* what it executes
    called,       \* how many calls of Exec there have been
    cancelled,    \* its context is done
    mutex,        \* who holds c.mu
    conn,         \* c.conn, or Nobody
    closed,       \* c.closed
    expired,      \* the deadline of a connection has passed
    callbacks,    \* connections whose AfterFunc callback is running
    result        \* what Exec returned

clientVars == <<pc, statement, called, cancelled, mutex, conn, closed, expired, callbacks, result>>

\* Exec returned: nothing yet, an error before anything was written, an error
\* after that, or the response to the statement named by "of".
NoResult == [kind |-> "none"]
Refused == [kind |-> "refused"]
Unknown == [kind |-> "unknown"]
Answer(s) == [kind |-> "answer", of |-> s]

\* The program points at which the deadline and the AfterFunc are in force.
InExchange == {"length", "payload", "replyLength", "replyPayload"}

ClientInit ==
    /\ pc = [c \in Callers |-> "idle"]
    /\ statement = [c \in Callers |-> NoStatement]
    /\ called = 0
    /\ cancelled = [c \in Callers |-> FALSE]
    /\ mutex = [d \in Clients |-> Free]
    /\ conn = [d \in Clients |-> Nobody]
    /\ closed = [d \in Clients |-> FALSE]
    /\ expired = [k \in Conns |-> FALSE]
    /\ callbacks = {}
    /\ result = [s \in Statements |-> NoResult]

Conn(c) == conn[ClientOf[c]]
Answered == {s \in Statements : result[s].kind = "answer"}

Goes(c, to) == pc' = [pc EXCEPT ![c] = to]

\* Exec returns r, gives the mutex back and stops the AfterFunc.
Return(c, r) ==
    /\ Goes(c, "idle")
    /\ cancelled' = [cancelled EXCEPT ![c] = FALSE]
    /\ mutex' = [mutex EXCEPT ![ClientOf[c]] = Free]
    /\ result' = [result EXCEPT ![statement[c]] = r]
    /\ statement' = [statement EXCEPT ![c] = NoStatement]

\* c.drop() closes the connection of client d.
Drop(d) ==
    /\ ends' = IF conn[d] = Nobody THEN ends ELSE [ends EXCEPT ![conn[d]] = @ \ {"client"}]
    /\ conn' = [conn EXCEPT ![d] = Nobody]

-----------------------------------------------------------------------------
\* Exec(ctx, sql) with a statement that passes the checks before the mutex.
Call(c) ==
    /\ pc[c] = "idle" /\ called < MaxCalls
    /\ called' = called + 1
    /\ statement' = [statement EXCEPT ![c] = called + 1]
    /\ Goes(c, "lock")
    /\ UNCHANGED <<wireVars, cancelled, mutex, conn, closed, expired, callbacks, result>>

\* c.mu.Lock, and the checks of c.closed, ctx.Err and c.conn.
Lock(c) ==
    /\ pc[c] = "lock"
    /\ mutex[ClientOf[c]] = Free
    /\ \/ /\ closed[ClientOf[c]] \/ cancelled[c]
          /\ Return(c, Refused)
       \/ /\ ~closed[ClientOf[c]] /\ ~cancelled[c]
          /\ mutex' = [mutex EXCEPT ![ClientOf[c]] = c]
          /\ Goes(c, IF Conn(c) = Nobody THEN "dial" ELSE "arm")
          /\ UNCHANGED <<statement, cancelled, result>>
    /\ UNCHANGED <<wireVars, called, conn, closed, expired, callbacks>>

\* DialContext; the connection waits in the listener's backlog.
Dial(c) ==
    /\ pc[c] = "dial"
    /\ listening
    /\ dialed < MaxConns
    /\ dialed' = dialed + 1
    /\ ends' = [ends EXCEPT ![dialed + 1] = {"client", "server"}]
    /\ backlog' = Append(backlog, dialed + 1)
    /\ conn' = [conn EXCEPT ![ClientOf[c]] = dialed + 1]
    /\ Goes(c, "arm")
    /\ UNCHANGED <<listening, requests, replies, statement, called, cancelled, mutex, closed, expired,
                   callbacks, result>>

\* No listener, a full backlog until the timeout, or a done context.
DialFails(c) ==
    /\ pc[c] = "dial"
    /\ Return(c, Refused)
    /\ UNCHANGED <<wireVars, called, conn, closed, expired, callbacks>>

\* SetDeadline clears an old deadline; AfterFunc runs its callback at once
\* when the context is done already.
Arm(c) ==
    /\ pc[c] = "arm"
    /\ expired' = [expired EXCEPT ![Conn(c)] = FALSE]
    /\ callbacks' = callbacks \cup {k \in {Conn(c)} : cancelled[c]}
    /\ Goes(c, "length")
    /\ UNCHANGED <<wireVars, statement, called, cancelled, mutex, conn, closed, result>>

\* SetDeadline fails: nothing has been written.
ArmFails(c) ==
    /\ pc[c] = "arm"
    /\ Return(c, Refused)
    /\ Drop(ClientOf[c])
    /\ UNCHANGED <<dialed, backlog, listening, requests, replies, called, closed, expired,
                   callbacks>>

\* writeAll of the length prefix, then of the statement.
Write(c, from, part, to) ==
    /\ pc[c] = from
    /\ ~expired[Conn(c)]
    /\ Send(requests, "server", Conn(c), statement[c], part)
    /\ Goes(c, to)
    /\ UNCHANGED <<dialed, ends, backlog, listening, replies, statement, called, cancelled, mutex, conn,
                   closed, expired, callbacks, result>>

WriteLength(c) == Write(c, "length", "length", "payload")
WritePayload(c) == Write(c, "payload", "payload", "replyLength")

ReadLength(c) ==
    /\ pc[c] = "replyLength"
    /\ ~expired[Conn(c)]
    /\ Receive(replies, Conn(c))
    /\ Goes(c, "replyPayload")
    /\ UNCHANGED <<dialed, ends, backlog, listening, requests, statement, called, cancelled, mutex, conn,
                   closed, expired, callbacks, result>>

\* The payload decodes and Exec returns it, an ok result or the DBMS's error.
ReadPayload(c) ==
    /\ pc[c] = "replyPayload"
    /\ ~expired[Conn(c)]
    /\ Receive(replies, Conn(c))
    /\ Return(c, Answer(Head(replies[Conn(c)]).of))
    /\ UNCHANGED <<dialed, ends, backlog, listening, requests, called, conn, closed, expired,
                   callbacks>>

\* An exchange that fails at one of the points in "at" keeps its connection.
FailKeeping(c, at) ==
    /\ pc[c] \in InExchange
    /\ Return(c, Unknown)
    /\ IF pc[c] \in at THEN UNCHANGED <<ends, conn>> ELSE Drop(ClientOf[c])
    /\ UNCHANGED <<dialed, backlog, listening, requests, replies, called, closed, expired,
                   callbacks>>

FailKeepsReading(c) == FailKeeping(c, {"replyLength", "replyPayload"})
\* A failed exchange is tried again on a new connection.
FailRetries(c) ==
    /\ pc[c] \in InExchange
    /\ Goes(c, "dial")
    /\ Drop(ClientOf[c])
    /\ UNCHANGED <<dialed, backlog, listening, requests, replies, statement, called, cancelled, mutex,
                   closed, expired, callbacks, result>>

\* The exchange has no deadline: only a closed peer ends it.
FailOnHangup(c) ==
    /\ pc[c] \in InExchange
    /\ expired[Conn(c)] \/ "server" \notin ends[Conn(c)]
    /\ Return(c, Unknown)
    /\ Drop(ClientOf[c])
    /\ UNCHANGED <<dialed, backlog, listening, requests, replies, called, closed, expired,
                   callbacks>>

\* Any I/O error between the deadline and the response: the deadline passes,
\* the callback moves it, the peer closes.  The connection is dropped.  So it is
\* after a response of a wrong size or form, the only error after the header
\* whose text does not call the outcome unknown; this server sends none.
Fail(c) ==
    /\ pc[c] \in InExchange
    /\ Return(c, Unknown)
    /\ Drop(ClientOf[c])
    /\ UNCHANGED <<dialed, backlog, listening, requests, replies, called, closed, expired,
                   callbacks>>

\* The context of a call is done.
Cancel(c) ==
    /\ pc[c] # "idle" /\ ~cancelled[c]
    /\ cancelled' = [cancelled EXCEPT ![c] = TRUE]
    /\ callbacks' = callbacks \cup {k \in {Conn(c)} : pc[c] \in InExchange}
    /\ UNCHANGED <<wireVars, pc, statement, called, mutex, conn, closed, expired, result>>

\* The callback sets the deadline of its connection to now, perhaps after the
\* call that registered it has returned.
Callback(k) ==
    /\ k \in callbacks
    /\ callbacks' = callbacks \ {k}
    /\ expired' = [expired EXCEPT ![k] = TRUE]
    /\ UNCHANGED <<wireVars, pc, statement, called, cancelled, mutex, conn, closed, result>>

\* Close of a client.
CloseClient(d) ==
    /\ mutex[d] = Free /\ ~closed[d]
    /\ closed' = [closed EXCEPT ![d] = TRUE]
    /\ Drop(d)
    /\ UNCHANGED <<dialed, backlog, listening, requests, replies, pc, statement, called, cancelled, mutex,
                   expired, callbacks, result>>

\* The steps of one Exec.
Exec(c) ==
    \/ Lock(c) \/ Dial(c) \/ DialFails(c) \/ Arm(c) \/ ArmFails(c)
    \/ WriteLength(c) \/ WritePayload(c) \/ ReadLength(c) \/ ReadPayload(c) \/ Fail(c)

ClientNext ==
    \/ \E c \in Callers : Call(c) \/ Exec(c) \/ Cancel(c)
    \/ \E k \in Conns : Callback(k)
    \/ \E d \in Clients : CloseClient(d)

====
