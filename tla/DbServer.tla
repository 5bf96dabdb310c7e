------------------------------ MODULE DbServer ------------------------------
(***************************************************************************)
(* Serve, handle and Close of server/dbms/internal/server/server.go and    *)
(* the executor of protocol.go: one goroutine per connection, one database *)
(* behind a mutex.                                                         *)
(***************************************************************************)
EXTENDS DbWire

VARIABLES
    serve,        \* where Serve is
    accepted,     \* the connection Accept returned, not registered yet
    stopped,      \* s.closed
    handler,      \* where the goroutine of a connection is
    length,       \* the frame length it has read
    payload,      \* the payload it has read
    executing,    \* which handler holds the executor's mutex
    snapshot,     \* the database as that handler's statement found it
    executed      \* the database: the statements that made it

serverVars == <<serve, accepted, stopped, handler, length, payload, executing, snapshot,
                executed>>

\* The goroutines Serve has started and that have not returned.
Workers == {k \in Conns : handler[k] \notin {"none", "gone"}}

ServerInit ==
    /\ serve = "accept"
    /\ accepted = Nobody
    /\ stopped = FALSE
    /\ handler = [k \in Conns |-> "none"]
    /\ length = [k \in Conns |-> NoStatement]
    /\ payload = [k \in Conns |-> NoStatement]
    /\ executing = Nobody
    /\ snapshot = [k \in Conns |-> <<>>]
    /\ executed = <<>>

HandlerGoes(k, from, to) == handler[k] = from /\ handler' = [handler EXCEPT ![k] = to]

\* Close the server's end of the connections in S.
Hangup(S) == ends' = [k \in Conns |-> IF k \in S THEN ends[k] \ {"server"} ELSE ends[k]]

\* Server.Close, under s.mu: no new connections, every registered one closed;
\* the kernel resets the backlog.
Stop ==
    /\ stopped' = TRUE
    /\ listening' = FALSE
    /\ backlog' = <<>>
    /\ Hangup(Workers \cup {backlog[i] : i \in DOMAIN backlog})

-----------------------------------------------------------------------------
\* The watcher goroutine of Serve: the context is done.
StopOnSignal ==
    /\ ~stopped
    /\ Stop
    /\ UNCHANGED <<dialed, requests, replies, serve, accepted, handler, length, payload,
                   executing, snapshot, executed>>

Accept ==
    /\ serve = "accept"
    /\ backlog # <<>>
    /\ accepted' = Head(backlog)
    /\ backlog' = Tail(backlog)
    /\ serve' = "register"
    /\ UNCHANGED <<dialed, ends, listening, requests, replies, stopped, handler, length, payload,
                   executing, snapshot, executed>>

\* Accept fails because the listener is closed, or otherwise; the deferred
\* Close comes before the wait for the workers.
AcceptFails ==
    /\ serve = "accept"
    /\ serve' = "wait"
    /\ Stop
    /\ UNCHANGED <<dialed, requests, replies, accepted, handler, length, payload, executing,
                   snapshot, executed>>

\* A connection gets its goroutine whether the server is closed or not.
RegisterAlways ==
    /\ serve = "register"
    /\ accepted' = Nobody
    /\ handler' = [handler EXCEPT ![accepted] = "length"]
    /\ serve' = "accept"
    /\ UNCHANGED <<wireVars, stopped, length, payload, executing, snapshot, executed>>

\* Under s.mu after Accept: a server that has been closed meanwhile hangs up,
\* else the connection gets its goroutine.
Register ==
    /\ serve = "register"
    /\ accepted' = Nobody
    /\ \/ /\ stopped
          /\ Hangup({accepted})
          /\ serve' = "wait"
          /\ UNCHANGED handler
       \/ /\ ~stopped
          /\ handler' = [handler EXCEPT ![accepted] = "length"]
          /\ serve' = "accept"
          /\ UNCHANGED ends
    /\ UNCHANGED <<dialed, backlog, listening, requests, replies, stopped, length, payload,
                   executing, snapshot, executed>>

\* Serve returns without waiting for its workers.
ServeReturnsEarly ==
    /\ serve = "wait"
    /\ serve' = "returned"
    /\ UNCHANGED <<wireVars, accepted, stopped, handler, length, payload, executing, snapshot,
                   executed>>

\* s.workers.Wait() is over.
ServeReturns ==
    /\ serve = "wait"
    /\ Workers = {}
    /\ serve' = "returned"
    /\ UNCHANGED <<wireVars, accepted, stopped, handler, length, payload, executing, snapshot,
                   executed>>

\* readFrame: the length, then the payload.
ReadFrameLength(k) ==
    /\ HandlerGoes(k, "length", "payload")
    /\ "server" \in ends[k]
    /\ Receive(requests, k)
    /\ length' = [length EXCEPT ![k] = Head(requests[k]).of]
    /\ UNCHANGED <<dialed, ends, backlog, listening, replies, serve, accepted, stopped, payload,
                   executing, snapshot, executed>>

ReadFramePayload(k) ==
    /\ HandlerGoes(k, "payload", "mutex")
    /\ "server" \in ends[k]
    /\ Receive(requests, k)
    /\ payload' = [payload EXCEPT ![k] = Head(requests[k]).of]
    /\ UNCHANGED <<dialed, ends, backlog, listening, replies, serve, accepted, stopped, length,
                   executing, snapshot, executed>>

\* executor.execute takes the mutex and the statement works on the database.
ExecuteBegins(k) ==
    /\ executing = Nobody
    /\ executing' = k
    /\ HandlerGoes(k, "mutex", "execute")
    /\ snapshot' = [snapshot EXCEPT ![k] = executed]
    /\ UNCHANGED <<wireVars, serve, accepted, stopped, length, payload, executed>>

ExecuteEnds(k) ==
    /\ HandlerGoes(k, "execute", "replyLength")
    /\ executing' = Nobody
    /\ executed' = Append(snapshot[k], payload[k])
    /\ snapshot' = [snapshot EXCEPT ![k] = <<>>]
    /\ UNCHANGED <<wireVars, serve, accepted, stopped, length, payload>>

\* writeFrame: the length, then the payload.
WriteFrameLength(k) ==
    /\ HandlerGoes(k, "replyLength", "replyPayload")
    /\ "server" \in ends[k]
    /\ Send(replies, "client", k, payload[k], "length")
    /\ UNCHANGED <<dialed, ends, backlog, listening, requests, serve, accepted, stopped, length,
                   payload, executing, snapshot, executed>>

WriteFramePayload(k) ==
    /\ HandlerGoes(k, "replyPayload", "length")
    /\ "server" \in ends[k]
    /\ Send(replies, "client", k, payload[k], "payload")
    /\ length' = [length EXCEPT ![k] = NoStatement]
    /\ payload' = [payload EXCEPT ![k] = NoStatement]
    /\ UNCHANGED <<dialed, ends, backlog, listening, requests, serve, accepted, stopped,
                   executing, snapshot, executed>>

\* The handler returns without workers.Done.
HandlerFailsNotDone(k) ==
    /\ handler[k] \in {"length", "payload", "replyLength", "replyPayload"}
    /\ Hangup({k})
    /\ UNCHANGED <<dialed, backlog, listening, requests, replies, serverVars>>

\* A deadline passes, the client hangs up or Close closed the connection: the
\* handler closes it and returns.  A request that stays unanswered for longer
\* than the read deadline ends the connection as well.
HandlerFails(k) ==
    /\ handler[k] \in {"length", "payload", "replyLength", "replyPayload"}
    /\ handler' = [handler EXCEPT ![k] = "gone"]
    /\ Hangup({k})
    /\ length' = [length EXCEPT ![k] = NoStatement]
    /\ payload' = [payload EXCEPT ![k] = NoStatement]
    /\ UNCHANGED <<dialed, backlog, listening, requests, replies, serve, accepted, stopped,
                   executing, snapshot, executed>>

Handle(k) ==
    \/ ReadFrameLength(k) \/ ReadFramePayload(k) \/ ExecuteBegins(k) \/ ExecuteEnds(k)
    \/ WriteFrameLength(k) \/ WriteFramePayload(k) \/ HandlerFails(k)

Serve == Accept \/ AcceptFails \/ Register \/ ServeReturns

ServerNext == StopOnSignal \/ Serve \/ \E k \in Conns : Handle(k)

====
