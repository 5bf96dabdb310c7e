------------------------------- MODULE DbWire -------------------------------
(***************************************************************************)
(* The Unix stream connections between Target Service's DBMS client and    *)
(* the DBMS server.  A frame travels as its length prefix and its payload; *)
(* both name the statement they belong to.                                 *)
(***************************************************************************)
EXTENDS Integers, Sequences

CONSTANTS
    Callers,      \* goroutines that call Exec
    MaxCalls,     \* Exec calls
    MaxConns      \* dials

ASSUME DbWireAssumption == MaxCalls \in Nat /\ MaxConns \in Nat

Statements == 1..MaxCalls   \* the SQL of the n-th call of Exec
NoStatement == 0
Conns == 1..MaxConns
Nobody == 0                 \* no connection

VARIABLES
    dialed,       \* connections 1..dialed exist
    ends,         \* which ends of a connection are not closed
    backlog,      \* connections not accepted yet
    listening,    \* the server's listener is open
    requests,     \* bytes on the way to the server
    replies       \* bytes on the way to the client

wireVars == <<dialed, ends, backlog, listening, requests, replies>>

WireInit ==
    /\ dialed = 0
    /\ ends = [k \in Conns |-> {}]
    /\ backlog = <<>>
    /\ listening = TRUE
    /\ requests = [k \in Conns |-> <<>>]
    /\ replies = [k \in Conns |-> <<>>]

\* write(2) of one part of a frame; a closed peer fails it.
Send(stream, peer, k, s, p) ==
    /\ peer \in ends[k]
    /\ stream' = [stream EXCEPT ![k] = Append(@, [of |-> s, part |-> p])]

\* io.ReadFull of the next part, which is taken for part p whatever it is.
Receive(stream, k) ==
    /\ stream[k] # <<>>
    /\ stream' = [stream EXCEPT ![k] = Tail(@)]

====
