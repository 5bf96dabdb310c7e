------------------------------- MODULE Broker -------------------------------
(***************************************************************************)
(* The TCP message broker, broker/main.go.                                 *)
(*                                                                         *)
(* One goroutine per connection (handle) scans the peer's lines.  SUB      *)
(* edits the subscriber table under b.mu.  PUB takes a snapshot of the     *)
(* topic's subscribers under b.mu, starts one delivery goroutine per       *)
(* recipient and waits for all of them.  A delivery holds the recipient's  *)
(* writeMu while it writes; when the write fails it releases writeMu,      *)
(* closes the recipient's connection and removes the recipient.            *)
(*                                                                         *)
(* A payload is identified by its publisher and the number of its line in  *)
(* the publisher's stream.  What a subscriber can read is kept as the      *)
(* sequence of lines that its connection carries: a line that ends up      *)
(* holding bytes of two writes is recorded as not intact.                  *)
(***************************************************************************)
EXTENDS Integers, Sequences

CONSTANTS
    Clients,      \* accepted connections, one client object each
    Topics,
    Vocabulary,   \* Vocabulary[c]: the commands the peer of c may write
    MaxLines,     \* MaxLines[c]: bound on the lines the peer of c writes
    Mortal,       \* clients whose peer may close or die
    Slow,         \* clients whose peer may stop reading for over a second
    NoMessage     \* a free writeMu

\* A line as handle classifies it: OTHER stands for every line that is
\* ignored, LONG for a line above the scanner's 1 MiB buffer.
Command == [op : {"SUB", "PUB", "OTHER", "LONG"}, topic : Topics]

\* What a delivery writes: "MSG " + topic + " " + payload.
Message == [from : Clients, topic : Topics, n : Nat, whole : BOOLEAN]

ASSUME BrokerAssumption ==
    /\ Vocabulary \in [Clients -> SUBSET Command]
    /\ MaxLines \in [Clients -> Nat]
    /\ Mortal \subseteq Clients /\ Slow \subseteq Clients
    /\ NoMessage \notin Message

VARIABLES
    conn,         \* the broker's end of each connection
    gone,         \* has the peer closed its end, or died
    written,      \* number of lines the peer has written
    wire,         \* lines in the socket, not yet read by the scanner
    scanner,      \* lines in the scanner's buffer; the head is the current one
    handler,      \* where the handle goroutine is
    subscribers,  \* b.subscribers
    deliveries,   \* the delivery goroutines: what each sends, to whom, how far
    writeMu,      \* writeMu[c]: the message whose delivery holds c.writeMu
    tail,         \* messages with unterminated bytes at the end of c's stream
    lines         \* the terminated lines of c's stream

peerVars   == <<gone, written>>
readVars   == <<wire, scanner>>
streamVars == <<writeMu, tail, lines>>
vars == <<conn, peerVars, readVars, handler, subscribers, deliveries, streamVars>>

Line == [op : {"SUB", "PUB", "OTHER", "LONG"}, topic : Topics,
         n : Nat, whole : BOOLEAN]

Delivery == [msg : Message, to : Clients,
             stage : {"wait", "write", "partial", "failed", "closed"}]

TypeOK ==
    /\ conn \in [Clients -> {"new", "open", "closed"}]
    /\ gone \in [Clients -> BOOLEAN]
    /\ written \in [Clients -> Nat]
    /\ wire \in [Clients -> Seq(Line)]
    /\ scanner \in [Clients -> Seq(Line)]
    /\ handler \in [Clients -> {"none", "scan", "publish", "ending", "removed", "done"}]
    /\ subscribers \in [Topics -> SUBSET Clients]
    /\ deliveries \subseteq Delivery
    /\ writeMu \in [Clients -> Message \cup {NoMessage}]
    /\ tail \in [Clients -> SUBSET Message]
    /\ lines \in [Clients -> Seq([msg : Message, intact : BOOLEAN])]

Init ==
    /\ conn = [c \in Clients |-> "new"]
    /\ gone = [c \in Clients |-> FALSE]
    /\ written = [c \in Clients |-> 0]
    /\ wire = [c \in Clients |-> <<>>]
    /\ scanner = [c \in Clients |-> <<>>]
    /\ handler = [c \in Clients |-> "none"]
    /\ subscribers = [t \in Topics |-> {}]
    /\ deliveries = {}
    /\ writeMu = [c \in Clients |-> NoMessage]
    /\ tail = [c \in Clients |-> {}]
    /\ lines = [c \in Clients |-> <<>>]

-----------------------------------------------------------------------------
(* The peers: the code at the other end of a connection.                   *)

LineOf(c, cmd, whole) ==
    [op |-> cmd.op, topic |-> cmd.topic, n |-> written[c] + 1, whole |-> whole]

\* The peer writes one newline-terminated line.
PeerWrite(c) ==
    /\ ~gone[c] /\ conn[c] # "closed" /\ written[c] < MaxLines[c]
    /\ \E cmd \in Vocabulary[c] :
          wire' = [wire EXCEPT ![c] = Append(@, LineOf(c, cmd, TRUE))]
    /\ written' = [written EXCEPT ![c] = @ + 1]
    /\ UNCHANGED <<conn, gone, scanner, handler, subscribers, deliveries, streamVars>>

\* The peer closes or dies between two lines.
PeerClose(c) ==
    /\ ~gone[c] /\ c \in Mortal
    /\ gone' = [gone EXCEPT ![c] = TRUE]
    /\ UNCHANGED <<conn, written, readVars, handler, subscribers, deliveries, streamVars>>

\* The peer dies in the middle of a line: only a part of it was sent.
PeerTear(c) ==
    /\ ~gone[c] /\ c \in Mortal /\ conn[c] # "closed" /\ written[c] < MaxLines[c]
    /\ \E cmd \in Vocabulary[c] :
          wire' = [wire EXCEPT ![c] = Append(@, LineOf(c, cmd, FALSE))]
    /\ written' = [written EXCEPT ![c] = @ + 1]
    /\ gone' = [gone EXCEPT ![c] = TRUE]
    /\ UNCHANGED <<conn, scanner, handler, subscribers, deliveries, streamVars>>

-----------------------------------------------------------------------------
(* serve and handle: one goroutine per connection.                         *)

Accept(c) ==
    /\ conn[c] = "new"
    /\ conn' = [conn EXCEPT ![c] = "open"]
    /\ handler' = [handler EXCEPT ![c] = "scan"]
    /\ UNCHANGED <<peerVars, readVars, subscribers, deliveries, streamVars>>

\* scanner.Scan reads from the socket only when its buffer holds no line.
Fill(c) ==
    /\ handler[c] = "scan" /\ conn[c] = "open"
    /\ scanner[c] = <<>> /\ wire[c] # <<>>
    /\ scanner' = [scanner EXCEPT ![c] = wire[c]]
    /\ wire' = [wire EXCEPT ![c] = <<>>]
    /\ UNCHANGED <<conn, peerVars, handler, subscribers, deliveries, streamVars>>

\* Scan hands out the next buffered line, also after the connection was
\* closed.  At the end of the input it hands out an unterminated rest too.
Scans(c, ops) ==
    handler[c] = "scan" /\ scanner[c] # <<>> /\ Head(scanner[c]).op \in ops

\* Handles a line that changes nothing; an unterminated line may have been
\* cut before it became a command.
Ignore(c) ==
    /\ \/ Scans(c, {"OTHER"})
       \/ Scans(c, {"SUB", "PUB", "LONG"}) /\ ~Head(scanner[c]).whole
    /\ scanner' = [scanner EXCEPT ![c] = Tail(@)]
    /\ UNCHANGED <<conn, peerVars, wire, handler, subscribers, deliveries, streamVars>>

\* subscribe(c, topic), under b.mu.
Subscribe(c) ==
    /\ Scans(c, {"SUB"})
    /\ subscribers' = [subscribers EXCEPT ![Head(scanner[c]).topic] = @ \cup {c}]
    /\ scanner' = [scanner EXCEPT ![c] = Tail(@)]
    /\ UNCHANGED <<conn, peerVars, wire, handler, deliveries, streamVars>>

\* publish(topic, payload): the snapshot of the subscribers under b.mu and
\* one delivery goroutine for each of them.
Publish(p) ==
    /\ Scans(p, {"PUB"})
    /\ LET line == Head(scanner[p])
           msg  == [from |-> p, topic |-> line.topic, n |-> line.n, whole |-> line.whole]
       IN deliveries' = deliveries \cup
             {[msg |-> msg, to |-> c, stage |-> "wait"] : c \in subscribers[line.topic]}
    /\ handler' = [handler EXCEPT ![p] = "publish"]
    /\ scanner' = [scanner EXCEPT ![p] = Tail(@)]
    /\ UNCHANGED <<conn, peerVars, wire, subscribers, streamVars>>

\* publish does not wait for its deliveries.
PublishReturnsEarly(p) ==
    /\ handler[p] = "publish"
    /\ handler' = [handler EXCEPT ![p] = "scan"]
    /\ UNCHANGED <<conn, peerVars, readVars, subscribers, deliveries, streamVars>>

\* deliveries.Wait() returns: no delivery goroutine of p is left.
PublishReturns(p) ==
    /\ handler[p] = "publish"
    /\ \A d \in deliveries : d.msg.from # p
    /\ handler' = [handler EXCEPT ![p] = "scan"]
    /\ UNCHANGED <<conn, peerVars, readVars, subscribers, deliveries, streamVars>>

\* The scan loop ends: a line that is too long, or a failing read once the
\* buffer is empty (a reset drops what the socket still holds).
ScanEnds(c) ==
    /\ handler[c] = "scan"
    /\ \/ Scans(c, {"LONG"})
       \/ scanner[c] = <<>> /\ (gone[c] \/ conn[c] = "closed")
    /\ handler' = [handler EXCEPT ![c] = "ending"]
    /\ UNCHANGED <<conn, peerVars, readVars, subscribers, deliveries, streamVars>>

\* b.remove(c), under b.mu.  A topic without an entry has no subscribers.
Without(c) == [t \in Topics |-> subscribers[t] \ {c}]

\* remove skips a connection that a failed delivery has already closed.
DeferredRemoveSkips(c) ==
    /\ handler[c] = "ending"
    /\ subscribers' = IF conn[c] = "closed" THEN subscribers ELSE Without(c)
    /\ handler' = [handler EXCEPT ![c] = "removed"]
    /\ UNCHANGED <<conn, peerVars, readVars, deliveries, streamVars>>

DeferredRemove(c) ==
    /\ handler[c] = "ending"
    /\ subscribers' = Without(c)
    /\ handler' = [handler EXCEPT ![c] = "removed"]
    /\ UNCHANGED <<conn, peerVars, readVars, deliveries, streamVars>>

DeferredClose(c) ==
    /\ handler[c] = "removed"
    /\ conn' = [conn EXCEPT ![c] = "closed"]
    /\ handler' = [handler EXCEPT ![c] = "done"]
    /\ UNCHANGED <<peerVars, readVars, subscribers, deliveries, streamVars>>

-----------------------------------------------------------------------------
(* A delivery goroutine d: c.send(message) and what follows a failure.     *)

Moves(d, from, to) ==
    /\ d.stage \in from
    /\ deliveries' = (deliveries \ {d}) \cup {[d EXCEPT !.stage = to]}

\* deliveries.Done(): the goroutine ends.
Ends(d, from) ==
    /\ d.stage \in from
    /\ deliveries' = deliveries \ {d}

\* send writes without taking c.writeMu.
LockNothing(d) ==
    /\ Moves(d, {"wait"}, "write")
    /\ UNCHANGED <<conn, peerVars, readVars, handler, subscribers, streamVars>>

\* c.writeMu.Lock()
Lock(d) ==
    /\ writeMu[d.to] = NoMessage
    /\ Moves(d, {"wait"}, "write")
    /\ writeMu' = [writeMu EXCEPT ![d.to] = d.msg]
    /\ UNCHANGED <<conn, peerVars, readVars, handler, subscribers, tail, lines>>

\* A part of the message has left; the peer's buffer is full.
WritePart(d) ==
    /\ conn[d.to] = "open" /\ ~gone[d.to]
    /\ Moves(d, {"write"}, "partial")
    /\ tail' = [tail EXCEPT ![d.to] = @ \cup {d.msg}]
    /\ UNCHANGED <<conn, peerVars, readVars, handler, subscribers, writeMu, lines>>

\* The line that the newline of d's message ends holds d's bytes only.
IsIntact(d) ==
    /\ tail[d.to] \subseteq {d.msg}
    /\ d.stage = "partial" => d.msg \in tail[d.to]

\* io.WriteString succeeds, c.writeMu.Unlock(), deliveries.Done().  What is
\* written to a peer that is gone is never read.
WriteSucceeds(d) ==
    /\ conn[d.to] = "open"
    /\ Ends(d, {"write", "partial"})
    /\ writeMu' = [writeMu EXCEPT ![d.to] = NoMessage]
    /\ IF gone[d.to]
       THEN UNCHANGED <<tail, lines>>
       ELSE /\ lines' = [lines EXCEPT ![d.to] =
                 Append(@, [msg |-> d.msg, intact |-> IsIntact(d)])]
            /\ tail' = [tail EXCEPT ![d.to] = {}]
    /\ UNCHANGED <<conn, peerVars, readVars, handler, subscribers>>

\* Without the write deadline only a dead connection fails a write.
WriteNeverTimesOut(d) ==
    /\ conn[d.to] = "closed" \/ gone[d.to]
    /\ Moves(d, {"write", "partial"}, "failed")
    /\ writeMu' = [writeMu EXCEPT ![d.to] = NoMessage]
    /\ UNCHANGED <<conn, peerVars, readVars, handler, subscribers, tail, lines>>

\* SetWriteDeadline or WriteString fails (the connection is closed, the peer
\* is gone, or the one second has passed), c.writeMu.Unlock().
WriteFails(d) ==
    /\ conn[d.to] = "closed" \/ gone[d.to] \/ d.to \in Slow
    /\ Moves(d, {"write", "partial"}, "failed")
    /\ writeMu' = [writeMu EXCEPT ![d.to] = NoMessage]
    /\ UNCHANGED <<conn, peerVars, readVars, handler, subscribers, tail, lines>>

\* c.conn.Close() after a failed send.
FailedClose(d) ==
    /\ Moves(d, {"failed"}, "closed")
    /\ conn' = [conn EXCEPT ![d.to] = "closed"]
    /\ UNCHANGED <<peerVars, readVars, handler, subscribers, streamVars>>

\* b.remove(c) after a failed send; deliveries.Done().
FailedRemove(d) ==
    /\ Ends(d, {"closed"})
    /\ subscribers' = Without(d.to)
    /\ UNCHANGED <<conn, peerVars, readVars, handler, streamVars>>

-----------------------------------------------------------------------------
Peer(c) == PeerWrite(c) \/ PeerClose(c) \/ PeerTear(c)

\* The next step of the handle goroutine of c.
Handle(c) ==
    \/ Fill(c) \/ Ignore(c) \/ Subscribe(c) \/ Publish(c) \/ PublishReturns(c)
    \/ ScanEnds(c) \/ DeferredRemove(c) \/ DeferredClose(c)

Deliver(d) ==
    \/ Lock(d) \/ WritePart(d) \/ WriteSucceeds(d) \/ WriteFails(d)
    \/ FailedClose(d) \/ FailedRemove(d)

Next ==
    \/ \E c \in Clients : Peer(c) \/ Accept(c) \/ Handle(c)
    \/ \E d \in deliveries : Deliver(d)

Spec == Init /\ [][Next]_vars

\* Goroutines are scheduled; a Go mutex serves its waiters in turn once one
\* has waited long enough; a write to a slow peer ends at its deadline, a
\* write to any other peer ends because that peer keeps reading.
Runs(d) ==
    \/ WriteFails(d) \/ (d.to \notin Slow /\ WriteSucceeds(d))
    \/ FailedClose(d) \/ FailedRemove(d)

\* A publisher has at most one delivery goroutine per recipient.
Goroutine(p, c, A(_)) == \E d \in deliveries : d.msg.from = p /\ d.to = c /\ A(d)

MayWrite(op) == {c \in Clients : \E cmd \in Vocabulary[c] : cmd.op = op}

Fairness ==
    /\ \A c \in Clients : WF_vars(Handle(c))
    /\ \A p \in MayWrite("PUB"), c \in MayWrite("SUB") :
          SF_vars(Goroutine(p, c, Lock)) /\ WF_vars(Goroutine(p, c, Runs))

FairSpec == Spec /\ Fairness

-----------------------------------------------------------------------------
Subscribed(c) == \E t \in Topics : c \in subscribers[t]

Intact(c) == \A i \in 1..Len(lines[c]) : lines[c][i].intact

\* Every line that a subscriber which keeps reading receives is one message:
\* writeMu keeps the writes of concurrent publishers to one connection apart
\* (client.send).
LinesIntact == \A c \in Clients \ Slow : Intact(c)

\* The same for every subscriber, as broker-protocol.md has it: one command per
\* line, and writes to one client are serialised.
EveryLineIntact == \A c \in Clients : Intact(c)

\* A subscriber reads the messages of one publisher in the order in which
\* they were published, none of them twice: publish returns only after its
\* deliveries, so the next line of the publisher cannot overtake.
PublisherOrder ==
    \A c \in Clients : \A i, j \in 1..Len(lines[c]) :
        i < j /\ lines[c][i].msg.from = lines[c][j].msg.from
            => lines[c][i].msg.n < lines[c][j].msg.n

\* A closed connection, or one whose peer is gone, is eventually out of the
\* subscriber table for good.
DeadConnectionsLeave ==
    \A c \in Clients :
        (conn[c] = "closed" \/ (gone[c] /\ conn[c] = "open")) ~> [](~Subscribed(c))

\* The broker seen as PubSub: a delivery owes its message until its write has
\* succeeded or failed; a line that the handler took out of the scanner has
\* been executed.
Owed == {<<d.msg, d.to>> : d \in {e \in deliveries : e.stage \in {"wait", "write", "partial"}}}

Executed == [c \in Clients |-> written[c] - (Len(wire[c]) + Len(scanner[c]))]

Sent == [c \in Clients |-> [i \in 1..Len(lines[c]) |-> lines[c][i].msg]]

PS == INSTANCE PubSub WITH subscribed <- subscribers, executed <- Executed,
                           owed <- Owed, received <- Sent

\* The broker implements PubSub: a publication goes to the subscribers of that
\* moment, at most once to each, and waits for the publisher's previous one.
ImplementsPubSub == PS!Spec

Lost(c) == gone[c] \/ conn[c] = "closed"

Waiting(p, c, n) ==
    \E i \in 1..Len(scanner[p]) :
        /\ scanner[p][i].op = "PUB" /\ scanner[p][i].n = n
        /\ c \in subscribers[scanner[p][i].topic]

Received(p, c, n) ==
    \E i \in 1..Len(lines[c]) : lines[c][i].msg.from = p /\ lines[c][i].msg.n = n

\* A slow subscriber does not starve a healthy one: a line that the broker has
\* read reaches every subscriber that keeps reading, even when earlier lines
\* of the same publisher also go to a peer that has stopped reading.
HealthyReceives ==
    \A p \in Clients : \A c \in Clients \ Slow : \A n \in 1..MaxLines[p] :
        Waiting(p, c, n) ~> (Received(p, c, n) \/ Lost(c) \/ Lost(p))

====
