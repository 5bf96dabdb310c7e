-------------------------------- MODULE Ipc --------------------------------
(***************************************************************************)
(* Runtime::ipc_send in Analyzer processes and Runtime::ipc_receive in the *)
(* Map process (runtime/src/runtime.cpp): lines over Unix stream sockets,  *)
(* sent and received in arbitrary pieces.  The state is byte by byte with  *)
(* small sizes; the content of a line is abstracted to whether             *)
(* validate_observation accepts it.                                        *)
(***************************************************************************)
EXTENDS Integers, Sequences

CONSTANTS
    Senders,
    MaxSends,     \* ipc_send calls of one sender
    Sizes,        \* message sizes
    MaxMessage,   \* max_message_size
    Capacity,     \* bytes a socket buffers
    RecvMax,      \* sizeof(buffer)
    Backlog,      \* connections the listener queues
    MaxConns      \* connects

ASSUME IpcAssumption ==
    /\ Sizes \subseteq Nat \ {0}
    /\ {MaxSends, MaxMessage, Capacity, RecvMax, Backlog, MaxConns} \subseteq Nat

Conns == 1..MaxConns
None == 0

\* The bytes of the line of message m.
Line(m) == [i \in 1..(m.size + 1) |-> [of |-> m, newline |-> i = m.size + 1]]

\* A line without its newline.
Front(line) == SubSeq(line, 1, Len(line) - 1)

VARIABLES
    dialed,       \* connections 1..dialed exist
    pipe,         \* the bytes on their way in a connection
    senderOpen, receiverOpen,  \* connections whose end is open
    backlog,      \* connections not accepted yet
    connection,   \* a sender's ipc_connection_fd_
    sends,        \* how often a sender has called ipc_send
    unsent,       \* what is left to send of its message
    sent,         \* messages of which a byte has been sent, with their connection
    current,      \* the receiver's ipc_connection_fd_
    buffer,       \* ipc_buffer_
    received,     \* what ipc_receive returned, in order
    tooLarge,     \* messages given up as too large
    failed        \* connections on which ipc_receive threw

senderVars == <<connection, sends, unsent, sent>>
receiverVars == <<current, buffer, received, tooLarge, failed>>
vars == <<dialed, pipe, senderOpen, receiverOpen, backlog, senderVars, receiverVars>>

Init ==
    /\ dialed = 0
    /\ pipe = [k \in Conns |-> <<>>]
    /\ senderOpen = {} /\ receiverOpen = {}
    /\ backlog = <<>>
    /\ connection = [s \in Senders |-> None]
    /\ sends = [s \in Senders |-> 0]
    /\ unsent = [s \in Senders |-> <<>>]
    /\ sent = {}
    /\ current = None /\ buffer = <<>>
    /\ received = <<>> /\ tooLarge = {} /\ failed = {}

-----------------------------------------------------------------------------
\* ipc_send connects if it is not connected.  The connection is queued until
\* the receiver accepts it.
SendBegins(s, size, valid) ==
    /\ unsent[s] = <<>> /\ sends[s] < MaxSends
    /\ sends' = [sends EXCEPT ![s] = @ + 1]
    /\ unsent' = [unsent EXCEPT ![s] =
                    Line([from |-> s, n |-> sends[s] + 1, size |-> size, valid |-> valid])]
    /\ \/ /\ connection[s] # None
          /\ UNCHANGED <<dialed, senderOpen, receiverOpen, backlog, connection>>
       \/ /\ connection[s] = None
          /\ Len(backlog) < Backlog /\ dialed < MaxConns
          /\ dialed' = dialed + 1
          /\ senderOpen' = senderOpen \cup {dialed + 1}
          /\ receiverOpen' = receiverOpen \cup {dialed + 1}
          /\ backlog' = Append(backlog, dialed + 1)
          /\ connection' = [connection EXCEPT ![s] = dialed + 1]
    /\ UNCHANGED <<pipe, sent, receiverVars>>

\* connect fails, with a full backlog or no listener: ipc_send returns -1.
SendRefused(s) ==
    /\ unsent[s] = <<>> /\ sends[s] < MaxSends
    /\ connection[s] = None
    /\ sends' = [sends EXCEPT ![s] = @ + 1]
    /\ UNCHANGED <<dialed, pipe, senderOpen, receiverOpen, backlog, connection, unsent, sent,
                   receiverVars>>

\* One send(2): it takes some of the bytes that fit; with the last one ipc_send
\* returns.
SendSome(s, n) ==
    LET k == connection[s] IN
    /\ n \in 1..Len(unsent[s])
    /\ k \in receiverOpen
    /\ Len(pipe[k]) + n <= Capacity
    /\ pipe' = [pipe EXCEPT ![k] = @ \o SubSeq(unsent[s], 1, n)]
    /\ unsent' = [unsent EXCEPT ![s] = SubSeq(@, n + 1, Len(@))]
    /\ sent' = sent \cup {[message |-> Head(unsent[s]).of, on |-> k]}
    /\ UNCHANGED <<dialed, senderOpen, receiverOpen, backlog, connection, sends, receiverVars>>

\* The receiver closed the connection, or the socket stays full until the
\* deadline: the connection is closed and ipc_send returns -1.
SendFails(s) ==
    LET k == connection[s] IN
    /\ unsent[s] # <<>>
    /\ k \notin receiverOpen \/ Len(pipe[k]) = Capacity
    /\ unsent' = [unsent EXCEPT ![s] = <<>>]
    /\ connection' = [connection EXCEPT ![s] = None]
    /\ senderOpen' = senderOpen \ {k}
    /\ UNCHANGED <<dialed, pipe, receiverOpen, backlog, sends, sent, receiverVars>>

\* The sending process ends, perhaps in the middle of a message.
SenderExits(s) ==
    /\ connection[s] # None
    /\ sends' = [sends EXCEPT ![s] = MaxSends]
    /\ unsent' = [unsent EXCEPT ![s] = <<>>]
    /\ connection' = [connection EXCEPT ![s] = None]
    /\ senderOpen' = senderOpen \ {connection[s]}
    /\ UNCHANGED <<dialed, pipe, receiverOpen, backlog, sent, receiverVars>>

-----------------------------------------------------------------------------
Newlines == {i \in DOMAIN buffer : buffer[i].newline}
Waiting == Newlines = {} /\ Len(buffer) <= MaxMessage

\* The disconnect lambda of ipc_receive.
Disconnect ==
    /\ receiverOpen' = receiverOpen \ {current}
    /\ pipe' = [k \in Conns |-> IF k = current THEN <<>> ELSE pipe[k]]
    /\ current' = None
    /\ buffer' = <<>>

\* ipc_receive throws a RuntimeError after disconnect.
Throws == Disconnect /\ failed' = failed \cup {current}

\* A line is valid when it is a whole message that is valid; of a line put
\* together from several messages validate_observation may say anything.
MayAccept(line) ==
    line # <<>> /\ (line = Front(Line(Head(line).of)) => Head(line).of.valid)
MayReject(line) ==
    line = <<>> \/ (line = Front(Line(Head(line).of)) => ~Head(line).of.valid)

\* The line stays in the buffer.
TakeLineKeeps ==
    LET end  == CHOOSE i \in Newlines : \A j \in Newlines : i <= j
        line == SubSeq(buffer, 1, end - 1)
    IN
    /\ Newlines # {} /\ end - 1 <= MaxMessage
    /\ MayAccept(line)
    /\ Len(received) < 2
    /\ received' = Append(received, line)
    /\ UNCHANGED <<dialed, pipe, senderOpen, receiverOpen, backlog, senderVars, current, buffer,
                   tooLarge, failed>>

\* The line up to the first newline.
TakeLine ==
    LET end  == CHOOSE i \in Newlines : \A j \in Newlines : i <= j
        line == SubSeq(buffer, 1, end - 1)
    IN
    /\ Newlines # {}
    /\ \/ /\ end - 1 <= MaxMessage
          /\ MayAccept(line)
          /\ received' = Append(received, line)
          /\ buffer' = SubSeq(buffer, end + 1, Len(buffer))
          /\ UNCHANGED <<pipe, receiverOpen, current, tooLarge, failed>>
       \/ /\ end - 1 <= MaxMessage
          /\ MayReject(line)
          /\ Throws
          /\ UNCHANGED <<received, tooLarge>>
       \/ /\ end - 1 > MaxMessage
          /\ Throws
          /\ tooLarge' = tooLarge \cup {Head(line).of}
          /\ UNCHANGED received
    /\ UNCHANGED <<dialed, senderOpen, backlog, senderVars>>

\* More than max_message_size bytes without a newline.
GiveUp ==
    /\ Newlines = {} /\ Len(buffer) > MaxMessage
    /\ Throws
    /\ tooLarge' = tooLarge \cup {Head(buffer).of}
    /\ UNCHANGED <<dialed, senderOpen, backlog, senderVars, received>>

Accept ==
    /\ Waiting /\ current = None
    /\ backlog # <<>>
    /\ current' = Head(backlog)
    /\ backlog' = Tail(backlog)
    /\ UNCHANGED <<dialed, pipe, senderOpen, receiverOpen, senderVars, buffer, received, tooLarge,
                   failed>>

\* recv(2) takes what is there, at most RecvMax bytes.
Recv ==
    /\ Waiting /\ current # None
    /\ pipe[current] # <<>>
    /\ LET n == IF Len(pipe[current]) < RecvMax THEN Len(pipe[current]) ELSE RecvMax IN
       /\ buffer' = buffer \o SubSeq(pipe[current], 1, n)
       /\ pipe' = [pipe EXCEPT ![current] = SubSeq(@, n + 1, Len(@))]
    /\ UNCHANGED <<dialed, senderOpen, receiverOpen, backlog, senderVars, current, received,
                   tooLarge, failed>>

\* A hang-up is taken for the end of the stream before it has been read.
RecvHangup ==
    /\ Waiting /\ current # None
    /\ current \notin senderOpen
    /\ IF buffer = <<>> THEN Disconnect /\ UNCHANGED failed ELSE Throws
    /\ UNCHANGED <<dialed, senderOpen, backlog, senderVars, received, tooLarge>>

\* A message that has only begun is dropped without an error.
RecvEndSilent ==
    /\ Waiting /\ current # None
    /\ pipe[current] = <<>> /\ current \notin senderOpen
    /\ Disconnect
    /\ UNCHANGED <<dialed, senderOpen, backlog, senderVars, received, tooLarge, failed>>

\* recv(2) returns 0: an error only within a message.
RecvEnd ==
    /\ Waiting /\ current # None
    /\ pipe[current] = <<>> /\ current \notin senderOpen
    /\ IF buffer = <<>> THEN Disconnect /\ UNCHANGED failed ELSE Throws
    /\ UNCHANGED <<dialed, senderOpen, backlog, senderVars, received, tooLarge>>

\* poll has no timeout within a message either.
RecvTimeoutNever == FALSE /\ UNCHANGED vars

\* poll times out, but only within a message.
RecvTimeout ==
    /\ Waiting /\ current # None /\ buffer # <<>>
    /\ pipe[current] = <<>> /\ current \in senderOpen
    /\ Throws
    /\ UNCHANGED <<dialed, senderOpen, backlog, senderVars, received, tooLarge>>

Send(s) ==
    \/ \E size \in Sizes, valid \in BOOLEAN : SendBegins(s, size, valid)
    \/ SendRefused(s)
    \/ \E n \in 1..Capacity : SendSome(s, n)
    \/ SendFails(s)

Receive == TakeLine \/ GiveUp \/ Accept \/ Recv \/ RecvEnd \/ RecvTimeout

Next == (\E s \in Senders : Send(s) \/ SenderExits(s)) \/ Receive

Spec == Init /\ [][Next]_vars

\* ipc_receive is called again and again and does not stop by itself; senders
\* may stall anywhere.
FairSpec == Spec /\ WF_vars(Receive)

-----------------------------------------------------------------------------
\* What ipc_receive returns is what was sent: every line is one whole valid
\* message, whatever the pieces it was sent in, the sends that failed half-way
\* and the connections that replaced one another; the messages of one sender
\* come in the order of its calls, none twice; and a message is given up as too
\* large if and only if it is larger than the limit.
ReceivedIsSent ==
    LET Of(i) == Head(received[i]).of IN
    /\ \A i \in DOMAIN received : received[i] = Front(Line(Of(i))) /\ Of(i).valid
    /\ \A i, j \in DOMAIN received : i < j /\ Of(i).from = Of(j).from => Of(i).n < Of(j).n
    /\ \A m \in tooLarge : m.size > MaxMessage
    /\ \A i \in DOMAIN received : Len(received[i]) <= MaxMessage

\* A message of which anything was sent, be it the whole or only a part before
\* the sender failed or ended, has been received, is on its way, or ipc_receive
\* has thrown on its connection: none is lost in silence.
NothingVanishes ==
    \A x \in sent :
        \/ x.on \in failed
        \/ \E i \in DOMAIN received : Head(received[i]).of = x.message
        \/ \E i \in DOMAIN pipe[x.on] : pipe[x.on][i].of = x.message
        \/ x.on = current /\ \E i \in DOMAIN buffer : buffer[i].of = x.message

\* The receiver does not keep part of a message for ever when its sender
\* stalls.
PartialIsBounded == buffer # <<>> ~> buffer = <<>>

====
