-------------------------- MODULE DbExchangeProofs --------------------------
(***************************************************************************)
(* Proofs about DbExchange for any number of callers, clients, statements  *)
(* and connections.                                                        *)
(*                                                                         *)
(* The protocol has no request IDs, so that a reply is the right one       *)
(* follows from what a connection can carry while a client still has it:   *)
(* between two exchanges nothing (Quiet), and within one only the parts of *)
(* its own statement, in the order of the protocol (Exchange).  That a     *)
(* statement is executed at most once, and never if it was refused, is     *)
(* about all connections, the dropped ones included: there is one place at *)
(* most where it waits to be executed (Once).                              *)
(***************************************************************************)
EXTENDS DbExchange, SequenceTheorems, TLAPS

Part == [of : Statements, part : {"length", "payload"}]
L(s) == [of |-> s, part |-> "length"]
P(s) == [of |-> s, part |-> "payload"]

OnConnection == {"arm"} \cup InExchange
Points == {"idle", "lock", "dial"} \cup OnConnection
Working == {"mutex", "execute", "replyLength", "replyPayload"}
Places == {"none", "length", "payload", "gone"} \cup Working
Result == {NoResult, Refused, Unknown} \cup {Answer(s) : s \in Statements}

TypeOK ==
    /\ dialed \in 0..MaxConns
    /\ ends \in [Conns -> SUBSET {"client", "server"}]
    /\ backlog \in Seq(Conns)
    /\ listening \in BOOLEAN
    /\ requests \in [Conns -> Seq(Part)] /\ replies \in [Conns -> Seq(Part)]
    /\ pc \in [Callers -> Points]
    /\ statement \in [Callers -> 0..MaxCalls]
    /\ called \in 0..MaxCalls
    /\ cancelled \in [Callers -> BOOLEAN]
    /\ mutex \in [Clients -> Callers \cup {Free}]
    /\ conn \in [Clients -> 0..MaxConns]
    /\ closed \in [Clients -> BOOLEAN]
    /\ expired \in [Conns -> BOOLEAN]
    /\ callbacks \subseteq Conns
    /\ result \in [Statements -> Result]
    /\ serve \in {"accept", "register", "wait", "returned"}
    /\ accepted \in 0..MaxConns
    /\ stopped \in BOOLEAN
    /\ handler \in [Conns -> Places]
    /\ length \in [Conns -> 0..MaxCalls] /\ payload \in [Conns -> 0..MaxCalls]
    /\ executing \in 0..MaxConns
    /\ snapshot \in [Conns -> Seq(Statements)]
    /\ executed \in Seq(Statements)

-----------------------------------------------------------------------------
\* The connections on their way to Serve are distinct and have no goroutine.
Queued ==
    /\ \A i \in DOMAIN backlog : backlog[i] <= dialed /\ backlog[i] # accepted
                                 /\ handler[backlog[i]] = "none"
    /\ \A i, j \in DOMAIN backlog : backlog[i] = backlog[j] => i = j
    /\ accepted <= dialed
    /\ serve = "register" <=> accepted # Nobody
    /\ accepted # Nobody => handler[accepted] = "none"
    /\ \A k \in Conns : k > dialed =>
          handler[k] = "none" /\ requests[k] = <<>> /\ replies[k] = <<>>

\* A server that is stopped takes no connection any more, and one that has
\* returned has no goroutine left.
AtRest ==
    /\ stopped => ~listening /\ backlog = <<>>
    /\ serve \in {"wait", "returned"} => stopped
    /\ serve = "returned" => Workers = {}

\* The executor's mutex: one handler at a time works on the database.
Executor ==
    /\ \A k \in Conns : handler[k] = "execute" <=> executing = k
    /\ \A k \in Conns : handler[k] = "execute" => snapshot[k] = executed
    /\ \A k \in Conns : handler[k] \in Working => payload[k] \in Statements

\* Who holds a client's mutex, what it executes and on which connection.
Holding ==
    /\ \A c \in Callers : pc[c] \notin {"idle", "lock"} => mutex[ClientOf[c]] = c
    /\ \A c \in Callers : pc[c] = "idle" <=> statement[c] = NoStatement
    /\ \A c \in Callers : statement[c] <= called
    /\ \A c, e \in Callers : pc[c] # "idle" /\ statement[c] = statement[e] => c = e
    /\ \A c \in Callers : pc[c] # "idle" => result[statement[c]] = NoResult
    /\ \A s \in Statements : s > called => result[s] = NoResult
    /\ \A c \in Callers : pc[c] = "dial" => Conn(c) = Nobody
    /\ \A c \in Callers : pc[c] \in OnConnection => Conn(c) # Nobody
    /\ \A d \in Clients : conn[d] <= dialed
    /\ \A d, e \in Clients : conn[d] = conn[e] /\ conn[d] # Nobody => d = e

-----------------------------------------------------------------------------
\* What the requests rq on a connection can be for the place h of its handler.
Shape(rq, h) ==
    \/ rq = <<>>
    \/ /\ h \in {"none", "length", "gone"}
       /\ \E s \in Statements : rq = <<L(s)>> \/ rq = <<L(s), P(s)>>
    \/ /\ h \in {"payload", "gone"}
       /\ \E s \in Statements : rq = <<P(s)>>

\* A connection with requests rq, whose handler is at h with payload pay,
\* brings s to its execution.
Brings(s, rq, h, pay) ==
    \/ rq = <<P(s)>> \/ rq = <<L(s), P(s)>>
    \/ h \in {"mutex", "execute"} /\ pay = s

BringsAt(k, s) == Brings(s, requests[k], handler[k], payload[k])

Untouched(s) == s \notin Executed /\ \A k \in Conns : ~BringsAt(k, s)

Unwritten == {"lock", "dial", "arm", "length", "payload"}

\* A statement waits for its execution in one place at most, and nowhere
\* before its payload has been written, after it has been executed, or when it
\* was refused.
Once ==
    /\ \A k \in Conns : Shape(requests[k], handler[k])
    /\ \A s \in Statements : \A k, l \in Conns : BringsAt(k, s) /\ BringsAt(l, s) => k = l
    /\ \A s \in Statements : \A k \in Conns : BringsAt(k, s) => s \notin Executed
    /\ \A c \in Callers : pc[c] \in Unwritten => Untouched(statement[c])
    /\ \A s \in Statements : result[s] = Refused \/ s > called => Untouched(s)
    /\ \A i, j \in DOMAIN executed : executed[i] = executed[j] => i = j

-----------------------------------------------------------------------------
\* What a connection carries: its requests rq, its replies rp and the place h
\* of its handler.  Nothing is left of an earlier exchange:
Quiet(rq, rp, h) == rq = <<>> /\ rp = <<>> /\ h \in {"none", "length", "gone"}

\* A statement has been written up to its length, or wholly.
LengthWritten(s, rq, rp, h) ==
    /\ rp = <<>>
    /\ \/ rq = <<L(s)>> /\ h \in {"none", "length", "gone"}
       \/ rq = <<>> /\ h \in {"payload", "gone"}

AllWritten(s, rq, rp, h, done) ==
    \/ /\ rp = <<>>
       /\ \/ rq = <<L(s), P(s)>> /\ h \in {"none", "length", "gone"}
          \/ rq = <<P(s)>> /\ h \in {"payload", "gone"}
          \/ rq = <<>> /\ h \in {"mutex", "execute", "replyLength", "gone"}
    \/ /\ rq = <<>> /\ s \in done
       /\ \/ rp = <<L(s)>> /\ h \in {"replyPayload", "gone"}
          \/ rp = <<L(s), P(s)>> /\ h \in {"length", "gone"}

\* The length of the reply has been read.
LengthRead(s, rq, rp, h, done) ==
    /\ rq = <<>> /\ s \in done
    /\ \/ rp = <<>> /\ h \in {"replyPayload", "gone"}
       \/ rp = <<P(s)>> /\ h \in {"length", "gone"}

\* This is what a connection carries for the place p of a caller with statement
\* s, when the handler has the payload pay and the statements in done are
\* executed.
Fits(p, s, rq, rp, h, pay, done) ==
    /\ p \in {"arm", "length"} => Quiet(rq, rp, h)
    /\ p = "payload" => LengthWritten(s, rq, rp, h)
    /\ p = "replyLength" => AllWritten(s, rq, rp, h, done)
    /\ p = "replyPayload" => LengthRead(s, rq, rp, h, done)
    /\ h \in Working => pay = s
    /\ h \in {"replyLength", "replyPayload"} => s \in done

QuietAt(k) == Quiet(requests[k], replies[k], handler[k])
FitsAt(p, k, s) == Fits(p, s, requests[k], replies[k], handler[k], payload[k], Executed)

\* The connection that a client has is where the exchange of its caller is.
Exchange ==
    /\ \A c \in Callers : pc[c] \in OnConnection => FitsAt(pc[c], Conn(c), statement[c])
    /\ \A d \in Clients : mutex[d] = Free /\ conn[d] # Nobody => QuietAt(conn[d])

Answers ==
    \A s \in Statements : result[s].kind = "answer" => result[s].of = s /\ s \in Executed

IInv ==
    /\ TypeOK /\ Queued /\ AtRest /\ Executor /\ Holding /\ Once /\ Exchange /\ Answers

-----------------------------------------------------------------------------
(* Parts of frames and short sequences of them.                            *)

LEMMA Parts ==
    ASSUME NEW s \in Statements
    PROVE  /\ L(s) \in Part /\ P(s) \in Part /\ L(s).of = s /\ P(s).of = s
           /\ \A t \in Statements : L(s) # P(t) /\ (P(s) = P(t) => s = t)
BY DEF L, P, Part

LEMMA TwoParts ==
    ASSUME NEW x, NEW y
    PROVE  Append(<<x>>, y) = <<x, y>>
<1>1. <<x>> \in Seq({x, y}) /\ y \in {x, y} /\ Len(<<x>>) = 1 /\ <<x>>[1] = x
  OBVIOUS
<1> DEFINE a == Append(<<x>>, y)
<1>2. a \in Seq({x, y}) /\ Len(a) = 2 /\ a[1] = x /\ a[2] = y
  BY <1>1, AppendProperties
<1>3. <<x, y>> \in Seq({x, y}) /\ Len(<<x, y>>) = 2 /\ <<x, y>>[1] = x /\ <<x, y>>[2] = y
  OBVIOUS
<1> HIDE DEF a
<1>4. \A i \in 1..Len(a) : a[i] = <<x, y>>[i]
  BY <1>2, <1>3
<1>5. a = <<x, y>>
  BY <1>2, <1>3, <1>4, SeqEqual
<1> QED BY <1>5 DEF a

LEMMA Tuples ==
    ASSUME NEW x, NEW y
    PROVE  /\ Append(<<>>, x) = <<x>>
           /\ Head(<<x>>) = x /\ Tail(<<x>>) = <<>>
           /\ Head(<<x, y>>) = x /\ Tail(<<x, y>>) = <<y>>
           /\ <<>> # <<x>> /\ <<>> # <<x, y>>
           /\ <<x>>[1] = x /\ <<x, y>>[1] = x /\ <<x, y>>[2] = y
           /\ DOMAIN <<x>> = 1..1 /\ DOMAIN <<x, y>> = 1..2
OBVIOUS

LEMMA TuplesDiffer ==
    ASSUME NEW x, NEW y, NEW z
    PROVE  <<x>> # <<y, z>>
<1>1. Len(<<x>>) = 1 /\ Len(<<y, z>>) = 2
  OBVIOUS
<1> QED BY <1>1

\* Where a caller that has a connection finds it.
LEMMA ConnType ==
    ASSUME TypeOK, Holding, NEW c \in Callers, pc[c] \in OnConnection
    PROVE  /\ Conn(c) \in Conns /\ Conn(c) <= dialed
           /\ statement[c] \in Statements /\ ClientOf[c] \in Clients
           /\ conn[ClientOf[c]] = Conn(c) /\ mutex[ClientOf[c]] = c
<1>1. ClientOf[c] \in Clients
  BY DbClientAssumption
<1>2. pc[c] \notin {"idle", "lock"}
  BY DEF OnConnection, InExchange
<1> QED BY <1>1, <1>2, DbWireAssumption DEF TypeOK, Holding, Conn, Conns, Nobody, Statements, NoStatement

-----------------------------------------------------------------------------
(* Type correctness.                                                       *)

\* A part that is sent, and what is left of a stream of parts.
LEMMA SentParts ==
    ASSUME NEW f \in [Conns -> Seq(Part)], NEW k \in Conns, NEW x \in Part
    PROVE  [f EXCEPT ![k] = Append(@, x)] \in [Conns -> Seq(Part)]
<1>1. Append(f[k], x) \in Seq(Part)
  BY AppendProperties
<1> QED BY <1>1

LEMMA ReceivedParts ==
    ASSUME NEW f \in [Conns -> Seq(Part)], NEW k \in Conns, f[k] # <<>>
    PROVE  /\ [f EXCEPT ![k] = Tail(@)] \in [Conns -> Seq(Part)]
           /\ Head(f[k]) \in Part /\ Head(f[k]).of \in Statements
<1>1. Tail(f[k]) \in Seq(Part) /\ Head(f[k]) \in Part
  BY HeadTailProperties
<1> QED BY <1>1, Zenon DEF Part

LEMMA Constants ==
    /\ NoStatement \in 0..MaxCalls /\ Nobody \in 0..MaxConns
    /\ Statements \subseteq 0..MaxCalls /\ Conns \subseteq 0..MaxConns
    /\ Statements = (0..MaxCalls) \ {NoStatement} /\ Conns = (0..MaxConns) \ {Nobody}
BY DbWireAssumption DEF NoStatement, Nobody, Statements, Conns

LEMMA ReturnType ==
    ASSUME TypeOK, NEW c \in Callers, statement[c] \in Statements, NEW r \in Result, Return(c, r)
    PROVE  /\ pc' \in [Callers -> Points] /\ cancelled' \in [Callers -> BOOLEAN]
           /\ mutex' \in [Clients -> Callers \cup {Free}]
           /\ result' \in [Statements -> Result] /\ statement' \in [Callers -> 0..MaxCalls]
BY Constants, Zenon DEF TypeOK, Return, Goes, Points

LEMMA DropType ==
    ASSUME TypeOK, NEW d \in Clients, Drop(d)
    PROVE  /\ ends' \in [Conns -> SUBSET {"client", "server"}]
           /\ conn' \in [Clients -> 0..MaxConns]
<1>1. conn' \in [Clients -> 0..MaxConns]
  BY Constants DEF TypeOK, Drop
<1>2. CASE conn[d] = Nobody
  BY <1>1, <1>2 DEF TypeOK, Drop
<1>3. CASE conn[d] # Nobody
  <2>1. conn[d] \in Conns
    BY <1>3, Constants DEF TypeOK
  <2> QED BY <1>1, <1>3, <2>1 DEF TypeOK, Drop
<1> QED BY <1>2, <1>3

\* The steps of an Exec by which it returns.
Returns(c) == DialFails(c) \/ ArmFails(c) \/ ReadPayload(c) \/ Fail(c)

LEMMA ClientTypes ==
    ASSUME TypeOK, Holding, NEW c \in Callers,
           Call(c) \/ Exec(c) \/ Cancel(c), UNCHANGED serverVars
    PROVE  TypeOK'
<1> USE DbClientAssumption, DbWireAssumption
<1>0. ClientOf[c] \in Clients /\ UNCHANGED <<serve, accepted, stopped, handler, length, payload, executing, snapshot, executed>>
  BY DEF serverVars
<1>s. ASSUME pc[c] # "idle" PROVE statement[c] \in Statements
  BY <1>s, Constants DEF TypeOK, Holding
<1>r. Refused \in Result /\ Unknown \in Result /\ \A s \in Statements : Answer(s) \in Result
  BY Zenon DEF Result
<1>1. CASE Call(c)
  BY <1>0, <1>1 DEF Call, Goes, TypeOK, wireVars, Points
<1>2. CASE Lock(c)
  <2>1. statement[c] \in Statements
    BY <1>2, <1>s, Zenon DEF Lock
  <2>2. CASE Return(c, Refused)
    <3>1. /\ pc' \in [Callers -> Points] /\ cancelled' \in [Callers -> BOOLEAN]
          /\ mutex' \in [Clients -> Callers \cup {Free}]
          /\ result' \in [Statements -> Result] /\ statement' \in [Callers -> 0..MaxCalls]
      BY <1>r, <2>1, <2>2, ReturnType
    <3> QED BY <1>0, <1>2, <3>1, Zenon DEF Lock, TypeOK, wireVars
  <2>3. CASE ~Return(c, Refused)
    <3>1. /\ mutex' = [mutex EXCEPT ![ClientOf[c]] = c]
          /\ \E to \in Points : pc' = [pc EXCEPT ![c] = to]
          /\ UNCHANGED <<statement, cancelled, result>>
      BY <1>2, <2>3 DEF Lock, Goes, Points, OnConnection
    <3>2. mutex' \in [Clients -> Callers \cup {Free}] /\ pc' \in [Callers -> Points]
      BY <1>0, <3>1 DEF TypeOK
    <3> QED BY <1>0, <1>2, <3>1, <3>2, Zenon DEF Lock, TypeOK, wireVars
  <2> QED BY <2>2, <2>3
<1>3. CASE Dial(c)
  <2>1. dialed + 1 \in Conns /\ dialed + 1 \in 0..MaxConns
    BY <1>3 DEF Dial, TypeOK, Conns
  <2>2. backlog' \in Seq(Conns)
    BY <1>3, <2>1, AppendProperties DEF Dial, TypeOK
  <2> QED BY <1>0, <1>3, <2>1, <2>2, Zenon DEF Dial, Goes, TypeOK, Points, OnConnection
<1>4. CASE Arm(c)
  <2>1. Conn(c) \in Conns
    BY <1>4, ConnType, Zenon DEF Arm, OnConnection
  <2> QED BY <1>0, <1>4, <2>1, Zenon DEF Arm, Goes, TypeOK, wireVars, Points, OnConnection, InExchange
<1>5. CASE WriteLength(c) \/ WritePayload(c)
  <2>1. Conn(c) \in Conns /\ statement[c] \in Statements
    BY <1>5, ConnType, Zenon DEF WriteLength, WritePayload, Write, OnConnection, InExchange
  <2>2. requests' \in [Conns -> Seq(Part)]
    <3>1. ASSUME NEW part \in {"length", "payload"} PROVE [of |-> statement[c], part |-> part] \in Part
      BY <2>1 DEF Part
    <3>2. \E x \in Part : requests' = [requests EXCEPT ![Conn(c)] = Append(@, x)]
      BY <1>5, <2>1, <3>1, Zenon DEF WriteLength, WritePayload, Write, Send
    <3> QED BY <2>1, <3>2, SentParts DEF TypeOK
  <2> QED BY <1>0, <1>5, <2>1, <2>2, Zenon DEF WriteLength, WritePayload, Write, Goes, TypeOK, Points, OnConnection, InExchange
<1>6. CASE ReadLength(c)
  <2>1. Conn(c) \in Conns
    BY <1>6, ConnType DEF ReadLength, OnConnection, InExchange
  <2>2. replies' \in [Conns -> Seq(Part)]
    BY <1>6, <2>1, ReceivedParts, Zenon DEF ReadLength, Receive, TypeOK
  <2> QED BY <1>0, <1>6, <2>2, Zenon DEF ReadLength, Goes, TypeOK, Points, OnConnection, InExchange
<1>7. CASE Returns(c)
  <2>1. statement[c] \in Statements
    BY <1>7, <1>s DEF Returns, DialFails, ArmFails, ReadPayload, Fail, InExchange
  <2>2. ASSUME ReadPayload(c)
        PROVE  /\ replies' \in [Conns -> Seq(Part)] /\ Head(replies[Conn(c)]).of \in Statements
    <3>1. Conn(c) \in Conns
      BY <2>2, ConnType, Zenon DEF ReadPayload, OnConnection, InExchange
    <3> QED BY <2>2, <3>1, ReceivedParts, Zenon DEF ReadPayload, Receive, TypeOK
  <2>3. \E r \in Result : Return(c, r)
    BY <1>7, <1>r, <2>2 DEF Returns, DialFails, ArmFails, ReadPayload, Fail
  <2>4. /\ pc' \in [Callers -> Points] /\ cancelled' \in [Callers -> BOOLEAN]
        /\ mutex' \in [Clients -> Callers \cup {Free}]
        /\ result' \in [Statements -> Result] /\ statement' \in [Callers -> 0..MaxCalls]
    BY <2>1, <2>3, ReturnType
  <2>5. /\ ends' \in [Conns -> SUBSET {"client", "server"}] /\ conn' \in [Clients -> 0..MaxConns]
    BY <1>0, <1>7, DropType, Zenon DEF Returns, DialFails, ArmFails, ReadPayload, Fail, TypeOK, wireVars
  <2> QED BY <1>0, <1>7, <2>2, <2>4, <2>5, Zenon DEF Returns, DialFails, ArmFails, ReadPayload, Fail, TypeOK, wireVars
<1>8. CASE Cancel(c)
  <2>1. pc[c] \in InExchange => Conn(c) \in Conns
    BY ConnType DEF OnConnection
  <2> QED BY <1>0, <1>8, <2>1, Zenon DEF Cancel, TypeOK, wireVars
<1> QED BY <1>1, <1>2, <1>3, <1>4, <1>5, <1>6, <1>7, <1>8 DEF Exec, Returns

LEMMA OtherClientTypes ==
    ASSUME TypeOK, UNCHANGED serverVars,
           (\E k \in Conns : Callback(k)) \/ (\E d \in Clients : CloseClient(d))
    PROVE  TypeOK'
<1>0. UNCHANGED <<serve, accepted, stopped, handler, length, payload, executing, snapshot, executed>>
  BY DEF serverVars
<1>1. ASSUME NEW k \in Conns, Callback(k) PROVE TypeOK'
  BY <1>0, <1>1, Zenon DEF Callback, TypeOK, wireVars
<1>2. ASSUME NEW d \in Clients, CloseClient(d) PROVE TypeOK'
  <2>1. /\ ends' \in [Conns -> SUBSET {"client", "server"}] /\ conn' \in [Clients -> 0..MaxConns]
    BY <1>2, DropType DEF CloseClient
  <2> QED BY <1>0, <1>2, <2>1, Zenon DEF CloseClient, TypeOK
<1> QED BY <1>1, <1>2

\* The steps of Serve and of Close.
Lifecycle == StopOnSignal \/ Serve

LEMMA HangupType ==
    ASSUME TypeOK, NEW S, Hangup(S)
    PROVE  ends' \in [Conns -> SUBSET {"client", "server"}]
BY DEF TypeOK, Hangup

LEMMA LifecycleTypes ==
    ASSUME TypeOK, Queued, Lifecycle, UNCHANGED clientVars
    PROVE  TypeOK'
<1> USE DbWireAssumption
<1>0. UNCHANGED <<pc, statement, called, cancelled, mutex, conn, closed, expired, callbacks, result>>
  BY DEF clientVars
<1>e. <<>> \in Seq(Conns)
  BY EmptySeq
<1>1. CASE StopOnSignal \/ AcceptFails
  <2>1. ends' \in [Conns -> SUBSET {"client", "server"}]
    BY <1>1, HangupType DEF StopOnSignal, AcceptFails, Stop
  <2> QED BY <1>0, <1>1, <1>e, <2>1, Zenon DEF StopOnSignal, AcceptFails, Stop, TypeOK
<1>2. CASE Accept
  <2>1. Head(backlog) \in Conns /\ Tail(backlog) \in Seq(Conns)
    BY <1>2, HeadTailProperties, Zenon DEF Accept, TypeOK
  <2> QED BY <1>0, <1>2, <2>1, Constants, Zenon DEF Accept, TypeOK
<1>3. CASE Register
  <2>1. accepted \in Conns
    BY <1>3, Constants DEF Register, TypeOK, Queued
  <2>2. ends' \in [Conns -> SUBSET {"client", "server"}]
    BY <1>3, HangupType, Zenon DEF Register, TypeOK
  <2>3. handler' \in [Conns -> Places]
    BY <1>3, <2>1 DEF Register, TypeOK, Places
  <2> QED BY <1>0, <1>3, <2>2, <2>3, Constants, Zenon DEF Register, TypeOK
<1>4. CASE ServeReturns
  BY <1>0, <1>4, Zenon DEF ServeReturns, TypeOK, wireVars
<1> QED BY <1>1, <1>2, <1>3, <1>4 DEF Lifecycle, Serve

LEMMA HandlerTypes ==
    ASSUME TypeOK, Executor, NEW k \in Conns, Handle(k), UNCHANGED clientVars
    PROVE  TypeOK'
<1> USE DbWireAssumption
<1>0. UNCHANGED <<pc, statement, called, cancelled, mutex, conn, closed, expired, callbacks, result>>
  BY DEF clientVars
<1>h. ASSUME NEW from, NEW to \in Places, HandlerGoes(k, from, to) PROVE handler' \in [Conns -> Places]
  BY <1>h DEF TypeOK, HandlerGoes
<1>p. {"length", "payload", "gone", "mutex", "execute", "replyLength", "replyPayload"} \subseteq Places
  BY Zenon DEF Places, Working
<1>1. CASE ReadFrameLength(k) \/ ReadFramePayload(k)
  <2>1. /\ requests' \in [Conns -> Seq(Part)] /\ Head(requests[k]).of \in Statements
    <3>1. requests[k] # <<>> /\ requests' = [requests EXCEPT ![k] = Tail(@)]
      BY <1>1 DEF ReadFrameLength, ReadFramePayload, Receive
    <3>2. requests \in [Conns -> Seq(Part)]
      BY DEF TypeOK
    <3> QED BY <3>1, <3>2, ReceivedParts
  <2>2. handler' \in [Conns -> Places]
    BY <1>1, <1>h, <1>p, Zenon DEF ReadFrameLength, ReadFramePayload
  <2>3. CASE ReadFrameLength(k)
    BY <1>0, <2>1, <2>2, <2>3, Constants, Zenon DEF ReadFrameLength, TypeOK
  <2>4. CASE ReadFramePayload(k)
    BY <1>0, <2>1, <2>2, <2>4, Constants, Zenon DEF ReadFramePayload, TypeOK
  <2> QED BY <1>1, <2>3, <2>4, Zenon
<1>2. CASE ExecuteBegins(k)
  <2>1. handler' \in [Conns -> Places]
    BY <1>2, <1>h, <1>p DEF ExecuteBegins
  <2> QED BY <1>0, <1>2, <2>1, Constants, Zenon DEF ExecuteBegins, TypeOK, wireVars
<1>3. CASE ExecuteEnds(k)
  <2>1. handler' \in [Conns -> Places]
    BY <1>3, <1>h, <1>p DEF ExecuteEnds
  <2>2. Append(snapshot[k], payload[k]) \in Seq(Statements)
    <3>1. payload[k] \in Statements
      BY <1>3, Zenon DEF ExecuteEnds, HandlerGoes, Executor, Working
    <3> QED BY <3>1, AppendProperties DEF TypeOK
  <2>3. <<>> \in Seq(Statements)
    BY EmptySeq
  <2> QED BY <1>0, <1>3, <2>1, <2>2, <2>3, Constants, Zenon DEF ExecuteEnds, TypeOK, wireVars
<1>4. CASE WriteFrameLength(k) \/ WriteFramePayload(k)
  <2>1. payload[k] \in Statements
    BY <1>4, Zenon DEF WriteFrameLength, WriteFramePayload, HandlerGoes, Executor, Working
  <2>2. ASSUME NEW part \in {"length", "payload"} PROVE [of |-> payload[k], part |-> part] \in Part
    BY <2>1, Zenon DEF Part
  <2>3. \E x \in Part : replies' = [replies EXCEPT ![k] = Append(@, x)]
    BY <1>4, <2>2 DEF WriteFrameLength, WriteFramePayload, Send
  <2>4. replies' \in [Conns -> Seq(Part)]
    BY <2>3, SentParts DEF TypeOK
  <2>5. handler' \in [Conns -> Places]
    BY <1>4, <1>h, <1>p DEF WriteFrameLength, WriteFramePayload
  <2>6. length' \in [Conns -> 0..MaxCalls] /\ payload' \in [Conns -> 0..MaxCalls]
    <3>1. CASE WriteFrameLength(k)
      BY <3>1, Zenon DEF WriteFrameLength, TypeOK
    <3>2. CASE WriteFramePayload(k)
      BY <3>2, Constants, Zenon DEF WriteFramePayload, TypeOK
    <3> QED BY <1>4, <3>1, <3>2, Zenon
  <2> QED BY <1>0, <1>4, <2>4, <2>5, <2>6, Zenon DEF WriteFrameLength, WriteFramePayload, TypeOK
<1>5. CASE HandlerFails(k)
  <2>1. ends' \in [Conns -> SUBSET {"client", "server"}]
    BY <1>5, HangupType DEF HandlerFails
  <2>2. handler' \in [Conns -> Places]
    BY <1>5, <1>p, Zenon DEF HandlerFails, TypeOK
  <2> QED BY <1>0, <1>5, <2>1, <2>2, Constants, Zenon DEF HandlerFails, TypeOK
<1> QED BY <1>1, <1>2, <1>3, <1>4, <1>5 DEF Handle

-----------------------------------------------------------------------------
(* Frames: what the steps of a caller and of a handler leave alone.        *)

LEMMA CallerFrame ==
    ASSUME TypeOK, Holding, NEW c \in Callers, Call(c) \/ Exec(c) \/ Cancel(c)
    PROVE  /\ \A k \in Conns : requests'[k] # requests[k] \/ replies'[k] # replies[k] =>
                  pc[c] \in InExchange /\ k = Conn(c)
           /\ ~Dial(c) => UNCHANGED <<dialed, backlog, listening>>
           /\ Dial(c) => UNCHANGED <<requests, replies>>
<1>1. CASE WriteLength(c) \/ WritePayload(c)
  <2>1. /\ pc[c] \in InExchange /\ pc[c] # "dial" /\ UNCHANGED <<dialed, backlog, listening, replies>>
        /\ \E x : requests' = [requests EXCEPT ![Conn(c)] = x]
    BY <1>1 DEF WriteLength, WritePayload, Write, Send, InExchange
  <2>2. \A k \in Conns : k # Conn(c) => requests'[k] = requests[k]
    BY <2>1, Zenon DEF TypeOK
  <2> QED BY <2>1, <2>2, Zenon DEF Dial
<1>2. CASE ReadLength(c) \/ ReadPayload(c)
  <2>1. /\ pc[c] \in InExchange /\ pc[c] # "dial" /\ UNCHANGED <<dialed, backlog, listening, requests>>
        /\ \E x : replies' = [replies EXCEPT ![Conn(c)] = x]
    BY <1>2, Zenon DEF ReadLength, ReadPayload, Receive, InExchange
  <2>2. \A k \in Conns : k # Conn(c) => replies'[k] = replies[k]
    BY <2>1, Zenon DEF TypeOK
  <2> QED BY <2>1, <2>2, Zenon DEF Dial
<1>3. CASE Dial(c)
  BY <1>3 DEF Dial
<1>4. CASE Call(c) \/ Cancel(c) \/ Lock(c) \/ DialFails(c) \/ Arm(c) \/ ArmFails(c) \/ Fail(c)
  BY <1>4, Zenon DEF Call, Cancel, Lock, DialFails, Arm, ArmFails, Fail, wireVars
<1> QED BY <1>1, <1>2, <1>3, <1>4, Zenon DEF Exec

LEMMA HandlerFrame ==
    ASSUME TypeOK, NEW k \in Conns, Handle(k)
    PROVE  /\ \A l \in Conns \ {k} : /\ requests'[l] = requests[l] /\ replies'[l] = replies[l]
                                     /\ handler'[l] = handler[l] /\ payload'[l] = payload[l]
           /\ UNCHANGED <<dialed, backlog, listening, serve, accepted, stopped>>
           /\ handler[k] \notin {"none", "gone"} /\ handler'[k] # "none"
           /\ ~ExecuteEnds(k) => executed' = executed
<1>0. DOMAIN requests = Conns /\ DOMAIN replies = Conns /\ DOMAIN handler = Conns /\ DOMAIN payload = Conns
  BY Zenon DEF TypeOK
<1>1. CASE ReadFrameLength(k)
  BY <1>0, <1>1, Zenon DEF ReadFrameLength, HandlerGoes, Receive
<1>2. CASE ReadFramePayload(k)
  BY <1>0, <1>2, Zenon DEF ReadFramePayload, HandlerGoes, Receive
<1>3. CASE ExecuteBegins(k)
  BY <1>0, <1>3, Zenon DEF ExecuteBegins, HandlerGoes, wireVars
<1>4. CASE ExecuteEnds(k)
  BY <1>0, <1>4 DEF ExecuteEnds, HandlerGoes, wireVars
<1>5. CASE WriteFrameLength(k)
  BY <1>0, <1>5 DEF WriteFrameLength, HandlerGoes, Send
<1>6. CASE WriteFramePayload(k)
  BY <1>0, <1>6 DEF WriteFramePayload, HandlerGoes, Send
<1>7. CASE HandlerFails(k)
  BY <1>0, <1>7, Zenon DEF HandlerFails
<1> QED BY <1>1, <1>2, <1>3, <1>4, <1>5, <1>6, <1>7, Zenon DEF Handle

-----------------------------------------------------------------------------
(* The server's connections, its rest and its executor.                    *)

LEMMA CallerQueued ==
    ASSUME TypeOK, Queued, Holding, NEW c \in Callers, Call(c) \/ Exec(c) \/ Cancel(c),
           UNCHANGED serverVars
    PROVE  Queued'
<1> USE DbWireAssumption
<1>0. UNCHANGED <<serve, accepted, handler>>
  BY DEF serverVars
<1>1. CASE ~Dial(c)
  <2>1. UNCHANGED <<dialed, backlog>>
    BY <1>1, CallerFrame, Zenon
  <2>2. ASSUME NEW k \in Conns, k > dialed PROVE requests'[k] = requests[k] /\ replies'[k] = replies[k]
    <3>1. pc[c] \in InExchange => Conn(c) \in Conns /\ Conn(c) <= dialed
      BY ConnType, Zenon DEF OnConnection
    <3>2. pc[c] \in InExchange => k # Conn(c)
      BY <2>2, <3>1 DEF TypeOK, Conns
    <3> QED BY <3>2, CallerFrame, Zenon
  <2> QED BY <1>0, <2>1, <2>2, Zenon DEF Queued
<1>2. CASE Dial(c)
  <2>1. dialed + 1 \in Conns /\ dialed' = dialed + 1 /\ backlog' = Append(backlog, dialed + 1)
    BY <1>2 DEF Dial, TypeOK, Conns
  <2>2. /\ DOMAIN backlog' = 1..(Len(backlog) + 1) /\ DOMAIN backlog = 1..Len(backlog)
        /\ \A i \in 1..Len(backlog) : backlog'[i] = backlog[i] /\ backlog[i] \in Conns
        /\ backlog'[Len(backlog) + 1] = dialed + 1 /\ Len(backlog) \in Nat
    BY <2>1, AppendProperties, ElementOfSeq, LenProperties, SMTT(30) DEF TypeOK
  <2>3. UNCHANGED <<requests, replies>>
    BY <1>2 DEF Dial
  <2>4. ASSUME NEW i \in DOMAIN backlog'
        PROVE  backlog'[i] <= dialed' /\ backlog'[i] # accepted' /\ handler'[backlog'[i]] = "none"
    <3>1. CASE i = Len(backlog) + 1
      BY <1>0, <2>1, <2>2, <3>1 DEF Queued, TypeOK, Conns
    <3>2. CASE i \in DOMAIN backlog
      <4>1. /\ backlog'[i] = backlog[i] /\ backlog[i] \in Conns
            /\ backlog[i] <= dialed /\ backlog[i] # accepted /\ handler[backlog[i]] = "none"
        BY <2>2, <3>2, Zenon DEF Queued
      <4>2. backlog[i] <= dialed + 1
        BY <4>1, SMTT(30) DEF TypeOK, Conns
      <4> QED BY <1>0, <2>1, <4>1, <4>2, Zenon
    <3> QED BY <2>2, <3>1, <3>2
  <2>5. ASSUME NEW i \in DOMAIN backlog', NEW j \in DOMAIN backlog', backlog'[i] = backlog'[j]
        PROVE  i = j
    <3>1. \A m \in 1..Len(backlog) : backlog[m] <= dialed
      BY <2>2, Zenon DEF Queued
    <3>d. \A m \in 1..Len(backlog) : backlog'[m] # dialed + 1
      BY <2>2, <3>1 DEF TypeOK, Conns
    <3>2. CASE i \in 1..Len(backlog) /\ j \in 1..Len(backlog)
      BY <2>2, <2>5, <3>2 DEF Queued
    <3>3. CASE ~(i \in 1..Len(backlog) /\ j \in 1..Len(backlog))
      BY <2>2, <2>5, <3>d, <3>3
    <3> QED BY <3>2, <3>3
  <2>6. accepted' <= dialed' /\ \A k \in Conns : k > dialed' => k > dialed
    BY <1>0, <2>1 DEF Queued, TypeOK, Conns
  <2> QED BY <1>0, <2>3, <2>4, <2>5, <2>6, Zenon DEF Queued
<1> QED BY <1>1, <1>2

LEMMA LifecycleQueued ==
    ASSUME TypeOK, Queued, Lifecycle
    PROVE  Queued'
<1> USE DbWireAssumption
<1>1. CASE StopOnSignal \/ AcceptFails
  <2>1. /\ backlog' = <<>> /\ DOMAIN backlog' = {}
        /\ UNCHANGED <<dialed, requests, replies, accepted, handler>>
        /\ serve' = "register" <=> serve = "register"
    BY <1>1 DEF StopOnSignal, AcceptFails, Stop
  <2> QED BY <2>1, Zenon DEF Queued
<1>2. CASE Accept
  <2>1. /\ accepted' = backlog[1] /\ DOMAIN backlog = 1..Len(backlog) /\ Len(backlog) \in Nat
        /\ DOMAIN backlog' = 1..(Len(backlog) - 1) /\ 1 \in DOMAIN backlog
        /\ \A i \in DOMAIN backlog' : i + 1 \in DOMAIN backlog /\ backlog'[i] = backlog[i + 1]
    BY <1>2, HeadTailProperties, LenProperties, EmptySeq DEF Accept, TypeOK
  <2>2. backlog[1] \in Conns
    BY <2>1, ElementOfSeq, Zenon DEF TypeOK
  <2>3. UNCHANGED <<dialed, requests, replies, handler>> /\ serve' = "register"
    BY <1>2, Zenon DEF Accept
  <2>4. ASSUME NEW i \in DOMAIN backlog'
        PROVE  backlog'[i] <= dialed' /\ backlog'[i] # accepted' /\ handler'[backlog'[i]] = "none"
    <3>1. i + 1 # 1
      BY <2>1
    <3> QED BY <2>1, <2>3, <3>1 DEF Queued
  <2>5. ASSUME NEW i \in DOMAIN backlog', NEW j \in DOMAIN backlog', backlog'[i] = backlog'[j]
        PROVE  i = j
    <3>1. i + 1 = j + 1
      BY <2>1, <2>5 DEF Queued
    <3> QED BY <2>1, <3>1
  <2>6. accepted' <= dialed' /\ accepted' # Nobody /\ handler'[accepted'] = "none"
    BY <2>1, <2>2, <2>3 DEF Queued, Conns, Nobody
  <2> QED BY <2>3, <2>4, <2>5, <2>6, Zenon DEF Queued
<1>3. CASE Register
  <2>1. accepted \in Conns /\ accepted <= dialed /\ accepted' = Nobody /\ serve' # "register"
    BY <1>3, Constants, Zenon DEF Register, Queued, TypeOK
  <2>2. \A k \in Conns : k # accepted => handler'[k] = handler[k]
    BY <1>3 DEF Register, TypeOK
  <2>3. UNCHANGED <<dialed, backlog, requests, replies>>
    BY <1>3 DEF Register
  <2>4. ASSUME NEW i \in DOMAIN backlog PROVE backlog[i] \in Conns /\ backlog[i] # Nobody
    <3>1. backlog[i] \in Conns
      BY ElementOfSeq, LenProperties DEF TypeOK
    <3> QED BY <3>1 DEF Conns, Nobody
  <2>5. ASSUME NEW k \in Conns, k > dialed PROVE k # accepted
    BY <2>1, <2>5 DEF TypeOK, Conns
  <2>6. accepted' <= dialed'
    BY <2>1, <2>3 DEF TypeOK, Nobody
  <2> QED BY <2>1, <2>2, <2>3, <2>4, <2>5, <2>6, Zenon DEF Queued
<1>4. CASE ServeReturns
  BY <1>4, Zenon DEF ServeReturns, wireVars, Queued
<1> QED BY <1>1, <1>2, <1>3, <1>4, Zenon DEF Lifecycle, Serve

LEMMA HandlerQueued ==
    ASSUME TypeOK, Queued, NEW k \in Conns, Handle(k)
    PROVE  Queued'
<1>1. /\ \A l \in Conns \ {k} : /\ requests'[l] = requests[l] /\ replies'[l] = replies[l]
                                /\ handler'[l] = handler[l]
      /\ UNCHANGED <<dialed, backlog, serve, accepted>>
      /\ handler[k] # "none"
  BY HandlerFrame, Zenon
<1>2. \A i \in DOMAIN backlog : backlog[i] \in Conns /\ backlog[i] # k
  BY <1>1, ElementOfSeq, LenProperties, SMTT(30) DEF TypeOK, Queued
<1>3. accepted # Nobody => accepted \in Conns /\ accepted # k
  BY <1>1, Constants, Zenon DEF TypeOK, Queued
<1>4. \A l \in Conns : l > dialed => l # k
  BY <1>1, Zenon DEF Queued
<1> QED BY <1>1, <1>2, <1>3, <1>4, Zenon DEF Queued

LEMMA CallerAtRest ==
    ASSUME TypeOK, Holding, AtRest, NEW c \in Callers, Call(c) \/ Exec(c) \/ Cancel(c),
           UNCHANGED serverVars
    PROVE  AtRest'
<1>0. UNCHANGED <<serve, stopped, handler>>
  BY Zenon DEF serverVars
<1>1. CASE ~Dial(c)
  BY <1>0, <1>1, CallerFrame, Zenon DEF AtRest, Workers
<1>2. CASE Dial(c)
  BY <1>0, <1>2, Zenon DEF Dial, AtRest, Workers
<1> QED BY <1>1, <1>2

LEMMA LifecycleAtRest ==
    ASSUME TypeOK, AtRest, Lifecycle
    PROVE  AtRest'
<1>1. CASE StopOnSignal \/ AcceptFails
  <2>1. /\ stopped' = TRUE /\ listening' = FALSE /\ backlog' = <<>> /\ handler' = handler
        /\ serve' = "returned" => serve = "returned"
    BY <1>1 DEF StopOnSignal, AcceptFails, Stop
  <2> QED BY <2>1, Zenon DEF AtRest, Workers
<1>2. CASE Accept
  BY <1>2 DEF Accept, AtRest
<1>3. CASE Register
  BY <1>3 DEF Register, AtRest
<1>4. CASE ServeReturns
  BY <1>4 DEF ServeReturns, wireVars, AtRest, Workers
<1> QED BY <1>1, <1>2, <1>3, <1>4 DEF Lifecycle, Serve

LEMMA HandlerAtRest ==
    ASSUME TypeOK, AtRest, NEW k \in Conns, Handle(k)
    PROVE  AtRest'
<1>1. UNCHANGED <<backlog, listening, serve, stopped>> /\ k \in Workers
  BY HandlerFrame, Zenon DEF Workers
<1> QED BY <1>1, Zenon DEF AtRest

LEMMA RegisterExecutor ==
    ASSUME TypeOK, Queued, Executor, Lifecycle
    PROVE  Executor'
<1>0. UNCHANGED <<executing, snapshot, executed, payload>>
  BY Zenon DEF Lifecycle, StopOnSignal, Serve, Accept, AcceptFails, Register, ServeReturns
<1>1. CASE UNCHANGED handler
  BY <1>0, <1>1 DEF Executor
<1>2. CASE Register /\ ~stopped
  <2>1. accepted \in Conns /\ handler[accepted] = "none"
    BY <1>2, Constants DEF Register, Queued, TypeOK
  <2>2. handler' = [handler EXCEPT ![accepted] = "length"]
    BY <1>2, Zenon DEF Register
  <2>3. \A k \in Conns : /\ handler'[k] \in Working <=> handler[k] \in Working
                         /\ handler'[k] = "execute" <=> handler[k] = "execute"
    BY <2>1, <2>2 DEF TypeOK, Working
  <2> QED BY <1>0, <2>3, Zenon DEF Executor
<1> QED BY <1>1, <1>2, Zenon DEF Lifecycle, StopOnSignal, Serve, Accept, AcceptFails, Register, ServeReturns

LEMMA HandlerExecutor ==
    ASSUME TypeOK, Executor, Once, NEW k \in Conns, Handle(k)
    PROVE  Executor'
<1>f. \A l \in Conns \ {k} : handler'[l] = handler[l] /\ payload'[l] = payload[l]
  BY HandlerFrame
<1>n. k # Nobody
  BY DEF Conns, Nobody
<1>1. CASE ExecuteBegins(k)
  <2>1. /\ executing = Nobody /\ executing' = k /\ handler[k] = "mutex" /\ handler'[k] = "execute"
        /\ payload' = payload /\ executed' = executed /\ snapshot' = [snapshot EXCEPT ![k] = executed]
    BY <1>1 DEF ExecuteBegins, HandlerGoes, TypeOK
  <2>2. \A l \in Conns \ {k} : handler[l] # "execute"
    BY <2>1 DEF Executor, Conns, Nobody
  <2>3. snapshot'[k] = executed
    BY <2>1, Zenon DEF TypeOK
  <2>4. payload[k] \in Statements
    BY <2>1, Zenon DEF Executor, Working
  <2>5. \A l \in Conns : handler'[l] = "execute" <=> l = k
    BY <1>f, <2>1, <2>2, Zenon
  <2>6. \A l \in Conns : handler'[l] \in Working => payload'[l] \in Statements
    BY <1>f, <2>1, <2>4, Zenon DEF Executor
  <2> QED BY <2>1, <2>3, <2>5, <2>6, Zenon DEF Executor
<1>2. CASE ExecuteEnds(k)
  <2>1. /\ executing' = Nobody /\ handler[k] = "execute" /\ handler'[k] = "replyLength" /\ payload' = payload
    BY <1>2, Zenon DEF ExecuteEnds, HandlerGoes, TypeOK
  <2>2. \A l \in Conns \ {k} : handler[l] # "execute"
    BY <2>1, Zenon DEF Executor
  <2>3. payload[k] \in Statements
    BY <2>1, Zenon DEF Executor, Working
  <2>4. \A l \in Conns : handler'[l] # "execute" /\ l # Nobody
    BY <1>f, <2>1, <2>2 DEF Conns, Nobody
  <2>5. \A l \in Conns : handler'[l] \in Working => payload'[l] \in Statements
    BY <1>f, <2>1, <2>3, Zenon DEF Executor
  <2> QED BY <2>1, <2>4, <2>5, Zenon DEF Executor
<1>3. CASE ~ExecuteBegins(k) /\ ~ExecuteEnds(k)
  <2>1. UNCHANGED <<executing, snapshot, executed>> /\ handler[k] # "execute" /\ handler'[k] # "execute"
    BY <1>3, Zenon DEF Handle, ReadFrameLength, ReadFramePayload, WriteFrameLength, WriteFramePayload,
                HandlerFails, HandlerGoes, TypeOK
  <2>2. handler'[k] \in Working => payload'[k] \in Statements
    <3>1. CASE ReadFramePayload(k)
      <4>1. requests[k] # <<>> /\ payload'[k] = Head(requests[k]).of
        BY <3>1, Zenon DEF ReadFramePayload, Receive, TypeOK
      <4>2. requests \in [Conns -> Seq(Part)]
        BY Zenon DEF TypeOK
      <4> QED BY <4>1, <4>2, ReceivedParts, Zenon
    <3>2. CASE WriteFrameLength(k)
      BY <3>2, Zenon DEF WriteFrameLength, HandlerGoes, Executor, Working
    <3>3. CASE ReadFrameLength(k) \/ WriteFramePayload(k) \/ HandlerFails(k)
      BY <3>3, ZenonT(40) DEF ReadFrameLength, WriteFramePayload, HandlerFails, HandlerGoes, Working, TypeOK
    <3> QED BY <1>3, <3>1, <3>2, <3>3, Zenon DEF Handle
  <2>3. \A l \in Conns : handler'[l] = "execute" <=> handler[l] = "execute"
    BY <1>f, <2>1, Zenon
  <2>4. \A l \in Conns : handler'[l] \in Working => payload'[l] \in Statements
    BY <1>f, <2>2, Zenon DEF Executor
  <2> QED BY <2>1, <2>3, <2>4, Zenon DEF Executor
<1> QED BY <1>1, <1>2, <1>3, Zenon

-----------------------------------------------------------------------------
(* The clients' mutexes and what their callers execute.                    *)

\* A caller that has locked its client is the only one to have done so.
LEMMA Alone ==
    ASSUME Holding, NEW c \in Callers, NEW e \in Callers, pc[e] \notin {"idle", "lock"},
           mutex[ClientOf[c]] \in {c, Free}, ClientOf[e] = ClientOf[c]
    PROVE  e = c
<1>1. mutex[ClientOf[e]] = e
  BY Zenon DEF Holding
<1>2. e # Free
  BY DbClientAssumption, Zenon
<1> QED BY <1>1, <1>2, Zenon

LEMMA ReturnHolding ==
    ASSUME TypeOK, Holding, NEW c \in Callers, pc[c] # "idle", mutex[ClientOf[c]] \in {c, Free},
           NEW r, Return(c, r), UNCHANGED <<called, dialed>>,
           conn' = conn \/ conn' = [conn EXCEPT ![ClientOf[c]] = Nobody]
    PROVE  Holding'
<1> USE DbClientAssumption, DbWireAssumption
<1>0. ClientOf[c] \in Clients /\ statement[c] \in Statements
  BY Constants, Zenon DEF TypeOK, Holding
<1>1. /\ pc'[c] = "idle" /\ statement'[c] = NoStatement
      /\ \A e \in Callers \ {c} : pc'[e] = pc[e] /\ statement'[e] = statement[e]
      /\ \A d \in Clients \ {ClientOf[c]} : mutex'[d] = mutex[d]
      /\ \A s \in Statements \ {statement[c]} : result'[s] = result[s]
  BY Zenon DEF Return, Goes, TypeOK
<1>2. /\ \A d \in Clients \ {ClientOf[c]} : conn'[d] = conn[d]
      /\ \A d \in Clients : conn'[d] = conn[d] \/ conn'[d] = Nobody
  BY Zenon DEF TypeOK
<1>3. ASSUME NEW e \in Callers, pc[e] \notin {"idle", "lock"}, e # c
      PROVE  ClientOf[e] \in Clients \ {ClientOf[c]}
  BY <1>3, Alone, Zenon
<1>4. ASSUME NEW e \in Callers, pc'[e] \notin {"idle", "lock"}
      PROVE  mutex'[ClientOf[e]] = e /\ conn'[ClientOf[e]] = conn[ClientOf[e]] /\ pc'[e] = pc[e]
  <2>0. e # c
    BY <1>1, <1>4
  <2>1. e # c /\ pc'[e] = pc[e]
    BY <1>1, <2>0, Zenon
  <2> QED BY <1>1, <1>2, <1>3, <1>4, <2>1, Zenon DEF Holding
<1>5. ASSUME NEW e \in Callers, NEW f \in Callers, pc'[e] # "idle", statement'[e] = statement'[f]
      PROVE  e = f
  <2>1. e # c /\ pc[e] # "idle" /\ statement'[e] = statement[e] /\ statement[e] # NoStatement
    BY <1>1, <1>5, Zenon DEF Holding
  <2>2. f # c
    BY <1>1, <1>5, <2>1, Zenon
  <2>3. statement'[f] = statement[f]
    BY <1>1, <2>2, Zenon
  <2>4. statement[e] = statement[f]
    BY <1>5, <2>1, <2>3, Zenon
  <2> QED BY <2>1, <2>4, Zenon DEF Holding
<1>6. ASSUME NEW e \in Callers, pc'[e] # "idle" PROVE result'[statement'[e]] = NoResult
  <2>1. e # c /\ pc[e] # "idle" /\ statement'[e] = statement[e] /\ statement[e] # statement[c]
    BY <1>1, <1>6, Zenon DEF Holding
  <2>2. statement[e] \in Statements
    BY <2>1, Constants, Zenon DEF TypeOK, Holding
  <2>3. result'[statement[e]] = result[statement[e]]
    BY <1>1, <2>1, <2>2, Zenon
  <2>4. result[statement[e]] = NoResult
    BY <2>1, Zenon DEF Holding
  <2> QED BY <2>1, <2>3, <2>4, Zenon
<1>7. ASSUME NEW s \in Statements, s > called' PROVE result'[s] = NoResult
  <2>1. s # statement[c]
    BY <1>0, <1>7, SMTT(30) DEF Holding, TypeOK, Statements
  <2> QED BY <1>1, <1>7, <2>1, Zenon DEF Holding
<1>8. \A e \in Callers : statement'[e] <= called' /\ (pc'[e] = "idle" <=> statement'[e] = NoStatement)
  <2>1. \A e \in Callers : statement[e] <= called /\ (pc[e] = "idle" <=> statement[e] = NoStatement)
    BY Zenon DEF Holding
  <2>2. NoStatement <= called'
    <3>1. called \in 0..MaxCalls /\ called' = called
      BY Zenon DEF TypeOK
    <3>2. \A n \in 0..MaxCalls : NoStatement <= n
      BY DEF NoStatement
    <3> QED BY <3>1, <3>2, Zenon
  <2>3. ASSUME NEW e \in Callers
        PROVE  statement'[e] <= called' /\ (pc'[e] = "idle" <=> statement'[e] = NoStatement)
    <3>1. CASE e = c
      BY <1>1, <2>2, <3>1, Zenon
    <3>2. CASE e # c
      BY <1>1, <2>1, <3>2, Zenon
    <3> QED BY <3>1, <3>2, Zenon
  <2> QED BY <2>3, Zenon
<1>9. \A d \in Clients : conn'[d] <= dialed'
  BY <1>2 DEF Holding, TypeOK, Nobody
<1>10. \A d, e \in Clients : conn'[d] = conn'[e] /\ conn'[d] # Nobody => d = e
  BY <1>2, ZenonT(40) DEF Holding
<1>11. \A e \in Callers : /\ pc'[e] = "dial" => conn'[ClientOf[e]] = Nobody
                          /\ pc'[e] \in OnConnection => conn'[ClientOf[e]] # Nobody
  BY <1>4, SMTT(30) DEF Holding, Conn, OnConnection, InExchange
<1> QED BY <1>4, <1>5, <1>6, <1>7, <1>8, <1>9, <1>10, <1>11, Zenon DEF Holding, Conn

LEMMA CallHolding ==
    ASSUME TypeOK, Holding, NEW c \in Callers, Call(c)
    PROVE  Holding'
<1> USE DbClientAssumption, DbWireAssumption
<1>1. /\ pc[c] = "idle" /\ called + 1 \in Statements /\ called' = called + 1
      /\ UNCHANGED <<dialed, mutex, conn, result>>
      /\ pc'[c] = "lock" /\ statement'[c] = called + 1
      /\ \A e \in Callers \ {c} : pc'[e] = pc[e] /\ statement'[e] = statement[e]
  BY SMTT(30) DEF Call, Goes, TypeOK, wireVars, Statements
<1>2. \A e \in Callers : statement[e] # called + 1 /\ statement[e] <= called + 1
  BY SMTT(30) DEF Holding, TypeOK
<1>3. ASSUME NEW e \in Callers, NEW f \in Callers, pc'[e] # "idle", statement'[e] = statement'[f]
      PROVE  e = f
  <2>1. CASE e = c \/ f = c
    BY <1>1, <1>2, <1>3, <2>1, Zenon
  <2>2. CASE e # c /\ f # c
    <3>1. pc[e] # "idle" /\ statement[e] = statement[f]
      BY <1>1, <1>3, <2>2, Zenon
    <3> QED BY <3>1, Zenon DEF Holding
  <2> QED BY <2>1, <2>2
<1>4. ASSUME NEW e \in Callers
      PROVE  /\ pc'[e] \notin {"idle", "lock"} => e # c /\ pc'[e] = pc[e]
             /\ pc'[e] = "idle" <=> statement'[e] = NoStatement
             /\ statement'[e] <= called'
             /\ pc'[e] # "idle" => result'[statement'[e]] = NoResult
  <2>1. CASE e = c
    <3>1. called + 1 > called /\ called + 1 # NoStatement /\ called + 1 <= called'
      <4>1. called \in 0..MaxCalls
        BY Zenon DEF TypeOK
      <4> QED BY <1>1, <4>1, SMTT(30) DEF NoStatement
    <3>2. result[called + 1] = NoResult
      BY <1>1, <3>1, Zenon DEF Holding
    <3>3. pc'[c] = "lock" /\ statement'[c] = called + 1 /\ result'[called + 1] = NoResult
      BY <1>1, <3>2, Zenon
    <3> QED BY <2>1, <3>1, <3>3, Zenon
  <2>2. CASE e # c
    <3>1. pc'[e] = pc[e] /\ statement'[e] = statement[e] /\ statement[e] <= called' /\ result' = result
      BY <1>1, <1>2, <2>2, Zenon
    <3>2. /\ pc[e] = "idle" <=> statement[e] = NoStatement
          /\ pc[e] # "idle" => result[statement[e]] = NoResult
      BY Zenon DEF Holding
    <3> QED BY <2>2, <3>1, <3>2, Zenon
  <2> QED BY <2>1, <2>2, Zenon
<1>5. ASSUME NEW s \in Statements, s > called' PROVE result'[s] = NoResult
  <2>1. s > called
    BY <1>1, <1>5, SMTT(30) DEF TypeOK, Statements
  <2> QED BY <1>1, <2>1, ZenonT(40) DEF Holding
<1>6. \A e \in Callers : pc'[e] \notin {"idle", "lock"} => mutex'[ClientOf[e]] = e
  BY <1>1, <1>4, ZenonT(40) DEF Holding
<1>7. \A e \in Callers : /\ pc'[e] = "dial" => Conn(e)' = Nobody
                         /\ pc'[e] \in OnConnection => Conn(e)' # Nobody
  <2>1. {"idle", "lock"} \cap ({"dial"} \cup OnConnection) = {}
    BY Zenon DEF OnConnection, InExchange
  <2>2. ASSUME NEW e \in Callers, pc'[e] \in {"dial"} \cup OnConnection
        PROVE  pc'[e] = pc[e] /\ Conn(e)' = Conn(e)
    BY <1>1, <1>4, <2>1, <2>2, Zenon DEF Conn
  <2> QED BY <2>2, ZenonT(40) DEF Holding
<1>8. /\ \A d \in Clients : conn'[d] <= dialed'
      /\ \A d, e \in Clients : conn'[d] = conn'[e] /\ conn'[d] # Nobody => d = e
  BY <1>1, Zenon DEF Holding
<1> QED BY <1>3, <1>4, <1>5, <1>6, <1>7, <1>8, Zenon DEF Holding

\* A step of a caller that holds or takes its client's mutex, and goes on.
LEMMA GoesHolding ==
    ASSUME TypeOK, Holding, NEW c \in Callers, pc[c] # "idle", mutex[ClientOf[c]] \in {c, Free},
           NEW to \in {"dial"} \cup OnConnection, Goes(c, to),
           mutex' = [mutex EXCEPT ![ClientOf[c]] = c], UNCHANGED <<statement, called, result, dialed, conn>>,
           to = "dial" <=> Conn(c) = Nobody
    PROVE  Holding'
<1> USE DbClientAssumption, DbWireAssumption
<1>0. ClientOf[c] \in Clients /\ to \notin {"idle", "lock"}
  BY Zenon DEF OnConnection, InExchange
<1>1. /\ pc'[c] = to /\ \A e \in Callers \ {c} : pc'[e] = pc[e]
      /\ mutex'[ClientOf[c]] = c /\ \A d \in Clients \ {ClientOf[c]} : mutex'[d] = mutex[d]
  BY <1>0 DEF Goes, TypeOK
<1>2. \A e \in Callers : pc'[e] = "idle" <=> pc[e] = "idle"
  BY <1>0, <1>1, Zenon
<1>3. ASSUME NEW e \in Callers, pc'[e] \notin {"idle", "lock"} PROVE mutex'[ClientOf[e]] = e
  <2>1. CASE e = c
    BY <1>1, <2>1, Zenon
  <2>2. CASE e # c
    <3>1. pc[e] \notin {"idle", "lock"}
      BY <1>1, <1>3, <2>2, Zenon
    <3>2. ClientOf[e] \in Clients \ {ClientOf[c]} /\ mutex[ClientOf[e]] = e
      BY <2>2, <3>1, Alone, Zenon DEF Holding
    <3> QED BY <1>1, <3>2, ZenonT(40)
  <2> QED BY <2>1, <2>2
<1>4. \A e \in Callers : /\ pc'[e] = "dial" => Conn(e)' = Nobody
                         /\ pc'[e] \in OnConnection => Conn(e)' # Nobody
  <2>1. TAKE e \in Callers
  <2>2. "dial" \notin OnConnection
    BY Zenon DEF OnConnection, InExchange
  <2>3. CASE e = c
    BY <1>1, <2>2, <2>3 DEF Conn
  <2>4. CASE e # c
    BY <1>1, <2>4, Zenon DEF Conn, Holding
  <2> QED BY <2>3, <2>4, Zenon
<1> QED BY <1>2, <1>3, <1>4, Zenon DEF Holding

LEMMA DialHolding ==
    ASSUME TypeOK, Holding, NEW c \in Callers, Dial(c)
    PROVE  Holding'
<1> USE DbClientAssumption, DbWireAssumption
<1>0. ClientOf[c] \in Clients
  BY Zenon
<1>1. /\ pc[c] = "dial" /\ pc'[c] = "arm" /\ \A e \in Callers \ {c} : pc'[e] = pc[e]
      /\ dialed' = dialed + 1 /\ dialed + 1 \in Conns /\ UNCHANGED <<statement, called, mutex, result>>
      /\ conn'[ClientOf[c]] = dialed + 1 /\ \A d \in Clients \ {ClientOf[c]} : conn'[d] = conn[d]
  <2>1. /\ pc' = [pc EXCEPT ![c] = "arm"] /\ conn' = [conn EXCEPT ![ClientOf[c]] = dialed + 1]
        /\ pc[c] = "dial" /\ dialed' = dialed + 1 /\ UNCHANGED <<statement, called, mutex, result>>
    BY Zenon DEF Dial, Goes
  <2>2. dialed + 1 \in Conns
    BY DEF Dial, TypeOK, Conns
  <2>3. pc'[c] = "arm" /\ \A e \in Callers \ {c} : pc'[e] = pc[e]
    BY <2>1, Zenon DEF TypeOK
  <2>4. conn'[ClientOf[c]] = dialed + 1 /\ \A d \in Clients \ {ClientOf[c]} : conn'[d] = conn[d]
    BY <1>0, <2>1 DEF TypeOK
  <2> QED BY <2>1, <2>2, <2>3, <2>4, Zenon
<1>2. mutex[ClientOf[c]] = c
  BY <1>1, Zenon DEF Holding
<1>3. \A e \in Callers : /\ pc'[e] = "idle" <=> pc[e] = "idle"
                         /\ pc'[e] \in {"idle", "lock"} <=> pc[e] \in {"idle", "lock"}
  BY <1>1, Zenon
<1>4. ASSUME NEW e \in Callers
      PROVE  /\ pc'[e] = "dial" => Conn(e)' = Nobody
             /\ pc'[e] \in OnConnection => Conn(e)' # Nobody
  <2>1. CASE e = c
    <3>1. pc'[e] = "arm" /\ Conn(e)' = dialed + 1
      BY <1>1, <2>1, Zenon DEF Conn
    <3>2. dialed + 1 # Nobody
      BY <1>1, Constants, Zenon
    <3> QED BY <3>1, <3>2, Zenon
  <2>2. CASE e # c /\ pc[e] \notin {"idle", "lock"}
    <3>1. ClientOf[e] \in Clients \ {ClientOf[c]}
      BY <1>2, <2>2, Alone
    <3> QED BY <1>1, <2>2, <3>1, Zenon DEF Holding, Conn
  <2>3. CASE e # c /\ pc[e] \in {"idle", "lock"}
    BY <1>1, <2>3, Zenon DEF OnConnection, InExchange
  <2> QED BY <2>1, <2>2, <2>3, ZenonT(40)
<1>5. ASSUME NEW d \in Clients PROVE conn[d] <= dialed /\ conn[d] # dialed + 1 /\ conn'[d] <= dialed'
  <2>1. conn[d] <= dialed /\ conn[d] \in 0..MaxConns /\ dialed \in 0..MaxConns
    BY Zenon DEF Holding, TypeOK
  <2>2. conn'[d] = conn[d] \/ conn'[d] = dialed + 1
    BY <1>1, SMTT(30)
  <2> QED BY <1>1, <2>1, <2>2
<1>6. ASSUME NEW d \in Clients, NEW e \in Clients, conn'[d] = conn'[e], conn'[d] # Nobody
      PROVE  d = e
  <2>1. CASE d # ClientOf[c] /\ e # ClientOf[c]
    <3>1. conn[d] = conn[e] /\ conn[d] # Nobody
      BY <1>1, <1>6, <2>1, Zenon
    <3> QED BY <3>1, Zenon DEF Holding
  <2>2. CASE d = ClientOf[c] \/ e = ClientOf[c]
    <3>1. \A x \in Clients : conn[x] # dialed + 1
      BY <1>5, Zenon
    <3> QED BY <1>1, <1>6, <2>2, <3>1, Zenon
  <2> QED BY <2>1, <2>2, Zenon
<1> QED BY <1>1, <1>3, <1>4, <1>5, <1>6, Zenon DEF Holding

LEMMA CloseHolding ==
    ASSUME TypeOK, Holding, NEW d \in Clients, CloseClient(d)
    PROVE  Holding'
<1>1. /\ mutex[d] = Free /\ UNCHANGED <<pc, statement, called, mutex, result, dialed>>
      /\ conn'[d] = Nobody /\ \A e \in Clients \ {d} : conn'[e] = conn[e]
  BY DEF CloseClient, Drop, TypeOK
<1>2. ASSUME NEW e \in Callers, pc[e] \notin {"idle", "lock"} PROVE ClientOf[e] \in Clients \ {d}
  BY <1>1, <1>2, DbClientAssumption, Zenon DEF Holding
<1>3. \A e \in Callers : /\ pc'[e] = "dial" => Conn(e)' = Nobody
                         /\ pc'[e] \in OnConnection => Conn(e)' # Nobody
  BY <1>1, <1>2, Zenon DEF Holding, Conn, OnConnection, InExchange
<1>4. \A e \in Clients : conn'[e] <= dialed'
  <2>1. TAKE e \in Clients
  <2>2. conn[e] <= dialed /\ 0 <= dialed
    BY DbWireAssumption DEF Holding, TypeOK
  <2> QED BY <1>1, <2>2, Zenon DEF Nobody
<1>5. \A e, f \in Clients : conn'[e] = conn'[f] /\ conn'[e] # Nobody => e = f
  BY <1>1, Zenon DEF Holding
<1> QED BY <1>1, <1>3, <1>4, <1>5, Zenon DEF Holding

LEMMA CallerHolding ==
    ASSUME TypeOK, Holding, NEW c \in Callers, Call(c) \/ Exec(c) \/ Cancel(c)
    PROVE  Holding'
<1> USE DbClientAssumption
<1>0. ASSUME pc[c] \notin {"idle", "lock"}
      PROVE  mutex[ClientOf[c]] = c /\ mutex = [mutex EXCEPT ![ClientOf[c]] = c]
  BY <1>0, SMTT(30) DEF Holding, TypeOK
<1>1. CASE Call(c)
  BY <1>1, CallHolding
<1>2. CASE Lock(c)
  <2>1. pc[c] # "idle" /\ mutex[ClientOf[c]] \in {c, Free} /\ UNCHANGED <<called, dialed, conn>>
    BY <1>2, Zenon DEF Lock, wireVars
  <2>2. CASE Return(c, Refused)
    BY <2>1, <2>2, ReturnHolding, Zenon
  <2>3. CASE ~Return(c, Refused)
    <3> DEFINE to == IF Conn(c) = Nobody THEN "dial" ELSE "arm"
    <3>1. /\ mutex' = [mutex EXCEPT ![ClientOf[c]] = c] /\ Goes(c, to)
          /\ UNCHANGED <<statement, result>>
      BY <1>2, <2>3, Zenon DEF Lock
    <3>2. CASE Conn(c) = Nobody
      <4>1. Goes(c, "dial")
        BY <3>1, <3>2, Zenon
      <4> QED BY <2>1, <3>1, <3>2, <4>1, GoesHolding, Zenon
    <3>3. CASE Conn(c) # Nobody
      <4>1. Goes(c, "arm") /\ "arm" \in OnConnection
        BY <3>1, <3>3, Zenon DEF OnConnection
      <4> QED BY <2>1, <3>1, <3>3, <4>1, GoesHolding, Zenon
    <3> QED BY <3>2, <3>3
  <2> QED BY <2>2, <2>3
<1>3. CASE Dial(c)
  BY <1>3, DialHolding
<1>4. CASE Arm(c) \/ WriteLength(c) \/ WritePayload(c) \/ ReadLength(c)
  <2>1. /\ pc[c] \in OnConnection /\ pc[c] \notin {"idle", "lock"}
        /\ \E to \in OnConnection : Goes(c, to)
        /\ UNCHANGED <<statement, called, mutex, result, dialed, conn>>
    BY <1>4, Zenon DEF Arm, WriteLength, WritePayload, Write, ReadLength, OnConnection, InExchange, wireVars
  <2>2. PICK to \in OnConnection : Goes(c, to)
    BY <2>1
  <2>3. to # "dial" /\ Conn(c) # Nobody /\ mutex' = [mutex EXCEPT ![ClientOf[c]] = c]
    BY <1>0, <2>1, Zenon DEF OnConnection, InExchange, Holding
  <2> QED BY <1>0, <2>1, <2>2, <2>3, GoesHolding, Zenon
<1>5. CASE Returns(c)
  <2>1. /\ pc[c] \notin {"idle", "lock"} /\ UNCHANGED <<called, dialed>>
        /\ conn' = conn \/ conn' = [conn EXCEPT ![ClientOf[c]] = Nobody]
    BY <1>5, Zenon DEF Returns, DialFails, ArmFails, ReadPayload, Fail, Drop, InExchange, wireVars
  <2>2. CASE Return(c, Refused)
    BY <1>0, <2>1, <2>2, ReturnHolding, Zenon
  <2>3. CASE Return(c, Unknown)
    BY <1>0, <2>1, <2>3, ReturnHolding, Zenon
  <2>4. CASE ReadPayload(c)
    <3>1. PICK r : r = Answer(Head(replies[Conn(c)]).of)
      BY ZenonT(40)
    <3>2. Return(c, r)
      BY <2>4, <3>1, Zenon DEF ReadPayload
    <3> QED BY <1>0, <2>1, <3>2, ReturnHolding
  <2> QED BY <1>5, <2>2, <2>3, <2>4, Zenon DEF Returns, DialFails, ArmFails, Fail
<1>6. CASE Cancel(c)
  BY <1>6, Zenon DEF Cancel, Holding, Conn, wireVars
<1> QED BY <1>1, <1>2, <1>3, <1>4, <1>5, <1>6, Zenon DEF Exec, Returns

-----------------------------------------------------------------------------
(* What each step of a handler does to the connection it serves, whatever  *)
(* its caller is doing.                                                    *)

LEMMA ReadLengthFits ==
    ASSUME NEW p \in OnConnection, NEW s, NEW rq, NEW rp, NEW pay, NEW done,
           Fits(p, s, rq, rp, "length", pay, done), rq # <<>>
    PROVE  Fits(p, s, Tail(rq), rp, "payload", pay, done)
<1>1. p \in {"payload", "replyLength"} /\ rp = <<>> /\ (p = "payload" => rq = <<L(s)>>)
      /\ (p = "replyLength" => rq = <<L(s), P(s)>>)
  <2>1. p \notin {"arm", "length", "replyPayload"}
    BY Zenon DEF Fits, Quiet, LengthRead
  <2>2. CASE p = "payload"
    BY <2>2, Zenon DEF Fits, LengthWritten
  <2>3. CASE p = "replyLength"
    BY <2>3 DEF Fits, AllWritten
  <2> QED BY <2>1, <2>2, <2>3, Zenon DEF OnConnection, InExchange
<1>2. (p = "payload" => Tail(rq) = <<>>) /\ (p = "replyLength" => Tail(rq) = <<P(s)>>)
  <2>1. Tail(<<L(s)>>) = <<>> /\ Tail(<<L(s), P(s)>>) = <<P(s)>>
    OBVIOUS
  <2> QED BY <1>1, <2>1, Zenon
<1> QED BY <1>1, <1>2, Zenon DEF Fits, LengthWritten, AllWritten, Working

LEMMA ReadPayloadFits ==
    ASSUME NEW p \in OnConnection, NEW s, NEW rq, NEW rp, NEW pay, NEW done,
           Fits(p, s, rq, rp, "payload", pay, done), rq # <<>>
    PROVE  Fits(p, s, Tail(rq), rp, "mutex", Head(rq).of, done)
<1>1. p = "replyLength" /\ rp = <<>> /\ rq = <<P(s)>>
  BY Zenon DEF Fits, Quiet, LengthWritten, AllWritten, LengthRead, OnConnection, InExchange
<1>2. Tail(rq) = <<>> /\ Head(rq).of = s
  BY <1>1, Tuples DEF P
<1> QED BY <1>1, <1>2, Zenon DEF Fits, AllWritten

LEMMA ExecuteFits ==
    ASSUME NEW p \in OnConnection, NEW s, NEW rq, NEW rp, NEW pay, NEW done
    PROVE  /\ Fits(p, s, rq, rp, "mutex", pay, done) => Fits(p, s, rq, rp, "execute", pay, done)
           /\ Fits(p, s, rq, rp, "execute", pay, done)
                => Fits(p, s, rq, rp, "replyLength", pay, done \cup {pay})
BY Zenon DEF Fits, Quiet, LengthWritten, AllWritten, LengthRead, OnConnection, InExchange, Working

LEMMA WriteLengthFits ==
    ASSUME NEW p \in OnConnection, NEW s, NEW rq, NEW rp, NEW pay, NEW done,
           Fits(p, s, rq, rp, "replyLength", pay, done)
    PROVE  Fits(p, s, rq, Append(rp, L(pay)), "replyPayload", pay, done)
<1>1. p = "replyLength" /\ rp = <<>> /\ rq = <<>> /\ pay = s /\ s \in done
  BY Zenon DEF Fits, Quiet, LengthWritten, AllWritten, LengthRead, OnConnection, InExchange, Working
<1>2. Append(rp, L(pay)) = <<L(s)>>
  BY <1>1, Tuples, Zenon
<1> QED BY <1>1, <1>2, Zenon DEF Fits, AllWritten, Working

LEMMA WritePayloadFits ==
    ASSUME NEW p \in OnConnection, NEW s, NEW rq, NEW rp, NEW pay, NEW none, NEW done,
           Fits(p, s, rq, rp, "replyPayload", pay, done)
    PROVE  Fits(p, s, rq, Append(rp, P(pay)), "length", none, done)
<1>1. /\ rq = <<>> /\ pay = s /\ s \in done
      /\ (p = "replyLength" /\ rp = <<L(s)>>) \/ (p = "replyPayload" /\ rp = <<>>)
  <2>1. p \notin {"arm", "length", "payload"} /\ pay = s /\ s \in done
    BY Zenon DEF Fits, Quiet, LengthWritten, Working
  <2>2. CASE p = "replyLength"
    <3>1. AllWritten(s, rq, rp, "replyPayload", done)
      BY <2>2, Zenon DEF Fits
    <3>2. rq = <<>> /\ rp = <<L(s)>>
      BY <3>1, Zenon DEF AllWritten
    <3> QED BY <2>1, <2>2, <3>2, Zenon
  <2>3. CASE p = "replyPayload"
    <3>1. LengthRead(s, rq, rp, "replyPayload", done)
      BY <2>3 DEF Fits
    <3>2. rq = <<>> /\ rp = <<>>
      BY <3>1 DEF LengthRead
    <3> QED BY <2>1, <2>3, <3>2, Zenon
  <2> QED BY <2>1, <2>2, <2>3, Zenon DEF OnConnection, InExchange
<1>2. /\ p = "replyLength" => Append(rp, P(pay)) = <<L(s), P(s)>>
      /\ p = "replyPayload" => Append(rp, P(pay)) = <<P(s)>>
  <2>1. Append(<<L(s)>>, P(s)) = <<L(s), P(s)>> /\ Append(<<>>, P(s)) = <<P(s)>>
    BY TwoParts
  <2> QED BY <1>1, <2>1, Zenon
<1> QED BY <1>1, <1>2, Zenon DEF Fits, AllWritten, LengthRead, Working

LEMMA OtherFits ==
    ASSUME NEW p \in OnConnection, NEW s, NEW rq, NEW rp, NEW pay, NEW none, NEW done
    PROVE  /\ \A h \in {"length", "payload", "replyLength", "replyPayload"} :
                  Fits(p, s, rq, rp, h, pay, done) => Fits(p, s, rq, rp, "gone", none, done)
           /\ Fits(p, s, rq, rp, "none", pay, done) => Fits(p, s, rq, rp, "length", pay, done)
BY Zenon DEF Fits, Quiet, LengthWritten, AllWritten, LengthRead, OnConnection, InExchange, Working

LEMMA MoreDoneFits ==
    ASSUME NEW p, NEW s, NEW rq, NEW rp, NEW h, NEW pay, NEW done, NEW more,
           Fits(p, s, rq, rp, h, pay, done), done \subseteq more
    PROVE  Fits(p, s, rq, rp, h, pay, more)
BY Zenon DEF Fits, AllWritten, LengthRead

LEMMA QuietFits ==
    ASSUME NEW p \in {"arm", "length"}, NEW s, NEW rq, NEW rp, NEW h, NEW pay, NEW done
    PROVE  Quiet(rq, rp, h) <=> Fits(p, s, rq, rp, h, pay, done)
BY Zenon DEF Fits, Quiet, Working

-----------------------------------------------------------------------------
(* The exchange on a connection that a client has.                         *)

\* What a step does to a connection, for whatever exchange is on it.
Suits(k) ==
    \A p \in OnConnection, s \in 0..MaxCalls :
        Fits(p, s, requests[k], replies[k], handler[k], payload[k], Executed)
        => Fits(p, s, requests'[k], replies'[k], handler'[k], payload'[k], Executed')

\* The order of the database grows by the statement that is executed.
LEMMA ExecutedGrows ==
    ASSUME TypeOK, Executor, NEW k \in Conns, ExecuteEnds(k)
    PROVE  /\ executed' = Append(executed, payload[k]) /\ Executed' = Executed \cup {payload[k]}
           /\ payload[k] \in Statements
           /\ DOMAIN executed' = 1..(Len(executed) + 1) /\ DOMAIN executed = 1..Len(executed)
           /\ Len(executed) \in Nat /\ executed'[Len(executed) + 1] = payload[k]
           /\ \A i \in 1..Len(executed) : executed'[i] = executed[i]
<1>1. executed' = Append(executed, payload[k]) /\ payload[k] \in Statements
  BY ZenonT(40) DEF ExecuteEnds, HandlerGoes, Executor, Working
<1>2. /\ DOMAIN executed' = 1..(Len(executed) + 1) /\ DOMAIN executed = 1..Len(executed)
      /\ Len(executed) \in Nat /\ executed'[Len(executed) + 1] = payload[k]
      /\ \A i \in 1..Len(executed) : executed'[i] = executed[i]
  <2>1. executed \in Seq(Statements)
    BY Zenon DEF TypeOK
  <2>2. executed' \in Seq(Statements) /\ Len(executed') = Len(executed) + 1
    BY <1>1, <2>1, AppendProperties, Zenon
  <2>3. executed'[Len(executed) + 1] = payload[k] /\ \A i \in 1..Len(executed) : executed'[i] = executed[i]
    BY <1>1, <2>1, AppendProperties, ZenonT(40)
  <2> QED BY <2>1, <2>2, <2>3, LenProperties, Zenon
<1>3. 1..(Len(executed) + 1) = (1..Len(executed)) \cup {Len(executed) + 1}
  BY <1>2
<1>4. Executed' = Executed \cup {payload[k]}
  BY <1>2, <1>3 DEF Executed
<1> QED BY <1>1, <1>2, <1>4, Zenon

LEMMA HandlerSuits ==
    ASSUME TypeOK, Executor, NEW k \in Conns, Handle(k)
    PROVE  Suits(k)
<1>0. SUFFICES ASSUME NEW p \in OnConnection, NEW s \in 0..MaxCalls,
                      Fits(p, s, requests[k], replies[k], handler[k], payload[k], Executed)
               PROVE  Fits(p, s, requests'[k], replies'[k], handler'[k], payload'[k], Executed')
  BY Zenon DEF Suits
<1>1. CASE ReadFrameLength(k)
  <2>1. /\ handler[k] = "length" /\ handler'[k] = "payload" /\ requests[k] # <<>>
        /\ requests'[k] = Tail(requests[k]) /\ UNCHANGED <<replies, payload, Executed>>
    BY <1>1, Zenon DEF ReadFrameLength, HandlerGoes, Receive, TypeOK, Executed
  <2> QED BY <1>0, <2>1, ReadLengthFits, Zenon
<1>2. CASE ReadFramePayload(k)
  <2>1. /\ handler[k] = "payload" /\ handler'[k] = "mutex" /\ requests[k] # <<>>
        /\ requests'[k] = Tail(requests[k]) /\ payload'[k] = Head(requests[k]).of
        /\ UNCHANGED <<replies, Executed>>
    BY <1>2, Zenon DEF ReadFramePayload, HandlerGoes, Receive, TypeOK, Executed
  <2> QED BY <1>0, <2>1, ReadPayloadFits, Zenon
<1>3. CASE ExecuteBegins(k)
  <2>1. /\ handler[k] = "mutex" /\ handler'[k] = "execute"
        /\ UNCHANGED <<requests, replies, payload, Executed>>
    BY <1>3, ZenonT(40) DEF ExecuteBegins, HandlerGoes, TypeOK, Executed, wireVars
  <2> QED BY <1>0, <2>1, ExecuteFits, Zenon
<1>4. CASE ExecuteEnds(k)
  <2>1. /\ handler[k] = "execute" /\ handler'[k] = "replyLength"
        /\ UNCHANGED <<requests, replies, payload>> /\ Executed' = Executed \cup {payload[k]}
    BY <1>4, ExecutedGrows, Zenon DEF ExecuteEnds, HandlerGoes, TypeOK, wireVars
  <2>2. Fits(p, s, requests[k], replies[k], "execute", payload[k], Executed)
        => Fits(p, s, requests[k], replies[k], "replyLength", payload[k], Executed \cup {payload[k]})
    BY <1>0, ExecuteFits, Zenon
  <2> QED BY <1>0, <2>1, <2>2, Zenon
<1>5. CASE WriteFrameLength(k)
  <2>1. /\ handler[k] = "replyLength" /\ handler'[k] = "replyPayload"
        /\ replies'[k] = Append(replies[k], L(payload[k])) /\ UNCHANGED <<requests, payload, Executed>>
    BY <1>5, Zenon DEF WriteFrameLength, HandlerGoes, Send, TypeOK, Executed, L
  <2> QED BY <1>0, <2>1, WriteLengthFits, Zenon
<1>6. CASE WriteFramePayload(k)
  <2>1. /\ handler[k] = "replyPayload" /\ handler'[k] = "length"
        /\ replies'[k] = Append(replies[k], P(payload[k])) /\ UNCHANGED <<requests, Executed>>
    BY <1>6, Zenon DEF WriteFramePayload, HandlerGoes, Send, TypeOK, Executed, P
  <2> QED BY <1>0, <2>1, WritePayloadFits, Zenon
<1>7. CASE HandlerFails(k)
  <2>1. /\ handler[k] \in {"length", "payload", "replyLength", "replyPayload"} /\ handler'[k] = "gone"
        /\ UNCHANGED <<requests, replies, Executed>>
    BY <1>7, Zenon DEF HandlerFails, TypeOK, Executed
  <2> QED BY <1>0, <2>1, OtherFits, ZenonT(40)
<1> QED BY <1>1, <1>2, <1>3, <1>4, <1>5, <1>6, <1>7, Zenon DEF Handle

\* A step of the server that suits the connection k and leaves the others alone.
LEMMA ServerExchange ==
    ASSUME TypeOK, Holding, Exchange, UNCHANGED <<pc, statement, mutex, conn>>,
           Executed \subseteq Executed', NEW k \in Conns, Suits(k),
           \A l \in Conns \ {k} : /\ requests'[l] = requests[l] /\ replies'[l] = replies[l]
                                  /\ handler'[l] = handler[l] /\ payload'[l] = payload[l]
    PROVE  Exchange'
<1>1. ASSUME NEW c \in Callers, pc'[c] \in OnConnection
      PROVE  FitsAt(pc[c], Conn(c), statement[c])'
  <2>1. pc[c] \in OnConnection /\ Conn(c) \in Conns /\ statement[c] \in 0..MaxCalls
    BY <1>1, ConnType, Constants, Zenon
  <2>2. FitsAt(pc[c], Conn(c), statement[c])
    BY <2>1, Zenon DEF Exchange
  <2>3. CASE Conn(c) = k
    BY <2>1, <2>2, <2>3, Zenon DEF Suits, FitsAt, Conn
  <2>4. CASE Conn(c) # k
    BY <2>1, <2>2, <2>4, MoreDoneFits, Zenon DEF FitsAt, Conn
  <2> QED BY <2>3, <2>4, Zenon
<1>2. ASSUME NEW d \in Clients, mutex'[d] = Free, conn'[d] # Nobody
      PROVE  QuietAt(conn[d])'
  <2>1. conn[d] \in Conns /\ QuietAt(conn[d])
    BY <1>2, Constants, Zenon DEF TypeOK, Exchange
  <2>2. CASE conn[d] # k
    BY <2>1, <2>2, Zenon DEF QuietAt
  <2>3. CASE conn[d] = k
    <3>1. "arm" \in OnConnection /\ NoStatement \in 0..MaxCalls
      BY Constants DEF OnConnection
    <3>2. Fits("arm", NoStatement, requests[k], replies[k], handler[k], payload[k], Executed)
      BY <2>1, <2>3, QuietFits, Zenon DEF QuietAt
    <3>3. Fits("arm", NoStatement, requests'[k], replies'[k], handler'[k], payload'[k], Executed')
      BY <3>1, <3>2, Zenon DEF Suits
    <3>4. Quiet(requests'[k], replies'[k], handler'[k])
      BY <3>3, QuietFits, Zenon
    <3> QED BY <2>3, <3>4, Zenon DEF QuietAt
  <2> QED BY <2>2, <2>3, Zenon
<1> QED BY <1>1, <1>2, Zenon DEF Exchange

LEMMA LifecycleExchange ==
    ASSUME TypeOK, Queued, Holding, Exchange, Lifecycle, UNCHANGED clientVars
    PROVE  Exchange'
<1>0. UNCHANGED <<pc, statement, mutex, conn, requests, replies, payload, executed>>
  BY Zenon DEF clientVars, Lifecycle, StopOnSignal, Serve, Accept, AcceptFails, Register, ServeReturns, wireVars
<1>1. CASE UNCHANGED handler
  BY <1>0, <1>1, Zenon DEF Exchange, FitsAt, QuietAt, Conn, Executed
<1>2. CASE Register /\ ~stopped
  <2>1. accepted \in Conns /\ handler[accepted] = "none"
    BY <1>2, Constants, Zenon DEF Register, Queued, TypeOK
  <2>2. /\ handler'[accepted] = "length" /\ Executed' = Executed
        /\ \A l \in Conns \ {accepted} : handler'[l] = handler[l]
    <3>1. handler' = [handler EXCEPT ![accepted] = "length"] /\ handler \in [Conns -> Places]
      BY <1>2, Zenon DEF Register, TypeOK
    <3>2. Executed' = Executed
      BY <1>0, Zenon DEF Executed
    <3> QED BY <2>1, <3>1, <3>2, Zenon
  <2>3. PICK k \in Conns : k = accepted
    BY <2>1
  <2>4. Suits(k)
    BY <1>0, <2>1, <2>2, <2>3, OtherFits, Zenon DEF Suits
  <2> QED BY <1>0, <2>2, <2>3, <2>4, ServerExchange, ZenonT(40)
<1> QED BY <1>1, <1>2, Zenon DEF Lifecycle, StopOnSignal, Serve, Accept, AcceptFails, Register, ServeReturns

LEMMA HandlerExchange ==
    ASSUME TypeOK, Executor, Holding, Exchange, NEW k \in Conns, Handle(k), UNCHANGED clientVars
    PROVE  Exchange'
<1>1. UNCHANGED <<pc, statement, mutex, conn>>
  BY DEF clientVars
<1>2. Executed \subseteq Executed'
  <2>1. CASE ExecuteEnds(k)
    BY <2>1, ExecutedGrows, Zenon
  <2>2. CASE ~ExecuteEnds(k)
    BY <2>2, HandlerFrame, Zenon DEF Executed
  <2> QED BY <2>1, <2>2
<1> QED BY <1>1, <1>2, HandlerSuits, HandlerFrame, ServerExchange, Zenon

LEMMA ExecutedStays ==
    ASSUME UNCHANGED executed
    PROVE  Executed' = Executed
BY Zenon DEF Executed

\* A step of the caller c, which holds its client before it or after it, and
\* leaves the exchanges of the other clients alone.
LEMMA CallerExchange ==
    ASSUME TypeOK, Holding, Holding', Exchange, NEW c \in Callers,
           UNCHANGED <<handler, payload, executed>>,
           \A e \in Callers \ {c} : pc'[e] = pc[e] /\ statement'[e] = statement[e],
           \A d \in Clients \ {ClientOf[c]} : conn'[d] = conn[d] /\ mutex'[d] = mutex[d],
           \A k \in Conns : k # Conn(c) => requests'[k] = requests[k] /\ replies'[k] = replies[k],
           mutex'[ClientOf[c]] \in {c, Free},
           pc'[c] \in OnConnection => FitsAt(pc[c], Conn(c), statement[c])',
           mutex'[ClientOf[c]] = Free /\ Conn(c)' # Nobody => QuietAt(Conn(c))'
    PROVE  Exchange'
<1> USE DbClientAssumption
<1>0. Executed' = Executed
  BY ExecutedStays, Zenon
<1>1. ASSUME NEW d \in Clients \ {ClientOf[c]}, conn[d] # Nobody
      PROVE  /\ conn'[d] = conn[d] /\ conn[d] \in Conns
             /\ requests'[conn[d]] = requests[conn[d]] /\ replies'[conn[d]] = replies[conn[d]]
  <2>1. conn[d] \in Conns /\ conn[d] # Conn(c)
    <3>1. conn[d] \in 0..MaxConns /\ ClientOf[c] \in Clients
      BY Zenon DEF TypeOK
    <3>2. conn[d] \in Conns
      BY <1>1, <3>1, Constants, Zenon
    <3> QED BY <1>1, <3>1, <3>2, Zenon DEF Holding, Conn
  <2> QED BY <2>1, Zenon
<1>2. ASSUME NEW e \in Callers, pc'[e] \in OnConnection, e # c
      PROVE  FitsAt(pc[e], Conn(e), statement[e])'
  <2>1. /\ pc[e] \in OnConnection /\ mutex'[ClientOf[e]] = e
        /\ pc'[e] = pc[e] /\ statement'[e] = statement[e]
    BY <1>2, Zenon DEF Holding, OnConnection, InExchange
  <2>2. ClientOf[e] \in Clients \ {ClientOf[c]}
    <3>1. e # Free
      BY Zenon
    <3>2. ClientOf[e] \in Clients
      BY Zenon
    <3>3. ASSUME ClientOf[e] = ClientOf[c] PROVE e = c
      BY <2>1, <3>1, <3>3, Zenon
    <3> QED BY <1>2, <3>2, <3>3, Zenon
  <2>3. FitsAt(pc[e], Conn(e), statement[e]) /\ conn[ClientOf[e]] # Nobody
    BY <2>1, Zenon DEF Exchange, Holding, Conn
  <2>4. /\ Conn(e)' = Conn(e) /\ requests'[Conn(e)] = requests[Conn(e)]
        /\ replies'[Conn(e)] = replies[Conn(e)]
    BY <1>1, <2>2, <2>3, Zenon DEF Conn
  <2> QED BY <1>0, <2>1, <2>3, <2>4, Zenon DEF FitsAt
<1>3. ASSUME NEW d \in Clients \ {ClientOf[c]}, mutex'[d] = Free, conn'[d] # Nobody
      PROVE  QuietAt(conn[d])'
  <2>1. QuietAt(conn[d]) /\ conn[d] # Nobody
    BY <1>3, Zenon DEF Exchange
  <2> QED BY <1>1, <2>1, Zenon DEF QuietAt
<1>4. \A d \in Clients : mutex'[d] = Free /\ conn'[d] # Nobody => QuietAt(conn[d])'
  BY <1>3, Zenon DEF Conn
<1> QED BY <1>2, <1>4, Zenon DEF Exchange

\* The steps of a caller on its own connection.
LEMMA WritesFit ==
    ASSUME NEW s, NEW rq, NEW rp, NEW h, NEW pay, NEW done
    PROVE  /\ Fits("length", s, rq, rp, h, pay, done)
                => Fits("payload", s, Append(rq, L(s)), rp, h, pay, done)
           /\ Fits("payload", s, rq, rp, h, pay, done)
                => Fits("replyLength", s, Append(rq, P(s)), rp, h, pay, done)
<1>0. /\ Append(<<>>, L(s)) = <<L(s)>> /\ Append(<<>>, P(s)) = <<P(s)>>
      /\ Append(<<L(s)>>, P(s)) = <<L(s), P(s)>>
  BY TwoParts
<1>1. ASSUME Fits("length", s, rq, rp, h, pay, done)
      PROVE  Fits("payload", s, Append(rq, L(s)), rp, h, pay, done)
  <2>1. Quiet(rq, rp, h)
    BY <1>1 DEF Fits
  <2>2. Append(rq, L(s)) = <<L(s)>> /\ rp = <<>> /\ h \in {"none", "length", "gone"}
    BY <1>0, <2>1, Zenon DEF Quiet
  <2> QED BY <2>2, Zenon DEF Fits, LengthWritten, Working
<1>2. ASSUME Fits("payload", s, rq, rp, h, pay, done)
      PROVE  Fits("replyLength", s, Append(rq, P(s)), rp, h, pay, done)
  <2>1. LengthWritten(s, rq, rp, h)
    BY <1>2 DEF Fits
  <2>2. /\ rp = <<>>
        /\ \/ Append(rq, P(s)) = <<L(s), P(s)>> /\ h \in {"none", "length", "gone"}
           \/ Append(rq, P(s)) = <<P(s)>> /\ h \in {"payload", "gone"}
    BY <1>0, <2>1, Zenon DEF LengthWritten
  <2>3. AllWritten(s, Append(rq, P(s)), rp, h, done) /\ h \notin Working
    BY <2>2, Zenon DEF AllWritten, Working
  <2> QED BY <2>3, Zenon DEF Fits, Working
<1> QED BY <1>1, <1>2

LEMMA ReadsFit ==
    ASSUME NEW s, NEW rq, NEW rp, NEW h, NEW pay, NEW done, rp # <<>>
    PROVE  /\ Fits("replyLength", s, rq, rp, h, pay, done)
                => Fits("replyPayload", s, rq, Tail(rp), h, pay, done)
           /\ Fits("replyPayload", s, rq, rp, h, pay, done)
                => Quiet(rq, Tail(rp), h) /\ Head(rp).of = s /\ s \in done
<1>0. /\ Tail(<<L(s)>>) = <<>> /\ Tail(<<P(s)>>) = <<>> /\ Tail(<<L(s), P(s)>>) = <<P(s)>>
      /\ Head(<<P(s)>>) = P(s) /\ P(s).of = s
  BY DEF P
<1>1. ASSUME Fits("replyLength", s, rq, rp, h, pay, done)
      PROVE  Fits("replyPayload", s, rq, Tail(rp), h, pay, done)
  <2>1. AllWritten(s, rq, rp, h, done)
    BY <1>1, Zenon DEF Fits
  <2>2. /\ rq = <<>> /\ s \in done
        /\ \/ rp = <<L(s)>> /\ h \in {"replyPayload", "gone"}
           \/ rp = <<L(s), P(s)>> /\ h \in {"length", "gone"}
    BY <2>1 DEF AllWritten
  <2>3. LengthRead(s, rq, Tail(rp), h, done)
    BY <1>0, <2>2, Zenon DEF LengthRead
  <2> QED BY <1>1, <2>3, Zenon DEF Fits
<1>2. ASSUME Fits("replyPayload", s, rq, rp, h, pay, done)
      PROVE  Quiet(rq, Tail(rp), h) /\ Head(rp).of = s /\ s \in done
  <2>1. LengthRead(s, rq, rp, h, done)
    BY <1>2 DEF Fits
  <2>2. rq = <<>> /\ s \in done /\ rp = <<P(s)>> /\ h \in {"length", "gone"}
    BY <2>1 DEF LengthRead
  <2>3. Tail(rp) = <<>> /\ Head(rp).of = s
    BY <1>0, <2>2, Zenon
  <2> QED BY <2>2, <2>3, Zenon DEF Quiet
<1> QED BY <1>1, <1>2, Zenon

LEMMA ExecExchange ==
    ASSUME TypeOK, Queued, Holding, Holding', Exchange, NEW c \in Callers, Exec(c), UNCHANGED serverVars
    PROVE  Exchange'
<1> USE DbClientAssumption
<1>0. ClientOf[c] \in Clients /\ UNCHANGED <<handler, payload, executed>> /\ Executed' = Executed
  BY Zenon DEF serverVars, Executed
<1>f. \A k \in Conns : k # Conn(c) => requests'[k] = requests[k] /\ replies'[k] = replies[k]
  BY CallerFrame, Zenon
<1>h. pc[c] # "lock" => mutex[ClientOf[c]] = c
  BY ZenonT(40) DEF Exec, Lock, Dial, DialFails, Arm, ArmFails, WriteLength, WritePayload, Write, ReadLength,
         ReadPayload, Fail, InExchange, Holding
<1>p. ASSUME pc[c] \in OnConnection
      PROVE  Conn(c) \in Conns /\ Conn(c) # Nobody /\ FitsAt(pc[c], Conn(c), statement[c])
  BY <1>p, ConnType, Constants, Zenon DEF Exchange
\* The steps that return.
<1>r. ASSUME NEW r, Return(c, r), conn' = conn \/ conn' = [conn EXCEPT ![ClientOf[c]] = Nobody],
             Conn(c)' # Nobody => QuietAt(Conn(c))'
      PROVE  Exchange'
  <2>1. /\ \A e \in Callers \ {c} : pc'[e] = pc[e] /\ statement'[e] = statement[e]
        /\ \A d \in Clients \ {ClientOf[c]} : conn'[d] = conn[d] /\ mutex'[d] = mutex[d]
        /\ mutex'[ClientOf[c]] = Free /\ pc'[c] = "idle"
    BY <1>0, <1>r, Zenon DEF Return, Goes, TypeOK
  <2>2. pc'[c] \notin OnConnection
    BY <2>1, Zenon DEF OnConnection, InExchange
  <2> QED BY <1>0, <1>f, <1>r, <2>1, <2>2, CallerExchange, Zenon
\* The steps that go on.
<1>g. ASSUME NEW to, Goes(c, to), mutex' = [mutex EXCEPT ![ClientOf[c]] = c],
             \A d \in Clients \ {ClientOf[c]} : conn'[d] = conn[d], statement' = statement,
             to \in OnConnection => FitsAt(to, Conn(c), statement[c])'
      PROVE  Exchange'
  <2>1. /\ \A e \in Callers \ {c} : pc'[e] = pc[e] /\ statement'[e] = statement[e]
        /\ \A d \in Clients \ {ClientOf[c]} : conn'[d] = conn[d] /\ mutex'[d] = mutex[d]
        /\ mutex'[ClientOf[c]] = c /\ pc'[c] = to
    BY <1>0, <1>g, Zenon DEF Goes, TypeOK
  <2>2. mutex'[ClientOf[c]] # Free
    BY <2>1, Zenon
  <2>3. pc'[c] \in OnConnection => FitsAt(pc[c], Conn(c), statement[c])'
    BY <1>g, <2>1, Zenon DEF FitsAt
  <2> QED BY <1>0, <1>f, <2>1, <2>2, <2>3, CallerExchange, ZenonT(40)
<1>m. ASSUME pc[c] # "lock", mutex' = mutex PROVE mutex' = [mutex EXCEPT ![ClientOf[c]] = c]
  BY <1>0, <1>h, <1>m DEF TypeOK
<1>1. CASE Lock(c)
  <2>1. UNCHANGED <<conn, requests, replies>> /\ mutex[ClientOf[c]] = Free
    BY <1>1, Zenon DEF Lock, wireVars
  <2>2. Conn(c) # Nobody => QuietAt(Conn(c))
    BY <1>0, <2>1, Zenon DEF Exchange, Conn
  <2>3. CASE Return(c, Refused)
    BY <1>0, <1>r, <2>1, <2>2, <2>3, Zenon DEF Conn, QuietAt
  <2>4. CASE ~Return(c, Refused)
    <3>1. mutex' = [mutex EXCEPT ![ClientOf[c]] = c] /\ statement' = statement
      BY <1>1, <2>4, Zenon DEF Lock
    <3>2. CASE Conn(c) = Nobody
      <4>1. Goes(c, "dial") /\ "dial" \notin OnConnection
        BY <1>1, <2>4, <3>2, Zenon DEF Lock, OnConnection, InExchange
      <4> QED BY <1>g, <2>1, <3>1, <4>1
    <3>3. CASE Conn(c) # Nobody
      <4>1. Goes(c, "arm")
        BY <1>1, <2>4, <3>3, Zenon DEF Lock
      <4>2. FitsAt("arm", Conn(c), statement[c])'
        BY <1>0, <2>1, <2>2, <3>1, <3>3, QuietFits, Zenon DEF FitsAt, QuietAt, Conn
      <4> QED BY <1>g, <2>1, <3>1, <4>1, <4>2, Zenon
    <3> QED BY <3>2, <3>3, Zenon
  <2> QED BY <2>3, <2>4
<1>2. CASE Dial(c)
  <2>1. /\ Goes(c, "arm") /\ UNCHANGED <<mutex, statement, requests, replies>> /\ pc[c] # "lock"
        /\ conn' = [conn EXCEPT ![ClientOf[c]] = dialed + 1]
    BY <1>2, Zenon DEF Dial
  <2>2. dialed + 1 \in Conns /\ dialed + 1 > dialed
    BY <1>2, DbWireAssumption DEF Dial, TypeOK, Conns
  <2>3. Conn(c)' = dialed + 1 /\ \A d \in Clients \ {ClientOf[c]} : conn'[d] = conn[d]
    BY <1>0, <2>1 DEF TypeOK, Conn
  <2>4. Quiet(requests[dialed + 1], replies[dialed + 1], handler[dialed + 1])
    BY <2>2, Zenon DEF Queued, Quiet
  <2>5. FitsAt("arm", Conn(c), statement[c])'
    BY <1>0, <2>1, <2>3, <2>4, QuietFits, Zenon DEF FitsAt
  <2> QED BY <1>g, <1>m, <2>1, <2>3, <2>5, Zenon
<1>3. CASE Arm(c)
  <2>1. Goes(c, "length") /\ UNCHANGED <<mutex, statement, requests, replies, conn>> /\ pc[c] = "arm"
    BY <1>3, Zenon DEF Arm, wireVars
  <2>2. FitsAt("arm", Conn(c), statement[c])
    BY <1>p, <2>1, Zenon DEF OnConnection
  <2>3. FitsAt("length", Conn(c), statement[c])'
    BY <1>0, <2>1, <2>2, QuietFits, Zenon DEF FitsAt, Conn
  <2> QED BY <1>g, <1>m, <2>1, <2>3, Zenon
<1>4. CASE WriteLength(c)
  <2>1. /\ Goes(c, "payload") /\ UNCHANGED <<mutex, statement, replies, conn>> /\ pc[c] = "length"
        /\ requests' = [requests EXCEPT ![Conn(c)] = Append(@, L(statement[c]))]
    BY <1>4, Zenon DEF WriteLength, Write, Send, L
  <2>2. Conn(c) \in Conns /\ FitsAt("length", Conn(c), statement[c])
    BY <1>p, <2>1, Zenon DEF OnConnection, InExchange
  <2>3. requests'[Conn(c)] = Append(requests[Conn(c)], L(statement[c]))
    BY <2>1, <2>2, Zenon DEF TypeOK
  <2>4. FitsAt("payload", Conn(c), statement[c])'
    <3>1. Fits("payload", statement[c], Append(requests[Conn(c)], L(statement[c])), replies[Conn(c)],
               handler[Conn(c)], payload[Conn(c)], Executed)
      BY <2>1, <2>2, WritesFit, Zenon DEF FitsAt
    <3>2. Conn(c)' = Conn(c)
      BY <2>1, Zenon DEF Conn
    <3> QED BY <1>0, <2>1, <2>3, <3>1, <3>2, Zenon DEF FitsAt
  <2> QED BY <1>g, <1>m, <2>1, <2>4, Zenon
<1>5. CASE WritePayload(c)
  <2>1. /\ Goes(c, "replyLength") /\ UNCHANGED <<mutex, statement, replies, conn>> /\ pc[c] = "payload"
        /\ requests' = [requests EXCEPT ![Conn(c)] = Append(@, P(statement[c]))]
    BY <1>5, Zenon DEF WritePayload, Write, Send, P
  <2>2. Conn(c) \in Conns /\ FitsAt("payload", Conn(c), statement[c])
    BY <1>p, <2>1, Zenon DEF OnConnection, InExchange
  <2>3. requests'[Conn(c)] = Append(requests[Conn(c)], P(statement[c]))
    BY <2>1, <2>2 DEF TypeOK
  <2>4. FitsAt("replyLength", Conn(c), statement[c])'
    <3>1. Fits("replyLength", statement[c], Append(requests[Conn(c)], P(statement[c])), replies[Conn(c)],
               handler[Conn(c)], payload[Conn(c)], Executed)
      BY <2>1, <2>2, WritesFit, Zenon DEF FitsAt
    <3>2. Conn(c)' = Conn(c)
      BY <2>1, Zenon DEF Conn
    <3> QED BY <1>0, <2>1, <2>3, <3>1, <3>2, Zenon DEF FitsAt
  <2> QED BY <1>g, <1>m, <2>1, <2>4, Zenon
<1>6. CASE ReadLength(c)
  <2>1. /\ Goes(c, "replyPayload") /\ UNCHANGED <<mutex, statement, requests, conn>>
        /\ pc[c] = "replyLength" /\ replies[Conn(c)] # <<>>
        /\ replies' = [replies EXCEPT ![Conn(c)] = Tail(@)]
    BY <1>6, Zenon DEF ReadLength, Receive
  <2>2. Conn(c) \in Conns /\ FitsAt("replyLength", Conn(c), statement[c])
    BY <1>p, <2>1, Zenon DEF OnConnection, InExchange
  <2>3. replies'[Conn(c)] = Tail(replies[Conn(c)])
    BY <2>1, <2>2 DEF TypeOK
  <2>4. FitsAt("replyPayload", Conn(c), statement[c])'
    <3>1. Fits("replyPayload", statement[c], requests[Conn(c)], Tail(replies[Conn(c)]),
               handler[Conn(c)], payload[Conn(c)], Executed)
      BY <2>1, <2>2, ReadsFit, Zenon DEF FitsAt
    <3>2. Conn(c)' = Conn(c)
      BY <2>1, Zenon DEF Conn
    <3> QED BY <1>0, <2>1, <2>3, <3>1, <3>2, Zenon DEF FitsAt
  <2> QED BY <1>g, <1>m, <2>1, <2>4, Zenon
<1>7. CASE ReadPayload(c)
  <2>1. /\ UNCHANGED <<requests, conn>> /\ pc[c] = "replyPayload" /\ replies[Conn(c)] # <<>>
        /\ replies' = [replies EXCEPT ![Conn(c)] = Tail(@)]
    BY <1>7, Zenon DEF ReadPayload, Receive
  <2>2. Conn(c) \in Conns /\ FitsAt("replyPayload", Conn(c), statement[c])
    BY <1>p, <2>1, Zenon DEF OnConnection, InExchange
  <2>3. replies'[Conn(c)] = Tail(replies[Conn(c)])
    BY <2>1, <2>2 DEF TypeOK
  <2>q. Quiet(requests[Conn(c)], Tail(replies[Conn(c)]), handler[Conn(c)])
    BY <2>1, <2>2, ReadsFit, Zenon DEF FitsAt
  <2>4. QuietAt(Conn(c))'
    BY <1>0, <2>1, <2>3, <2>q, Zenon DEF QuietAt, Conn
  <2>5. PICK r : r = Answer(Head(replies[Conn(c)]).of)
    OBVIOUS
  <2>6. Return(c, r)
    BY <1>7, <2>5, Zenon DEF ReadPayload
  <2> QED BY <1>r, <2>1, <2>4, <2>6, Zenon
<1>8. CASE DialFails(c)
  <2>1. Return(c, Refused) /\ conn' = conn /\ Conn(c)' = Nobody
    BY <1>8, Zenon DEF DialFails, Holding, Conn
  <2> QED BY <1>r, <2>1
<1>9. CASE ArmFails(c) \/ Fail(c)
  <2>1. /\ Return(c, Refused) \/ Return(c, Unknown)
        /\ conn' = [conn EXCEPT ![ClientOf[c]] = Nobody]
    BY <1>9, Zenon DEF ArmFails, Fail, Drop
  <2>2. Conn(c)' = Nobody
    BY <1>0, <2>1, Zenon DEF Conn, TypeOK
  <2> QED BY <1>r, <2>1, <2>2, Zenon
<1> QED BY <1>1, <1>2, <1>3, <1>4, <1>5, <1>6, <1>7, <1>8, <1>9, Zenon DEF Exec

-----------------------------------------------------------------------------
(* A statement is executed once.                                           *)

\* What a step of a handler does to the requests of its connection.
LEMMA LengthReadBrings ==
    ASSUME NEW rq, NEW pay, Shape(rq, "length"), rq # <<>>
    PROVE  /\ Shape(Tail(rq), "payload")
           /\ \A s : Brings(s, Tail(rq), "payload", pay) => Brings(s, rq, "length", pay)
<1>1. PICK t \in Statements : rq = <<L(t)>> \/ rq = <<L(t), P(t)>>
  BY Zenon DEF Shape
<1>2. CASE rq = <<L(t)>>
  <2>1. Tail(<<L(t)>>) = <<>>
    OBVIOUS
  <2>2. Tail(rq) = <<>>
    BY <1>2, <2>1, Zenon
  <2> QED BY <2>2 DEF Shape, Brings
<1>3. CASE rq = <<L(t), P(t)>>
  <2>1. Tail(<<L(t), P(t)>>) = <<P(t)>>
    OBVIOUS
  <2>2. Tail(rq) = <<P(t)>>
    BY <1>3, <2>1, Zenon
  <2>3. \A s : /\ <<P(t)>> = <<P(s)>> => s = t
               /\ <<P(t)>> # <<L(s), P(s)>>
    BY TuplesDiffer, Zenon DEF P
  <2> QED BY <1>3, <2>2, <2>3 DEF Shape, Brings
<1> QED BY <1>1, <1>2, <1>3, Zenon

LEMMA PayloadReadBrings ==
    ASSUME NEW rq, NEW pay, Shape(rq, "payload"), rq # <<>>
    PROVE  /\ Shape(Tail(rq), "mutex")
           /\ \A s : Brings(s, Tail(rq), "mutex", Head(rq).of) => Brings(s, rq, "payload", pay)
<1>1. PICK t \in Statements : rq = <<P(t)>>
  BY Zenon DEF Shape
<1>2. Tail(<<P(t)>>) = <<>> /\ Head(<<P(t)>>).of = t
  BY DEF P
<1>3. Tail(rq) = <<>> /\ Head(rq).of = t
  BY <1>1, <1>2, Zenon
<1> QED BY <1>1, <1>3 DEF Shape, Brings

LEMMA WorkingShape ==
    ASSUME NEW rq, NEW h \in Working, Shape(rq, h)
    PROVE  rq = <<>>
BY DEF Shape, Working

LEMMA OnceKept ==
    ASSUME Once, executed' = executed,
           \A k \in Conns : Shape(requests'[k], handler'[k]),
           \A k \in Conns : \A s : Brings(s, requests'[k], handler'[k], payload'[k]) => BringsAt(k, s),
           \A c \in Callers : pc'[c] \in Unwritten => Untouched(statement'[c]),
           \A s \in Statements : result'[s] = Refused \/ s > called' => Untouched(s)
    PROVE  Once'
<1>0. Executed' = Executed
  BY Zenon DEF Executed
<1>1. \A k \in Conns : \A s : BringsAt(k, s)' => BringsAt(k, s)
  BY Zenon DEF BringsAt
<1>2. \A c \in Callers : pc'[c] \in Unwritten => Untouched(statement[c])'
  BY <1>0, <1>1, Zenon DEF Untouched
<1>3. \A s \in Statements : result'[s] = Refused \/ s > called' => Untouched(s)'
  BY <1>0, <1>1, Zenon DEF Untouched
<1>4. /\ \A s \in Statements : \A k, l \in Conns : BringsAt(k, s)' /\ BringsAt(l, s)' => k = l
      /\ \A s \in Statements : \A k \in Conns : BringsAt(k, s)' => s \notin Executed'
  BY <1>0, <1>1, Zenon DEF Once
<1>5. \A i, j \in DOMAIN executed' : executed'[i] = executed'[j] => i = j
  BY Zenon DEF Once
<1> QED BY <1>2, <1>3, <1>4, <1>5, Zenon DEF Once

\* A statement that has been executed is brought nowhere.
LEMMA ExecutedOnce ==
    ASSUME TypeOK, Executor, Once, NEW k \in Conns, ExecuteEnds(k), UNCHANGED clientVars
    PROVE  Once'
<1>0. UNCHANGED <<pc, statement, called, result>>
  BY Zenon DEF clientVars
<1>1. /\ handler[k] = "execute" /\ handler'[k] = "replyLength" /\ UNCHANGED <<requests, payload>>
      /\ \A l \in Conns \ {k} : handler'[l] = handler[l]
  BY DEF ExecuteEnds, HandlerGoes, TypeOK, wireVars
<1>2. requests[k] = <<>> /\ BringsAt(k, payload[k]) /\ payload[k] \in Statements
  <2>1. Shape(requests[k], "execute")
    BY <1>1, Zenon DEF Once
  <2> QED BY <1>1, <2>1, WorkingShape, ExecutedGrows, Zenon DEF BringsAt, Brings, Working
<1>3. /\ \A s : ~BringsAt(k, s)'
      /\ \A l \in Conns \ {k} : \A s : BringsAt(l, s)' <=> BringsAt(l, s)
  <2>1. \A s : <<>> # <<P(s)>> /\ <<>> # <<L(s), P(s)>>
    OBVIOUS
  <2>2. requests'[k] = <<>> /\ handler'[k] \notin {"mutex", "execute"}
    BY <1>1, <1>2, Zenon
  <2> QED BY <1>1, <2>1, <2>2, Zenon DEF BringsAt, Brings
<1>4. Executed' = Executed \cup {payload[k]}
  BY ExecutedGrows, Zenon
<1>5. ASSUME NEW s, Untouched(s) PROVE s \notin Executed' /\ \A l \in Conns : ~BringsAt(l, s)'
  <2>1. s # payload[k]
    BY <1>2, <1>5 DEF Untouched
  <2> QED BY <1>3, <1>4, <1>5, <2>1, Zenon DEF Untouched
<1>6. \A l \in Conns : Shape(requests'[l], handler'[l])
  <2>1. Shape(requests'[k], handler'[k])
    BY <1>1, <1>2, Zenon DEF Shape
  <2> QED BY <1>1, <2>1, ZenonT(40) DEF Once
<1>7. /\ \A s \in Statements : \A m, l \in Conns : BringsAt(m, s)' /\ BringsAt(l, s)' => m = l
      /\ \A s \in Statements : \A l \in Conns : BringsAt(l, s)' => s \notin Executed'
  BY <1>2, <1>3, <1>4, ZenonT(40) DEF Once
<1>8. \A c \in Callers : pc'[c] \in Unwritten => Untouched(statement[c])'
  BY <1>0, <1>5, Zenon DEF Once, Untouched
<1>9. \A s \in Statements : result'[s] = Refused \/ s > called' => Untouched(s)'
  BY <1>0, <1>5, Zenon DEF Once, Untouched
<1>10. ASSUME NEW i \in DOMAIN executed', NEW j \in DOMAIN executed', executed'[i] = executed'[j]
       PROVE  i = j
  <2>1. payload[k] \notin Executed
    BY <1>2, Zenon DEF Once
  <2>2. \A m \in 1..Len(executed) : executed[m] # payload[k]
    BY <2>1, ExecutedGrows, Zenon DEF Executed
  <2>3. CASE i \in 1..Len(executed) /\ j \in 1..Len(executed)
    BY <1>10, <2>3, ExecutedGrows, Zenon DEF Once
  <2>4. CASE i = Len(executed) + 1 \/ j = Len(executed) + 1
    BY <1>10, <2>2, <2>4, ExecutedGrows
  <2>5. /\ i \in 1..Len(executed) \/ i = Len(executed) + 1
        /\ j \in 1..Len(executed) \/ j = Len(executed) + 1
    <3>1. i \in 1..(Len(executed) + 1) /\ j \in 1..(Len(executed) + 1) /\ Len(executed) \in Nat
      BY <1>10, ExecutedGrows, Zenon
    <3> QED BY <3>1
  <2> QED BY <2>3, <2>4, <2>5, Zenon
<1> QED BY <1>6, <1>7, <1>8, <1>9, <1>10, Zenon DEF Once

LEMMA HandlerOnce ==
    ASSUME TypeOK, Executor, Once, NEW k \in Conns, Handle(k), UNCHANGED clientVars
    PROVE  Once'
<1>0. UNCHANGED <<pc, statement, called, result>>
  BY DEF clientVars
<1>f. \A l \in Conns \ {k} : /\ requests'[l] = requests[l] /\ handler'[l] = handler[l]
                             /\ payload'[l] = payload[l]
  BY HandlerFrame, Zenon
<1>s. Shape(requests[k], handler[k])
  BY Zenon DEF Once
<1>1. ASSUME executed' = executed, Shape(requests'[k], handler'[k]),
             \A s : Brings(s, requests'[k], handler'[k], payload'[k]) => BringsAt(k, s)
      PROVE  Once'
  <2>1. \A l \in Conns : Shape(requests'[l], handler'[l])
    BY <1>1, <1>f, Zenon DEF Once
  <2>2. \A l \in Conns : \A s : Brings(s, requests'[l], handler'[l], payload'[l]) => BringsAt(l, s)
    BY <1>1, <1>f, ZenonT(40) DEF BringsAt
  <2>3. /\ \A c \in Callers : pc'[c] \in Unwritten => Untouched(statement'[c])
        /\ \A s \in Statements : result'[s] = Refused \/ s > called' => Untouched(s)
    BY <1>0, Zenon DEF Once
  <2> QED BY <1>1, <2>1, <2>2, <2>3, OnceKept, Zenon
<1>2. CASE ReadFrameLength(k)
  <2>1. /\ handler[k] = "length" /\ handler'[k] = "payload" /\ requests[k] # <<>>
        /\ requests'[k] = Tail(requests[k]) /\ UNCHANGED <<payload, executed>>
    BY <1>2 DEF ReadFrameLength, HandlerGoes, Receive, TypeOK
  <2>2. /\ Shape(Tail(requests[k]), "payload")
        /\ \A s : Brings(s, Tail(requests[k]), "payload", payload[k]) => BringsAt(k, s)
    BY <1>s, <2>1, LengthReadBrings, Zenon DEF BringsAt
  <2> QED BY <1>1, <2>1, <2>2, Zenon
<1>3. CASE ReadFramePayload(k)
  <2>1. /\ handler[k] = "payload" /\ handler'[k] = "mutex" /\ requests[k] # <<>>
        /\ requests'[k] = Tail(requests[k]) /\ payload'[k] = Head(requests[k]).of
        /\ executed' = executed
    BY <1>3, Zenon DEF ReadFramePayload, HandlerGoes, Receive, TypeOK
  <2>2. /\ Shape(Tail(requests[k]), "mutex")
        /\ \A s : Brings(s, Tail(requests[k]), "mutex", Head(requests[k]).of) => BringsAt(k, s)
    BY <1>s, <2>1, PayloadReadBrings, Zenon DEF BringsAt
  <2> QED BY <1>1, <2>1, <2>2, Zenon
<1>4. CASE ExecuteBegins(k)
  <2>1. /\ handler[k] = "mutex" /\ handler'[k] = "execute" /\ UNCHANGED <<requests, payload, executed>>
    BY <1>4, Zenon DEF ExecuteBegins, HandlerGoes, TypeOK, wireVars
  <2>2. requests[k] = <<>>
    BY <1>s, <2>1, WorkingShape DEF Working
  <2> QED BY <1>1, <2>1, <2>2, Zenon DEF BringsAt, Brings, Shape
<1>5. CASE WriteFrameLength(k) \/ WriteFramePayload(k)
  <2>1. /\ handler[k] \in {"replyLength", "replyPayload"} /\ handler'[k] \in {"replyPayload", "length"}
        /\ UNCHANGED <<requests, executed>>
    BY <1>5, Zenon DEF WriteFrameLength, WriteFramePayload, HandlerGoes, TypeOK
  <2>2. requests[k] = <<>>
    BY <1>s, <2>1, WorkingShape, Zenon DEF Working
  <2> QED BY <1>1, <2>1, <2>2, Zenon DEF BringsAt, Brings, Shape
<1>6. CASE HandlerFails(k)
  <2>1. /\ handler[k] \in {"length", "payload", "replyLength", "replyPayload"} /\ handler'[k] = "gone"
        /\ UNCHANGED <<requests, executed>>
    BY <1>6, Zenon DEF HandlerFails, TypeOK
  <2>2. Shape(requests'[k], handler'[k])
    BY <1>s, <2>1, ZenonT(40) DEF Shape
  <2>3. \A s : Brings(s, requests'[k], handler'[k], payload'[k]) => BringsAt(k, s)
    BY <2>1, Zenon DEF BringsAt, Brings
  <2> QED BY <1>1, <2>1, <2>2, <2>3, Zenon
<1> QED BY <1>2, <1>3, <1>4, <1>5, <1>6, ExecutedOnce DEF Handle

LEMMA LifecycleOnce ==
    ASSUME TypeOK, Queued, Once, Lifecycle, UNCHANGED clientVars
    PROVE  Once'
<1>0. UNCHANGED <<pc, statement, called, result, requests, payload, executed>>
  BY ZenonT(40) DEF clientVars, Lifecycle, StopOnSignal, Serve, Accept, AcceptFails, Register, ServeReturns, wireVars
<1>1. \A k \in Conns : handler'[k] = handler[k] \/ (handler[k] = "none" /\ handler'[k] = "length")
  <2>1. CASE UNCHANGED handler
    BY <2>1, Zenon
  <2>2. CASE Register /\ ~stopped
    <3>1. accepted \in Conns /\ handler[accepted] = "none"
      BY <2>2, Constants, Zenon DEF Register, Queued, TypeOK
    <3> QED BY <2>2, <3>1, ZenonT(40) DEF Register, TypeOK
  <2> QED BY <2>1, <2>2, Zenon DEF Lifecycle, StopOnSignal, Serve, Accept, AcceptFails, Register, ServeReturns
<1>2. ASSUME NEW k \in Conns
      PROVE  /\ Shape(requests'[k], handler'[k])
             /\ \A s : Brings(s, requests'[k], handler'[k], payload'[k]) => BringsAt(k, s)
  <2>1. CASE handler'[k] = handler[k]
    BY <1>0, <2>1, Zenon DEF Once, BringsAt
  <2>2. CASE handler[k] = "none" /\ handler'[k] = "length"
    <3>1. Shape(requests[k], "none")
      BY <2>2, Zenon DEF Once
    <3>2. Shape(requests[k], "length")
      BY <3>1 DEF Shape
    <3> QED BY <1>0, <2>2, <3>2, Zenon DEF BringsAt, Brings
  <2> QED BY <1>1, <2>1, <2>2, Zenon
<1>3. /\ \A c \in Callers : pc'[c] \in Unwritten => Untouched(statement'[c])
      /\ \A s \in Statements : result'[s] = Refused \/ s > called' => Untouched(s)
  BY <1>0, Zenon DEF Once
<1> QED BY <1>0, <1>2, <1>3, OnceKept, Zenon

LEMMA PayloadWrittenOnce ==
    ASSUME TypeOK, Holding, Once, Exchange, NEW c \in Callers, WritePayload(c), UNCHANGED serverVars
    PROVE  Once'
<1>0. UNCHANGED <<handler, payload, executed>> /\ Executed' = Executed
  BY ZenonT(40) DEF serverVars, Executed
<1>1. /\ pc[c] = "payload" /\ pc'[c] = "replyLength" /\ UNCHANGED <<statement, called, result>>
      /\ \A e \in Callers \ {c} : pc'[e] = pc[e]
  BY Zenon DEF WritePayload, Write, Goes, TypeOK
<1>c. Conn(c) \in Conns /\ statement[c] \in Statements /\ FitsAt("payload", Conn(c), statement[c])
  BY <1>1, ConnType, Zenon DEF Exchange, OnConnection, InExchange
<1>k. PICK k \in Conns : k = Conn(c)
  BY <1>c, Zenon
<1>t. PICK t \in Statements : t = statement[c]
  BY <1>c, Zenon
<1>2. FitsAt("payload", k, t)
  BY <1>c, <1>k, <1>t
<1>3. requests' = [requests EXCEPT ![k] = Append(@, P(t))]
  BY <1>k, <1>t, Zenon DEF WritePayload, Write, Send, P
<1>4. requests'[k] = Append(requests[k], P(t)) /\ \A l \in Conns \ {k} : requests'[l] = requests[l]
  BY <1>3 DEF TypeOK
<1>5. LengthWritten(t, requests[k], replies[k], handler[k])
  BY <1>2, Zenon DEF FitsAt, Fits
<1>6. /\ \/ requests'[k] = <<L(t), P(t)>> /\ handler[k] \in {"none", "length", "gone"}
         \/ requests'[k] = <<P(t)>> /\ handler[k] \in {"payload", "gone"}
      /\ handler[k] \notin {"mutex", "execute"}
  <2>1. /\ Append(<<>>, P(t)) = <<P(t)>> /\ Append(<<L(t)>>, P(t)) = <<L(t), P(t)>>
    BY TwoParts
  <2> QED BY <1>4, <1>5, <2>1, Zenon DEF LengthWritten
<1>7. \A s : BringsAt(k, s)' => s = t
  <2>1. \A s : /\ <<P(t)>> = <<P(s)>> => s = t
               /\ <<L(t), P(t)>> = <<L(s), P(s)>> => s = t
               /\ <<P(t)>> # <<L(s), P(s)>> /\ <<L(t), P(t)>> # <<P(s)>>
    BY TuplesDiffer DEF P
  <2> QED BY <1>0, <1>6, <2>1, Zenon DEF BringsAt, Brings
<1>8. \A l \in Conns \ {k} : \A s : BringsAt(l, s)' <=> BringsAt(l, s)
  BY <1>0, <1>4, Zenon DEF BringsAt
<1>9. Untouched(t)
  BY <1>1, <1>t, Zenon DEF Once, Unwritten
<1>10. ASSUME NEW s, s # t, Untouched(s) PROVE s \notin Executed' /\ \A l \in Conns : ~BringsAt(l, s)'
  BY <1>0, <1>7, <1>8, <1>10, Zenon DEF Untouched
<1>11. \A l \in Conns : Shape(requests'[l], handler'[l])
  <2>1. Shape(requests'[k], handler'[k])
    BY <1>0, <1>6, Zenon DEF Shape
  <2> QED BY <1>0, <1>4, <2>1, ZenonT(40) DEF Once
<1>12. \A s \in Statements : \A m, l \in Conns : BringsAt(m, s)' /\ BringsAt(l, s)' => m = l
  <2> SUFFICES ASSUME NEW s \in Statements, NEW m \in Conns, NEW l \in Conns,
                      BringsAt(m, s)', BringsAt(l, s)'
               PROVE  m = l
    BY Zenon
  <2>1. CASE s = t
    <3>1. \A n \in Conns : ~BringsAt(n, s)
      BY <1>9, <2>1, Zenon DEF Untouched
    <3> QED BY <1>8, <3>1, Zenon
  <2>2. CASE s # t
    <3>1. m # k /\ l # k
      BY <1>7, <2>2, Zenon
    <3>2. BringsAt(m, s) /\ BringsAt(l, s)
      BY <1>8, <3>1, Zenon
    <3> QED BY <3>2, Zenon DEF Once
  <2> QED BY <2>1, <2>2, Zenon
<1>13. \A s \in Statements : \A l \in Conns : BringsAt(l, s)' => s \notin Executed'
  BY <1>0, <1>7, <1>8, <1>9, ZenonT(40) DEF Once, Untouched
<1>14. ASSUME NEW e \in Callers, pc'[e] \in Unwritten PROVE Untouched(statement[e])'
  <2>1. e # c /\ pc[e] \in Unwritten
    BY <1>1, <1>14, Zenon DEF Unwritten
  <2>2. statement[e] # t
    BY <1>1, <1>t, <2>1, Zenon DEF Holding, Unwritten
  <2>3. Untouched(statement[e])
    BY <2>1, Zenon DEF Once
  <2> QED BY <1>1, <1>10, <2>2, <2>3, Zenon DEF Untouched
<1>15. ASSUME NEW s \in Statements, result'[s] = Refused \/ s > called' PROVE Untouched(s)'
  <2>1. result[t] = NoResult /\ t <= called
    BY <1>1, <1>t, Zenon DEF Holding
  <2>2. s # t
    <3>1. NoResult # Refused
      BY DEF NoResult, Refused
    <3>2. ~(t > called)
      BY <2>1 DEF TypeOK, Statements
    <3> QED BY <1>1, <1>15, <2>1, <3>1, <3>2
  <2>3. Untouched(s)
    BY <1>1, <1>15, Zenon DEF Once
  <2> QED BY <1>10, <2>2, <2>3, SMTT(30) DEF Untouched
<1>16. \A i, j \in DOMAIN executed' : executed'[i] = executed'[j] => i = j
  BY <1>0, Zenon DEF Once
<1> QED BY <1>11, <1>12, <1>13, <1>14, <1>15, <1>16, Zenon DEF Once

LEMMA CallerOnce ==
    ASSUME TypeOK, Holding, Once, Exchange, NEW c \in Callers, Call(c) \/ Exec(c) \/ Cancel(c),
           UNCHANGED serverVars
    PROVE  Once'
<1>0. UNCHANGED <<handler, payload, executed>>
  BY Zenon DEF serverVars
<1>u. ASSUME requests' = requests,
             \A e \in Callers : pc'[e] \in Unwritten => Untouched(statement'[e]),
             \A s \in Statements : result'[s] = Refused \/ s > called' => Untouched(s)
      PROVE  Once'
  <2>1. \A k \in Conns : Shape(requests'[k], handler'[k])
    BY <1>0, <1>u, Zenon DEF Once
  <2>2. \A k \in Conns : \A s : Brings(s, requests'[k], handler'[k], payload'[k]) => BringsAt(k, s)
    BY <1>0, <1>u, Zenon DEF BringsAt
  <2> QED BY <1>0, <1>u, <2>1, <2>2, OnceKept, Zenon
<1>1. CASE Call(c)
  <2>1. /\ pc'[c] = "lock" /\ statement'[c] = called + 1 /\ called' = called + 1
        /\ called + 1 \in Statements /\ UNCHANGED <<requests, result>>
        /\ \A e \in Callers \ {c} : pc'[e] = pc[e] /\ statement'[e] = statement[e]
    <3>1. /\ called < MaxCalls /\ called' = called + 1 /\ statement' = [statement EXCEPT ![c] = called + 1]
          /\ pc' = [pc EXCEPT ![c] = "lock"] /\ UNCHANGED <<requests, result>>
      BY <1>1, Zenon DEF Call, Goes, wireVars
    <3>2. called \in 0..MaxCalls /\ MaxCalls \in Nat /\ DOMAIN pc = Callers /\ DOMAIN statement = Callers
      BY DbWireAssumption, Zenon DEF TypeOK
    <3>3. called + 1 \in Statements
      BY <3>1, <3>2 DEF Statements
    <3> QED BY <3>1, <3>2, <3>3, Zenon
  <2>2. called + 1 > called /\ \A s \in Statements : s > called + 1 => s > called
    BY DEF TypeOK, Statements
  <2>3. Untouched(called + 1)
    BY <2>1, <2>2, Zenon DEF Once
  <2>4. \A e \in Callers : pc'[e] \in Unwritten => Untouched(statement'[e])
    BY <2>1, <2>3, Zenon DEF Once
  <2>5. \A s \in Statements : result'[s] = Refused \/ s > called' => Untouched(s)
    BY <2>1, <2>2, Zenon DEF Once
  <2> QED BY <1>u, <2>1, <2>4, <2>5, ZenonT(40)
\* The steps that return: a statement is refused only before it is written.
<1>r. ASSUME NEW r, Return(c, r), r = Refused => pc[c] \in Unwritten, called' = called,
             requests' = requests, pc[c] # "idle"
      PROVE  Once'
  <2>1. statement[c] \in Statements
    BY <1>r, Constants, Zenon DEF TypeOK, Holding
  <2>2. /\ pc'[c] = "idle" /\ \A e \in Callers \ {c} : pc'[e] = pc[e] /\ statement'[e] = statement[e]
        /\ result'[statement[c]] = r /\ \A s \in Statements \ {statement[c]} : result'[s] = result[s]
    BY <1>r, <2>1, Zenon DEF Return, Goes, TypeOK
  <2>3. \A e \in Callers : pc'[e] \in Unwritten => Untouched(statement'[e])
    BY <2>2, Zenon DEF Once, Unwritten
  <2>4. ASSUME NEW s \in Statements, result'[s] = Refused \/ s > called' PROVE Untouched(s)
    <3>1. CASE s > called
      BY <3>1, Zenon DEF Once
    <3>2. CASE s = statement[c] /\ result'[s] = Refused
      BY <1>r, <2>2, <3>2, Zenon DEF Once
    <3>3. CASE s # statement[c] /\ result'[s] = Refused
      BY <2>2, <3>3, Zenon DEF Once
    <3> QED BY <1>r, <2>4, <3>1, <3>2, <3>3, Zenon
  <2> QED BY <1>r, <1>u, <2>3, <2>4, Zenon
\* The steps that go on.
<1>g. ASSUME UNCHANGED <<statement, result, called>>, NEW to, pc' = [pc EXCEPT ![c] = to],
             to \in Unwritten => pc[c] \in Unwritten
      PROVE  /\ \A e \in Callers : pc'[e] \in Unwritten => Untouched(statement'[e])
             /\ \A s \in Statements : result'[s] = Refused \/ s > called' => Untouched(s)
  <2>1. pc'[c] = to /\ \A e \in Callers \ {c} : pc'[e] = pc[e]
    BY <1>g, Zenon DEF TypeOK
  <2> QED BY <1>g, <2>1, Zenon DEF Once
<1>2. CASE Lock(c)
  <2>1. pc[c] = "lock" /\ pc[c] \in Unwritten /\ UNCHANGED <<called, requests>>
    BY <1>2, Zenon DEF Lock, wireVars, Unwritten
  <2>2. CASE Return(c, Refused)
    BY <1>r, <2>1, <2>2, Zenon
  <2>3. CASE ~Return(c, Refused)
    BY <1>2, <1>g, <1>u, <2>1, <2>3, Zenon DEF Lock, Goes
  <2> QED BY <2>2, <2>3, Zenon
<1>3. CASE Dial(c) \/ Arm(c)
  <2>1. /\ pc[c] \in Unwritten /\ UNCHANGED <<statement, result, called, requests>>
        /\ \E to : pc' = [pc EXCEPT ![c] = to]
    BY <1>3, Zenon DEF Dial, Arm, Goes, Unwritten, wireVars
  <2> QED BY <1>g, <1>u, <2>1, Zenon
<1>4. CASE WriteLength(c)
  <2>1. /\ pc[c] = "length" /\ pc' = [pc EXCEPT ![c] = "payload"] /\ UNCHANGED <<statement, result, called>>
        /\ requests' = [requests EXCEPT ![Conn(c)] = Append(@, L(statement[c]))]
    BY <1>4, Zenon DEF WriteLength, Write, Goes, Send, L
  <2>2. Conn(c) \in Conns /\ statement[c] \in Statements /\ FitsAt("length", Conn(c), statement[c])
    BY <2>1, ConnType, Zenon DEF Exchange, OnConnection, InExchange
  <2>3. /\ requests[Conn(c)] = <<>> /\ handler[Conn(c)] \in {"none", "length", "gone"}
    BY <2>2, ZenonT(40) DEF FitsAt, Fits, Quiet
  <2>4. /\ requests'[Conn(c)] = <<L(statement[c])>>
        /\ \A k \in Conns : k # Conn(c) => requests'[k] = requests[k]
    BY <2>1, <2>2, <2>3 DEF TypeOK
  <2>5. \A k \in Conns : Shape(requests'[k], handler'[k])
    <3>1. Shape(requests'[Conn(c)], handler[Conn(c)])
      BY <2>2, <2>3, <2>4, Zenon DEF Shape
    <3> QED BY <1>0, <2>4, <3>1, Zenon DEF Once
  <2>6. ASSUME NEW k \in Conns, NEW s, Brings(s, requests'[k], handler'[k], payload'[k])
        PROVE  BringsAt(k, s)
    <3>1. <<L(statement[c])>> # <<P(s)>> /\ <<L(statement[c])>> # <<L(s), P(s)>>
      BY TuplesDiffer, Zenon DEF L, P
    <3> QED BY <1>0, <2>3, <2>4, <2>6, <3>1, Zenon DEF BringsAt, Brings
  <2>7. /\ \A e \in Callers : pc'[e] \in Unwritten => Untouched(statement'[e])
        /\ \A s \in Statements : result'[s] = Refused \/ s > called' => Untouched(s)
    BY <1>g, <2>1, Zenon DEF Unwritten
  <2> QED BY <1>0, <2>5, <2>6, <2>7, OnceKept, Zenon
<1>5. CASE WritePayload(c)
  BY <1>5, PayloadWrittenOnce, Zenon
<1>6. CASE ReadLength(c)
  <2>1. /\ pc' = [pc EXCEPT ![c] = "replyPayload"] /\ UNCHANGED <<statement, result, called, requests>>
        /\ "replyPayload" \notin Unwritten
    BY <1>6, Zenon DEF ReadLength, Goes, Unwritten
  <2> QED BY <1>g, <1>u, <2>1, Zenon
<1>7. CASE Returns(c)
  <2>1. pc[c] # "idle" /\ UNCHANGED <<called, requests>>
    BY <1>7, Zenon DEF Returns, DialFails, ArmFails, ReadPayload, Fail, InExchange, wireVars
  <2>2. CASE DialFails(c) \/ ArmFails(c)
    BY <1>r, <2>1, <2>2, Zenon DEF DialFails, ArmFails, Unwritten
  <2>3. CASE Fail(c)
    <3>1. Unknown # Refused
      BY Zenon DEF Unknown, Refused
    <3> QED BY <1>r, <2>1, <2>3, <3>1, Zenon DEF Fail
  <2>4. CASE ReadPayload(c)
    <3>1. PICK r : r = Answer(Head(replies[Conn(c)]).of)
      BY Zenon
    <3>2. r # Refused
      BY <3>1, Zenon DEF Answer, Refused
    <3> QED BY <1>r, <2>1, <2>4, <3>1, <3>2, Zenon DEF ReadPayload
  <2> QED BY <1>7, <2>2, <2>3, <2>4, Zenon DEF Returns
<1>8. CASE Cancel(c)
  <2>1. UNCHANGED <<requests, pc, statement, result, called>>
    BY <1>8, Zenon DEF Cancel, wireVars
  <2> QED BY <1>u, <2>1, Zenon DEF Once
<1> QED BY <1>1, <1>2, <1>3, <1>4, <1>5, <1>6, <1>7, <1>8, Zenon DEF Exec, Returns

-----------------------------------------------------------------------------
(* The answers.                                                            *)

LEMMA CallerAnswers ==
    ASSUME TypeOK, Holding, Exchange, Answers, NEW c \in Callers, Call(c) \/ Exec(c) \/ Cancel(c),
           UNCHANGED serverVars
    PROVE  Answers'
<1>0. Executed' = Executed
  BY Zenon DEF serverVars, Executed
<1>r. ASSUME NEW r, Return(c, r), pc[c] # "idle",
             r.kind = "answer" => r.of = statement[c] /\ statement[c] \in Executed
      PROVE  Answers'
  <2>1. statement[c] \in Statements
    BY <1>r, Constants, Zenon DEF TypeOK, Holding
  <2>2. /\ result'[statement[c]] = r /\ \A s \in Statements \ {statement[c]} : result'[s] = result[s]
    BY <1>r, <2>1, Zenon DEF Return, TypeOK
  <2> QED BY <1>0, <1>r, <2>2, Zenon DEF Answers
<1>1. CASE Return(c, Refused) /\ pc[c] # "idle"
  BY <1>1, <1>r, Zenon DEF Refused
<1>2. CASE Return(c, Unknown) /\ pc[c] # "idle"
  BY <1>2, <1>r, Zenon DEF Unknown
<1>3. CASE ReadPayload(c)
  <2>1. pc[c] = "replyPayload" /\ replies[Conn(c)] # <<>>
    BY <1>3, Zenon DEF ReadPayload, Receive
  <2>2. FitsAt("replyPayload", Conn(c), statement[c])
    BY <2>1, Zenon DEF Exchange, OnConnection, InExchange
  <2>3. Head(replies[Conn(c)]).of = statement[c] /\ statement[c] \in Executed
    BY <2>1, <2>2, ReadsFit, Zenon DEF FitsAt
  <2>4. PICK r : r = Answer(Head(replies[Conn(c)]).of)
    BY Zenon
  <2>5. r.of = statement[c]
    BY <2>3, <2>4, Zenon DEF Answer
  <2> QED BY <1>3, <1>r, <2>1, <2>3, <2>4, <2>5, Zenon DEF ReadPayload
<1>4. CASE UNCHANGED result
  BY <1>0, <1>4, Zenon DEF Answers
<1> QED BY <1>1, <1>2, <1>3, <1>4, Zenon DEF Call, Exec, Cancel, Lock, Dial, DialFails, Arm, ArmFails,
        WriteLength, WritePayload, Write, ReadLength, Fail, InExchange

LEMMA ServerAnswers ==
    ASSUME TypeOK, Executor, Answers, ServerNext, UNCHANGED clientVars
    PROVE  Answers'
<1>1. Executed \subseteq Executed'
  <2>1. CASE \E k \in Conns : ExecuteEnds(k)
    BY <2>1, ExecutedGrows, Zenon
  <2>2. CASE ~\E k \in Conns : ExecuteEnds(k)
    <3>1. executed' = executed
      BY <2>2, HandlerFrame, Zenon DEF ServerNext, StopOnSignal, Serve, Accept, AcceptFails, Register, ServeReturns
    <3> QED BY <3>1, Zenon DEF Executed
  <2> QED BY <2>1, <2>2, Zenon
<1> QED BY <1>1, Zenon DEF Answers, clientVars

-----------------------------------------------------------------------------
(* The steps of the clients that no caller takes.                          *)

LEMMA OtherClientSteps ==
    ASSUME IInv, UNCHANGED serverVars,
           (\E k \in Conns : Callback(k)) \/ (\E d \in Clients : CloseClient(d))
    PROVE  IInv'
<1>0. /\ UNCHANGED <<handler, payload, executed, executing, snapshot, serve, accepted, stopped>>
      /\ UNCHANGED <<requests, replies, dialed, backlog, listening, pc, statement, called, mutex, result>>
      /\ Executed' = Executed
  BY Zenon DEF serverVars, Callback, CloseClient, wireVars, Executed
<1>1. TypeOK'
  BY OtherClientTypes, Zenon DEF IInv
<1>2. Queued' /\ AtRest' /\ Executor' /\ Answers'
  BY <1>0, Zenon DEF IInv, Queued, AtRest, Workers, Executor, Answers
<1>3. Once'
  BY <1>0, Zenon DEF IInv, Once, Untouched, BringsAt
<1>4. CASE \E k \in Conns : Callback(k)
  <2>1. conn' = conn
    BY <1>4, Zenon DEF Callback
  <2>2. Holding' /\ Exchange'
    BY <1>0, <2>1, Zenon DEF IInv, Holding, Exchange, Conn, FitsAt, QuietAt
  <2> QED BY <1>1, <1>2, <1>3, <2>2, Zenon DEF IInv
<1>5. ASSUME NEW d \in Clients, CloseClient(d) PROVE IInv'
  <2>1. Holding'
    BY <1>5, CloseHolding, Zenon DEF IInv
  <2>2. conn'[d] = Nobody /\ mutex[d] = Free /\ \A e \in Clients \ {d} : conn'[e] = conn[e]
    BY <1>5, Zenon DEF IInv, CloseClient, Drop, TypeOK
  <2>3. ASSUME NEW c \in Callers, pc'[c] \in OnConnection PROVE FitsAt(pc[c], Conn(c), statement[c])'
    <3>1. ClientOf[c] \in Clients \ {d} /\ pc[c] \in OnConnection
      BY <1>0, <2>2, <2>3, ConnType, DbClientAssumption, Zenon DEF IInv
    <3>2. Conn(c)' = Conn(c) /\ FitsAt(pc[c], Conn(c), statement[c])
      BY <2>2, <3>1, Zenon DEF IInv, Exchange, Conn
    <3> QED BY <1>0, <3>2, Zenon DEF FitsAt
  <2>4. \A e \in Clients : mutex'[e] = Free /\ conn'[e] # Nobody => QuietAt(conn[e])'
    BY <1>0, <2>2, Zenon DEF IInv, Exchange, QuietAt
  <2>5. Exchange'
    BY <2>3, <2>4, Zenon DEF Exchange
  <2> QED BY <1>1, <1>2, <1>3, <2>1, <2>5, Zenon DEF IInv
<1> QED BY <1>4, <1>5, Zenon

-----------------------------------------------------------------------------
(* The theorems.                                                           *)

LEMMA Initially ==
    ASSUME Init
    PROVE  IInv
<1> USE DbWireAssumption DEF Init, WireInit, ClientInit, ServerInit
<1>0. <<>> \in Seq(Part) /\ <<>> \in Seq(Conns) /\ <<>> \in Seq(Statements)
  BY EmptySeq, Zenon
<1>1. TypeOK
  <2>1. /\ dialed \in 0..MaxConns /\ called \in 0..MaxCalls
        /\ accepted \in 0..MaxConns /\ executing \in 0..MaxConns
    BY Constants
  <2>2. /\ statement \in [Callers -> 0..MaxCalls] /\ conn \in [Clients -> 0..MaxConns]
        /\ length \in [Conns -> 0..MaxCalls] /\ payload \in [Conns -> 0..MaxCalls]
    BY Constants, Zenon
  <2>3. /\ requests \in [Conns -> Seq(Part)] /\ replies \in [Conns -> Seq(Part)]
        /\ snapshot \in [Conns -> Seq(Statements)] /\ backlog \in Seq(Conns)
        /\ executed \in Seq(Statements)
    BY <1>0, Zenon
  <2>4. /\ pc \in [Callers -> Points] /\ handler \in [Conns -> Places]
        /\ result \in [Statements -> Result]
    BY Zenon DEF Points, Places, Result
  <2> QED BY <2>1, <2>2, <2>3, <2>4, Zenon DEF TypeOK
<1>2. Queued /\ AtRest
  BY DEF Queued, AtRest, Workers, Nobody
<1>3. Executor
  BY SMTT(30) DEF Executor, Working, Nobody, Conns
<1>4. Holding
  BY DEF Holding, OnConnection, InExchange, NoStatement, Nobody
<1>5. Executed = {} /\ DOMAIN executed = {}
  BY DEF Executed
<1>6. \A k \in Conns : Shape(requests[k], handler[k]) /\ \A s : ~BringsAt(k, s)
  BY Zenon DEF Shape, BringsAt, Brings
<1>7. Once
  BY <1>5, <1>6, Zenon DEF Once, Untouched
<1>8. Exchange
  BY Zenon DEF Exchange, OnConnection, InExchange
<1>9. Answers
  BY Zenon DEF Answers, NoResult
<1> QED BY <1>1, <1>2, <1>3, <1>4, <1>7, <1>8, <1>9, Zenon DEF IInv

LEMMA CallerStep ==
    ASSUME IInv, NEW c \in Callers, Call(c) \/ Exec(c) \/ Cancel(c), UNCHANGED serverVars
    PROVE  IInv'
<1>1. TypeOK'
  BY ClientTypes, Zenon DEF IInv
<1>2. Queued' /\ AtRest'
  BY CallerQueued, CallerAtRest, Zenon DEF IInv
<1>3. Executor'
  BY Zenon DEF IInv, Executor, serverVars
<1>4. Holding'
  BY CallerHolding, Zenon DEF IInv
<1>5. Once' /\ Answers'
  BY CallerOnce, CallerAnswers, Zenon DEF IInv
<1>6. Exchange'
  <2>1. CASE Exec(c)
    BY <1>4, <2>1, ExecExchange, Zenon DEF IInv
  <2>2. CASE Cancel(c)
    BY <2>2, Zenon DEF IInv, Cancel, Exchange, FitsAt, QuietAt, Conn, Executed, serverVars, wireVars
  <2>3. CASE Call(c)
    <3>1. /\ UNCHANGED <<requests, replies, mutex, conn, handler, payload, executed>> /\ pc'[c] = "lock"
          /\ \A e \in Callers \ {c} : pc'[e] = pc[e] /\ statement'[e] = statement[e]
      BY <2>3, Zenon DEF IInv, TypeOK, Call, Goes, serverVars, wireVars
    <3>2. ASSUME NEW e \in Callers, pc'[e] \in OnConnection
          PROVE  FitsAt(pc[e], Conn(e), statement[e])'
      <4>1. e # c
        BY <3>1, <3>2, Zenon DEF OnConnection, InExchange
      <4> QED BY <3>1, <3>2, <4>1, Zenon DEF IInv, Exchange, FitsAt, Conn, Executed
    <3>3. \A d \in Clients : mutex'[d] = Free /\ conn'[d] # Nobody => QuietAt(conn[d])'
      BY <3>1, Zenon DEF IInv, Exchange, QuietAt
    <3> QED BY <3>2, <3>3, Zenon DEF Exchange
  <2> QED BY <2>1, <2>2, <2>3, Zenon
<1> QED BY <1>1, <1>2, <1>3, <1>4, <1>5, <1>6, Zenon DEF IInv

LEMMA ServerStep ==
    ASSUME IInv, ServerNext, UNCHANGED clientVars
    PROVE  IInv'
<1>1. Answers'
  BY ServerAnswers, Zenon DEF IInv
<1>2. Holding'
  <2>1. dialed' = dialed
    BY HandlerFrame, Zenon DEF IInv, ServerNext, StopOnSignal, Serve, Accept, AcceptFails, Register, ServeReturns, wireVars
  <2> QED BY <2>1, Zenon DEF IInv, Holding, Conn, clientVars
<1>3. CASE Lifecycle
  <2>1. TypeOK' /\ Queued' /\ AtRest'
    BY <1>3, LifecycleTypes, LifecycleQueued, LifecycleAtRest, Zenon DEF IInv
  <2>2. Executor' /\ Once' /\ Exchange'
    BY <1>3, RegisterExecutor, LifecycleOnce, LifecycleExchange, Zenon DEF IInv
  <2> QED BY <1>1, <1>2, <2>1, <2>2, Zenon DEF IInv
<1>4. ASSUME NEW k \in Conns, Handle(k) PROVE IInv'
  <2>1. TypeOK' /\ Queued' /\ AtRest'
    BY <1>4, HandlerTypes, HandlerQueued, HandlerAtRest, Zenon DEF IInv
  <2>2. Executor' /\ Once' /\ Exchange'
    BY <1>4, HandlerExecutor, HandlerOnce, HandlerExchange, Zenon DEF IInv
  <2> QED BY <1>1, <1>2, <2>1, <2>2, Zenon DEF IInv
<1> QED BY <1>3, <1>4, Zenon DEF ServerNext, Lifecycle

\* What holds between the clients, the connections and the server after every
\* step: the exchange of a caller is on its client's connection, nothing is
\* left on a connection that is kept, and a statement waits for its execution
\* in one place at most.
THEOREM Invariance == Spec => []IInv
<1>1. Init => IInv
  BY Initially, Zenon
<1>2. IInv /\ [Next]_vars => IInv'
  <2> SUFFICES ASSUME IInv, [Next]_vars PROVE IInv'
    BY Zenon
  <2>1. CASE ClientNext /\ UNCHANGED serverVars
    BY <2>1, CallerStep, OtherClientSteps, Zenon DEF ClientNext
  <2>2. CASE ServerNext /\ UNCHANGED clientVars
    BY <2>2, ServerStep, Zenon
  <2>3. CASE UNCHANGED vars
    <3>1. UNCHANGED <<wireVars, clientVars, serverVars>>
      BY <2>3, Zenon DEF vars
    <3>2. TypeOK' /\ Queued' /\ AtRest' /\ Executor'
      BY <3>1, Zenon DEF IInv, TypeOK, Queued, AtRest, Executor, Workers, wireVars, clientVars, serverVars
    <3>3. Answers'
      BY <3>1, Zenon DEF IInv, Answers, Executed, wireVars, clientVars, serverVars
    <3>5. UNCHANGED <<pc, mutex, statement, called, result, conn, dialed>>
      BY <3>1, Zenon DEF wireVars, clientVars
    <3>6. Holding'
      BY <3>5, Zenon DEF IInv, Holding, Conn
    <3>4. Once' /\ Exchange'
      BY <3>1, Zenon DEF IInv, Once, Untouched, BringsAt, Exchange, FitsAt, QuietAt, Conn, Executed,
                  wireVars, clientVars, serverVars
    <3> QED BY <3>2, <3>3, <3>4, <3>6, Zenon DEF IInv
  <2> QED BY <2>1, <2>2, <2>3, Zenon DEF Next
<1> QED BY <1>1, <1>2, PTL DEF Spec

\* Exec in client.go returns no rows but those of its own statement, although
\* a frame carries no request ID.
THEOREM ResponseMatchesHolds == Spec => []ResponseMatches
<1>1. IInv => ResponseMatches
  BY Zenon DEF IInv, Answers, ResponseMatches
<1> QED BY <1>1, Invariance, PTL

\* A statement that Exec answered has been executed, one that it refused before
\* writing it never is, and none is executed twice.
THEOREM OutcomeIsTrueHolds == Spec => []OutcomeIsTrue
<1>1. IInv => OutcomeIsTrue
  BY Zenon DEF IInv, Answers, Once, Untouched, OutcomeIsTrue, Answered
<1> QED BY <1>1, Invariance, PTL

\* After Close no handler has an open connection.
Severed == stopped => \A k \in Workers : "server" \notin ends[k]

\* It is enough that a step starts no handler and opens no handler's connection
\* again.
LEMMA StaysSevered ==
    ASSUME Severed, stopped' => stopped, \A k \in Workers' : k \in Workers /\ ends'[k] \subseteq ends[k]
    PROVE  Severed'
<1> SUFFICES ASSUME stopped', NEW k \in Workers' PROVE "server" \notin ends'[k]
  BY Zenon DEF Severed
<1>1. "server" \notin ends[k] /\ ends'[k] \subseteq ends[k]
  BY Zenon DEF Severed
<1> QED BY <1>1, Zenon

LEMMA SeveredStep ==
    ASSUME IInv, Severed, [Next]_vars
    PROVE  Severed'
<1>0. DOMAIN ends = Conns /\ DOMAIN handler = Conns
  BY Zenon DEF IInv, TypeOK
<1>Hangup. ASSUME NEW S, Hangup(S) PROVE \A k \in Conns : ends'[k] \subseteq ends[k]
  BY <1>Hangup, Zenon DEF Hangup
\* A client drops its own end, or dials a connection that no handler has yet.
<1>1. CASE ClientNext /\ UNCHANGED serverVars
  <2>1. Workers' = Workers /\ stopped' = stopped
    BY <1>1, Zenon DEF serverVars, Workers
  <2>2. ASSUME NEW d, Drop(d) PROVE \A k \in Conns : ends'[k] \subseteq ends[k]
    <3>1. CASE conn[d] = Nobody
      BY <2>2, <3>1, Zenon DEF Drop
    <3>2. CASE conn[d] # Nobody
      <4>1. ends' = [ends EXCEPT ![conn[d]] = @ \ {"client"}]
        BY <2>2, <3>2, Zenon DEF Drop
      <4> QED BY <1>0, <4>1
    <3> QED BY <3>1, <3>2, Zenon
  <2>3. ASSUME NEW c \in Callers, Dial(c) PROVE \A k \in Workers : ends'[k] = ends[k]
    <3>1. dialed < MaxConns /\ ends' = [ends EXCEPT ![dialed + 1] = {"client", "server"}]
      BY <2>3, Zenon DEF Dial
    <3>2. dialed + 1 \in Conns /\ dialed + 1 > dialed
      BY <3>1, DbWireAssumption DEF IInv, TypeOK, Conns
    <3>3. dialed + 1 \notin Workers
      BY <3>2, Zenon DEF IInv, Queued, Workers
    <3> QED BY <1>0, <3>1, <3>3, Zenon DEF Workers
  <2>4. \/ ends' = ends \/ (\E d : Drop(d)) \/ (\E c \in Callers : Dial(c))
    BY <1>1, Zenon DEF ClientNext, Call, Exec, Cancel, Callback, CloseClient, Lock, DialFails, Arm, ArmFails,
                       WriteLength, WritePayload, Write, ReadLength, ReadPayload, Fail, wireVars
  <2>5. \A k \in Workers : ends'[k] \subseteq ends[k]
    BY <2>2, <2>3, <2>4, Zenon DEF Workers
  <2> QED BY <2>1, <2>5, StaysSevered, Zenon
<1>2. CASE StopOnSignal \/ AcceptFails
  <2>1. Workers' = Workers /\ ends' = [k \in Conns |-> IF k \in Workers \cup {backlog[i] : i \in DOMAIN backlog}
                                                       THEN ends[k] \ {"server"} ELSE ends[k]]
    BY <1>2, Zenon DEF StopOnSignal, AcceptFails, Stop, Hangup, Workers
  <2>2. Workers \subseteq Conns
    BY Zenon DEF Workers
  <2>3. \A k \in Workers : ends'[k] = ends[k] \ {"server"}
    BY <2>1, <2>2, Zenon
  <2> QED BY <2>1, <2>3, Zenon DEF Severed
<1>3. CASE Accept \/ ServeReturns \/ UNCHANGED vars
  BY <1>3, Zenon DEF Accept, ServeReturns, vars, wireVars, serverVars, Severed, Workers
\* A connection that Accept returned before Close is closed and gets no handler.
<1>4. CASE Register
  <2>1. CASE stopped
    <3>1. handler' = handler /\ stopped' = stopped /\ Hangup({accepted})
      BY <1>4, <2>1, Zenon DEF Register
    <3> QED BY <3>1, <1>Hangup, StaysSevered, Zenon DEF Workers
  <2>2. CASE ~stopped
    BY <1>4, <2>2, Zenon DEF Register, Severed
  <2> QED BY <2>1, <2>2, Zenon
<1>5. ASSUME NEW k \in Conns, Handle(k) PROVE Severed'
  <2>1. /\ \A l \in Conns \ {k} : handler'[l] = handler[l]
        /\ stopped' = stopped /\ handler[k] \notin {"none", "gone"}
    BY <1>5, HandlerFrame, Zenon DEF IInv
  <2>2. \A l \in Workers' : l \in Workers
    BY <2>1, Zenon DEF Workers
  <2>3. ends' = ends \/ Hangup({k})
    BY <1>5, Zenon DEF Handle, ReadFrameLength, ReadFramePayload, ExecuteBegins, ExecuteEnds, WriteFrameLength,
                       WriteFramePayload, HandlerFails, wireVars
  <2>4. \A l \in Conns : ends'[l] \subseteq ends[l]
    BY <2>3, <1>Hangup, Zenon
  <2> QED BY <2>1, <2>2, <2>4, StaysSevered, Zenon DEF Workers
<1> QED BY <1>1, <1>2, <1>3, <1>4, <1>5, Zenon DEF Next, ServerNext, Serve

\* Close in server.go closes the connection of every handler, and Serve returns
\* after every handler, with the executor free.
THEOREM StoppedIsQuietHolds == Spec => []StoppedIsQuiet
<1>1. ASSUME IInv, serve = "returned" PROVE Workers = {} /\ executing = Nobody
  <2>1. Workers = {}
    BY <1>1, Zenon DEF IInv, AtRest
  <2>2. executing = Nobody
    <3>1. \A k \in Conns : handler[k] # "execute"
      BY <2>1, Zenon DEF Workers
    <3> QED BY <1>1, <3>1, Constants, Zenon DEF IInv, TypeOK, Executor
  <2> QED BY <2>1, <2>2, Zenon
<1>2. IInv /\ Severed => StoppedIsQuiet
  BY <1>1, Zenon DEF StoppedIsQuiet, Severed
<1>3. Init => Severed
  BY Zenon DEF Init, ServerInit, Severed
<1>4. IInv /\ Severed /\ [Next]_vars => Severed'
  BY SeveredStep, Zenon
<1> QED BY <1>2, <1>3, <1>4, Invariance, PTL DEF Spec

====
