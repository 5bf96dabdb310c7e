---------------------------- MODULE CameraProofs ----------------------------
(***************************************************************************)
(* Proofs about Camera for any sets of workers, lines and frames.          *)
(*                                                                         *)
(* parseRequest accepts one line, the one that send_detect writes          *)
(* (ParsesDetectOnly): so a Runtime can never be told BAD_REQUEST.  That   *)
(* the answer on a connection is about a frame taken after the request is  *)
(* a fact about the connection's whole way: where the request is, in       *)
(* whose hands, and what has been written back (Request, Flight).  It is   *)
(* stated on the values of one connection, and every step of every process *)
(* is shown to be one of a few moves of each connection (ServerMoves).     *)
(* What is computed from one frame is a fact about two loops and two       *)
(* sorts, by induction over the length of the frame (NormalizeIs,          *)
(* ResponsesRight).                                                        *)
(***************************************************************************)
EXTENDS Camera, SequenceTheorems, WellFoundedInduction, TLAPS

-----------------------------------------------------------------------------
(* The request line.                                                       *)

At(a, state) == [at |-> a, state |-> state]

LEMMA MetFields ==
    ASSUME NEW a, NEW b, b = a + 1, NEW state, NEW t
    PROVE  /\ t = "eof" => Met(At(a, state), t).token = "eof"
           /\ t # "eof" /\ AfterToken(t, state) = "error" => Met(At(a, state), t).token = "error"
           /\ t # "eof" /\ AfterToken(t, state) # "error" =>
                 /\ Met(At(a, state), t).token = t
                 /\ Met(At(a, state), t).rest = At(b, AfterToken(t, state))
BY DEF Met, At

\* A token that is read in a state where no colon or comma is due, and after
\* one that is.
LEMMA PlainToken ==
    ASSUME NEW line, NEW a, NEW state, state \notin {"colon", "comma"}
    PROVE  Token(line, At(a, state)) = Met(At(a, state), Peek(line, At(a, state)))
<1>1. Skipped(line, At(a, state)) = At(a, state)
  BY DEF Skipped, At
<1> QED BY <1>1 DEF Token

LEMMA ColonToken ==
    ASSUME NEW line, NEW a
    PROVE  /\ Peek(line, At(a, "colon")) = "colon" =>
                Token(line, At(a, "colon")) = Met(At(a + 1, "value"), Peek(line, At(a + 1, "value")))
           /\ Peek(line, At(a, "colon")) # "colon" =>
                Token(line, At(a, "colon")) = Met(At(a, "colon"), Peek(line, At(a, "colon")))
<1>1. /\ Peek(line, At(a, "colon")) = "colon" => Skipped(line, At(a, "colon")) = At(a + 1, "value")
      /\ Peek(line, At(a, "colon")) # "colon" => Skipped(line, At(a, "colon")) = At(a, "colon")
  BY DEF Skipped, At
<1> QED BY <1>1 DEF Token

LEMMA CommaToken ==
    ASSUME NEW line, NEW a, Peek(line, At(a, "comma")) # "comma"
    PROVE  Token(line, At(a, "comma")) = Met(At(a, "comma"), Peek(line, At(a, "comma")))
<1>1. Skipped(line, At(a, "comma")) = At(a, "comma")
  BY DEF Skipped, At
<1> QED BY <1>1 DEF Token

LEMMA Following ==
    /\ AfterToken("lbrace", "top") = "start" /\ AfterToken("command", "start") = "colon"
    /\ AfterToken("DETECT", "colon") = "error" /\ AfterToken("DETECT", "value") = "comma"
    /\ AfterToken("rbrace", "comma") = "top"
BY DEF AfterToken, Strings

LEMMA PeekAt ==
    ASSUME NEW line, NEW a \in Nat, NEW state
    PROVE  Peek(line, At(a, state)) = IF a <= Len(line) THEN line[a] ELSE "eof"
BY DEF Peek, At

\* The six tokens that parseRequest looks at.
Looks(line) ==
    /\ Peek(line, At(1, "top")) = "lbrace" /\ Peek(line, At(2, "start")) = "command"
    /\ Peek(line, At(3, "colon")) = "colon" /\ Peek(line, At(4, "value")) = "DETECT"
    /\ Peek(line, At(5, "comma")) = "rbrace" /\ Peek(line, At(6, "top")) = "eof"

LEMMA ParsesLooks ==
    ASSUME NEW line
    PROVE  parseRequest(line) <=> Looks(line)
<1> DEFINE open == Token(line, Opened)
<1> DEFINE key == Token(line, open.rest)
<1> DEFINE value == Token(line, key.rest)
<1> DEFINE close == Token(line, value.rest)
<1> DEFINE end == Token(line, close.rest)
<1>0. parseRequest(line) <=>
        /\ open.token = "lbrace" /\ More(line, open.rest)
        /\ key.token = "command" /\ value.token = "DETECT"
        /\ ~More(line, value.rest)
        /\ close.token \notin {"eof", "error"}
        /\ end.token = "eof"
  BY DEF parseRequest
<1>o. open = Met(At(1, "top"), Peek(line, At(1, "top")))
  <2>1. Opened = At(1, "top")
    BY DEF Opened, At
  <2> QED BY <2>1, PlainToken
<1>k. open.rest = At(2, "start") => key = Met(At(2, "start"), Peek(line, At(2, "start")))
  BY PlainToken
<1>v. key.rest = At(3, "colon") =>
        /\ Peek(line, At(3, "colon")) = "colon" => value = Met(At(4, "value"), Peek(line, At(4, "value")))
        /\ Peek(line, At(3, "colon")) # "colon" => value = Met(At(3, "colon"), Peek(line, At(3, "colon")))
  <2>1. 3 + 1 = 4
    OBVIOUS
  <2> QED BY <2>1, ColonToken
<1>c. value.rest = At(5, "comma") /\ Peek(line, At(5, "comma")) # "comma" =>
        close = Met(At(5, "comma"), Peek(line, At(5, "comma")))
  BY CommaToken
<1>e. close.rest = At(6, "top") => end = Met(At(6, "top"), Peek(line, At(6, "top")))
  BY PlainToken
<1> HIDE DEF open, key, value, close, end
<1>1. /\ Peek(line, At(1, "top")) = "lbrace" => open.token = "lbrace" /\ open.rest = At(2, "start")
      /\ open.token = "lbrace" => Peek(line, At(1, "top")) = "lbrace"
  BY <1>o, MetFields, Following
<1>2. open.rest = At(2, "start") =>
        /\ Peek(line, At(2, "start")) = "command" => key.token = "command" /\ key.rest = At(3, "colon")
        /\ key.token = "command" => Peek(line, At(2, "start")) = "command"
  BY <1>k, MetFields, Following
<1>3. key.rest = At(3, "colon") =>
        /\ Peek(line, At(3, "colon")) = "colon" /\ Peek(line, At(4, "value")) = "DETECT"
             => value.token = "DETECT" /\ value.rest = At(5, "comma")
        /\ value.token = "DETECT" => Peek(line, At(3, "colon")) = "colon" /\ Peek(line, At(4, "value")) = "DETECT"
  BY <1>v, MetFields, Following
<1>4. value.rest = At(5, "comma") =>
        /\ Peek(line, At(5, "comma")) = "rbrace" => close.token = "rbrace" /\ close.rest = At(6, "top")
        /\ Peek(line, At(5, "comma")) \in {"rbrace", "eof"} /\ close.token \notin {"eof", "error"}
             => Peek(line, At(5, "comma")) = "rbrace"
  BY <1>c, MetFields, Following
<1>5. close.rest = At(6, "top") => (end.token = "eof" <=> Peek(line, At(6, "top")) = "eof")
  BY <1>e, MetFields
<1> QED BY <1>0, <1>1, <1>2, <1>3, <1>4, <1>5 DEF More, Looks

\* parseRequest in protocol.go, which reads token by token, accepts the line
\* that send_detect writes and no other, of any length.
THEOREM ParsesDetectOnly ==
    ASSUME NEW T, "eof" \notin T, NEW line \in Seq(T)
    PROVE  parseRequest(line) <=> line = DetectLine
<1>1. /\ DetectLine \in Seq({"lbrace", "command", "colon", "DETECT", "rbrace"}) /\ Len(DetectLine) = 5
      /\ DetectLine[1] = "lbrace" /\ DetectLine[2] = "command" /\ DetectLine[3] = "colon"
      /\ DetectLine[4] = "DETECT" /\ DetectLine[5] = "rbrace"
  BY DEF DetectLine
<1>2. Len(line) \in Nat /\ \A i \in 1..Len(line) : line[i] # "eof"
  BY LenProperties, ElementOfSeq
<1>3. ASSUME Looks(line) PROVE line = DetectLine
  <2>1. Len(line) = 5
    <3>1. /\ (IF 5 <= Len(line) THEN line[5] ELSE "eof") = "rbrace"
          /\ (IF 6 <= Len(line) THEN line[6] ELSE "eof") = "eof"
      BY <1>3, PeekAt DEF Looks
    <3>2. 5 <= Len(line)
      BY <3>1
    <3>3. ~(6 <= Len(line))
      <4>1. ASSUME 6 <= Len(line) PROVE FALSE
        <5>1. 6 \in 1..Len(line)
          BY <1>2, <4>1
        <5> QED BY <1>2, <3>1, <4>1, <5>1
      <4> QED BY <4>1
    <3>4. Len(line) \in Nat
      BY <1>2
    <3>5. \A n \in Nat : 5 <= n /\ ~(6 <= n) => n = 5
      OBVIOUS
    <3> QED BY <3>2, <3>3, <3>4, <3>5, Zenon
  <2>2. line[1] = "lbrace" /\ line[2] = "command" /\ line[3] = "colon" /\ line[4] = "DETECT" /\ line[5] = "rbrace"
    BY <1>3, <2>1, PeekAt DEF Looks
  <2>3. \A i \in 1..Len(line) : line[i] = DetectLine[i]
    BY <1>1, <2>1, <2>2
  <2> QED BY <1>1, <2>1, <2>3, SeqEqual
<1>4. Looks(DetectLine)
  <2>1. ASSUME NEW a \in 1..5, NEW state PROVE Peek(DetectLine, At(a, state)) = DetectLine[a]
    BY <1>1, PeekAt
  <2>2. Peek(DetectLine, At(6, "top")) = "eof"
    BY <1>1, PeekAt
  <2> QED BY <1>1, <2>1, <2>2 DEF Looks
<1> QED BY <1>3, <1>4, ParsesLooks

-----------------------------------------------------------------------------
(* The inductive invariant.                                                *)

\* The goroutines of the detector and the socket file.  The last three
\* conjuncts say who removes the file: a Serve that has not yet set listener
\* removes it when it finds closed set; otherwise Server.Close does.
Lifecycle(m, sv, sh, l, cl, f) ==
    /\ m \in {"none", "setup", "listen", "notify", "select", "closing", "exited", "killed"}
    /\ sv \in {"none", "start", "accept", "accepted", "failed", "returned"}
    /\ sh \in {"none", "server", "wait", "source", "done"}
    /\ l \in BOOLEAN /\ cl \in BOOLEAN
    /\ m \notin {"select", "closing"} => sv = "none" /\ sh = "none" /\ ~l /\ ~cl
    /\ m = "select" => sv # "none" /\ sh = "none" /\ ~cl
    /\ m = "closing" => sv # "none" /\ sh # "none" /\ (cl <=> sh # "server")
    /\ sv \in {"accept", "accepted", "failed"} => l
    /\ sv \in {"failed", "returned"} => f # "own"
    /\ cl /\ sv # "start" => f # "own"

\* The handlers: the connection that Serve has in hand is not registered yet,
\* and none runs once Server.Close has waited.
HandlerStates == {"none", "backlog", "new", "read", "lock", "detect", "stuck", "write", "last", "gone"}

Idle == {"none", "backlog", "new", "gone"}

Registered ==
    /\ handler \in [Conns -> HandlerStates]
    /\ serving = "accepted" => accepted \in Conns /\ handler[accepted] = "new"
    /\ shutdown \in {"source", "done"} => \A c \in Conns : handler[c] \in Idle

\* The Runtime's thread.  A helper is started at most once.
Unstarted == pc \in {"lstat", "spawn"} \/ (pc = "idle" /\ ~connected /\ ~failed)

Thread ==
    /\ pc \in {"idle", "lstat", "spawn", "connect", "check", "send", "read", "return", "stop", "reap", "wait", "end"}
    /\ connected \in BOOLEAN /\ failed \in BOOLEAN /\ destroyed \in BOOLEAN
    /\ pc \in {"lstat", "spawn", "connect"} => ~connected /\ ~failed /\ ~destroyed
    /\ pc \in {"check", "send", "read", "return"} => connected /\ ~failed /\ ~destroyed
    /\ pc \in {"stop", "reap", "wait"} => failed \/ destroyed
    /\ pc = "idle" => ~destroyed
    /\ Unstarted => main = "none"
    /\ Unstarted \/ pc = "connect" => handler[Own] = "none"

Process ==
    /\ mode \in Modes /\ now \in Nat
    /\ Lifecycle(main, serving, shutdown, listener, closed, file)
    /\ Registered
    /\ Thread

\* A response that the Runtime accepts and that was produced from its frame,
\* which is an old one only if the driver had kept too many.
Honest(a) ==
    /\ Decodes(a.response) /\ a.response.error # "BAD_REQUEST"
    /\ a.frame # <<>> => a.frame \in Frames /\ a.response \in ResponsesTo[a.frame]
    /\ a.old => a.many

\* What the detector can do with one connection: its handler, what is on its
\* way to the server and to the client, and the response being written.
ServerMoves(open, n, h, s, t, a, h2, s2, t2, a2) ==
    \/ h2 = h /\ s2 = s /\ t2 = t /\ a2 = a
    \/ h2 = (IF h = "none" THEN "none" ELSE "gone") /\ s2 \in {s, <<>>} /\ t2 = t
    \/ /\ <<h, h2>> \in {<<"backlog", "new">>, <<"new", "read">>, <<"lock", "detect">>, <<"detect", "stuck">>}
       /\ s2 = s /\ t2 = t /\ a2 = a
    \/ /\ h = "read" /\ s # <<>> /\ s2 = Tail(s) /\ t2 = t
       /\ IF Head(s).kind = "line" /\ parseRequest(Head(s).tokens) THEN h2 = "lock"
          ELSE h2 \in {"write", "last"} /\ a2.response.error = "BAD_REQUEST"
    \/ h = "detect" /\ h2 = "write" /\ s2 = s /\ t2 = t /\ Honest(a2) /\ a2.taken = n
    \/ h \in {"write", "last"} /\ h2 \in {"read", "gone"} /\ open /\ s2 = s /\ t2 = Append(t, a)

\* The Runtime's connection: there is at most one request or response on it,
\* in one place.
Request == [kind |-> "line", tokens |-> DetectLine]

Flight(h, s, t, a) ==
    \/ s = <<>> /\ t = <<>> /\ h \in {"none", "backlog", "new", "read", "gone"}
    \/ s = <<Request>> /\ t = <<>> /\ h \in {"none", "backlog", "new", "read", "gone"}
    \/ s = <<>> /\ t = <<>> /\ h \in {"lock", "detect", "stuck"}
    \/ s = <<>> /\ t = <<>> /\ h = "write" /\ Honest(a)
    \/ s = <<>> /\ (\E x : t = <<x>> /\ Honest(x)) /\ h \in {"read", "gone"}

Still(h, s, t) == s = <<>> /\ t = <<>> /\ h \in {"none", "backlog", "new", "read", "gone"}

Current(h, t, a, n) == (h = "write" => a.taken = n) /\ (t # <<>> => t[1].taken = n)

Connection ==
    /\ Flight(handler[Own], toServer[Own], toClient[Own], answer[Own])
    /\ (pc \in {"idle", "check", "send", "return"} /\ ~failed) \/ pc \in {"lstat", "spawn", "connect"} =>
          Still(handler[Own], toServer[Own], toClient[Own])
    /\ pc = "read" => Current(handler[Own], toClient[Own], answer[Own], now)
    /\ pc = "return" => reply.taken = now /\ Honest(reply)

\* Another client's connection: where its one request or the response is, and
\* that the response says what the request deserves.
Verdict(ask, a) == ask # "nothing" => (a.response.error = "BAD_REQUEST" <=> ask = "else")

Deserves(ask, q) == ask # "nothing" => (ask = "DETECT" <=> q.kind = "line" /\ q.tokens = DetectLine)

OneRequest(ask, open, h, s, t, a) ==
    /\ ask \in {"nothing", "DETECT", "else"}
    /\ ask = "nothing" => ~open
    /\ ~open => t = <<>>
    /\ \/ s = <<>> /\ t = <<>> /\ h \in {"none", "read", "gone"}
       \/ /\ \E q : s = <<q>> /\ q.tokens \in Seq(STRING \ {"eof"}) /\ Deserves(ask, q)
          /\ t = <<>> /\ h \in {"backlog", "new", "read", "gone"}
       \/ s = <<>> /\ t = <<>> /\ h \in {"lock", "detect", "stuck"} /\ ask # "else"
       \/ s = <<>> /\ t = <<>> /\ h \in {"write", "last"} /\ Verdict(ask, a)
       \/ s = <<>> /\ (\E x : t = <<x>> /\ Verdict(ask, x)) /\ h \in {"read", "gone"}

Requests ==
    \A c \in Others : OneRequest(asked[c], c \in clientOpen, handler[c], toServer[c], toClient[c], answer[c])

\* The functions that the steps update.
Domains ==
    /\ DOMAIN toServer = Conns /\ DOMAIN toClient = Conns /\ DOMAIN answer = Conns
    /\ DOMAIN asked = Others

IInv == Process /\ Domains /\ Connection /\ Requests

-----------------------------------------------------------------------------
(* The goroutines and the thread.                                          *)

Server ==
    /\ mode \in Modes
    /\ Lifecycle(main, serving, shutdown, listener, closed, file)
    /\ Registered

LEMMA EndsServer ==
    ASSUME Server, NEW how \in {"exited", "killed"}, Ends(how)
    PROVE  Server' /\ now' = now /\ (handler[Own] = "none" => handler'[Own] = "none")
<1> USE DEF Server
<1>1. Lifecycle(main, serving, shutdown, listener, closed, file)'
  BY Zenon DEF Ends, Lifecycle
<1>2. handler' \in [Conns -> {"none", "gone"}]
  BY DEF Ends
<1>3. Registered'
  BY <1>2 DEF Registered, Ends, HandlerStates, Idle
<1> QED BY <1>1, <1>3, CameraAssumption DEF Ends

LEMMA MainServer ==
    ASSUME Server, Main
    PROVE  Server' /\ now' = now /\ main # "none" /\ main' # "none"
           /\ (handler[Own] = "none" => handler'[Own] = "none")
<1>1. CASE Exit
  BY <1>1, EndsServer, Zenon DEF Exit, Ends
<1>2. CASE Setup \/ ListenSocket \/ Notify \/ Select
  <2>1. Lifecycle(main, serving, shutdown, listener, closed, file)'
    BY <1>2 DEF Server, Lifecycle, Setup, ListenSocket, Notify, Select
  <2>2. handler' = handler /\ accepted' = accepted
    BY <1>2 DEF Setup, ListenSocket, Notify, Select, connVars
  <2>3. Registered'
    BY <1>2, <2>2 DEF Server, Registered, Lifecycle, Setup, ListenSocket, Notify, Select
  <2> QED BY <1>2, <2>1, <2>2, <2>3 DEF Server, Setup, ListenSocket, Notify, Select
<1> QED BY <1>1, <1>2 DEF Main

LEMMA SignalServer ==
    ASSUME Server, Signal
    PROVE  Server' /\ now' = now /\ main # "none" /\ main' # "none"
           /\ (handler[Own] = "none" => handler'[Own] = "none")
<1>1. CASE main \in {"setup", "listen", "notify"}
  BY <1>1, EndsServer, Zenon DEF Signal, Ends, Alive
<1>2. CASE main \notin {"setup", "listen", "notify"}
  BY <1>2 DEF Signal, Alive, Server, Registered, connVars
<1> QED BY <1>1, <1>2

LEMMA ServeServer ==
    ASSUME Server, Serve
    PROVE  Server' /\ now' = now /\ main # "none" /\ main' # "none"
           /\ (handler[Own] = "none" => handler'[Own] = "none")
<1>0. Own \in Conns /\ handler \in [Conns -> HandlerStates]
  BY CameraAssumption DEF Server, Registered
<1>1. CASE ServeStart
  <2>1. Lifecycle(main, serving, shutdown, listener, closed, file)'
    BY <1>1, Zenon DEF Server, Lifecycle, ServeStart, Unlistened, Alive
  <2>2. handler' \in [Conns -> HandlerStates] /\ \A c \in Conns : handler'[c] \in {handler[c], "gone"}
           /\ (handler[c] # "backlog" => handler'[c] = handler[c])
    BY <1>0, <1>1 DEF ServeStart, Unlistened, HandlerStates
  <2>3. Registered'
    BY <1>1, <2>2 DEF Server, Registered, ServeStart, Idle
  <2> QED BY <1>0, <1>1, <2>1, <2>2, <2>3 DEF Server, ServeStart, Alive
<1>2. CASE AcceptFails
  <2>1. Lifecycle(main, serving, shutdown, listener, closed, file)'
    BY <1>2 DEF Server, Lifecycle, AcceptFails, Unlistened, Alive
  <2>2. handler' \in [Conns -> HandlerStates] /\ \A c \in Conns : handler'[c] \in {handler[c], "gone"}
           /\ (handler[c] # "backlog" => handler'[c] = handler[c])
    BY <1>0, <1>2 DEF AcceptFails, Unlistened, HandlerStates
  <2>3. Registered'
    BY <1>2, <2>2, Zenon DEF Server, Registered, AcceptFails, Idle
  <2> QED BY <1>0, <1>2, <2>1, <2>2, <2>3 DEF Server, AcceptFails, Alive
<1>3. CASE Register
  <2>1. Lifecycle(main, serving, shutdown, listener, closed, file)'
    BY <1>3 DEF Server, Lifecycle, Register, Alive
  <2>2. accepted \in Conns /\ handler[accepted] = "new" /\ serving' # "accepted"
    BY <1>3 DEF Server, Registered, Register
  <2>3. /\ handler' \in [Conns -> HandlerStates]
        /\ handler'[accepted] = (IF closed THEN "gone" ELSE "read")
        /\ \A c \in Conns : c # accepted => handler'[c] = handler[c]
    BY <1>0, <1>3, <2>2 DEF Register, HandlerStates
  <2>4. shutdown \in {"source", "done"} => closed
    BY DEF Server, Lifecycle
  <2>5. Registered'
    BY <1>3, <2>2, <2>3, <2>4, Zenon DEF Server, Registered, Register, Idle
  <2> QED BY <1>0, <1>3, <2>1, <2>2, <2>3, <2>5 DEF Server, Register, Alive
<1>4. ASSUME NEW c \in Conns, Accept(c)
      PROVE  Server' /\ now' = now /\ main # "none" /\ main' # "none"
             /\ (handler[Own] = "none" => handler'[Own] = "none")
  <2>1. Lifecycle(main, serving, shutdown, listener, closed, file)'
    BY <1>4 DEF Server, Lifecycle, Accept, Alive
  <2>2. handler' \in [Conns -> HandlerStates] /\ handler'[c] = "new"
        /\ \A d \in Conns : d # c => handler'[d] = handler[d]
    BY <1>0, <1>4, Zenon DEF Accept, HandlerStates
  <2>3. Registered'
    BY <1>4, <2>2 DEF Server, Registered, Accept, Idle
  <2> QED BY <1>0, <1>4, <2>1, <2>2, <2>3 DEF Server, Accept, Alive
<1> QED BY <1>1, <1>2, <1>3, <1>4 DEF Serve

LEMMA ShutdownServer ==
    ASSUME Server, Shutdown
    PROVE  Server' /\ now' = now /\ main # "none" /\ main' # "none"
           /\ (handler[Own] = "none" => handler'[Own] = "none")
<1>0. Own \in Conns /\ handler \in [Conns -> HandlerStates]
  BY CameraAssumption DEF Server, Registered
<1>1. CASE CloseServer
  <2>1. Lifecycle(main, serving, shutdown, listener, closed, file)'
    BY <1>1 DEF Server, Lifecycle, CloseServer, Unlistened, Alive
  <2>2. handler' \in [Conns -> HandlerStates] /\ \A c \in Conns : handler[c] # "backlog" => handler'[c] = handler[c]
    BY <1>0, <1>1 DEF CloseServer, Unlistened, HandlerStates
  <2>3. Registered'
    BY <1>1, <2>2 DEF Server, Registered, CloseServer
  <2> QED BY <1>0, <1>1, <2>1, <2>2, <2>3, Zenon DEF Server, CloseServer, Alive
<1>2. CASE WaitHandlers
  <2>1. Lifecycle(main, serving, shutdown, listener, closed, file)'
    BY <1>2 DEF Server, Lifecycle, WaitHandlers, Alive
  <2>2. \A c \in Conns : handler[c] \in Idle
    BY <1>2 DEF WaitHandlers, Handlers, Idle
  <2>3. Registered'
    BY <1>2, <2>2 DEF Server, Registered, WaitHandlers, connVars
  <2> QED BY <1>2, <2>1, <2>3 DEF Server, WaitHandlers, Alive, connVars
<1>3. CASE CloseSource
  <2>1. Lifecycle(main, serving, shutdown, listener, closed, file)'
    BY <1>3 DEF Server, Lifecycle, CloseSource, Alive
  <2>2. Registered'
    BY <1>3, Zenon DEF Server, Registered, CloseSource, connVars
  <2> QED BY <1>3, <2>1, <2>2 DEF Server, CloseSource, Alive, connVars
<1> QED BY <1>1, <1>2, <1>3 DEF Shutdown

\* A step of a handler moves the one connection that it has, and only from a
\* state in which Server.Close waits for it.
LEMMA HandleMoves ==
    ASSUME Server, NEW c \in Conns, Handle(c) \/ CameraHangs(c)
    PROVE  /\ UNCHANGED <<mode, file, lifeVars, clientOpen, now>> /\ main # "none"
           /\ handler[c] \notin Idle
           /\ handler' \in [Conns -> HandlerStates]
           /\ \A d \in Conns : d # c => handler'[d] = handler[d]
<1>0. handler \in [Conns -> HandlerStates]
  BY Zenon DEF Server, Registered
<1> USE DEF HandlerStates, Idle, Alive
<1>1. CASE ReadRequest(c)
  <2>1. \E h \in HandlerStates : handler' = [handler EXCEPT ![c] = h]
    BY <1>1, Zenon DEF ReadRequest, Answers
  <2> QED BY <1>0, <1>1, <2>1, Zenon DEF ReadRequest
<1>2. CASE WriteResponse(c)
  <2>1. \E h \in HandlerStates : handler' = [handler EXCEPT ![c] = h]
    BY <1>0, <1>2 DEF WriteResponse
  <2> QED BY <1>0, <1>2, <2>1 DEF WriteResponse
<1>3. CASE Lock(c)
  BY <1>0, <1>3, Zenon DEF Lock
<1>4. CASE Detect(c)
  <2>1. handler' = [handler EXCEPT ![c] = "write"]
    BY <1>4 DEF Detect, Answers
  <2> QED BY <1>0, <1>4, <2>1, Zenon DEF Detect
<1>5. CASE FakeDetect(c)
  <2>1. handler' = [handler EXCEPT ![c] = "write"]
    BY <1>5 DEF FakeDetect, Answers
  <2> QED BY <1>0, <1>5, <2>1 DEF FakeDetect
<1>6. CASE CameraHangs(c)
  BY <1>0, <1>6 DEF CameraHangs
<1> QED BY <1>1, <1>2, <1>3, <1>4, <1>5, <1>6 DEF Handle

LEMMA HandleServer ==
    ASSUME Server, NEW c \in Conns, Handle(c) \/ CameraHangs(c)
    PROVE  Server' /\ now' = now /\ main # "none" /\ main' # "none"
           /\ (handler[Own] = "none" => handler'[Own] = "none")
<1>1. Own \in Conns
  BY CameraAssumption
<1>2. Registered'
  BY HandleMoves, Zenon DEF Server, Registered, lifeVars, Idle
<1> QED BY <1>1, <1>2, HandleMoves DEF Server, lifeVars, Idle

\* What the detector and its camera do by themselves.
DetectorStep ==
    \/ Main \/ Serve \/ Shutdown \/ Dies \/ Signal
    \/ \E c \in Conns : Handle(c) \/ CameraHangs(c)

LEMMA DetectorServer ==
    ASSUME Server, DetectorStep
    PROVE  Server' /\ now' = now /\ main # "none" /\ main' # "none"
           /\ (handler[Own] = "none" => handler'[Own] = "none")
<1>1. CASE Dies
  BY <1>1, EndsServer, Zenon DEF Dies, Ends, Alive
<1> QED BY <1>1, MainServer, ServeServer, ShutdownServer, SignalServer, HandleServer DEF DetectorStep

\* The steps of the Runtime's thread that leave the detector to itself.
Alone ==
    \/ Call \/ Destroy \/ CheckStarted \/ Lstat \/ SendDetect \/ ReadResponse \/ Return \/ Timeout
    \/ CloseConnection

LEMMA NextCases ==
    ASSUME [Next]_vars
    PROVE  \/ Alone
           \/ Spawn
           \/ Connect
           \/ Terminate
           \/ Reap
           \/ DetectorStep /\ UNCHANGED clientVars
           \/ \E c \in Others : OtherSends(c) \/ OtherLeaves(c)
           \/ UNCHANGED vars
BY ZenonT(40) DEF Next, Client, Environment, Alone, DetectorStep

LEMMA AloneLeaves ==
    ASSUME Alone
    PROVE  UNCHANGED <<mode, file, lifeVars, handler>>
BY Zenon DEF Alone, Call, Destroy, CheckStarted, Lstat, SendDetect, ReadResponse, Return, Timeout, CloseConnection,
       detectorVars, connVars

LEMMA FailsThread ==
    ASSUME Thread, Fails
    PROVE  Thread'
BY DEF Thread, Unstarted, Fails

LEMMA AloneThread ==
    ASSUME Process, Alone
    PROVE  Thread' /\ now' \in Nat
<1>0. UNCHANGED <<main, handler>> /\ now \in Nat /\ Thread
  BY AloneLeaves DEF lifeVars, Process
<1> USE <1>0 DEF Thread, Unstarted
<1>1. CASE Call
  BY <1>1 DEF Call
<1>2. CASE Destroy
  BY <1>2, Zenon DEF Destroy, detectorVars
<1>3. CASE CheckStarted
  <2>1. now' = now /\ (Fails \/ Goes("send"))
    BY <1>3, Zenon DEF CheckStarted, detectorVars, FailsGone
  <2>2. CASE Goes("send")
    BY <1>3, <2>1, <2>2, Zenon DEF CheckStarted, Goes
  <2> QED BY <2>1, <2>2, FailsThread, Zenon
<1>4. CASE Lstat
  BY <1>4, Zenon DEF Lstat, detectorVars, Fails, Goes
<1>5. CASE SendDetect
  BY <1>5, Zenon DEF SendDetect, Fails, Goes
<1>6. CASE ReadResponse
  BY <1>6, ZenonT(40) DEF ReadResponse, Fails
<1>7. CASE Return
  <2>1. now' = now /\ (Fails \/ (pc' = "idle" /\ UNCHANGED <<connected, failed, destroyed>>))
    BY <1>7, Zenon DEF Return, detectorVars, FailsGone
  <2>2. CASE pc' = "idle" /\ UNCHANGED <<connected, failed, destroyed>>
    BY <1>7, <2>1, <2>2, Zenon DEF Return
  <2> QED BY <2>1, <2>2, FailsThread, Zenon
<1>8. CASE Timeout
  BY <1>8 DEF Timeout, Fails, detectorVars
<1>9. CASE CloseConnection
  BY <1>9, Zenon DEF CloseConnection, Stopped
<1> QED BY <1>1, <1>2, <1>3, <1>4, <1>5, <1>6, <1>7, <1>8, <1>9, Zenon DEF Alone

LEMMA ProcessStep ==
    ASSUME Process, [Next]_vars
    PROVE  Process'
<1>0. Server /\ Thread /\ now \in Nat
  BY DEF Process, Server
<1>s. ASSUME Server', Thread', now' \in Nat PROVE Process'
  BY <1>s DEF Process, Server
<1>o. Own \in Conns /\ handler \in [Conns -> HandlerStates]
  BY CameraAssumption, <1>0 DEF Server, Registered
<1>1. CASE Alone
  <2>1. Server'
    BY <1>0, <1>1, AloneLeaves DEF Server, Registered, lifeVars
  <2> QED BY <1>1, <2>1, <1>s, AloneThread
<1>2. CASE Spawn
  <2>1. main = "none" /\ handler[Own] = "none"
    BY <1>0, <1>2, Zenon DEF Thread, Unstarted, Spawn
  <2>2. Lifecycle(main, serving, shutdown, listener, closed, file)'
    BY <1>0, <1>2, <2>1, Zenon DEF Server, Lifecycle, Spawn, Fails
  <2>3. Server'
    BY <1>0, <1>2, <2>2 DEF Server, Registered, Spawn, connVars
  <2>4. Thread'
    <3>1. handler' = handler /\ (Fails \/ (pc' = "connect" /\ UNCHANGED <<connected, failed, destroyed>>))
      BY <1>2, Zenon DEF Spawn, connVars
    <3>2. CASE pc' = "connect" /\ UNCHANGED <<connected, failed, destroyed>>
      BY <1>0, <1>2, <2>1, <3>1, <3>2, Zenon DEF Thread, Unstarted, Spawn
    <3> QED BY <1>0, <3>1, <3>2, FailsThread, Zenon
  <2> QED BY <1>0, <1>2, <1>s, <2>3, <2>4, Zenon DEF Spawn
<1>3. CASE Connect
  <2>1. handler[Own] = "none" /\ UNCHANGED <<mode, file, lifeVars, now>>
    BY <1>0, <1>3 DEF Thread, Connect
  <2>2. \/ handler' = handler
        \/ handler' = [handler EXCEPT ![Own] = "backlog"] /\ connected' = TRUE /\ pc' = "check"
    BY <1>3, Zenon DEF Connect
  <2>3. Registered'
    BY <1>0, <1>o, <2>1, <2>2 DEF Server, Registered, lifeVars, HandlerStates, Idle
  <2>4. Thread'
    <3>1. Fails \/ (pc' = "check" /\ connected' = TRUE /\ UNCHANGED <<failed, destroyed>>)
      BY <1>3, Zenon DEF Connect, FailsGone
    <3>2. CASE pc' = "check" /\ connected' = TRUE /\ UNCHANGED <<failed, destroyed>>
      BY <1>0, <1>3, <2>1, <3>2 DEF Thread, Unstarted, Connect
    <3> QED BY <1>0, <3>1, <3>2, FailsThread, Zenon
  <2> QED BY <1>0, <1>s, <2>1, <2>3, <2>4, Zenon DEF Server, lifeVars
<1>4. CASE Terminate
  <2>1. Server' /\ now' = now
    <3>1. CASE Signal
      BY <1>0, <3>1, SignalServer, Zenon
    <3>2. CASE UNCHANGED detectorVars
      BY <1>0, <3>2, Zenon DEF detectorVars, Server, Registered, lifeVars, connVars
    <3> QED BY <1>4, <3>1, <3>2 DEF Terminate
  <2>2. Thread'
    BY <1>0, <1>4 DEF Thread, Unstarted, Terminate, Stopped, Goes
  <2> QED BY <1>0, <1>s, <2>1, <2>2
<1>5. CASE Reap
  <2>1. Server' /\ now' = now
    <3>1. CASE Ends("killed")
      BY <1>0, <3>1, EndsServer, Zenon
    <3>2. CASE UNCHANGED detectorVars
      BY <1>0, <3>2 DEF detectorVars, Server, Registered, lifeVars, connVars
    <3> QED BY <1>5, <3>1, <3>2 DEF Reap
  <2>2. Thread'
    BY <1>0, <1>5 DEF Thread, Unstarted, Reap, Stopped
  <2> QED BY <1>0, <1>s, <2>1, <2>2
<1>6. CASE DetectorStep /\ UNCHANGED clientVars
  <2>1. Thread'
    BY <1>0, <1>6, DetectorServer, Zenon DEF Thread, Unstarted, clientVars
  <2> QED BY <1>0, <1>6, <1>s, <2>1, DetectorServer, Zenon
<1>7. ASSUME NEW c \in Others, OtherSends(c) \/ OtherLeaves(c) PROVE Process'
  <2>1. c \in Conns /\ c # Own
    BY Zenon DEF Others
  <2>2. UNCHANGED <<mode, file, lifeVars, now, pc, connected, child, failed, destroyed, reply>>
    BY <1>7, Zenon DEF OtherSends, OtherLeaves
  <2>3. \/ handler' = handler
        \/ handler[c] = "none" /\ handler' = [handler EXCEPT ![c] = "backlog"]
    BY <1>7, Zenon DEF OtherSends, OtherLeaves
  <2>4. Registered'
    BY <1>0, <1>o, <2>1, <2>2, <2>3, Zenon DEF Server, Registered, lifeVars, HandlerStates, Idle
  <2>5. Thread'
    BY <1>0, <1>o, <2>1, <2>2, <2>3, Zenon DEF Thread, Unstarted, lifeVars
  <2> QED BY <1>0, <1>s, <2>2, <2>4, <2>5 DEF Server, lifeVars
<1>8. CASE UNCHANGED vars
  BY <1>0, <1>8, <1>s, Zenon DEF vars, detectorVars, clientVars, lifeVars, connVars, Server, Registered, Thread, Unstarted
<1> QED BY <1>1, <1>2, <1>3, <1>4, <1>5, <1>6, <1>7, <1>8, NextCases

-----------------------------------------------------------------------------
(* Recursion: WFMin of WellFoundedInduction, which is about sets, gives     *)
(* induction on sets of numbers, and functions defined step by step.        *)

Below == {p \in Nat \X Nat : p[1] < p[2]}

LEMMA BelowWellFounded == IsWellFoundedOn(Below, Nat)
BY NatLessThanWellFounded DEF OpToRel, Below

LEMMA LeastNumber ==
    ASSUME NEW T \in SUBSET Nat, T # {}
    PROVE  \E x \in T : \A y \in T : x <= y
<1>1. PICK x \in T : \A y \in T : ~ (<<y, x>> \in Below)
  BY BelowWellFounded, WFMin, Zenon
<1>2. ASSUME NEW y \in T PROVE x <= y
  <2>1. <<y, x>> \notin Below
    BY <1>1
  <2> QED BY <2>1 DEF Below
<1> QED BY <1>2

LEMMA Induction ==
    ASSUME NEW T \in SUBSET Nat, 0 \in T, \A n \in T : n + 1 \in T
    PROVE  T = Nat
<1> SUFFICES ASSUME Nat \ T # {} PROVE FALSE
  BY Zenon
<1>1. PICK x \in Nat \ T : \A y \in Nat \ T : x <= y
  BY LeastNumber, Zenon
<1>2. x - 1 \in T
  BY <1>1
<1> QED BY <1>1, <1>2

\* f runs through the n steps from a.
Steps(n, S) == [1..n -> [S -> S]]
Runs(f, n, S, a, step) ==
    f \in [0..n -> S] /\ f[0] = a /\ \A i \in 1..n : f[i] = step[i][f[i - 1]]

\* A function on 0..n can be defined by its first value and its steps.
LEMMA Recursion ==
    ASSUME NEW S, NEW n \in Nat, NEW a \in S, NEW step \in Steps(n, S)
    PROVE  \E f : Runs(f, n, S, a, step)
<1> DEFINE Follows(m, f) == f[0] = a /\ \A i \in 1..m : f[i] = step[i][f[i - 1]]
           T == {m \in Nat : m <= n => \E f \in [0..m -> S] : Follows(m, f)}
<1>0. step \in [1..n -> [S -> S]]
  BY Zenon DEF Steps
<1>1. 0 \in T
  <2>1. [i \in 0..0 |-> a] \in [0..0 -> S] /\ Follows(0, [i \in 0..0 |-> a])
    OBVIOUS
  <2> QED BY <2>1, Zenon
<1>2. ASSUME NEW m \in T PROVE m + 1 \in T
  <2>0. m \in Nat
    BY Zenon
  <2>1. ASSUME m + 1 <= n PROVE \E f \in [0..(m + 1) -> S] : Follows(m + 1, f)
    <3>1. PICK f \in [0..m -> S] : Follows(m, f)
      BY <2>1
    <3>2. PICK g : g = [i \in 0..(m + 1) |-> IF i <= m THEN f[i] ELSE step[m + 1][f[m]]]
      BY Zenon
    <3>3. step[m + 1] \in [S -> S] /\ f[m] \in S
      BY <1>0, <2>1
    <3>4. g \in [0..(m + 1) -> S]
      BY <3>2, <3>3
    <3>5. g[0] = a /\ \A i \in 1..m : g[i] = step[i][g[i - 1]]
      BY <3>1, <3>2, SMTT(30)
    <3>6. g[m + 1] = step[m + 1][g[m]]
      BY <3>2
    <3>7. Follows(m + 1, g)
      <4>1. \A i \in 1..(m + 1) : i \in 1..m \/ i = m + 1
        BY <2>0
      <4>2. (m + 1) - 1 = m
        BY <2>0
      <4>3. ASSUME NEW i \in 1..(m + 1) PROVE g[i] = step[i][g[i - 1]]
        <5>1. CASE i \in 1..m
          BY <3>5, <5>1, Zenon
        <5>2. CASE i = m + 1
          BY <3>6, <4>2, <5>2, Zenon
        <5> QED BY <4>1, <5>1, <5>2, Zenon
      <4> QED BY <3>5, <4>3, Zenon
    <3> QED BY <3>4, <3>7, Zenon
  <2>2. m + 1 \in Nat
    BY <2>0
  <2> QED BY <2>1, <2>2, Zenon
<1> HIDE DEF T
<1>3. T \in SUBSET Nat
  BY DEF T
<1>4. T = Nat
  BY <1>1, <1>2, <1>3, Induction
<1>5. n \in T /\ n <= n
  BY <1>4
<1>6. PICK f \in [0..n -> S] : Follows(n, f)
  BY <1>5, Zenon DEF T
<1> QED BY <1>6 DEF Runs

-----------------------------------------------------------------------------
(* What is computed from one frame.                                        *)

Detection == [id : Int, angle : Int \cup {NegZero}, distance : Nat \cup {Inf}]

Found(s) == [id |-> s.id, angle |-> s.angle, distance |-> s.distance]

LEMMA FoundFields ==
    ASSUME NEW s
    PROVE  Found(s).id = s.id /\ Found(s).angle = s.angle /\ Found(s).distance = s.distance
BY Zenon DEF Found

\* a has the elements of b, in any order and number.
SameElements(a, b) ==
    /\ \A i \in 1..Len(a) : \E j \in 1..Len(b) : a[i] = b[j]
    /\ \A j \in 1..Len(b) : \E i \in 1..Len(a) : a[i] = b[j]

LEMMA SortedIs ==
    ASSUME NEW found \in Seq(Detection), NEW s \in Sorted(found)
    PROVE  /\ s \in Seq(Detection) /\ Len(s) = Len(found) /\ SameElements(s, found)
           /\ \A i, j \in 1..Len(s) : i < j => s[i].id <= s[j].id
           /\ (\A i, j \in 1..Len(found) : found[i].id = found[j].id => i = j) =>
                 \A i, j \in 1..Len(s) : s[i].id = s[j].id => i = j
<1>0. Len(found) \in Nat /\ DOMAIN found = 1..Len(found) /\ found \in [1..Len(found) -> Detection]
  BY LenProperties
<1>1. PICK n \in Nat : n = Len(found)
  BY <1>0, Zenon
<1>2. PICK p \in Bijection(1..n, 1..n) :
         /\ \A i, j \in 1..n : i < j => found[p[i]].id <= found[p[j]].id
         /\ s = [i \in 1..n |-> found[p[i]]]
  BY <1>0, <1>1, Zenon DEF Sorted
<1>3. /\ p \in [1..n -> 1..n] /\ \A i, j \in 1..n : p[i] = p[j] => i = j
      /\ \A j \in 1..n : \E i \in 1..n : p[i] = j
  BY <1>2, Zenon DEF Bijection, Injection, Surjection, IsInjective
<1>4. \A i \in 1..n : s[i] = found[p[i]] /\ s[i] \in Detection
  BY <1>0, <1>1, <1>2, <1>3
<1>5. s \in Seq(Detection) /\ Len(s) = n
  <2>1. s \in [1..n -> Detection]
    BY <1>2, <1>4, Zenon
  <2> QED BY <2>1, SeqDef
<1>6. SameElements(s, found)
  <2>1. \A i \in 1..n : p[i] \in 1..n /\ s[i] = found[p[i]]
    BY <1>3, <1>4, Zenon
  <2>2. ASSUME NEW j \in 1..n PROVE \E i \in 1..n : s[i] = found[j]
    <3>1. PICK i \in 1..n : p[i] = j
      BY <1>3, Zenon
    <3> QED BY <1>4, <3>1
  <2> QED BY <1>1, <1>5, <2>1, <2>2, Zenon DEF SameElements
<1>7. \A i, j \in 1..n : i < j => s[i].id <= s[j].id
  BY <1>2, <1>4, Zenon
<1>8. ASSUME \A i, j \in 1..n : found[i].id = found[j].id => i = j
      PROVE  \A i, j \in 1..n : s[i].id = s[j].id => i = j
  <2>1. ASSUME NEW i \in 1..n, NEW j \in 1..n, s[i].id = s[j].id PROVE i = j
    <3>1. p[i] \in 1..n /\ p[j] \in 1..n /\ found[p[i]].id = found[p[j]].id
      BY <1>3, <1>4, <2>1, Zenon
    <3>2. p[i] = p[j]
      BY <1>8, <3>1, Zenon
    <3> QED BY <1>3, <3>2, Zenon
  <2> QED BY <2>1, Zenon
<1> QED BY <1>1, <1>5, <1>6, <1>7, <1>8

LEMMA FramesTyped ==
    ASSUME NEW frame \in Frames
    PROVE  /\ Len(frame) \in Nat /\ DOMAIN frame = 1..Len(frame)
           /\ \A i \in 1..Len(frame) : Found(frame[i]) \in Detection
<1> DEFINE S == [id : Int, corners : Nat, pose : BOOLEAN, angle : Int \cup {NegZero}, distance : Nat \cup {Inf}]
<1>1. frame \in Seq(S)
  BY DetectorAssumption, Zenon
<1>2. \A i \in 1..Len(frame) : frame[i] \in S
  BY <1>1, ElementOfSeq, Zenon
<1> QED BY <1>1, <1>2, LenProperties, Zenon DEF Found, Detection

IsMarker(s) == IsValid(s.id) /\ s.corners = 4 /\ s.pose

LEMMA ResultsIs ==
    ASSUME NEW s
    PROVE  Results(s) = IF IsMarker(s) THEN <<Found(s)>> ELSE <<>>
BY DEF Results, IsMarker, Found

\* The detections of the markers among the first k sightings.
Detected(frame, k, results) ==
    /\ \A i \in 1..Len(results) : \E j \in 1..k : IsMarker(frame[j]) /\ results[i] = Found(frame[j])
    /\ \A j \in 1..k : IsMarker(frame[j]) => \E i \in 1..Len(results) : results[i] = Found(frame[j])

LEMMA DetectedStep ==
    ASSUME NEW frame \in Frames, NEW k \in Nat, k + 1 <= Len(frame), NEW r \in Seq(Detection), Detected(frame, k, r)
    PROVE  r \o Results(frame[k + 1]) \in Seq(Detection) /\ Detected(frame, k + 1, r \o Results(frame[k + 1]))
<1>0. Found(frame[k + 1]) \in Detection
  BY FramesTyped
<1>1. CASE ~IsMarker(frame[k + 1])
  <2>1. r \o Results(frame[k + 1]) = r
    BY <1>1, ResultsIs
  <2>2. \A j \in 1..(k + 1) : j \in 1..k \/ j = k + 1
    OBVIOUS
  <2>3. \A j \in 1..k : j \in 1..(k + 1)
    OBVIOUS
  <2> QED BY <1>1, <2>1, <2>2, <2>3 DEF Detected
<1>2. CASE IsMarker(frame[k + 1])
  <2>1. PICK d \in Detection : d = Found(frame[k + 1])
    BY <1>0
  <2>2. PICK q : q = r \o <<d>>
    BY Zenon
  <2>3. q \in Seq(Detection) /\ Len(q) = Len(r) + 1 /\ q[Len(r) + 1] = d /\ \A i \in 1..Len(r) : q[i] = r[i]
    BY <2>2
  <2>4. ASSUME NEW i \in 1..Len(q) PROVE \E j \in 1..(k + 1) : IsMarker(frame[j]) /\ q[i] = Found(frame[j])
    <3>1. CASE i = Len(r) + 1
      BY <1>2, <2>1, <2>3, <3>1
    <3>2. CASE i \in 1..Len(r)
      <4>1. PICK j \in 1..k : IsMarker(frame[j]) /\ r[i] = Found(frame[j])
        BY <3>2 DEF Detected
      <4>2. j \in 1..(k + 1)
        OBVIOUS
      <4> QED BY <2>3, <3>2, <4>1, <4>2
    <3> QED BY <2>3, <3>1, <3>2
  <2>5. ASSUME NEW j \in 1..(k + 1), IsMarker(frame[j]) PROVE \E i \in 1..Len(q) : q[i] = Found(frame[j])
    <3>1. CASE j = k + 1
      BY <2>1, <2>3, <3>1
    <3>2. CASE j \in 1..k
      <4>1. PICK i \in 1..Len(r) : r[i] = Found(frame[j])
        BY <2>5, <3>2, Zenon DEF Detected
      <4>2. i \in 1..Len(q)
        BY <2>3
      <4> QED BY <2>3, <4>1, <4>2, Zenon
    <3> QED BY <3>1, <3>2
  <2>6. r \o Results(frame[k + 1]) = q
    BY <1>2, <2>1, <2>2, ResultsIs, Zenon
  <2> QED BY <2>3, <2>4, <2>5, <2>6 DEF Detected
<1> QED BY <1>1, <1>2

LEMMA RecognizedIs ==
    ASSUME NEW frame \in Frames, NEW raw \in Recognized(frame)
    PROVE  raw \in Seq(Detection) /\ Detected(frame, Len(frame), raw)
<1> DEFINE n == Len(frame)
           G == Seq(Detection)
           a == <<>>
           Loop(f) == [i \in 0..n |-> IF i = 0 THEN a ELSE f[i - 1] \o Results(frame[i])]
           g == CHOOSE f : f = Loop(f)
<1>1. n \in Nat /\ a \in G
  BY FramesTyped
<1>2. \A i \in 1..n : \A r \in G : r \o Results(frame[i]) \in G
  <2> SUFFICES ASSUME NEW i \in 1..n, NEW r \in G PROVE r \o Results(frame[i]) \in G
    OBVIOUS
  <2>1. Found(frame[i]) \in Detection
    BY FramesTyped
  <2>2. <<Found(frame[i])>> \in G
    BY <2>1
  <2>3. Results(frame[i]) \in G
    BY <1>1, <2>2, ResultsIs, Zenon
  <2> QED BY <2>3
<1>3. raw \in Sorted(g[n])
  BY Zenon DEF Recognized
<1> HIDE DEF n, G, a, g
<1>5. \E f : f = Loop(f)
  <2>1. PICK step : step = [i \in 1..n |-> [x \in G |-> x \o Results(frame[i])]]
    BY Zenon
  <2>2. step \in Steps(n, G)
    BY <1>2, <2>1 DEF Steps
  <2>0. PICK f : Runs(f, n, G, a, step)
    BY <1>1, <2>2, Recursion
  <2>3. f \in [0..n -> G] /\ f[0] = a /\ \A i \in 1..n : f[i] = step[i][f[i - 1]]
    BY <2>0 DEF Runs
  <2>4. ASSUME NEW i \in 0..n PROVE f[i] = IF i = 0 THEN a ELSE f[i - 1] \o Results(frame[i])
    <3>1. CASE i = 0
      BY <2>3, <3>1, Zenon
    <3>2. CASE i \in 1..n
      <4>1. f[i - 1] \in G /\ step[i] = [x \in G |-> x \o Results(frame[i])]
        BY <1>1, <2>1, <2>3, <3>2
      <4> QED BY <1>1, <2>3, <3>2, <4>1, Zenon
    <3> QED BY <1>1, <3>1, <3>2
  <2>5. f = Loop(f)
    BY <2>3, <2>4, Zenon
  <2> QED BY <2>5, Zenon
<1>6. g = Loop(g)
  BY <1>5, ZenonT(40) DEF g
<1>7. g[0] = a /\ \A i \in 1..n : g[i] = g[i - 1] \o Results(frame[i])
  BY <1>1, <1>6, SMTT(30)
<1>8. g[n] \in Seq(Detection) /\ Detected(frame, n, g[n])
  <2> DEFINE T == {k \in Nat : k <= n => g[k] \in Seq(Detection) /\ Detected(frame, k, g[k])}
  <2>1. 0 \in T
    <3>1. a \in Seq(Detection) /\ Len(a) = 0
      BY <1>1 DEF a, G
    <3>2. Detected(frame, 0, a)
      BY <3>1 DEF Detected
    <3> QED BY <1>7, <3>1, <3>2, Zenon
  <2>2. ASSUME NEW k \in T PROVE k + 1 \in T
    <3>0. k \in Nat /\ k + 1 \in Nat
      OBVIOUS
    <3>1. ASSUME k + 1 <= n PROVE g[k + 1] \in Seq(Detection) /\ Detected(frame, k + 1, g[k + 1])
      <4>1. g[k] \in Seq(Detection) /\ Detected(frame, k, g[k])
        BY <1>1, <3>1
      <4>2. k + 1 \in 1..n /\ (k + 1) - 1 = k
        BY <1>1, <3>0, <3>1
      <4>3. g[k + 1] = g[k] \o Results(frame[k + 1])
        BY <1>7, <4>2, Zenon
      <4>4. k + 1 <= Len(frame)
        BY <3>1, Zenon DEF n
      <4> QED BY <3>0, <4>1, <4>3, <4>4, DetectedStep
    <3> QED BY <3>0, <3>1, Zenon
  <2> HIDE DEF T
  <2>3. T \in SUBSET Nat
    BY Zenon DEF T
  <2>4. T = Nat
    BY <2>1, <2>2, <2>3, Induction
  <2> QED BY <1>1, <2>4 DEF T
<1>9. PICK r \in Seq(Detection) : r = g[n]
  BY <1>8, SMTT(30)
<1>10. raw \in Seq(Detection) /\ SameElements(raw, r)
  BY <1>3, <1>9, SortedIs, Zenon
<1>11. Detected(frame, n, r)
  BY <1>8, <1>9, Zenon
<1>12. ASSUME NEW i \in 1..Len(raw) PROVE \E j \in 1..n : IsMarker(frame[j]) /\ raw[i] = Found(frame[j])
  BY <1>10, <1>11, SMTT(30) DEF SameElements, Detected
<1>13. ASSUME NEW j \in 1..n, IsMarker(frame[j]) PROVE \E i \in 1..Len(raw) : raw[i] = Found(frame[j])
  BY <1>10, <1>11, <1>13 DEF SameElements, Detected
<1> QED BY <1>10, <1>12, <1>13, Zenon DEF Detected, n

Distances == Nat \cup {Inf}

LEMMA LessFacts ==
    ASSUME NEW x \in Distances, NEW y \in Distances, NEW z \in Distances
    PROVE  ~Less(x, x) /\ (~Less(x, y) /\ Less(z, y) => ~Less(x, z))
BY FloatAssumption DEF Distances, Less

\* The map of Normalize after its first k turns.
Maps == UNION {[S -> Detection] : S \in SUBSET Int}

Keeps(raw, k, m) ==
    /\ \A id \in DOMAIN m : m[id].id = id /\ \E j \in 1..k : raw[j] = m[id]
    /\ \A j \in 1..k : raw[j].id \in DOMAIN m /\ ~Less(raw[j].distance, m[raw[j].id].distance)

LEMMA DetectionFields ==
    ASSUME NEW d \in Detection
    PROVE  d.id \in Int /\ d.distance \in Distances /\ d.angle \in Int \cup {NegZero}
BY Zenon DEF Detection, Distances

LEMMA NearerTyped ==
    ASSUME NEW m \in Maps, NEW d \in Detection
    PROVE  Nearer(m, d) \in Maps
<1>1. PICK S \in SUBSET Int : m \in [S -> Detection]
  BY DEF Maps
<1>2. S \cup {d.id} \in SUBSET Int
  BY DetectionFields, Zenon
<1>3. CASE d.id \in DOMAIN m /\ ~Less(d.distance, m[d.id].distance)
  BY <1>3 DEF Nearer
<1>4. CASE ~(d.id \in DOMAIN m /\ ~Less(d.distance, m[d.id].distance))
  <2>1. Nearer(m, d) = [id \in S \cup {d.id} |-> IF id = d.id THEN d ELSE m[id]]
    BY <1>1, <1>4 DEF Nearer
  <2>2. Nearer(m, d) \in [S \cup {d.id} -> Detection]
    BY <1>1, <2>1, Zenon
  <2> QED BY <1>2, <2>2, Zenon DEF Maps
<1> QED BY <1>3, <1>4, Zenon

LEMMA KeepsStep ==
    ASSUME NEW raw \in Seq(Detection), NEW k \in Nat, k + 1 <= Len(raw), NEW m \in Maps, Keeps(raw, k, m)
    PROVE  Keeps(raw, k + 1, Nearer(m, raw[k + 1]))
<1>0. \A j \in 1..(k + 1) : j \in 1..k \/ j = k + 1
  OBVIOUS
<1>1. \A j \in 1..(k + 1) : raw[j] \in Detection /\ raw[j].id \in Int /\ raw[j].distance \in Distances
  BY ElementOfSeq, DetectionFields
<1>2. PICK d \in Detection : d = raw[k + 1] /\ d.distance \in Distances
  BY <1>0, <1>1
<1>3. ASSUME NEW id \in DOMAIN m
      PROVE  m[id] \in Detection /\ m[id].distance \in Distances /\ m[id].id = id
             /\ \E j \in 1..(k + 1) : raw[j] = m[id]
  <2>1. m[id] \in Detection
    BY Zenon DEF Maps
  <2>2. PICK j \in 1..k : raw[j] = m[id]
    BY DEF Keeps
  <2>3. j \in 1..(k + 1)
    OBVIOUS
  <2> QED BY <2>1, <2>2, <2>3, DetectionFields, Zenon DEF Keeps
<1>4. \A j \in 1..k : raw[j].id \in DOMAIN m /\ ~Less(raw[j].distance, m[raw[j].id].distance)
  BY Zenon DEF Keeps
<1>5. CASE d.id \in DOMAIN m /\ ~Less(d.distance, m[d.id].distance)
  <2>1. Nearer(m, d) = m
    BY <1>5, Zenon DEF Nearer
  <2>2. \A j \in 1..(k + 1) : raw[j].id \in DOMAIN m /\ ~Less(raw[j].distance, m[raw[j].id].distance)
    BY <1>0, <1>2, <1>4, <1>5, Zenon
  <2>3. Keeps(raw, k + 1, m)
    BY <1>3, <2>2, Zenon DEF Keeps
  <2> QED BY <1>2, <2>1, <2>3
<1>6. CASE ~(d.id \in DOMAIN m /\ ~Less(d.distance, m[d.id].distance))
  <2>1. PICK q : q = [id \in DOMAIN m \cup {d.id} |-> IF id = d.id THEN d ELSE m[id]]
    BY Zenon
  <2>2. Nearer(m, d) = q
    BY <1>6, <2>1, Zenon DEF Nearer
  <2>3. /\ DOMAIN q = DOMAIN m \cup {d.id} /\ q[d.id] = d
        /\ \A id \in DOMAIN m : id # d.id => q[id] = m[id]
    BY <2>1, Zenon
  <2>4. ASSUME NEW id \in DOMAIN q PROVE q[id].id = id /\ \E j \in 1..(k + 1) : raw[j] = q[id]
    <3>1. CASE id = d.id
      <4>1. k + 1 \in 1..(k + 1)
        OBVIOUS
      <4> QED BY <1>2, <2>3, <3>1, <4>1, Zenon
    <3>2. CASE id # d.id
      <4>1. id \in DOMAIN m /\ q[id] = m[id]
        BY <2>3, <3>2, Zenon
      <4> QED BY <1>3, <4>1, Zenon
    <3> QED BY <3>1, <3>2, Zenon
  <2>5. ASSUME NEW j \in 1..(k + 1) PROVE raw[j].id \in DOMAIN q /\ ~Less(raw[j].distance, q[raw[j].id].distance)
    <3>1. CASE j = k + 1
      BY <1>2, <2>3, <3>1, LessFacts
    <3>2. CASE j \in 1..k /\ raw[j].id # d.id
      <4>1. raw[j].id \in DOMAIN m /\ q[raw[j].id] = m[raw[j].id]
        BY <1>4, <2>3, <3>2, Zenon
      <4> QED BY <1>4, <2>3, <3>2, <4>1, Zenon
    <3>3. CASE j \in 1..k /\ raw[j].id = d.id
      <4>1. d.id \in DOMAIN m /\ ~Less(raw[j].distance, m[d.id].distance) /\ Less(d.distance, m[d.id].distance)
        BY <1>4, <1>6, <3>3, Zenon
      <4>2. m[d.id].distance \in Distances /\ raw[j].distance \in Distances
        BY <1>1, <1>3, <4>1, Zenon
      <4>3. ~Less(raw[j].distance, d.distance)
        BY <1>2, <4>1, <4>2, LessFacts, Zenon
      <4> QED BY <2>3, <3>3, <4>3, Zenon
    <3> QED BY <1>0, <3>1, <3>2, <3>3, Zenon
  <2> QED BY <1>2, <2>2, <2>4, <2>5, Zenon DEF Keeps
<1> QED BY <1>5, <1>6, Zenon

\* Each marker once, in ascending order, at the nearest of its distances.
IsNearest(raw, found) ==
    /\ \A i, j \in 1..Len(found) : i < j => found[i].id < found[j].id
    /\ \A i \in 1..Len(found) : \E j \in 1..Len(raw) : raw[j] = found[i]
    /\ \A j \in 1..Len(raw) : \E i \in 1..Len(found) : found[i].id = raw[j].id
    /\ \A i \in 1..Len(found), j \in 1..Len(raw) :
          raw[j].id = found[i].id => ~Less(raw[j].distance, found[i].distance)

LEMMA ArrangedIs ==
    ASSUME NEW raw \in Seq(Detection), NEW m \in Maps, Keeps(raw, Len(raw), m),
           NEW n \in Nat, NEW order \in Bijection(1..n, DOMAIN m),
           NEW found \in Sorted([i \in DOMAIN order |-> m[order[i]]])
    PROVE  found \in Seq(Detection) /\ IsNearest(raw, found)
<1>1. /\ order \in [1..n -> DOMAIN m] /\ \A i, j \in 1..n : order[i] = order[j] => i = j
      /\ \A id \in DOMAIN m : \E i \in 1..n : order[i] = id
  BY Zenon DEF Bijection, Injection, Surjection, IsInjective
<1>2. PICK u : u = [i \in 1..n |-> m[order[i]]]
  BY Zenon
<1>3. \A id \in DOMAIN m : m[id] \in Detection /\ m[id].id = id
  BY Zenon DEF Maps, Keeps
<1>4. \A i \in 1..n : u[i] = m[order[i]] /\ order[i] \in DOMAIN m /\ u[i] \in Detection /\ u[i].id = order[i]
  BY <1>1, <1>2, <1>3, Zenon
<1>5. u \in Seq(Detection) /\ Len(u) = n
  <2>1. u \in [1..n -> Detection]
    BY <1>2, <1>4, Zenon
  <2> QED BY <2>1, SeqDef
<1>6. found \in Sorted(u)
  BY <1>1, <1>2, Zenon
<1>7. /\ found \in Seq(Detection) /\ Len(found) = n /\ SameElements(found, u)
      /\ \A i, j \in 1..n : i < j => found[i].id <= found[j].id
  BY <1>5, <1>6, SortedIs, Zenon
<1>8. \A i, j \in 1..n : u[i].id = u[j].id => i = j
  BY <1>1, <1>4
<1>9. \A i, j \in 1..n : found[i].id = found[j].id => i = j
  BY <1>5, <1>6, <1>7, <1>8, SortedIs, Zenon
<1>10. ASSUME NEW i \in 1..n PROVE found[i].id \in DOMAIN m /\ found[i] = m[found[i].id]
  <2>1. PICK j \in 1..n : found[i] = u[j]
    BY <1>5, <1>7, Zenon DEF SameElements
  <2> QED BY <1>4, <2>1, Zenon
<1>11. ASSUME NEW id \in DOMAIN m PROVE \E i \in 1..n : found[i].id = id
  <2>1. PICK j \in 1..n : order[j] = id
    BY <1>1, Zenon
  <2>2. PICK i \in 1..n : found[i] = u[j]
    BY <1>5, <1>7, Zenon DEF SameElements
  <2> QED BY <1>4, <2>1, <2>2, Zenon
<1>12. ASSUME NEW i \in 1..n, NEW j \in 1..n, i < j PROVE found[i].id < found[j].id
  <2>1. found[i].id \in Int /\ found[j].id \in Int
    BY <1>7, ElementOfSeq, DetectionFields, Zenon
  <2>2. found[i].id <= found[j].id /\ found[i].id # found[j].id
    BY <1>7, <1>9, <1>12, SMTT(30)
  <2> QED BY <2>1, <2>2
<1>13. ASSUME NEW i \in 1..n PROVE \E j \in 1..Len(raw) : raw[j] = found[i]
  <2>1. PICK id \in DOMAIN m : found[i] = m[id]
    BY <1>10, Zenon
  <2> QED BY <2>1, ZenonT(40) DEF Keeps
<1>14. ASSUME NEW j \in 1..Len(raw) PROVE \E i \in 1..n : found[i].id = raw[j].id
  BY <1>11, ZenonT(40) DEF Keeps
<1>15. ASSUME NEW i \in 1..n, NEW j \in 1..Len(raw), raw[j].id = found[i].id
       PROVE  ~Less(raw[j].distance, found[i].distance)
  <2>1. ~Less(raw[j].distance, m[raw[j].id].distance)
    BY Zenon DEF Keeps
  <2> QED BY <1>10, <1>15, <2>1, Zenon
<1> QED BY <1>7, <1>12, <1>13, <1>14, <1>15, Zenon DEF IsNearest

LEMMA NormalizeIs ==
    ASSUME NEW raw \in Seq(Detection), NEW found \in Normalize(raw)
    PROVE  found \in Seq(Detection) /\ IsNearest(raw, found)
<1> DEFINE n == Len(raw)
           a == <<>>
           Loop(f) == [i \in 0..n |-> IF i = 0 THEN a ELSE Nearer(f[i - 1], raw[i])]
           g == CHOOSE f : f = Loop(f)
<1>1. n \in Nat /\ \A i \in 1..n : raw[i] \in Detection
  BY LenProperties, ElementOfSeq, Zenon
<1>2. DOMAIN a = {} /\ a \in Maps
  <2>1. DOMAIN a = {} /\ a \in [{} -> Detection]
    OBVIOUS
  <2> QED BY <2>1, Zenon DEF Maps
<1>3. found \in Arranged(g[n], n)
  BY Zenon DEF Normalize
<1> HIDE DEF n, a, g
<1>4. \A i \in 1..n : \A x \in Maps : Nearer(x, raw[i]) \in Maps
  BY <1>1, NearerTyped, Zenon
<1>5. \E f : f = Loop(f)
  <2>1. PICK step : step = [i \in 1..n |-> [x \in Maps |-> Nearer(x, raw[i])]]
    BY Zenon
  <2>2. step \in Steps(n, Maps)
    BY <1>4, <2>1 DEF Steps
  <2>0. PICK f : Runs(f, n, Maps, a, step)
    BY <1>1, <1>2, <2>2, Recursion
  <2>3. f \in [0..n -> Maps] /\ f[0] = a /\ \A i \in 1..n : f[i] = step[i][f[i - 1]]
    BY <2>0, Zenon DEF Runs
  <2>4. ASSUME NEW i \in 0..n PROVE f[i] = IF i = 0 THEN a ELSE Nearer(f[i - 1], raw[i])
    <3>1. CASE i = 0
      BY <2>3, <3>1, Zenon
    <3>2. CASE i \in 1..n
      <4>1. f[i - 1] \in Maps /\ step[i] = [x \in Maps |-> Nearer(x, raw[i])]
        BY <1>1, <2>1, <2>3, <3>2, SMTT(30)
      <4> QED BY <1>1, <2>3, <3>2, <4>1, Zenon
    <3> QED BY <1>1, <3>1, <3>2
  <2>5. f = Loop(f)
    BY <2>3, <2>4, Zenon
  <2> QED BY <2>5, Zenon
<1>6. g = Loop(g)
  BY <1>5, Zenon DEF g
<1>7. g[0] = a /\ \A i \in 1..n : g[i] = Nearer(g[i - 1], raw[i])
  BY <1>1, <1>6
<1>8. g[n] \in Maps /\ Keeps(raw, n, g[n])
  <2> DEFINE T == {k \in Nat : k <= n => g[k] \in Maps /\ Keeps(raw, k, g[k])}
  <2>1. 0 \in T
    <3>1. Keeps(raw, 0, a)
      BY <1>2 DEF Keeps
    <3> QED BY <1>2, <1>7, <3>1, Zenon
  <2>2. ASSUME NEW k \in T PROVE k + 1 \in T
    <3>0. k \in Nat /\ k + 1 \in Nat
      OBVIOUS
    <3>1. ASSUME k + 1 <= n PROVE g[k + 1] \in Maps /\ Keeps(raw, k + 1, g[k + 1])
      <4>1. g[k] \in Maps /\ Keeps(raw, k, g[k])
        BY <1>1, <3>1
      <4>2. k + 1 \in 1..n /\ (k + 1) - 1 = k
        BY <1>1, <3>0, <3>1
      <4>3. g[k + 1] = Nearer(g[k], raw[k + 1])
        BY <1>7, <4>2, Zenon
      <4>4. k + 1 <= Len(raw)
        BY <3>1 DEF n
      <4> QED BY <1>4, <3>0, <4>1, <4>2, <4>3, <4>4, KeepsStep, Zenon
    <3> QED BY <3>0, <3>1
  <2> HIDE DEF T
  <2>3. T \in SUBSET Nat
    BY DEF T
  <2>4. T = Nat
    BY <2>1, <2>2, <2>3, Induction, Zenon
  <2> QED BY <1>1, <2>4 DEF T
<1>9. PICK m \in Maps : m = g[n] /\ Keeps(raw, Len(raw), m)
  BY <1>8, Zenon DEF n
<1>10. PICK k \in 0..n : \E order \in Bijection(1..k, DOMAIN m) :
          found \in Sorted([i \in DOMAIN order |-> m[order[i]]])
  BY <1>3, <1>9, ZenonT(40) DEF Arranged
<1>11. k \in Nat
  BY <1>1
<1> QED BY <1>9, <1>10, <1>11, ArrangedIs, Zenon

\* The detections that validate accepts.
LEMMA ValidateIs ==
    ASSUME NEW found \in Seq(Detection), \A i \in 1..Len(found) : IsValid(found[i].id),
           \A i, j \in 1..Len(found) : i < j => found[i].id < found[j].id
    PROVE  validate(found) <=> \A i \in 1..Len(found) : Finite(found[i].distance) /\ found[i].distance > 0
<1>0. Len(found) \in Nat /\ DOMAIN found = 1..Len(found)
  BY LenProperties, Zenon
<1>1. ASSUME NEW i \in 1..Len(found)
      PROVE  /\ Finite(found[i].angle) /\ (i > 1 => found[i - 1].id < found[i].id)
             /\ Finite(found[i].distance) =>
                  (Positive(found[i].distance) <=> found[i].distance > 0)
  <2>1. found[i].angle \in Int \cup {NegZero} /\ found[i].distance \in Distances
    BY ElementOfSeq, DetectionFields, Zenon
  <2>2. Finite(found[i].angle)
    BY <2>1, FloatAssumption, Zenon DEF Finite
  <2>3. i > 1 => i - 1 \in 1..Len(found) /\ i - 1 < i
    BY <1>0
  <2>4. Finite(found[i].distance) => (Positive(found[i].distance) <=> found[i].distance > 0)
    BY <2>1, FloatAssumption, SMTT(30) DEF Finite, Positive, Less, Distances
  <2> QED BY <2>2, <2>3, <2>4, Zenon
<1> QED BY <1>0, <1>1, Zenon DEF validate

LEMMA EncodedIs ==
    ASSUME NEW found \in Seq(Detection)
    PROVE  /\ encodeSuccess(found).ok = TRUE /\ Len(encodeSuccess(found).detections) = Len(found)
           /\ DOMAIN encodeSuccess(found).detections = 1..Len(found)
           /\ \A i \in 1..Len(found) : LET d == encodeSuccess(found).detections[i] IN
                /\ d.id = found[i].id /\ d.distance = found[i].distance
                /\ d.angle = IF found[i].angle = NegZero THEN 0 ELSE found[i].angle
<1>0. Len(found) \in Nat /\ DOMAIN found = 1..Len(found)
  BY LenProperties
<1>1. PICK ds : ds = [i \in 1..Len(found) |-> IF found[i].angle = NegZero THEN [found[i] EXCEPT !.angle = 0]
                                              ELSE found[i]]
  BY Zenon
<1>2. encodeSuccess(found) = [ok |-> TRUE, error |-> "", detections |-> ds]
  BY <1>0, <1>1 DEF encodeSuccess
<1>3. encodeSuccess(found).ok = TRUE /\ encodeSuccess(found).detections = ds
  <2>1. ASSUME NEW r, NEW d, r = [ok |-> TRUE, error |-> "", detections |-> d]
        PROVE  r.ok = TRUE /\ r.detections = d
    BY <2>1, Zenon
  <2> QED BY <1>2, <2>1, Zenon
<1>4. Len(ds) = Len(found) /\ DOMAIN ds = 1..Len(found)
  BY <1>0, <1>1
<1>5. ASSUME NEW i \in 1..Len(found)
      PROVE  /\ ds[i].id = found[i].id /\ ds[i].distance = found[i].distance
             /\ ds[i].angle = IF found[i].angle = NegZero THEN 0 ELSE found[i].angle
  <2>1. found[i] \in [id : Int, angle : Int \cup {NegZero}, distance : Nat \cup {Inf}]
    BY ElementOfSeq, Zenon DEF Detection
  <2>2. ds[i] = IF found[i].angle = NegZero THEN [found[i] EXCEPT !.angle = 0] ELSE found[i]
    BY <1>1
  <2> QED BY <2>1, <2>2
<1> QED BY <1>3, <1>4, <1>5, Zenon

LEMMA ResponsesChecked ==
    ASSUME NEW frame \in Frames, NEW response \in ResponsesTo[frame]
    PROVE  \E found \in Seq(Detection) : response = Checked(found)
<1>1. ResponsesTo[frame] = {Checked(found) : found \in UNION {Normalize(raw) : raw \in Recognized(frame)}}
  BY Zenon DEF ResponsesTo
<1>2. PICK raw \in Recognized(frame) : \E f \in Normalize(raw) : response = Checked(f)
  BY <1>1, Zenon
<1> QED BY <1>2, RecognizedIs, NormalizeIs, Zenon

\* The answer to a frame is the right one: the markers of the frame, each once,
\* by id, at their nearest distance.
LEMMA ResponsesRight ==
    ASSUME NEW frame \in Frames, NEW response \in ResponsesTo[frame]
    PROVE  Right(response, frame)
<1>0. ResponsesTo[frame] = {Checked(found) : found \in UNION {Normalize(raw) : raw \in Recognized(frame)}}
  BY DEF ResponsesTo
<1>1. PICK raw \in Recognized(frame) : \E f \in Normalize(raw) : response = Checked(f)
  BY <1>0
<1>f. PICK found \in Normalize(raw) : response = Checked(found)
  BY <1>1, Zenon
<1>2. raw \in Seq(Detection) /\ Detected(frame, Len(frame), raw)
  BY RecognizedIs, Zenon
<1>3. found \in Seq(Detection) /\ IsNearest(raw, found)
  BY <1>2, NormalizeIs, Zenon
<1>4. PICK n \in Nat, k \in Nat : n = Len(frame) /\ k = Len(found) /\ DOMAIN frame = 1..n
  BY <1>3, FramesTyped, LenProperties, Zenon
<1>d. Detected(frame, n, raw)
  BY <1>2, <1>4, Zenon
<1>e. \A j \in 1..n : IsMarker(frame[j]) => \E l \in 1..Len(raw) : raw[l] = Found(frame[j])
  BY <1>d, Zenon DEF Detected
<1>g. \A l \in 1..Len(raw) : \E j \in 1..n : IsMarker(frame[j]) /\ raw[l] = Found(frame[j])
  BY <1>d, Zenon DEF Detected
<1>5. \A i, j \in 1..k : i < j => found[i].id < found[j].id
  BY <1>3, <1>4, Zenon DEF IsNearest
\* Of which sighting a detection is.
<1>6. ASSUME NEW i \in 1..k
      PROVE  \E j \in 1..n : IsMarker(frame[j]) /\ found[i] = Found(frame[j])
  <2>1. PICK j \in 1..Len(raw) : raw[j] = found[i]
    BY <1>3, <1>4, Zenon DEF IsNearest
  <2> QED BY <1>g, <2>1, Zenon
<1>7. ASSUME NEW j \in 1..n, IsMarker(frame[j])
      PROVE  \E i \in 1..k : found[i].id = frame[j].id
  <2>1. PICK l \in 1..Len(raw) : raw[l] = Found(frame[j])
    BY <1>e, <1>7, Zenon
  <2>2. raw[l].id = frame[j].id
    BY <2>1 DEF Found
  <2> QED BY <1>3, <1>4, <2>2, Zenon DEF IsNearest
<1>8. ASSUME NEW i \in 1..k, NEW j \in 1..n, IsMarker(frame[j]), frame[j].id = found[i].id
      PROVE  ~Less(frame[j].distance, found[i].distance)
  <2>1. PICK l \in 1..Len(raw) : raw[l] = Found(frame[j])
    BY <1>e, <1>8, Zenon
  <2>2. raw[l].id = frame[j].id /\ raw[l].distance = frame[j].distance
    BY <2>1 DEF Found
  <2> QED BY <1>3, <1>4, <1>8, <2>2, Zenon DEF IsNearest
\* The nearest sightings are those the detections are of, or as near.
<1>9. \A s : s \in Seen(frame) <=> \E j \in 1..n : s = frame[j] /\ IsMarker(s)
  BY <1>4, Zenon DEF Seen, Range, IsMarker
<1>10. ASSUME NEW i \in 1..k
       PROVE  \E s \in Nearest(frame) : found[i] = Found(s)
  <2>1. PICK j \in 1..n : IsMarker(frame[j]) /\ found[i] = Found(frame[j])
    BY <1>6, Zenon
  <2>2. frame[j].id = found[i].id /\ frame[j].distance = found[i].distance
    BY <2>1, FoundFields, ZenonT(40)
  <2>3. ASSUME NEW t \in Seen(frame), t.id = frame[j].id PROVE ~Less(t.distance, frame[j].distance)
    <3>1. PICK l \in 1..n : t = frame[l] /\ IsMarker(frame[l])
      BY <1>9, <2>3, Zenon
    <3> QED BY <1>8, <2>2, <2>3, <3>1, Zenon
  <2>4. frame[j] \in Nearest(frame)
    BY <1>9, <2>1, <2>3, Zenon DEF Nearest
  <2> QED BY <2>1, <2>4, Zenon
<1>11. ASSUME NEW s \in Nearest(frame)
       PROVE  \E i \in 1..k : found[i].id = s.id /\ found[i].distance = s.distance
  <2>1. PICK j \in 1..n : s = frame[j] /\ IsMarker(s)
    BY <1>9, Zenon DEF Nearest
  <2>2. PICK i \in 1..k : found[i].id = s.id
    BY <1>7, <2>1, Zenon
  <2>3. PICK l \in 1..n : IsMarker(frame[l]) /\ found[i] = Found(frame[l])
    BY <1>6, Zenon
  <2>4. frame[l].id = s.id /\ frame[l].distance = found[i].distance
    BY <2>2, <2>3, FoundFields, Zenon
  <2>5. ~Less(s.distance, found[i].distance)
    BY <1>8, <2>1, <2>2, Zenon
  <2>6. ~Less(found[i].distance, s.distance)
    BY <1>9, <2>3, <2>4, Zenon DEF Nearest
  <2>7. s.distance \in Distances /\ found[i].distance \in Distances
    <3>1. Found(s) \in Detection /\ Found(frame[l]) \in Detection
      BY <1>4, <2>1, <2>3, FramesTyped, Zenon
    <3>2. Found(s).distance \in Distances /\ Found(frame[l]).distance \in Distances
      BY <3>1, DetectionFields, ZenonT(40)
    <3> QED BY <2>4, <3>2, Zenon DEF Found
  <2>8. found[i].distance = s.distance
    <3>1. ASSUME NEW x \in Distances, NEW y \in Distances, ~Less(x, y), ~Less(y, x) PROVE x = y
      BY <3>1, FloatAssumption DEF Less, Distances
    <3> QED BY <2>5, <2>6, <2>7, <3>1, Zenon
  <2> QED BY <2>2, <2>8, Zenon
<1>12. ASSUME NEW i \in 1..k PROVE IsValid(found[i].id)
  <2>1. PICK j \in 1..n : IsMarker(frame[j]) /\ found[i] = Found(frame[j])
    BY <1>6, Zenon
  <2>2. found[i].id = frame[j].id
    BY <2>1, FoundFields, Zenon
  <2> QED BY <2>1, <2>2, Zenon DEF IsMarker
<1>13. validate(found) <=> \A i \in 1..k : Finite(found[i].distance) /\ found[i].distance > 0
  BY <1>3, <1>4, <1>5, <1>12, ValidateIs, Zenon
<1>14. validate(found) <=> \A s \in Nearest(frame) : Finite(s.distance) /\ s.distance > 0
  <2>1. ASSUME NEW i \in 1..k PROVE \E s \in Nearest(frame) : found[i].distance = s.distance
    <3>1. PICK s \in Nearest(frame) : found[i] = Found(s)
      BY <1>10, Zenon
    <3>2. found[i].distance = s.distance
      BY <3>1, FoundFields, Zenon
    <3> QED BY <3>2, Zenon
  <2>2. validate(found) => \A s \in Nearest(frame) : Finite(s.distance) /\ s.distance > 0
    BY <1>11, <1>13, Zenon
  <2>3. (\A s \in Nearest(frame) : Finite(s.distance) /\ s.distance > 0) => validate(found)
    BY <1>13, <2>1, Zenon
  <2> QED BY <2>2, <2>3, Zenon
<1>15. CASE ~validate(found)
  <2>1. response.ok = FALSE
    BY <1>f, <1>15, Zenon DEF Checked, encodeFailure
  <2> QED BY <1>14, <1>15, <2>1, Zenon DEF Right
<1>16. CASE validate(found)
  <2>1. response = encodeSuccess(found)
    BY <1>f, <1>16, Zenon DEF Checked
  <2>2. PICK ds : ds = response.detections /\ DOMAIN ds = 1..k
    BY <1>3, <1>4, <2>1, EncodedIs, Zenon
  <2>3. /\ response.ok = TRUE
        /\ \A i \in 1..k : /\ ds[i].id = found[i].id /\ ds[i].distance = found[i].distance
                           /\ ds[i].angle = IF found[i].angle = NegZero THEN 0 ELSE found[i].angle
    BY <1>3, <1>4, <2>1, <2>2, EncodedIs, Zenon
  <2>4. {d.id : d \in Range(ds)} = {s.id : s \in Nearest(frame)}
    <3>1. ASSUME NEW i \in 1..k PROVE \E s \in Nearest(frame) : ds[i].id = s.id
      BY <1>10, <2>3, FoundFields
    <3>2. ASSUME NEW s \in Nearest(frame) PROVE \E i \in 1..k : ds[i].id = s.id
      BY <1>11, <2>3, ZenonT(40)
    <3>3. \A d : d \in Range(ds) <=> \E i \in 1..k : d = ds[i]
      BY <2>2, Zenon DEF Range
    <3>4. ASSUME NEW x PROVE (\E d \in Range(ds) : x = d.id) <=> (\E s \in Nearest(frame) : x = s.id)
      BY <3>1, <3>2, <3>3
    <3> QED BY <3>4, Zenon
  <2>5. \A i \in 1..k : \A j \in 1..(i - 1) : ds[j].id < ds[i].id
    <3>1. ASSUME NEW i \in 1..k, NEW j \in 1..(i - 1) PROVE ds[j].id < ds[i].id
      <4>1. j \in 1..k /\ j < i
        BY SMTT(30)
      <4> QED BY <1>5, <2>3, <4>1, Zenon
    <3> QED BY <3>1, Zenon
  <2>6. ASSUME NEW i \in 1..k
        PROVE  \E s \in Nearest(frame) : /\ s.id = ds[i].id /\ s.distance = ds[i].distance
                                         /\ ds[i].angle = IF s.angle = NegZero THEN 0 ELSE s.angle
    BY <1>10, <2>3, FoundFields
  <2>7. \A d \in Range(ds) : \E i \in 1..k : d = ds[i]
    BY <2>2, Zenon DEF Range
  <2>8. \A d \in Range(ds) : \E s \in Nearest(frame) :
           s.id = d.id /\ s.distance = d.distance /\ d.angle = IF s.angle = NegZero THEN 0 ELSE s.angle
    BY <2>6, <2>7, ZenonT(40)
  <2>9. response.ok <=> \A s \in Nearest(frame) : Finite(s.distance) /\ s.distance > 0
    BY <1>14, <1>16, <2>3, Zenon
  <2> QED BY <2>2, <2>4, <2>5, <2>8, <2>9, Zenon DEF Right
<1> QED BY <1>15, <1>16, Zenon

-----------------------------------------------------------------------------
(* What the detector does with a connection.                               *)

\* validate of the detector accepts only what decode_response of the Runtime
\* accepts, the angle without its sign included.
LEMMA CheckedDecodes ==
    ASSUME NEW found \in Seq(Detection)
    PROVE  Decodes(Checked(found)) /\ Checked(found).error # "BAD_REQUEST"
<1>1. CASE ~validate(found)
  <2>1. Checked(found) = encodeFailure("DETECTION_FAILED")
    BY <1>1, ZenonT(40) DEF Checked
  <2> QED BY <2>1 DEF encodeFailure, Decodes
<1>2. CASE validate(found)
  <2> DEFINE ds == [i \in DOMAIN found |-> IF found[i].angle = NegZero THEN [found[i] EXCEPT !.angle = 0]
                                            ELSE found[i]]
  <2>1. Checked(found) = [ok |-> TRUE, error |-> "", detections |-> ds]
    BY <1>2 DEF Checked, encodeSuccess
  <2>2. ASSUME NEW i \in DOMAIN found
        PROVE  /\ ds[i].id = found[i].id /\ ds[i].distance = found[i].distance
               /\ ds[i].angle \in {0, found[i].angle}
    <3>1. found[i] \in [id : Int, angle : Int \cup {NegZero}, distance : Nat \cup {Inf}]
      BY LenProperties, ElementOfSeq, Zenon DEF Detection
    <3> QED BY <3>1, Zenon
  <2>3. DOMAIN ds = DOMAIN found
    OBVIOUS
  <2> HIDE DEF ds
  <2>4. ASSUME NEW i \in DOMAIN ds
        PROVE  /\ ds[i].id \in 0..71
               /\ Finite(ds[i].angle) /\ Finite(ds[i].distance) /\ Positive(ds[i].distance)
               /\ i > 1 => ds[i - 1].id < ds[i].id
    <3>1. /\ IsValid(found[i].id) /\ Finite(found[i].angle) /\ Finite(found[i].distance)
          /\ Positive(found[i].distance) /\ (i > 1 => found[i - 1].id < found[i].id)
      BY <1>2, <2>3, Zenon DEF validate
    <3>2. found[i].id \in Int /\ DOMAIN found = 1..Len(found) /\ Len(found) \in Nat
      BY <2>3, LenProperties, ElementOfSeq, DetectionFields, Zenon
    <3>3. ds[i].id \in 0..71
      <4>1. \A id \in Int : IsValid(id) => id \in 0..71
        BY DEF IsValid, Count
      <4>2. ds[i].id = found[i].id
        BY <2>2, <2>3, ZenonT(40)
      <4> QED BY <3>1, <3>2, <4>1, <4>2, Zenon
    <3>4. Finite(ds[i].angle)
      BY <2>2, <2>3, <3>1, FloatAssumption, SMTT(30) DEF Finite
    <3>5. i > 1 => i - 1 \in DOMAIN found
      BY <2>3, <3>2
    <3>6. i > 1 => ds[i - 1].id < ds[i].id
      BY <2>2, <2>3, <3>1, <3>5, Zenon
    <3>7. Finite(ds[i].distance) /\ Positive(ds[i].distance)
      BY <2>2, <2>3, <3>1, Zenon
    <3> QED BY <3>3, <3>4, <3>6, <3>7, Zenon
  <2>5. /\ Checked(found).ok = TRUE
        /\ Checked(found).detections = ds
        /\ Checked(found).error # "BAD_REQUEST"
    <3>1. ASSUME NEW r, NEW d, r = [ok |-> TRUE, error |-> "", detections |-> d]
          PROVE  r.ok = TRUE /\ r.detections = d /\ r.error # "BAD_REQUEST"
      BY <3>1, Zenon
    <3> QED BY <2>1, <3>1, Zenon
  <2> QED BY <2>4, <2>5, Zenon DEF Decodes
<1> QED BY <1>1, <1>2, Zenon

LEMMA FailureHonest ==
    ASSUME NEW code \in {"CAMERA_UNAVAILABLE", "DETECTION_FAILED"}
    PROVE  Failure(code).taken = now /\ Honest(Failure(code))
BY DEF Failure, NoAnswer, Honest, encodeFailure, Decodes

LEMMA FakesDecode ==
    ASSUME NEW found \in {FakeTwo, <<>>}
    PROVE  Decodes(Checked(found)) /\ Checked(found).error # "BAD_REQUEST"
<1>1. FakeTwo \in Seq(Detection)
  BY DEF FakeTwo, Detection
<1>2. <<>> \in Seq(Detection)
  OBVIOUS
<1> QED BY <1>1, <1>2, CheckedDecodes, Zenon

\* A response is of the call during which it is made, and of an old frame only
\* when the driver had kept more than cameraSource.Detect throws away.
LEMMA DetectAnswers ==
    ASSUME mode \in Modes, NEW c \in Conns, DOMAIN answer = Conns, Detect(c) \/ FakeDetect(c)
    PROVE  answer'[c].taken = now /\ Honest(answer'[c])
<1>1. ASSUME NEW a, Answers(c, a, "write") PROVE answer'[c] = a
  BY <1>1 DEF Answers
<1>2. CASE Detect(c)
  <2>1. \/ \E code \in {"CAMERA_UNAVAILABLE", "DETECTION_FAILED"} : Answers(c, Failure(code), "write")
        \/ \E frame \in Frames, kept \in 0..DriverFrames : \E response \in ResponsesTo[frame] :
              Answers(c, [response |-> response, taken |-> now, frame |-> frame,
                          old |-> Grab(kept) > 0, many |-> kept > StaleFrames], "write")
    <3>1. {0} \subseteq 0..DriverFrames
      BY DetectorAssumption
    <3> QED BY <1>2, <3>1, Zenon DEF Detect
  <2>2. ASSUME NEW code \in {"CAMERA_UNAVAILABLE", "DETECTION_FAILED"}, Answers(c, Failure(code), "write")
        PROVE  answer'[c].taken = now /\ Honest(answer'[c])
    BY <1>1, <2>2, FailureHonest, ZenonT(40)
  <2>3. ASSUME NEW frame \in Frames, NEW kept \in 0..DriverFrames, NEW response \in ResponsesTo[frame],
               Answers(c, [response |-> response, taken |-> now, frame |-> frame,
                           old |-> Grab(kept) > 0, many |-> kept > StaleFrames], "write")
        PROVE  answer'[c].taken = now /\ Honest(answer'[c])
    <3>0. PICK o, m : o = (Grab(kept) > 0) /\ m = (kept > StaleFrames)
      BY Zenon
    <3>1. o => m
      <4>1. Grab(kept) > 0 => kept > StaleFrames
        BY DetectorAssumption DEF Grab
      <4> QED BY <3>0, <4>1, Zenon
    <3>2. answer'[c] = [response |-> response, taken |-> now, frame |-> frame, old |-> o, many |-> m]
      BY <1>1, <2>3, <3>0, Zenon
    <3>3. PICK found \in Seq(Detection) : response = Checked(found)
      BY ResponsesChecked, Zenon
    <3>4. Decodes(response) /\ response.error # "BAD_REQUEST"
      BY <3>3, CheckedDecodes
    <3>5. answer'[c].response = response /\ answer'[c].taken = now /\ answer'[c].frame = frame
      BY <3>2
    <3>6. answer'[c].old = o
      BY <3>2
    <3>7. answer'[c].many = m
      BY <3>2
    <3> QED BY <3>1, <3>4, <3>5, <3>6, <3>7, Zenon DEF Honest
  <2> QED BY <2>1, <2>2, <2>3, Zenon
<1>3. CASE FakeDetect(c)
  <2>1. PICK response : /\ response \in {Checked(FakeTwo), Checked(<<>>), encodeFailure("CAMERA_UNAVAILABLE"),
                                         encodeFailure("DETECTION_FAILED")}
                        /\ Answers(c, [NoAnswer EXCEPT !.response = response, !.taken = now], "write")
    BY <1>3, DetectorAssumption, Zenon DEF FakeDetect
  <2>2. Decodes(response) /\ response.error # "BAD_REQUEST"
    <3>1. \A code \in {"CAMERA_UNAVAILABLE", "DETECTION_FAILED"} :
             Decodes(encodeFailure(code)) /\ encodeFailure(code).error # "BAD_REQUEST"
      BY Zenon DEF encodeFailure, Decodes
    <3> QED BY <2>1, <3>1, FakesDecode, Zenon
  <2>3. answer'[c] = [NoAnswer EXCEPT !.response = response, !.taken = now]
    BY <1>1, <2>1
  <2> QED BY <2>2, <2>3 DEF NoAnswer, Honest
<1> QED BY <1>2, <1>3

Moves(c) ==
    ServerMoves(c \in clientOpen, now, handler[c], toServer[c], toClient[c], answer[c],
                handler'[c], toServer'[c], toClient'[c], answer'[c])

LEMMA EndsMoves ==
    ASSUME NEW how, Ends(how), NEW c \in Conns
    PROVE  Moves(c)
<1>1. /\ handler'[c] = IF handler[c] = "none" THEN "none" ELSE "gone"
      /\ toServer'[c] = <<>> /\ toClient'[c] = toClient[c]
  BY Zenon DEF Ends
<1> QED BY <1>1, Zenon DEF Moves, ServerMoves

LEMMA UnchangedMoves ==
    ASSUME NEW c \in Conns, UNCHANGED <<handler, toServer, toClient, answer>>
    PROVE  Moves(c)
BY Zenon DEF Moves, ServerMoves

LEMMA UnlistenedMoves ==
    ASSUME NEW c \in Conns, Unlistened, UNCHANGED <<toServer, toClient, answer>>
    PROVE  Moves(c)
<1>1. handler'[c] = IF handler[c] = "backlog" THEN "gone" ELSE handler[c]
  BY DEF Unlistened
<1> QED BY <1>1, Zenon DEF Moves, ServerMoves

LEMMA MainMoves ==
    ASSUME Main \/ Dies \/ Signal, NEW c \in Conns
    PROVE  Moves(c)
<1>1. CASE Exit \/ Dies
  BY <1>1, EndsMoves DEF Exit, Dies
<1>2. CASE Setup \/ ListenSocket \/ Notify \/ Select
  <2>1. UNCHANGED <<handler, toServer, toClient, answer>>
    BY <1>2, Zenon DEF Setup, ListenSocket, Notify, Select, connVars
  <2> QED BY <2>1, UnchangedMoves, Zenon
<1>3. CASE Signal
  <2>1. CASE main \in {"setup", "listen", "notify"}
    BY <1>3, <2>1, EndsMoves, Zenon DEF Signal
  <2>2. CASE main \notin {"setup", "listen", "notify"}
    <3>1. UNCHANGED <<handler, toServer, toClient, answer>>
      BY <1>3, <2>2 DEF Signal, connVars
    <3> QED BY <3>1, UnchangedMoves
  <2> QED BY <2>1, <2>2, Zenon
<1> QED BY <1>1, <1>2, <1>3 DEF Main

LEMMA ServeMoves ==
    ASSUME Server, Serve \/ Shutdown, NEW c \in Conns
    PROVE  Moves(c)
<1>0. handler \in [Conns -> HandlerStates]
  BY Zenon DEF Server, Registered
<1>1. CASE ServeStart \/ AcceptFails \/ CloseServer
  <2>1. UNCHANGED <<toServer, toClient, answer>> /\ (Unlistened \/ handler' = handler)
    BY <1>1, Zenon DEF ServeStart, AcceptFails, CloseServer
  <2> QED BY <2>1, UnchangedMoves, UnlistenedMoves, Zenon
<1>2. CASE Register
  <2>1. accepted \in Conns /\ handler[accepted] = "new"
    BY <1>2, Zenon DEF Server, Registered, Register
  <2>2. UNCHANGED <<toServer, toClient, answer>>
    BY <1>2, Zenon DEF Register
  <2>3. handler'[c] = handler[c] \/ (handler[c] = "new" /\ handler'[c] \in {"read", "gone"})
    BY <1>0, <1>2, <2>1, Zenon DEF Register
  <2> QED BY <2>2, <2>3, Zenon DEF Moves, ServerMoves
<1>3. ASSUME NEW d \in Conns, Accept(d) PROVE Moves(c)
  <2>1. UNCHANGED <<toServer, toClient, answer>>
    BY <1>3, Zenon DEF Accept
  <2>2. handler'[c] = handler[c] \/ (handler[c] = "backlog" /\ handler'[c] = "new")
    BY <1>0, <1>3, Zenon DEF Accept
  <2> QED BY <2>1, <2>2, Zenon DEF Moves, ServerMoves
<1>4. CASE WaitHandlers \/ CloseSource
  <2>1. UNCHANGED <<handler, toServer, toClient, answer>>
    BY <1>4, Zenon DEF WaitHandlers, CloseSource, connVars
  <2> QED BY <2>1, UnchangedMoves, Zenon
<1> QED BY <1>1, <1>2, <1>3, <1>4, Zenon DEF Serve, Shutdown

LEMMA OneMoves ==
    ASSUME Server, Domains, NEW d \in Conns, Handle(d) \/ CameraHangs(d), NEW c \in Conns
    PROVE  Moves(c)
<1>0. handler \in [Conns -> HandlerStates]
  BY DEF Server, Registered
<1> USE DEF Domains
<1>1. CASE c # d
  <2>1. handler'[c] = handler[c]
    BY <1>1, HandleMoves, ZenonT(40)
  <2>2. CASE ReadRequest(d)
    <3>1. toClient' = toClient
      BY <2>2, Zenon DEF ReadRequest
    <3>2. toServer'[c] = toServer[c] /\ answer'[c] = answer[c]
      BY <1>1, <2>2, Zenon DEF ReadRequest, Answers
    <3> QED BY <2>1, <3>1, <3>2, Zenon DEF Moves, ServerMoves
  <2>3. CASE WriteResponse(d)
    <3>1. toServer' = toServer /\ toClient'[c] = toClient[c] /\ answer'[c] = answer[c]
      BY <1>1, <2>3, ZenonT(40) DEF WriteResponse
    <3> QED BY <2>1, <3>1, Zenon DEF Moves, ServerMoves
  <2>4. CASE Lock(d) \/ CameraHangs(d)
    <3>1. UNCHANGED <<toServer, toClient, answer>>
      BY <2>4, Zenon DEF Lock, CameraHangs
    <3> QED BY <2>1, <3>1, Zenon DEF Moves, ServerMoves
  <2>5. CASE Detect(d) \/ FakeDetect(d)
    <3>1. UNCHANGED <<toServer, toClient>>
      BY <2>5 DEF Detect, FakeDetect
    <3>2. answer'[c] = answer[c]
      BY <1>1, <2>5 DEF Detect, FakeDetect, Answers
    <3> QED BY <2>1, <3>1, <3>2, Zenon DEF Moves, ServerMoves
  <2> QED BY <2>2, <2>3, <2>4, <2>5, Zenon DEF Handle
<1>2. CASE c = d
  <2>0. c \in Conns /\ (Handle(c) \/ CameraHangs(c))
    BY <1>2, Zenon
  <2>1. ASSUME NEW code, NEW next, Answers(c, Failure(code), next)
        PROVE  handler'[c] = next /\ answer'[c].response.error = code
    BY <1>0, <2>1 DEF Answers, Failure, NoAnswer, encodeFailure
  <2>2. CASE ReadRequest(c)
    <3> DEFINE request == Head(toServer[c])
    <3>1. /\ handler[c] = "read" /\ toClient' = toClient
          /\ \/ /\ toServer[c] # <<>> /\ toServer' = [toServer EXCEPT ![c] = Tail(@)]
                /\ \/ /\ request.kind = "line" /\ parseRequest(request.tokens)
                      /\ handler' = [handler EXCEPT ![c] = "lock"]
                   \/ /\ request.kind = "line" /\ ~parseRequest(request.tokens)
                      /\ Answers(c, Failure("BAD_REQUEST"), "write")
                   \/ /\ request.kind \in {"long", "part"}
                      /\ Answers(c, Failure("BAD_REQUEST"), "last")
             \/ toServer' = toServer /\ handler' = [handler EXCEPT ![c] = "gone"]
      BY <2>2, Zenon DEF ReadRequest
    <3> HIDE DEF request
    <3>2. CASE toServer' = toServer /\ handler' = [handler EXCEPT ![c] = "gone"]
      <4>1. handler'[c] = "gone"
        BY <1>0, <3>2
      <4> QED BY <3>1, <3>2, <4>1, Zenon DEF Moves, ServerMoves
    <3>3. CASE /\ toServer[c] # <<>> /\ toServer' = [toServer EXCEPT ![c] = Tail(@)]
               /\ \/ /\ request.kind = "line" /\ parseRequest(request.tokens)
                     /\ handler' = [handler EXCEPT ![c] = "lock"]
                  \/ /\ request.kind = "line" /\ ~parseRequest(request.tokens)
                     /\ Answers(c, Failure("BAD_REQUEST"), "write")
                  \/ /\ request.kind \in {"long", "part"}
                     /\ Answers(c, Failure("BAD_REQUEST"), "last")
      <4>1. toServer'[c] = Tail(toServer[c])
        BY <3>3, Zenon
      <4>2. IF request.kind = "line" /\ parseRequest(request.tokens) THEN handler'[c] = "lock"
            ELSE handler'[c] \in {"write", "last"} /\ answer'[c].response.error = "BAD_REQUEST"
        <5>1. CASE request.kind = "line" /\ parseRequest(request.tokens)
                   /\ handler' = [handler EXCEPT ![c] = "lock"]
          BY <1>0, <5>1, Zenon
        <5>2. CASE request.kind = "line" /\ ~parseRequest(request.tokens)
                   /\ Answers(c, Failure("BAD_REQUEST"), "write")
          BY <2>1, <5>2, Zenon
        <5>3. CASE request.kind \in {"long", "part"} /\ Answers(c, Failure("BAD_REQUEST"), "last")
          BY <2>1, <5>3, Zenon
        <5> QED BY <3>3, <5>1, <5>2, <5>3, ZenonT(40)
      <4> QED BY <3>1, <3>3, <4>1, <4>2, Zenon DEF Moves, ServerMoves, request
    <3> QED BY <3>1, <3>2, <3>3, Zenon
  <2>3. CASE WriteResponse(c)
    <3>1. /\ handler[c] \in {"write", "last"} /\ toServer' = toServer
          /\ \/ /\ c \in clientOpen
                /\ toClient'[c] = Append(toClient[c], answer[c]) /\ handler'[c] \in {"read", "gone"}
             \/ handler'[c] = "gone" /\ toClient' = toClient
      BY <1>0, <2>3, Zenon DEF WriteResponse
    <3> QED BY <3>1, Zenon DEF Moves, ServerMoves
  <2>4. CASE Lock(c) \/ CameraHangs(c)
    <3>1. /\ UNCHANGED <<toServer, toClient, answer>>
          /\ <<handler[c], handler'[c]>> \in {<<"lock", "detect">>, <<"detect", "stuck">>}
      BY <1>0, <2>4, Zenon DEF Lock, CameraHangs
    <3> QED BY <3>1, Zenon DEF Moves, ServerMoves
  <2>5. CASE Detect(c) \/ FakeDetect(c)
    <3>1. UNCHANGED <<toServer, toClient>> /\ handler[c] = "detect"
      BY <2>5 DEF Detect, FakeDetect
    <3>2. handler'[c] = "write"
      BY <1>0, <2>5 DEF Detect, FakeDetect, Answers
    <3>3. answer'[c].taken = now /\ Honest(answer'[c])
      BY <2>5, DetectAnswers, Zenon DEF Server
    <3> QED BY <3>1, <3>2, <3>3, Zenon DEF Moves, ServerMoves
  <2> QED BY <2>0, <2>2, <2>3, <2>4, <2>5, Zenon DEF Handle
<1> QED BY <1>1, <1>2, Zenon

\* Whatever the detector does, each connection moves as ServerMoves says.
LEMMA DetectorMoves ==
    ASSUME Server, Domains, DetectorStep, NEW c \in Conns
    PROVE  Moves(c) /\ UNCHANGED <<clientOpen, now>>
<1>1. Moves(c)
  BY MainMoves, ServeMoves, OneMoves, Zenon DEF DetectorStep
<1>2. UNCHANGED <<clientOpen, now>>
  <2>1. CASE Main \/ Dies \/ Signal
    BY <2>1, Zenon DEF Main, Setup, ListenSocket, Notify, Select, Exit, Dies, Signal, Ends, connVars
  <2>2. CASE Serve \/ Shutdown
    BY <2>2, Zenon DEF Serve, ServeStart, AcceptFails, Register, Accept, Shutdown, CloseServer, WaitHandlers,
                CloseSource, connVars
  <2>3. CASE \E d \in Conns : Handle(d) \/ CameraHangs(d)
    BY <2>3, HandleMoves
  <2> QED BY <2>1, <2>2, <2>3 DEF DetectorStep
<1> QED BY <1>1, <1>2, Zenon

LEMMA RequestParses == parseRequest(DetectLine)
<1>1. DetectLine \in Seq({"lbrace", "command", "colon", "DETECT", "rbrace"})
  BY DEF DetectLine
<1>2. "eof" \notin {"lbrace", "command", "colon", "DETECT", "rbrace"}
  OBVIOUS
<1> QED BY <1>1, <1>2, ParsesDetectOnly

LEMMA OneElement ==
    ASSUME NEW x
    PROVE  <<x>> # <<>> /\ Head(<<x>>) = x /\ Tail(<<x>>) = <<>> /\ Append(<<>>, x) = <<x>> /\ <<x>>[1] = x
OBVIOUS

LEMMA FlightMoves ==
    ASSUME NEW open, NEW n, NEW h, NEW s, NEW t, NEW a, NEW h2, NEW s2, NEW t2, NEW a2,
           Flight(h, s, t, a), ServerMoves(open, n, h, s, t, a, h2, s2, t2, a2)
    PROVE  Flight(h2, s2, t2, a2)
<1>1. CASE h2 = h /\ s2 = s /\ t2 = t /\ a2 = a
  BY <1>1, Zenon
<1>2. CASE h2 = (IF h = "none" THEN "none" ELSE "gone") /\ s2 \in {s, <<>>} /\ t2 = t
  BY <1>2, Zenon DEF Flight
<1>3. CASE /\ <<h, h2>> \in {<<"backlog", "new">>, <<"new", "read">>, <<"lock", "detect">>, <<"detect", "stuck">>}
           /\ s2 = s /\ t2 = t /\ a2 = a
  BY <1>3 DEF Flight
<1>4. CASE /\ h = "read" /\ s # <<>> /\ s2 = Tail(s) /\ t2 = t
           /\ IF Head(s).kind = "line" /\ parseRequest(Head(s).tokens) THEN h2 = "lock"
              ELSE h2 \in {"write", "last"} /\ a2.response.error = "BAD_REQUEST"
  <2>1. s = <<Request>> /\ t = <<>>
    BY <1>4, Zenon DEF Flight
  <2>2. Head(s) = Request /\ s2 = <<>>
    BY <1>4, <2>1, OneElement, Zenon
  <2>3. Request.kind = "line" /\ Request.tokens = DetectLine
    BY DEF Request
  <2>4. h2 = "lock"
    BY <1>4, <2>2, <2>3, RequestParses, Zenon
  <2> QED BY <1>4, <2>1, <2>2, <2>4, Zenon DEF Flight
<1>5. CASE h = "detect" /\ h2 = "write" /\ s2 = s /\ t2 = t /\ Honest(a2) /\ a2.taken = n
  BY <1>5, Zenon DEF Flight
<1>6. CASE h \in {"write", "last"} /\ h2 \in {"read", "gone"} /\ open /\ s2 = s /\ t2 = Append(t, a)
  <2>1. s = <<>> /\ t = <<>> /\ Honest(a)
    BY <1>6, Zenon DEF Flight
  <2>2. t2 = <<a>>
    BY <1>6, <2>1, OneElement, Zenon
  <2> QED BY <1>6, <2>1, <2>2, Zenon DEF Flight
<1> QED BY <1>1, <1>2, <1>3, <1>4, <1>5, <1>6, Zenon DEF ServerMoves

\* A connection on which nothing is on its way stays so, and a response that
\* arrives was made during the call.
LEMMA StillMoves ==
    ASSUME NEW open, NEW n, NEW h, NEW s, NEW t, NEW a, NEW h2, NEW s2, NEW t2, NEW a2,
           Still(h, s, t), ServerMoves(open, n, h, s, t, a, h2, s2, t2, a2)
    PROVE  Still(h2, s2, t2)
BY DEF Still, ServerMoves

LEMMA CurrentMoves ==
    ASSUME NEW open, NEW n, NEW h, NEW s, NEW t, NEW a, NEW h2, NEW s2, NEW t2, NEW a2,
           Flight(h, s, t, a), Current(h, t, a, n), ServerMoves(open, n, h, s, t, a, h2, s2, t2, a2)
    PROVE  Current(h2, t2, a2, n)
<1>1. CASE h2 = h /\ s2 = s /\ t2 = t /\ a2 = a
  BY <1>1, Zenon
<1>2. CASE h2 = (IF h = "none" THEN "none" ELSE "gone") /\ s2 \in {s, <<>>} /\ t2 = t
  BY <1>2, Zenon DEF Current
<1>3. CASE /\ <<h, h2>> \in {<<"backlog", "new">>, <<"new", "read">>, <<"lock", "detect">>, <<"detect", "stuck">>}
           /\ s2 = s /\ t2 = t /\ a2 = a
  BY <1>3, ZenonT(40) DEF Current
<1>4. CASE /\ h = "read" /\ s # <<>> /\ s2 = Tail(s) /\ t2 = t
           /\ IF Head(s).kind = "line" /\ parseRequest(Head(s).tokens) THEN h2 = "lock"
              ELSE h2 \in {"write", "last"} /\ a2.response.error = "BAD_REQUEST"
  <2>1. s = <<Request>>
    BY <1>4, Zenon DEF Flight
  <2>2. Head(s) = Request
    BY <2>1, OneElement, Zenon
  <2>3. Request.kind = "line" /\ Request.tokens = DetectLine
    BY DEF Request
  <2>4. h2 = "lock"
    BY <1>4, <2>2, <2>3, RequestParses, Zenon
  <2> QED BY <1>4, <2>4, Zenon DEF Current
<1>5. CASE h = "detect" /\ h2 = "write" /\ s2 = s /\ t2 = t /\ Honest(a2) /\ a2.taken = n
  BY <1>5, Zenon DEF Current
<1>6. CASE h \in {"write", "last"} /\ h2 \in {"read", "gone"} /\ open /\ s2 = s /\ t2 = Append(t, a)
  <2>1. t = <<>> /\ h = "write"
    BY <1>6, Zenon DEF Flight
  <2>2. t2 = <<a>> /\ t2[1] = a
    BY <1>6, <2>1, OneElement
  <2> QED BY <1>6, <2>1, <2>2, Zenon DEF Current
<1> QED BY <1>1, <1>2, <1>3, <1>4, <1>5, <1>6, Zenon DEF ServerMoves

LEMMA OneRequestMoves ==
    ASSUME NEW ask, NEW open, NEW n, NEW h, NEW s, NEW t, NEW a, NEW h2, NEW s2, NEW t2, NEW a2,
           OneRequest(ask, open, h, s, t, a), ServerMoves(open, n, h, s, t, a, h2, s2, t2, a2)
    PROVE  OneRequest(ask, open, h2, s2, t2, a2)
<1>1. CASE h2 = h /\ s2 = s /\ t2 = t /\ a2 = a
  BY <1>1, Zenon
<1>2. CASE h2 = (IF h = "none" THEN "none" ELSE "gone") /\ s2 \in {s, <<>>} /\ t2 = t
  BY <1>2, Zenon DEF OneRequest
<1>3. CASE /\ <<h, h2>> \in {<<"backlog", "new">>, <<"new", "read">>, <<"lock", "detect">>, <<"detect", "stuck">>}
           /\ s2 = s /\ t2 = t /\ a2 = a
  BY <1>3, Zenon DEF OneRequest
<1>4. CASE /\ h = "read" /\ s # <<>> /\ s2 = Tail(s) /\ t2 = t
           /\ IF Head(s).kind = "line" /\ parseRequest(Head(s).tokens) THEN h2 = "lock"
              ELSE h2 \in {"write", "last"} /\ a2.response.error = "BAD_REQUEST"
  <2>1. PICK q : s = <<q>> /\ q.tokens \in Seq(STRING \ {"eof"}) /\ Deserves(ask, q) /\ t = <<>>
    BY <1>4, Zenon DEF OneRequest
  <2>2. Head(s) = q /\ s2 = <<>>
    BY <1>4, <2>1, OneElement, Zenon
  <2>3. parseRequest(q.tokens) <=> q.tokens = DetectLine
    BY <2>1, ParsesDetectOnly
  <2>4. CASE q.kind = "line" /\ q.tokens = DetectLine
    BY <1>4, <2>1, <2>2, <2>3, <2>4, Zenon DEF OneRequest, Deserves
  <2>5. CASE ~(q.kind = "line" /\ q.tokens = DetectLine)
    <3>1. h2 \in {"write", "last"} /\ a2.response.error = "BAD_REQUEST"
      BY <1>4, <2>2, <2>3, <2>5, Zenon
    <3>2. Verdict(ask, a2)
      BY <2>1, <2>5, <3>1, Zenon DEF OneRequest, Deserves, Verdict
    <3> QED BY <1>4, <2>1, <2>2, <3>1, <3>2, Zenon DEF OneRequest
  <2> QED BY <2>4, <2>5, Zenon
<1>5. CASE h = "detect" /\ h2 = "write" /\ s2 = s /\ t2 = t /\ Honest(a2) /\ a2.taken = n
  BY <1>5, Zenon DEF OneRequest, Honest, Verdict
<1>6. CASE h \in {"write", "last"} /\ h2 \in {"read", "gone"} /\ open /\ s2 = s /\ t2 = Append(t, a)
  <2>1. s = <<>> /\ t = <<>> /\ Verdict(ask, a)
    BY <1>6, Zenon DEF OneRequest
  <2>2. t2 = <<a>>
    BY <1>6, <2>1, OneElement, ZenonT(40)
  <2> QED BY <1>6, <2>1, <2>2, Zenon DEF OneRequest
<1> QED BY <1>1, <1>2, <1>3, <1>4, <1>5, <1>6, Zenon DEF ServerMoves

-----------------------------------------------------------------------------
(* The connections.                                                        *)

LEMMA DomainsStep ==
    ASSUME Domains, [Next]_vars
    PROVE  Domains'
<1> USE DEF Domains
<1>1. CASE Alone
  BY <1>1, Zenon DEF Alone, Call, Destroy, CheckStarted, Lstat, SendDetect, ReadResponse, Return, Timeout, CloseConnection,
              detectorVars, connVars, Goes, Fails, FailsGone, Stopped
<1>2. CASE Spawn \/ Connect
  BY <1>2, Zenon DEF Spawn, Connect, Fails, FailsGone, connVars
<1>e. ASSUME Ends("killed") \/ Ends("exited")
      PROVE  DOMAIN toServer' = Conns /\ DOMAIN toClient' = Conns /\ DOMAIN answer' = Conns
  BY <1>e, Zenon DEF Ends
<1>g. ASSUME Signal PROVE DOMAIN toServer' = Conns /\ DOMAIN toClient' = Conns /\ DOMAIN answer' = Conns
  BY <1>e, <1>g, Zenon DEF Signal, connVars
<1>3. CASE Terminate \/ Reap
  <2>1. asked' = asked
    BY <1>3, Zenon DEF Terminate, Reap, Stopped, Goes
  <2>2. Signal \/ Ends("killed") \/ UNCHANGED detectorVars
    BY <1>3, Zenon DEF Terminate, Reap
  <2> QED BY <1>e, <1>g, <2>1, <2>2, Zenon DEF detectorVars, connVars
<1>4. CASE DetectorStep /\ UNCHANGED clientVars
  <2>1. asked' = asked
    BY <1>4 DEF clientVars
  <2>2. CASE Main \/ Dies \/ Signal
    BY <1>e, <1>g, <2>1, <2>2, Zenon DEF Main, Setup, ListenSocket, Notify, Select, Exit, Dies, connVars
  <2>3. CASE Serve \/ Shutdown
    BY <2>1, <2>3, Zenon DEF Serve, ServeStart, AcceptFails, Register, Accept, Shutdown, CloseServer, WaitHandlers,
                CloseSource, connVars
  <2>4. ASSUME NEW c \in Conns, Handle(c) \/ CameraHangs(c) PROVE Domains'
    <3>1. CASE ReadRequest(c)
      BY <2>1, <3>1, Zenon DEF ReadRequest, Answers
    <3>2. CASE WriteResponse(c) \/ Lock(c) \/ CameraHangs(c)
      BY <2>1, <3>2, Zenon DEF WriteResponse, Lock, CameraHangs
    <3>3. CASE Detect(c)
      <4>1. UNCHANGED <<toServer, toClient>> /\ \E a : Answers(c, a, "write")
        BY <3>3, Zenon DEF Detect
      <4> QED BY <2>1, <4>1, Zenon DEF Answers
    <3>4. CASE FakeDetect(c)
      BY <2>1, <3>4 DEF FakeDetect, Answers
    <3> QED BY <2>4, <3>1, <3>2, <3>3, <3>4, Zenon DEF Handle
  <2> QED BY <1>4, <2>2, <2>3, <2>4, Zenon DEF DetectorStep
<1>5. ASSUME NEW c \in Others, OtherSends(c) \/ OtherLeaves(c) PROVE Domains'
  BY <1>5, Zenon DEF OtherSends, OtherLeaves
<1>6. CASE UNCHANGED vars
  BY <1>6, Zenon DEF vars, detectorVars, clientVars, connVars
<1> QED BY <1>1, <1>2, <1>3, <1>4, <1>5, <1>6, NextCases, Zenon

\* The Runtime's own steps on its connection.
LEMMA AloneConnection ==
    ASSUME Process, Domains, Connection, Alone
    PROVE  Connection'
<1>0. Own \in Conns
  BY CameraAssumption
<1>h. handler' = handler
  BY AloneLeaves, Zenon
<1>t. /\ pc \in {"stop", "reap", "wait"} => failed \/ destroyed
      /\ pc \in {"check", "send", "read", "return"} => ~failed
      /\ pc \in {"idle"} => ~destroyed
      /\ now \in Nat
  BY DEF Process, Thread
<1>f. ASSUME pc' = "stop", Flight(handler[Own], toServer[Own], toClient[Own], answer[Own])' PROVE Connection'
  BY <1>f, Zenon DEF Connection
<1>1. CASE Call
  <2>1. UNCHANGED <<handler, toServer, toClient, answer, failed, reply>> /\ pc = "idle"
        /\ pc' = IF failed THEN "idle" ELSE IF connected THEN "check" ELSE "lstat"
    BY <1>1 DEF Call, connVars
  <2> QED BY <2>1, Zenon DEF Connection
<1>2. CASE Destroy
  <2>1. UNCHANGED <<handler, toServer, toClient, answer>> /\ pc' = "stop"
    BY <1>2 DEF Destroy, detectorVars, connVars
  <2> QED BY <1>f, <2>1, Zenon DEF Connection
<1>3. CASE CheckStarted
  <2>1. UNCHANGED <<handler, toServer, toClient, answer, now>> /\ pc = "check"
        /\ (pc' = "stop" \/ (pc' = "send" /\ failed' = failed))
    BY <1>3 DEF CheckStarted, detectorVars, connVars, FailsGone, Fails, Goes
  <2> QED BY <1>f, <1>t, <2>1, Zenon DEF Connection
<1>4. CASE Lstat
  <2>1. UNCHANGED <<handler, toServer, toClient, answer, now>> /\ pc = "lstat" /\ pc' \in {"stop", "spawn"}
    BY <1>4, Zenon DEF Lstat, detectorVars, connVars, Fails, Goes
  <2> QED BY <1>f, <2>1, Zenon DEF Connection
<1>5. CASE SendDetect
  <2>1. UNCHANGED <<handler, toClient, answer, now>> /\ pc = "send"
        /\ \/ pc' = "stop" /\ toServer' = toServer
           \/ pc' = "read" /\ toServer' = [toServer EXCEPT ![Own] = Append(@, Request)]
    BY <1>5, Zenon DEF SendDetect, Fails, Goes, Request
  <2>2. Still(handler[Own], toServer[Own], toClient[Own])
    BY <1>t, <2>1, Zenon DEF Connection
  <2>3. CASE pc' = "stop" /\ toServer' = toServer
    BY <1>f, <2>1, <2>3, Zenon DEF Connection
  <2>4. CASE pc' = "read" /\ toServer' = [toServer EXCEPT ![Own] = Append(@, Request)]
    <3>1. toServer'[Own] = <<Request>>
      BY <1>0, <2>2, <2>4, OneElement, Zenon DEF Domains, Still
    <3>2. Flight(handler[Own], toServer[Own], toClient[Own], answer[Own])'
      BY <2>1, <2>2, <3>1, Zenon DEF Flight, Still
    <3>3. Current(handler[Own], toClient[Own], answer[Own], now)'
      BY <2>1, <2>2, Zenon DEF Current, Still
    <3> QED BY <2>4, <3>2, <3>3, Zenon DEF Connection
  <2> QED BY <2>1, <2>3, <2>4, Zenon
<1>6. CASE ReadResponse
  <2>1. UNCHANGED <<handler, toServer, answer, now>> /\ pc = "read"
        /\ \/ /\ toClient[Own] # <<>> /\ toClient' = [toClient EXCEPT ![Own] = <<>>]
              /\ \/ pc' = "stop"
                 \/ pc' = "return" /\ reply' = Head(toClient[Own]) /\ failed' = failed
           \/ toClient' = toClient /\ pc' = "stop"
    BY <1>6, Zenon DEF ReadResponse, Fails
  <2>2. CASE toClient' = toClient /\ pc' = "stop"
    BY <1>f, <2>1, <2>2, Zenon DEF Connection
  <2>3. CASE /\ toClient[Own] # <<>> /\ toClient' = [toClient EXCEPT ![Own] = <<>>]
             /\ \/ pc' = "stop"
                \/ pc' = "return" /\ reply' = Head(toClient[Own]) /\ failed' = failed
    <3>1. toClient'[Own] = <<>>
      BY <1>0, <2>3, Zenon DEF Domains
    <3>2. PICK x : toClient[Own] = <<x>> /\ Honest(x)
      BY <2>3, Zenon DEF Connection, Flight
    <3>3. toServer[Own] = <<>> /\ handler[Own] \in {"read", "gone"}
      BY <2>3, Zenon DEF Connection, Flight
    <3>4. Flight(handler[Own], toServer[Own], toClient[Own], answer[Own])'
      BY <2>1, <3>1, <3>3, Zenon DEF Flight
    <3>5. CASE pc' = "return" /\ reply' = Head(toClient[Own]) /\ failed' = failed
      <4>1. reply' = x /\ toClient[Own][1] = x
        BY <3>2, <3>5, OneElement
      <4>2. x.taken = now
        BY <2>1, <2>3, <4>1, Zenon DEF Connection, Current
      <4>3. Still(handler[Own], toServer[Own], toClient[Own])'
        BY <2>1, <3>1, <3>3, Zenon DEF Still
      <4> QED BY <2>1, <3>2, <3>4, <3>5, <4>1, <4>2, <4>3, Zenon DEF Connection
    <3> QED BY <1>f, <2>3, <3>4, <3>5, Zenon
  <2> QED BY <2>1, <2>2, <2>3, Zenon
<1>7. CASE Return
  <2>1. UNCHANGED <<handler, toServer, toClient, answer>> /\ pc = "return"
        /\ (pc' = "stop" \/ (pc' = "idle" /\ failed' = failed))
    BY <1>7 DEF Return, detectorVars, connVars, FailsGone, Fails
  <2> QED BY <1>f, <1>t, <2>1, Zenon DEF Connection
<1>8. CASE Timeout
  <2>1. UNCHANGED <<handler, toServer, toClient, answer>> /\ pc' = "stop"
    BY <1>8 DEF Timeout, detectorVars, connVars, Fails
  <2> QED BY <1>f, <2>1, Zenon DEF Connection
<1>9. CASE CloseConnection
  <2>1. UNCHANGED <<handler, toServer, answer, failed>> /\ pc = "stop"
        /\ toClient' = [toClient EXCEPT ![Own] = <<>>]
        /\ (pc' \in {"reap", "end"} \/ (pc' = "idle" /\ ~destroyed))
    BY <1>9, Zenon DEF CloseConnection, Stopped
  <2>2. toClient'[Own] = <<>>
    BY <1>0, <2>1 DEF Domains
  <2>3. Flight(handler[Own], toServer[Own], toClient[Own], answer[Own])'
    BY <2>1, <2>2, Zenon DEF Connection, Flight
  <2> QED BY <1>t, <2>1, <2>3, Zenon DEF Connection
<1> QED BY <1>1, <1>2, <1>3, <1>4, <1>5, <1>6, <1>7, <1>8, <1>9 DEF Alone

\* The detector moves a connection and the Runtime's thread does not.
LEMMA MovesConnection ==
    ASSUME Connection, Moves(Own), now' = now,
           pc' = pc /\ failed' = failed /\ reply' = reply
    PROVE  Connection'
<1>1. Flight(handler[Own], toServer[Own], toClient[Own], answer[Own])'
  <2>1. Flight(handler[Own], toServer[Own], toClient[Own], answer[Own])
    BY Zenon DEF Connection
  <2> QED BY <2>1, FlightMoves, Zenon DEF Moves
<1>2. Still(handler[Own], toServer[Own], toClient[Own]) => Still(handler[Own], toServer[Own], toClient[Own])'
  BY StillMoves, Zenon DEF Moves
<1>3. Current(handler[Own], toClient[Own], answer[Own], now)
        => Current(handler[Own], toClient[Own], answer[Own], now)'
  BY CurrentMoves, Zenon DEF Connection, Moves
<1> QED BY <1>1, <1>2, <1>3, Zenon DEF Connection

LEMMA ConnectionStep ==
    ASSUME Process, Domains, Connection, [Next]_vars
    PROVE  Connection'
<1>0. Own \in Conns /\ Server /\ handler \in [Conns -> HandlerStates]
  BY CameraAssumption DEF Process, Server, Registered
<1>1. CASE Alone
  BY <1>1, AloneConnection
<1>2. CASE Spawn
  <2>1. UNCHANGED <<handler, toServer, toClient, answer, now>> /\ pc = "spawn" /\ pc' \in {"connect", "stop"}
    BY <1>2, Zenon DEF Spawn, Fails, connVars
  <2> QED BY <2>1, Zenon DEF Connection
<1>3. CASE Connect
  <2>1. UNCHANGED <<toServer, toClient, answer, now>> /\ pc = "connect"
        /\ \/ handler' = handler /\ pc' = "stop"
           \/ handler' = [handler EXCEPT ![Own] = "backlog"] /\ pc' = "check"
    BY <1>3 DEF Connect, Fails, FailsGone
  <2>2. CASE handler' = handler /\ pc' = "stop"
    BY <2>1, <2>2, Zenon DEF Connection
  <2>3. CASE handler' = [handler EXCEPT ![Own] = "backlog"] /\ pc' = "check"
    <3>1. handler'[Own] = "backlog"
      BY <1>0, <2>3
    <3>2. Still(handler[Own], toServer[Own], toClient[Own])'
      BY <2>1, <3>1, Zenon DEF Connection, Still
    <3> QED BY <2>3, <3>2, Zenon DEF Connection, Flight, Still
  <2> QED BY <2>1, <2>2, <2>3, Zenon
<1>4. CASE Terminate \/ Reap
  <2>1. Moves(Own)
    <3>1. Signal \/ Ends("killed") \/ UNCHANGED detectorVars
      BY <1>4, Zenon DEF Terminate, Reap
    <3>2. CASE UNCHANGED detectorVars
      BY <1>0, <3>2, UnchangedMoves DEF detectorVars, connVars
    <3> QED BY <1>0, <3>1, <3>2, MainMoves, EndsMoves, Zenon
  <2>2. Flight(handler[Own], toServer[Own], toClient[Own], answer[Own])'
    <3>1. Flight(handler[Own], toServer[Own], toClient[Own], answer[Own])
      BY Zenon DEF Connection
    <3> QED BY <2>1, <3>1, FlightMoves, Zenon DEF Moves
  <2>3. pc' \in {"wait", "end"} \/ (pc' = "idle" /\ failed')
    BY <1>4, Zenon DEF Terminate, Reap, Stopped, Goes, Process, Thread
  <2> QED BY <2>2, <2>3, Zenon DEF Connection
<1>5. CASE DetectorStep /\ UNCHANGED clientVars
  <2>1. Moves(Own) /\ now' = now
    BY <1>0, <1>5, DetectorMoves, Zenon
  <2> QED BY <1>5, <2>1, MovesConnection, Zenon DEF clientVars
<1>6. ASSUME NEW c \in Others, OtherSends(c) \/ OtherLeaves(c) PROVE Connection'
  <2>1. c \in Conns /\ c # Own
    BY SMTT(30) DEF Others
  <2>2. UNCHANGED <<answer, now, pc, failed, reply>>
    BY <1>6, Zenon DEF OtherSends, OtherLeaves
  <2>3. handler'[Own] = handler[Own] /\ toServer'[Own] = toServer[Own] /\ toClient'[Own] = toClient[Own]
    BY <1>0, <1>6, <2>1, Zenon DEF OtherSends, OtherLeaves, Domains
  <2>4. Moves(Own)
    BY <2>2, <2>3, Zenon DEF Moves, ServerMoves
  <2> QED BY <2>2, <2>4, MovesConnection, Zenon
<1>7. CASE UNCHANGED vars
  BY <1>7, Zenon DEF vars, detectorVars, clientVars, connVars, Connection
<1> QED BY <1>1, <1>2, <1>3, <1>4, <1>5, <1>6, <1>7, NextCases, Zenon

LEMMA RequestsStep ==
    ASSUME Process, Domains, Requests, [Next]_vars
    PROVE  Requests'
<1>0. Own \in Conns /\ Server /\ handler \in [Conns -> HandlerStates]
  BY CameraAssumption, Zenon DEF Process, Server, Registered
<1>o. \A c \in Others : c \in Conns /\ c # Own
  BY Zenon DEF Others
<1>m. ASSUME asked' = asked, \A c \in Others : Moves(c) /\ (c \in clientOpen' <=> c \in clientOpen) PROVE Requests'
  <2> SUFFICES ASSUME NEW c \in Others
               PROVE  OneRequest(asked[c], c \in clientOpen, handler[c], toServer[c], toClient[c], answer[c])'
    BY Zenon DEF Requests
  <2>1. OneRequest(asked[c], c \in clientOpen, handler'[c], toServer'[c], toClient'[c], answer'[c])
    BY <1>m, OneRequestMoves, Zenon DEF Requests, Moves
  <2>2. c \in clientOpen' <=> c \in clientOpen
    BY <1>m, Zenon
  <2> QED BY <1>m, <2>1, <2>2, Zenon DEF OneRequest
<1>1. CASE Alone
  <2>1. UNCHANGED <<handler, answer, asked>>
    BY <1>1, Zenon DEF Alone, Call, Destroy, CheckStarted, Lstat, SendDetect, ReadResponse, Return, Timeout,
                CloseConnection, detectorVars, connVars, Goes, Fails, FailsGone, Stopped
  <2>2. \/ UNCHANGED <<toServer, toClient>>
        \/ (\E s : toServer' = [toServer EXCEPT ![Own] = s]) /\ toClient' = toClient
        \/ toClient' = [toClient EXCEPT ![Own] = <<>>] /\ toServer' = toServer
    BY <1>1, Zenon DEF Alone, Call, Destroy, CheckStarted, Lstat, SendDetect, ReadResponse, Return, Timeout,
                CloseConnection, detectorVars, connVars, Goes, Fails, FailsGone, Stopped
  <2>3. clientOpen' = clientOpen \/ clientOpen' = clientOpen \ {Own}
    BY <1>1, Zenon DEF Alone, Call, Destroy, CheckStarted, Lstat, SendDetect, ReadResponse, Return, Timeout,
                CloseConnection, detectorVars, connVars
  <2>4. \A c \in Others : toServer'[c] = toServer[c] /\ toClient'[c] = toClient[c]
    BY <1>o, <2>2, Zenon DEF Domains
  <2>5. \A c \in Others : Moves(c) /\ (c \in clientOpen' <=> c \in clientOpen)
    BY <1>o, <2>1, <2>3, <2>4, Zenon DEF Moves, ServerMoves
  <2> QED BY <1>m, <2>1, <2>5, Zenon
<1>2. CASE Spawn
  <2>1. UNCHANGED <<handler, answer, asked, toServer, toClient, clientOpen>>
    BY <1>2, Zenon DEF Spawn, Fails, connVars
  <2> QED BY <1>m, <1>o, <2>1, UnchangedMoves, Zenon
<1>3. CASE Connect
  <2>1. UNCHANGED <<toServer, toClient, answer, asked>>
    BY <1>3, Zenon DEF Connect, Fails, FailsGone
  <2>2. \A c \in Others : handler'[c] = handler[c] /\ (c \in clientOpen' <=> c \in clientOpen)
    BY <1>0, <1>3, <1>o, Zenon DEF Connect
  <2>3. \A c \in Others : Moves(c)
    BY <2>1, <2>2, Zenon DEF Moves, ServerMoves
  <2> QED BY <1>m, <2>1, <2>2, <2>3, Zenon
<1>4. CASE Terminate \/ Reap
  <2>1. Signal \/ Ends("killed") \/ UNCHANGED detectorVars
    BY <1>4, Zenon DEF Terminate, Reap
  <2>2. \A c \in Conns : Moves(c)
    <3>1. CASE UNCHANGED detectorVars
      BY <3>1, UnchangedMoves, Zenon DEF detectorVars, connVars
    <3> QED BY <2>1, <3>1, MainMoves, EndsMoves, Zenon
  <2>3. clientOpen' = clientOpen
    BY <2>1, Zenon DEF Signal, Ends, detectorVars, connVars
  <2>4. asked' = asked
    BY <1>4, Zenon DEF Terminate, Reap, Stopped, Goes
  <2> QED BY <1>m, <1>o, <2>2, <2>3, <2>4, Zenon
<1>5. CASE DetectorStep /\ UNCHANGED clientVars
  <2>1. \A c \in Conns : Moves(c) /\ UNCHANGED <<clientOpen, now>>
    BY <1>0, <1>5, DetectorMoves, Zenon
  <2> QED BY <1>5, <1>m, <1>o, <2>1, Zenon DEF clientVars
<1>6. ASSUME NEW d \in Others, OtherSends(d) \/ OtherLeaves(d) PROVE Requests'
  <2> SUFFICES ASSUME NEW c \in Others
               PROVE  OneRequest(asked[c], c \in clientOpen, handler[c], toServer[c], toClient[c], answer[c])'
    BY Zenon DEF Requests
  <2>0. OneRequest(asked[c], c \in clientOpen, handler[c], toServer[c], toClient[c], answer[c])
    BY Zenon DEF Requests
  <2>1. CASE c # d
    <3>1. /\ UNCHANGED <<answer>>
          /\ handler'[c] = handler[c] /\ toServer'[c] = toServer[c] /\ toClient'[c] = toClient[c]
          /\ asked'[c] = asked[c] /\ (c \in clientOpen' <=> c \in clientOpen)
      BY <1>0, <1>6, <1>o, <2>1, Zenon DEF OtherSends, OtherLeaves, Domains
    <3> QED BY <2>0, <3>1, Zenon DEF OneRequest
  <2>2. CASE c = d /\ OtherSends(d)
    <3>1. PICK tokens \in Lines, kind \in {"line", "long", "part"} :
             /\ toServer' = [toServer EXCEPT ![c] = <<[kind |-> kind, tokens |-> tokens]>>]
             /\ asked' = [asked EXCEPT ![c] = IF kind = "line" /\ tokens = DetectLine THEN "DETECT" ELSE "else"]
      BY <2>2, Zenon DEF OtherSends
    <3>2. PICK q : q = [kind |-> kind, tokens |-> tokens]
      BY Zenon
    <3>3. q.kind = kind /\ q.tokens = tokens /\ tokens \in Seq(STRING \ {"eof"})
      BY <3>2, CameraAssumption, Zenon
    <3>4. toServer'[c] = <<q>>
      BY <1>o, <3>1, <3>2, Zenon DEF Domains
    <3>5. asked'[c] = IF kind = "line" /\ tokens = DetectLine THEN "DETECT" ELSE "else"
      BY <3>1, Zenon DEF Domains
    <3>6. handler'[c] = "backlog" /\ c \in clientOpen' /\ toClient' = toClient /\ handler[c] = "none"
      BY <1>0, <1>o, <2>2, Zenon DEF OtherSends
    <3>7. toClient[c] = <<>>
      BY <2>0, <3>6, Zenon DEF OneRequest
    <3>8. Deserves(asked'[c], q) /\ asked'[c] \in {"DETECT", "else"}
      BY <3>3, <3>5, Zenon DEF Deserves
    <3> QED BY <3>3, <3>4, <3>6, <3>7, <3>8, Zenon DEF OneRequest
  <2>3. CASE c = d /\ OtherLeaves(d)
    <3>1. /\ UNCHANGED <<handler, toServer, answer>> /\ c \notin clientOpen'
          /\ toClient'[c] = <<>> /\ asked'[c] = "nothing"
      BY <1>o, <2>3, Zenon DEF OtherLeaves, Domains
    <3>2. \A q : Deserves("nothing", q) /\ Verdict("nothing", q)
      BY Zenon DEF Deserves, Verdict
    <3> QED BY <2>0, <3>1, <3>2, Zenon DEF OneRequest
  <2> QED BY <1>6, <2>1, <2>2, <2>3, Zenon
<1>7. CASE UNCHANGED vars
  <2>1. UNCHANGED <<handler, answer, asked, toServer, toClient, clientOpen>>
    BY <1>7, Zenon DEF vars, detectorVars, clientVars, connVars
  <2> QED BY <1>m, <1>o, <2>1, UnchangedMoves, Zenon
<1> QED BY <1>1, <1>2, <1>3, <1>4, <1>5, <1>6, <1>7, NextCases, Zenon

-----------------------------------------------------------------------------
(* The theorems.                                                           *)

LEMMA InitInvariant ==
    ASSUME Init
    PROVE  IInv
<1>0. Own \in Conns
  BY CameraAssumption, Zenon
<1>1. Process
  BY <1>0, Zenon DEF Init, DetectorInit, Process, Lifecycle, Registered, Thread, Unstarted, HandlerStates
<1>2. Domains
  BY Zenon DEF Init, DetectorInit, Domains
<1>3. Connection
  BY <1>0, Zenon DEF Init, DetectorInit, Connection, Flight, Still
<1>4. Requests
  BY Zenon DEF Init, DetectorInit, Requests, OneRequest, Others
<1> QED BY <1>1, <1>2, <1>3, <1>4, Zenon DEF IInv

\* The invariant that the theorems below rest on: the order in which main,
\* Serve, Server.Close and the handlers of the detector do their work, and what
\* is on its way on each connection.
THEOREM Invariance == Spec => []IInv
<1>1. Init => IInv
  BY InitInvariant, Zenon
<1>2. IInv /\ [Next]_vars => IInv'
  BY ProcessStep, DomainsStep, ConnectionStep, RequestsStep, Zenon DEF IInv
<1> QED BY <1>1, <1>2, PTL DEF Spec

\* For every number of connections and calls: the response that detectMarkers
\* uses was made during this call, because a call that fails or times out gives
\* up the connection for good, and from a frame captured during it, unless the
\* driver had kept more frames than cameraSource.Detect throws away.
THEOREM CurrentFrameHolds == Spec => []CurrentFrame
<1>1. IInv => CurrentFrame
  BY Zenon DEF IInv, Connection, Honest, CurrentFrame
<1> QED BY <1>1, Invariance, PTL

\* For every set of lines and every number of clients: parseRequest takes the
\* line of send_detect and no other, decode_response accepts whatever the
\* detector answers, and BAD_REQUEST goes to those who asked something else.
THEOREM ProtocolAgreesHolds == Spec => []ProtocolAgrees
<1>1. ASSUME IInv PROVE ProtocolAgrees
  <2>1. ASSUME NEW i \in DOMAIN toClient[Own]
        PROVE  Decodes(toClient[Own][i].response) /\ toClient[Own][i].response.error # "BAD_REQUEST"
    <3>1. toClient[Own] = <<>> \/ \E x : toClient[Own] = <<x>> /\ Honest(x)
      BY <1>1, Zenon DEF IInv, Connection, Flight
    <3>2. toClient[Own] # <<>>
      BY <2>1
    <3>3. PICK x : toClient[Own] = <<x>> /\ Honest(x)
      BY <3>1, <3>2, Zenon
    <3>4. toClient[Own][i] = x
      BY <3>3
    <3> QED BY <3>3, <3>4, Zenon DEF Honest
  <2>2. ASSUME NEW c \in Others, toClient[c] # <<>>
        PROVE  Head(toClient[c]).response.error = "BAD_REQUEST" <=> asked[c] = "else"
    <3>1. OneRequest(asked[c], c \in clientOpen, handler[c], toServer[c], toClient[c], answer[c])
      BY <1>1, Zenon DEF IInv, Requests
    <3>2. PICK x : toClient[c] = <<x>> /\ Verdict(asked[c], x)
      BY <2>2, <3>1, Zenon DEF OneRequest
    <3>3. asked[c] # "nothing"
      BY <2>2, <3>1, Zenon DEF OneRequest
    <3>4. Head(toClient[c]) = x
      BY <3>2, OneElement, Zenon
    <3> QED BY <3>2, <3>3, <3>4, Zenon DEF Verdict
  <2> QED BY <2>1, <2>2, Zenon DEF ProtocolAgrees
<1> QED BY <1>1, Invariance, PTL

\* For every number of connections: once Server.Close has waited, no handler
\* runs and none is started, although Serve may still be accepting.
THEOREM CloseWaitsHolds == Spec => []CloseWaits
<1>1. IInv => CloseWaits
  BY Zenon DEF IInv, Process, Registered, CloseWaits, Handlers, Idle
<1> QED BY <1>1, Invariance, PTL

\* For all frames: what detect_markers returns from a frame is every game
\* marker of that frame once, by id, at the nearest of its distances.  No
\* interleaving of calls, clients and shutdown gives a call the detections of
\* another frame (Invariance), and Detect, Normalize and validate make the
\* right ones of each frame (ResponsesRight).
THEOREM RightDetectionsHolds == Spec => []RightDetections
<1>1. IInv => RightDetections
  BY ResponsesRight, Zenon DEF IInv, Connection, Honest, RightDetections
<1> QED BY <1>1, Invariance, PTL

\* A step that ends the detector leaves the file as it is, and only a detector
\* that listens makes one.
LEMMA FileStays ==
    ASSUME [Next]_vars, main = "closing"
    PROVE  file' \in {file, "none"}
<1>e. ASSUME NEW how, Ends(how) PROVE file' = file
  BY <1>e, Zenon DEF Ends
<1>g. ASSUME Signal PROVE file' = file
  BY <1>e, <1>g, Zenon DEF Signal
<1>1. CASE Alone
  BY <1>1, AloneLeaves, Zenon
<1>2. CASE Spawn \/ Connect
  BY <1>2, Zenon DEF Spawn, Connect
<1>3. CASE Terminate \/ Reap
  BY <1>3, <1>e, <1>g, Zenon DEF Terminate, Reap, detectorVars
<1>4. CASE DetectorStep
  <2>1. CASE Main \/ Dies \/ Signal
    BY <1>e, <1>g, <2>1, Zenon DEF Main, Setup, ListenSocket, Notify, Select, Exit, Dies
  <2>2. CASE Serve \/ Shutdown
    BY <2>2, Zenon DEF Serve, ServeStart, AcceptFails, Register, Accept, Shutdown, CloseServer, WaitHandlers,
                CloseSource, Unlistened
  <2>3. ASSUME NEW c \in Conns, Handle(c) \/ CameraHangs(c) PROVE file' = file
    BY <2>3, Zenon DEF Handle, ReadRequest, WriteResponse, Lock, Detect, FakeDetect, CameraHangs
  <2> QED BY <1>4, <2>1, <2>2, <2>3, Zenon DEF DetectorStep
<1>5. ASSUME NEW c \in Others, OtherSends(c) \/ OtherLeaves(c) PROVE file' = file
  BY <1>5, Zenon DEF OtherSends, OtherLeaves
<1>6. CASE UNCHANGED vars
  BY <1>6, Zenon DEF vars, detectorVars
<1> QED BY <1>1, <1>2, <1>3, <1>4, <1>5, <1>6, NextCases, Zenon

\* However main, Serve and Server.Close interleave, a detector that exits by
\* itself after Serve has begun leaves no socket file, be the shutdown finished
\* or given up after three seconds.
THEOREM SocketRemovedHolds == Spec => SocketRemoved
<1>1. IInv /\ [Next]_vars => [main = "closing" /\ main' = "exited" /\ shutdown # "server" /\ serving # "start"
                               => file' # "own"]_vars
  <2> SUFFICES ASSUME IInv, [Next]_vars, main = "closing", shutdown # "server", serving # "start"
               PROVE  file' # "own"
    BY Zenon
  <2>1. file # "own"
    BY Zenon DEF IInv, Process, Lifecycle
  <2> QED BY <2>1, FileStays, Zenon
<1> QED BY <1>1, Invariance, PTL DEF Spec, SocketRemoved

====
