------------------------------ MODULE Detector ------------------------------
(***************************************************************************)
(* The marker detector started with -socket: runServe and cameraSource of  *)
(* prototypes/marker-detect/cmd/marker-detect/serve.go and the server of   *)
(* prototypes/marker-detect/ipc/server.go.  Its goroutines are main, the   *)
(* one in Serve, one handler per connection and the one that shuts down.   *)
(* How Listen claims the path is the subject of DetectorListen.            *)
(***************************************************************************)
EXTENDS DetectorProtocol

CONSTANTS
    Modes,        \* "camera", and the arguments of -fake
    Conns,        \* connections
    NoConn,
    Frames,       \* what a camera frame can show: sequences of sightings
    DriverFrames, \* most frames that the driver keeps until somebody reads
    StaleFrames   \* staleFrames

ASSUME DetectorAssumption ==
    /\ Modes \subseteq {"camera", "two", "empty", "camera-unavailable", "detection-failed"}
    /\ NoConn \notin Conns
    /\ DriverFrames \in Nat /\ StaleFrames \in Nat
    /\ Frames \subseteq Seq([id : Int, corners : Nat, pose : BOOLEAN,
                            angle : Int \cup {NegZero}, distance : Nat \cup {Inf}])

VARIABLES
    mode,         \* -fake, or "camera"
    file,         \* what is at the socket path
    main,         \* where runServe is
    serving,      \* where Server.Serve is
    accepted,     \* the connection that Accept returned, or NoConn
    shutdown,     \* where the goroutine that closes the server is
    listener,     \* Server.listener is set
    closed,       \* Server.closed
    signalled,    \* a signal is in the channel stop
    handler,      \* where each connection and its handler is
    toServer,     \* what the handler has not read
    toClient,     \* what the client has not read
    clientOpen,   \* the connections that the client has not closed
    serverOpen,   \* the ones that the server has not closed
    holder,       \* who has detectMu
    camera,       \* the camera is open
    sourceClosed, \* cameraSource.closed
    answer,       \* the response that a handler is about to write
    now           \* how many DETECT calls the Runtime has made

lifeVars == <<main, serving, accepted, shutdown, listener, closed, signalled>>
cameraVars == <<holder, camera, sourceClosed>>
connVars == <<handler, toServer, toClient, clientOpen, serverOpen, answer>>
detectorVars == <<mode, file, lifeVars, cameraVars, connVars, now>>

\* An answer has the number of the call it was made in, what its frame showed,
\* whether the frame is of an earlier moment and whether the driver held more
\* than staleFrames such frames.
NoAnswer == [response |-> encodeFailure(""), taken |-> 0, frame |-> <<>>, old |-> FALSE, many |-> FALSE]

DetectorInit ==
    /\ mode \in Modes
    /\ file \in {"none", "leftover", "another's", "foreign"}
    /\ main = "none" /\ serving = "none" /\ shutdown = "none" /\ accepted = NoConn
    /\ listener = FALSE /\ closed = FALSE /\ signalled = FALSE
    /\ handler = [c \in Conns |-> "none"]
    /\ toServer = [c \in Conns |-> <<>>] /\ toClient = [c \in Conns |-> <<>>]
    /\ clientOpen = {} /\ serverOpen = {}
    /\ holder = NoConn /\ camera = FALSE /\ sourceClosed = FALSE
    /\ answer = [c \in Conns |-> NoAnswer]
    /\ now = 0

Alive == main \notin {"none", "exited", "killed"}

\* net.Listener.Close: the path goes first; connections that nobody has
\* accepted are reset.
Unlistened ==
    /\ file' = "none"
    /\ handler' = [c \in Conns |-> IF handler[c] = "backlog" THEN "gone" ELSE handler[c]]

Listening == file = "own" /\ Alive

-----------------------------------------------------------------------------
\* runServe up to the select.
Setup ==
    /\ main = "setup"
    /\ \/ main' = "listen"
       \/ mode = "camera" /\ main' = "exited"
    /\ UNCHANGED <<mode, file, serving, accepted, shutdown, listener, closed, signalled, cameraVars,
                   connVars, now>>

ListenSocket ==
    /\ main = "listen"
    /\ IF file \in {"none", "leftover"} THEN main' = "notify" /\ file' = "own"
       ELSE main' = "exited" /\ UNCHANGED file
    /\ UNCHANGED <<mode, serving, accepted, shutdown, listener, closed, signalled, cameraVars, connVars, now>>

Notify ==
    /\ main = "notify"
    /\ main' = "select" /\ serving' = "start"
    /\ UNCHANGED <<mode, file, accepted, shutdown, listener, closed, signalled, cameraVars, connVars, now>>

\* A signal, or the end of Serve.
Select ==
    /\ main = "select"
    /\ signalled \/ serving \in {"failed", "returned"}
    /\ main' = "closing" /\ shutdown' = "server"
    /\ UNCHANGED <<mode, file, serving, accepted, listener, closed, signalled, cameraVars, connVars, now>>

\* The process ends: the operating system closes what is open.
Ends(how) ==
    /\ main' = how
    /\ serving' = "none" /\ accepted' = NoConn /\ shutdown' = "none"
    /\ listener' = FALSE /\ closed' = FALSE /\ signalled' = FALSE
    /\ handler' = [c \in Conns |-> IF handler[c] = "none" THEN "none" ELSE "gone"]
    /\ toServer' = [c \in Conns |-> <<>>] /\ serverOpen' = {}
    /\ answer' = [c \in Conns |-> NoAnswer]
    /\ holder' = NoConn /\ camera' = FALSE /\ sourceClosed' = FALSE
    /\ UNCHANGED <<mode, file, toClient, clientOpen, now>>

\* runServe waits for the shutdown however long it takes.
ExitWhenDone == main = "closing" /\ shutdown = "done" /\ Ends("exited")

\* The shutdown is done, or three seconds have passed.
Exit == main = "closing" /\ Ends("exited")

Dies == Alive /\ Ends("killed")

\* SIGTERM or SIGINT.
Signal ==
    /\ Alive /\ ~signalled
    /\ IF main \in {"setup", "listen", "notify"} THEN Ends("killed")
       ELSE /\ signalled' = TRUE
            /\ UNCHANGED <<mode, file, main, serving, accepted, shutdown, listener, closed, cameraVars,
                           connVars, now>>

-----------------------------------------------------------------------------
\* Server.Serve: the first lock.
ServeStart ==
    /\ Alive /\ serving = "start"
    /\ IF closed THEN serving' = "returned" /\ Unlistened /\ UNCHANGED listener
       ELSE serving' = "accept" /\ listener' = TRUE /\ UNCHANGED <<file, handler>>
    /\ UNCHANGED <<mode, main, accepted, shutdown, closed, signalled, cameraVars, toServer, toClient,
                   clientOpen, serverOpen, answer, now>>

Accept(c) ==
    /\ Alive /\ serving = "accept" /\ handler[c] = "backlog"
    /\ serving' = "accepted" /\ accepted' = c
    /\ handler' = [handler EXCEPT ![c] = "new"]
    /\ serverOpen' = serverOpen \cup {c}
    /\ UNCHANGED <<mode, file, main, shutdown, listener, closed, signalled, cameraVars, toServer, toClient,
                   clientOpen, answer, now>>

\* Accept fails because the listener is closed, or for a reason of its own.
AcceptFails ==
    /\ Alive /\ serving = "accept"
    /\ serving' = IF closed THEN "returned" ELSE "failed"
    /\ Unlistened
    /\ UNCHANGED <<mode, main, accepted, shutdown, listener, closed, signalled, cameraVars, toServer,
                   toClient, clientOpen, serverOpen, answer, now>>

\* A connection gets its handler whether the server is closed or not.
RegisterAlways ==
    /\ Alive /\ serving = "accepted"
    /\ handler' = [handler EXCEPT ![accepted] = "read"]
    /\ serving' = "accept" /\ accepted' = NoConn
    /\ UNCHANGED <<mode, file, serverOpen, main, shutdown, listener, closed, signalled, cameraVars, toServer,
                   toClient, clientOpen, answer, now>>

\* The second lock: the handler counts in wg before Close can wait for it.
Register ==
    /\ Alive /\ serving = "accepted"
    /\ handler' = [handler EXCEPT ![accepted] = IF closed THEN "gone" ELSE "read"]
    /\ serverOpen' = IF closed THEN serverOpen \ {accepted} ELSE serverOpen
    /\ serving' = IF closed THEN "returned" ELSE "accept"
    /\ accepted' = NoConn
    /\ UNCHANGED <<mode, file, main, shutdown, listener, closed, signalled, cameraVars, toServer, toClient,
                   clientOpen, answer, now>>

Handlers == {c \in Conns : handler[c] \notin {"none", "backlog", "new", "gone"}}

\* The connections are closed and the listener is not.
CloseServerKeepsListening ==
    /\ Alive /\ shutdown = "server"
    /\ shutdown' = "wait" /\ closed' = TRUE
    /\ serverOpen' = serverOpen \ Handlers
    /\ UNCHANGED <<mode, file, handler, main, serving, accepted, listener, signalled, cameraVars, toServer,
                   toClient, clientOpen, answer, now>>

\* Server.Close: the lock, then the wait.
CloseServer ==
    /\ Alive /\ shutdown = "server"
    /\ shutdown' = "wait" /\ closed' = TRUE
    /\ IF listener THEN Unlistened ELSE UNCHANGED <<file, handler>>
    /\ serverOpen' = serverOpen \ Handlers
    /\ UNCHANGED <<mode, main, serving, accepted, listener, signalled, cameraVars, toServer, toClient,
                   clientOpen, answer, now>>

WaitHandlers ==
    /\ Alive /\ shutdown = "wait" /\ Handlers = {}
    /\ shutdown' = "source"
    /\ UNCHANGED <<mode, file, main, serving, accepted, listener, closed, signalled, cameraVars, connVars, now>>

\* closeSource: cameraSource.Close waits for a Detect that hangs.
CloseSource ==
    /\ Alive /\ shutdown = "source" /\ \A c \in Conns : handler[c] # "stuck"
    /\ shutdown' = "done"
    /\ sourceClosed' = TRUE /\ camera' = FALSE
    /\ UNCHANGED <<mode, file, main, serving, accepted, listener, closed, signalled, holder, connVars, now>>

-----------------------------------------------------------------------------
Answers(c, a, next) ==
    /\ answer' = [answer EXCEPT ![c] = a]
    /\ handler' = [handler EXCEPT ![c] = next]

Failure(code) == [NoAnswer EXCEPT !.response = encodeFailure(code), !.taken = now]

\* handle: one turn of its loop up to the response.  A request is
\* [kind, tokens]; its kind is "line", "long" for a line that fills the buffer
\* and "part" for one without an end.
ReadRequest(c) ==
    /\ Alive /\ handler[c] = "read"
    /\ \/ /\ toServer[c] # <<>>
          /\ LET request == Head(toServer[c]) IN
             \/ /\ request.kind = "line"
                /\ IF parseRequest(request.tokens)
                   THEN handler' = [handler EXCEPT ![c] = "lock"] /\ UNCHANGED answer
                   ELSE Answers(c, Failure("BAD_REQUEST"), "write")
             \/ /\ request.kind = "long" \/ (request.kind = "part" /\ c \notin clientOpen)
                /\ Answers(c, Failure("BAD_REQUEST"), "last")
          /\ toServer' = [toServer EXCEPT ![c] = Tail(@)]
          /\ UNCHANGED serverOpen
       \/ /\ (toServer[c] = <<>> /\ c \notin clientOpen) \/ c \notin serverOpen
          /\ handler' = [handler EXCEPT ![c] = "gone"]
          /\ serverOpen' = serverOpen \ {c}
          /\ UNCHANGED <<toServer, answer>>
    /\ UNCHANGED <<mode, file, lifeVars, cameraVars, toClient, clientOpen, now>>

\* write: a client that does not read makes it time out.
WriteResponse(c) ==
    /\ Alive /\ handler[c] \in {"write", "last"}
    /\ \/ /\ c \in serverOpen /\ c \in clientOpen
          /\ toClient' = [toClient EXCEPT ![c] = Append(@, answer[c])]
          /\ handler' = [handler EXCEPT ![c] = IF @ = "last" THEN "gone" ELSE "read"]
          /\ serverOpen' = IF handler[c] = "last" THEN serverOpen \ {c} ELSE serverOpen
       \/ /\ c \notin serverOpen \/ c \notin clientOpen \/ toClient[c] # <<>>
          /\ handler' = [handler EXCEPT ![c] = "gone"]
          /\ serverOpen' = serverOpen \ {c}
          /\ UNCHANGED toClient
    /\ answer' = [answer EXCEPT ![c] = NoAnswer]
    /\ UNCHANGED <<mode, file, lifeVars, cameraVars, toServer, clientOpen, now>>

\* Server.detect takes detectMu and enters the Source.
Lock(c) ==
    /\ Alive /\ handler[c] = "lock" /\ holder = NoConn
    /\ holder' = c
    /\ handler' = [handler EXCEPT ![c] = "detect"]
    /\ UNCHANGED <<mode, file, lifeVars, camera, sourceClosed, toServer, toClient, clientOpen, serverOpen,
                   answer, now>>

\* The camera does not answer.
CameraHangs(c) ==
    /\ Alive /\ handler[c] = "detect" /\ mode = "camera" /\ ~sourceClosed
    /\ handler' = [handler EXCEPT ![c] = "stuck"]
    /\ UNCHANGED <<mode, file, lifeVars, cameraVars, toServer, toClient, clientOpen, serverOpen, answer, now>>

\* One turn of the loop of detector.Detect: EstimatePosition may find no pose.
Results(s) ==
    IF IsValid(s.id) /\ s.corners = 4 /\ s.pose
    THEN <<[id |-> s.id, angle |-> s.angle, distance |-> s.distance]>> ELSE <<>>

\* detector.Detect on a frame of sightings, each with the number of its
\* corners and whether they have a pose: what is no game marker, or has none,
\* is left out, the rest is sorted by id.
Recognized(frame) ==
    LET results[i \in 0..Len(frame)] ==
          IF i = 0 THEN <<>> ELSE results[i - 1] \o Results(frame[i])
    IN  Sorted(results[Len(frame)])

\* The detections of a Source, checked.
Checked(found) ==
    IF validate(found) THEN encodeSuccess(found) ELSE encodeFailure("DETECTION_FAILED")

\* The responses to each frame.
ResponsesTo ==
    [frame \in Frames |-> {Checked(found) : found \in UNION {Normalize(raw) : raw \in Recognized(frame)}}]

\* Only one of the kept frames is thrown away.
GrabFewer(kept) == IF kept > 0 THEN kept - 1 ELSE 0

\* Grab(staleFrames) throws that many frames away: what is left of the frames
\* that the driver had kept.
Grab(kept) == IF kept > StaleFrames THEN kept - StaleFrames ELSE 0

\* cameraSource.Detect, under its lock, and the rest of Server.detect: the
\* source is closed, the camera cannot be opened, it cannot be read and is
\* released, or there is a frame.  A camera that was already open may have
\* kept frames of earlier moments.
Detect(c) ==
    /\ Alive /\ handler[c] = "detect" /\ mode = "camera"
    /\ \/ /\ camera' = FALSE
          /\ Answers(c, Failure(IF sourceClosed THEN "DETECTION_FAILED" ELSE "CAMERA_UNAVAILABLE"), "write")
       \/ /\ ~sourceClosed /\ camera' = TRUE
          /\ \/ Answers(c, Failure("DETECTION_FAILED"), "write")
             \/ \E frame \in Frames, kept \in IF camera THEN 0..DriverFrames ELSE {0} :
                \E response \in ResponsesTo[frame] :
                   Answers(c, [response |-> response, taken |-> now, frame |-> frame,
                               old |-> Grab(kept) > 0, many |-> kept > StaleFrames], "write")
    /\ holder' = NoConn
    /\ UNCHANGED <<mode, file, lifeVars, sourceClosed, toServer, toClient, clientOpen, serverOpen, now>>

\* NewFakeSource.
FakeTwo == <<[id |-> 17, angle |-> 12, distance |-> 3], [id |-> 23, angle |-> -8, distance |-> 5]>>

FakeDetect(c) ==
    /\ Alive /\ handler[c] = "detect" /\ mode # "camera"
    /\ LET response == CASE mode = "two" -> Checked(FakeTwo)
                         [] mode = "empty" -> Checked(<<>>)
                         [] mode = "camera-unavailable" -> encodeFailure("CAMERA_UNAVAILABLE")
                         [] mode = "detection-failed" -> encodeFailure("DETECTION_FAILED")
       IN  Answers(c, [NoAnswer EXCEPT !.response = response, !.taken = now], "write")
    /\ holder' = NoConn
    /\ UNCHANGED <<mode, file, lifeVars, camera, sourceClosed, toServer, toClient, clientOpen, serverOpen, now>>

\* What each goroutine does next.
Main == Setup \/ ListenSocket \/ Notify \/ Select \/ Exit
Serve == ServeStart \/ AcceptFails \/ Register \/ \E c \in Conns : Accept(c)
Shutdown == CloseServer \/ WaitHandlers \/ CloseSource
Handle(c) ==
    ReadRequest(c) \/ WriteResponse(c) \/ Lock(c) \/ Detect(c) \/ FakeDetect(c)

====
