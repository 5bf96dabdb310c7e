------------------------------- MODULE Camera -------------------------------
(***************************************************************************)
(* camera.detectMarkers of the Runtime with its marker detector:           *)
(* CameraDetectorClient of runtime/src/camera_detector_client.cpp starts   *)
(* the detector on the first call, sends DETECT on one connection, gives   *)
(* up for good on the first failure that is not a well-formed error and    *)
(* stops the detector then and when it is destroyed.  Other processes may  *)
(* use the socket too.                                                     *)
(***************************************************************************)
EXTENDS Detector

CONSTANTS
    Own,          \* the Runtime's connection
    Lines,        \* the lines that another client sends
    MaxCalls      \* calls of detectMarkers

ASSUME CameraAssumption ==
    /\ Own \in Conns /\ MaxCalls \in Nat
    /\ Lines \subseteq Seq(STRING \ {"eof"})

VARIABLES
    pc,           \* where detect_markers or stop is
    connected,    \* socket_ >= 0
    child,        \* child_ > 0
    failed,       \* failed_
    destroyed,    \* the destructor has been entered
    reply,        \* the response being examined
    asked         \* what each other client has sent: "DETECT", or something "else"

clientVars == <<pc, connected, child, failed, destroyed, reply, asked>>
vars == <<detectorVars, clientVars>>

Others == Conns \ {Own}

Init ==
    /\ DetectorInit
    /\ pc = "idle" /\ connected = FALSE /\ child = FALSE /\ failed = FALSE /\ destroyed = FALSE
    /\ reply = NoAnswer
    /\ asked = [c \in Others |-> "nothing"]

Gone == main \in {"exited", "killed"}

Goes(to) == pc' = to /\ UNCHANGED <<connected, child, failed, destroyed, reply, asked>>

\* catch (...): failed_ is set and stop() begins.
Fails ==
    /\ pc' = "stop" /\ failed' = TRUE
    /\ UNCHANGED <<connected, destroyed, reply, asked>>

\* check_child reaps a helper that is gone.
FailsGone == Gone /\ child' = FALSE /\ Fails

-----------------------------------------------------------------------------
\* detect_markers, and start when the helper has been started before.
Call ==
    /\ pc = "idle" /\ ~destroyed /\ now < MaxCalls
    /\ now' = now + 1
    /\ pc' = IF failed THEN "idle" ELSE IF connected THEN "check" ELSE "lstat"
    /\ UNCHANGED <<connected, child, failed, destroyed, reply, asked>>
    /\ UNCHANGED <<mode, file, lifeVars, cameraVars, connVars>>

CheckStarted ==
    /\ pc = "check"
    /\ FailsGone \/ (~Gone /\ Goes("send"))
    /\ UNCHANGED detectorVars

\* start: the look at the path and posix_spawnp.
Lstat ==
    /\ pc = "lstat"
    /\ IF file = "foreign" THEN Fails /\ UNCHANGED child ELSE Goes("spawn")
    /\ UNCHANGED detectorVars

Spawn ==
    /\ pc = "spawn"
    /\ \/ /\ main' = "setup" /\ child' = TRUE /\ pc' = "connect"
          /\ UNCHANGED <<connected, failed, destroyed, reply, asked>>
       \/ Fails /\ UNCHANGED <<main, child>>
    /\ UNCHANGED <<mode, file, serving, accepted, shutdown, listener, closed, signalled, cameraVars, connVars, now>>

\* The loop of start: the helper may be gone, somebody may accept, who may be
\* another Runtime's helper.  Otherwise it tries again.
Connect ==
    /\ pc = "connect"
    /\ \/ FailsGone /\ UNCHANGED <<handler, clientOpen>>
       \/ /\ Listening
          /\ handler' = [handler EXCEPT ![Own] = "backlog"]
          /\ clientOpen' = clientOpen \cup {Own}
          /\ connected' = TRUE /\ pc' = "check"
          /\ UNCHANGED <<child, failed, destroyed, reply, asked>>
       \/ /\ file = "another's"
          /\ Fails /\ UNCHANGED <<child, handler, clientOpen>>
    /\ UNCHANGED <<mode, file, lifeVars, cameraVars, toServer, toClient, serverOpen, answer, now>>

\* The other end of the Runtime's connection is still there.
Reachable == handler[Own] = "backlog" \/ Own \in serverOpen

SendDetect ==
    /\ pc = "send"
    /\ IF Reachable
       THEN /\ toServer' = [toServer EXCEPT ![Own] = Append(@, [kind |-> "line", tokens |-> DetectLine])]
            /\ Goes("read")
       ELSE Fails /\ UNCHANGED <<child, toServer>>
    /\ UNCHANGED <<mode, file, lifeVars, cameraVars, handler, toClient, clientOpen, serverOpen, answer, now>>

\* read_response and decode_response: what has arrived must be one line.
ReadResponse ==
    /\ pc = "read"
    /\ \/ /\ toClient[Own] # <<>>
          /\ toClient' = [toClient EXCEPT ![Own] = <<>>]
          /\ IF Len(toClient[Own]) = 1 /\ Decodes(Head(toClient[Own]).response)
             THEN /\ reply' = Head(toClient[Own]) /\ pc' = "return"
                  /\ UNCHANGED <<connected, child, failed, destroyed, asked>>
             ELSE Fails /\ UNCHANGED child
       \/ /\ toClient[Own] = <<>> /\ ~Reachable
          /\ Fails /\ UNCHANGED <<child, toClient>>
    /\ UNCHANGED <<mode, file, lifeVars, cameraVars, handler, toServer, clientOpen, serverOpen, answer, now>>

\* The last check_child, and the result of the call.
Return ==
    /\ pc = "return"
    /\ \/ FailsGone
       \/ /\ ~Gone /\ pc' = "idle" /\ reply' = NoAnswer
          /\ UNCHANGED <<connected, child, failed, destroyed, asked>>
    /\ UNCHANGED detectorVars

\* A timeout leaves the connection and the helper for the next call.
TimeoutKeeps ==
    /\ pc \in {"connect", "send", "read"}
    /\ pc' = "idle"
    /\ UNCHANGED <<detectorVars, connected, child, failed, destroyed, reply, asked>>

\* Only the start of the helper has a deadline.
TimeoutStart ==
    /\ pc = "connect"
    /\ Fails
    /\ UNCHANGED <<detectorVars, child>>

\* remaining_ms: five seconds for the connection and for the response.
Timeout ==
    /\ pc \in {"connect", "send", "read"}
    /\ Fails
    /\ UNCHANGED <<detectorVars, child>>

-----------------------------------------------------------------------------
Destroy ==
    /\ pc = "idle" /\ ~destroyed
    /\ destroyed' = TRUE /\ pc' = "stop"
    /\ UNCHANGED <<detectorVars, connected, child, failed, reply, asked>>

\* stop returns into the failed call or into the destructor.
Stopped ==
    /\ pc' = IF destroyed THEN "end" ELSE "idle"
    /\ UNCHANGED <<failed, destroyed, asked>>

CloseConnection ==
    /\ pc = "stop"
    /\ clientOpen' = clientOpen \ {Own} /\ connected' = FALSE
    /\ toClient' = [toClient EXCEPT ![Own] = <<>>] /\ reply' = NoAnswer
    /\ IF child THEN pc' = "reap" /\ UNCHANGED <<child, failed, destroyed, asked>>
       ELSE Stopped /\ UNCHANGED child
    /\ UNCHANGED <<mode, file, lifeVars, cameraVars, handler, toServer, serverOpen, answer, now>>

\* reap, else SIGTERM.
Terminate ==
    /\ pc = "reap"
    /\ IF Gone THEN child' = FALSE /\ Stopped /\ UNCHANGED <<detectorVars, connected, reply>>
       ELSE /\ IF signalled THEN UNCHANGED detectorVars ELSE Signal
            /\ Goes("wait")

\* The loop after SIGTERM: reap, or SIGKILL and waitpid after 3.5 seconds.
Reap ==
    /\ pc = "wait"
    /\ IF Gone THEN UNCHANGED detectorVars ELSE Ends("killed")
    /\ child' = FALSE /\ Stopped /\ UNCHANGED <<connected, reply>>

Client ==
    \/ CheckStarted \/ Lstat \/ Spawn \/ Connect \/ SendDetect \/ ReadResponse \/ Return \/ Timeout
    \/ CloseConnection \/ Terminate \/ Reap

-----------------------------------------------------------------------------
\* Another client: one line, whole, too long or cut off, and its response.
OtherSends(c) ==
    /\ Listening /\ handler[c] = "none"
    /\ handler' = [handler EXCEPT ![c] = "backlog"]
    /\ clientOpen' = clientOpen \cup {c}
    /\ \E tokens \in Lines, kind \in {"line", "long", "part"} :
          /\ kind # "line" => tokens = DetectLine
          /\ toServer' = [toServer EXCEPT ![c] = <<[kind |-> kind, tokens |-> tokens]>>]
          /\ asked' = [asked EXCEPT ![c] = IF kind = "line" /\ tokens = DetectLine THEN "DETECT" ELSE "else"]
    /\ UNCHANGED <<mode, file, lifeVars, cameraVars, toClient, serverOpen, answer, now,
                   pc, connected, child, failed, destroyed, reply>>

OtherLeaves(c) ==
    /\ c \in clientOpen
    /\ clientOpen' = clientOpen \ {c}
    /\ toClient' = [toClient EXCEPT ![c] = <<>>]
    /\ asked' = [asked EXCEPT ![c] = "nothing"]
    /\ UNCHANGED <<mode, file, lifeVars, cameraVars, handler, toServer, serverOpen, answer, now,
                   pc, connected, child, failed, destroyed, reply>>

Environment ==
    \/ Dies /\ UNCHANGED clientVars
    \/ Signal /\ UNCHANGED clientVars
    \/ \E c \in Conns : CameraHangs(c) /\ UNCHANGED clientVars
    \/ \E c \in Others : OtherSends(c) \/ OtherLeaves(c)

Next ==
    \/ Call \/ Destroy \/ Client
    \/ (Main \/ Serve \/ Shutdown) /\ UNCHANGED clientVars
    \/ \E c \in Conns : Handle(c) /\ UNCHANGED clientVars
    \/ Environment

Spec == Init /\ [][Next]_vars

\* The thread of the Runtime and the main goroutine of the detector go on, and
\* their deadlines pass.  Nothing is assumed of the camera and of the other
\* goroutines.
FairSpec ==
    /\ Spec
    /\ WF_vars(Client)
    /\ WF_vars(Main /\ UNCHANGED clientVars)

-----------------------------------------------------------------------------
\* The response that detectMarkers uses was produced for this call, not for one
\* that timed out, and its frame was captured during the call unless the driver
\* held more than staleFrames earlier ones.
CurrentFrame ==
    pc = "return" => reply.taken = now /\ (reply.old => reply.many)

\* The sightings of a frame that are game markers at a known place.
Seen(frame) == {s \in Range(frame) : IsValid(s.id) /\ s.corners = 4 /\ s.pose}

\* The nearest ones of each marker.
Nearest(frame) ==
    {s \in Seen(frame) : \A t \in Seen(frame) : t.id = s.id => ~Less(t.distance, s.distance)}

\* Every game marker with a pose once, by id, at its nearest distance, and an
\* error only if such a distance is no length.
Right(response, frame) ==
    LET found == response.detections
        nearest == Nearest(frame)
    IN  /\ response.ok <=> \A s \in nearest : Finite(s.distance) /\ s.distance > 0
        /\ response.ok =>
             /\ {d.id : d \in Range(found)} = {s.id : s \in nearest}
             /\ \A i \in DOMAIN found : \A j \in 1..(i - 1) : found[j].id < found[i].id
             /\ \A d \in Range(found) : \E s \in nearest :
                   s.id = d.id /\ s.distance = d.distance /\ d.angle = IF s.angle = NegZero THEN 0 ELSE s.angle

\* What a call gets from a frame is the right detections of that frame.
RightDetections == pc = "return" /\ reply.frame # <<>> => Right(reply.response, reply.frame)

\* The two sides agree on the protocol: the Runtime's request, and no line that
\* differs from it in a token, is a request to the detector, and the Runtime
\* accepts whatever response the detector sends.
ProtocolAgrees ==
    /\ \A i \in DOMAIN toClient[Own] :
         LET response == toClient[Own][i].response IN
         Decodes(response) /\ response.error # "BAD_REQUEST"
    /\ \A c \in Others : toClient[c] # <<>> =>
         (Head(toClient[c]).response.error = "BAD_REQUEST" <=> asked[c] = "else")

\* When Server.Close has waited, no handler is running or starts any more, so
\* nobody is inside the Source that is closed next.
CloseWaits == Alive /\ shutdown \in {"source", "done"} => Handlers = {}

\* A detector that shuts down by itself, after Serve has begun, leaves no
\* socket file, whether or not a request is stuck.
SocketRemoved ==
    [][main = "closing" /\ main' = "exited" /\ shutdown # "server" /\ serving # "start"
           => file' # "own"]_vars

\* Every call of detectMarkers and the destructor come back, whatever the
\* detector and its camera do.
DetectReturns == pc # "idle" ~> pc \in {"idle", "end"}

\* A detector that has received SIGTERM ends, even with a camera that hangs.
DetectorEnds == signalled ~> ~Alive

====
