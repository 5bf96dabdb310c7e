----------------------------- MODULE MapSession -----------------------------
(***************************************************************************)
(* Map processes on a Window Manager: runMap of app/map/session.go with    *)
(* the client of app/map/client.go, and beside one of them the Broker feed *)
(* of broker.go.  A session subscribes, creates its window, draws and      *)
(* shows it, redraws it for every Target it receives and ends on the       *)
(* window_close event, on a failure or on cancellation, closing its window *)
(* when it believes that there is one.  RunWithBroker then stops the feed  *)
(* and waits for it.                                                       *)
(***************************************************************************)
EXTENDS WindowManager, MapFeed

CONSTANTS
    Fed,          \* the Map that runs with a Broker; the others run the demo
    Demo,         \* the Targets of the demo
    Overlap,      \* whether a Map may start while another one runs
    Cancellable,  \* where a session may be when its context is cancelled
    TimesOut,     \* the commands that may time out
    WmMayStop     \* whether WM may be told to stop

ASSUME MapSessionAssumption ==
    /\ Fed \in Clients
    /\ Demo \in Seq(Range(Demo)) /\ FrameAccepts(Demo)
    /\ Overlap \in BOOLEAN /\ WmMayStop \in BOOLEAN

VARIABLES
    pc,           \* where a session is
    waiting,      \* the number of the command it waits for, 0 if none
    todo,         \* the commands of its frame that are still to be sent
    targets,      \* its Targets
    cancelled,    \* its context is done
    cutOff,       \* what it gave up after it had sent it: "create" or a "later" command
    closedByUser  \* sessions whose window the user closed while they had no
                  \* reason to close it themselves

sessionVars == <<pc, waiting, todo, targets, cancelled, cutOff, closedByUser>>
vars == <<wmVars, feedVars, sessionVars>>

Drawing == {"draw", "redraw"}
Sending == {"create", "show", "close"} \cup Drawing

\* The command a session sends at each point.
CommandAt(c) ==
    IF pc[c] \in Drawing THEN Head(todo[c])
    ELSE [command |-> [create |-> "CREATE", show |-> "SHOW", close |-> "CLOSE"][pc[c]]]

\* Where it goes on when the command succeeds.
AfterSuccess(c) ==
    IF pc[c] \in Drawing /\ Len(todo[c]) > 1 THEN pc[c]
    ELSE [create |-> "draw", draw |-> "show", show |-> "main", redraw |-> "main",
          close |-> "done"][pc[c]]

\* The static demo has its Targets from the start, a fed Map has none.
Init ==
    /\ WmInit /\ FeedInit
    /\ pc = [c \in Clients |-> "start"]
    /\ waiting = [c \in Clients |-> 0]
    /\ targets = [c \in Clients |-> IF c = Fed THEN <<>> ELSE Demo]
    /\ todo = [c \in Clients |-> <<>>]
    /\ cancelled = [c \in Clients |-> FALSE]
    /\ cutOff = [c \in Clients |-> "none"] /\ closedByUser = {}

Goes(c, to) == pc' = [pc EXCEPT ![c] = to]

\* A session that stops waiting also drops a reply that came too late.
Leaves(c, to) ==
    /\ Goes(c, to)
    /\ waiting' = [waiting EXCEPT ![c] = 0]
    /\ replies' = [replies EXCEPT ![c] = "none"]

\* The event connection is closed when runMap returns, before the deferred
\* CLOSE if it returns from its loop.  WM forgets the client at its next event.
Unsubscribes(c) == eventClients' = eventClients \ {c}

\* Whether the context of RunWithBroker is done: it is cancelled from outside,
\* or by the deferred function once runMap has returned.
Gone == cancelled[Fed] \/ pc[Fed] \in {"done", "returned"}

-----------------------------------------------------------------------------
\* Unless Maps overlap, a demo is started after the fed Map has returned and WM
\* has handled what it had sent.
MayStart(c) ==
    c = Fed \/ Overlap \/ (pc[Fed] = "returned" /\ requests = {})

\* The first frame is built, and subscribe dials the event socket.
Subscribe(c) ==
    /\ pc[c] = "start" /\ MayStart(c)
    /\ todo' = [todo EXCEPT ![c] = BuildFrame(targets[c])]
    /\ IF running THEN dialing' = dialing \cup {c} /\ Goes(c, "subscribe")
       ELSE UNCHANGED dialing /\ Goes(c, "done")
    /\ IF c = Fed THEN StartFeed ELSE UNCHANGED feedVars
    /\ UNCHANGED <<windowVars, running, eventClients, events, requests, replies, waiting,
                   targets, cancelled, cutOff, closedByUser>>

\* The acknowledgement, or the end of the stream, or cancellation.
Subscribed(c) ==
    /\ pc[c] = "subscribe"
    /\ \/ /\ events[c] # <<>>
          /\ Goes(c, IF Head(events[c]) = "subscribed" THEN "create" ELSE "done")
          /\ events' = [events EXCEPT ![c] = Tail(@)]
          /\ UNCHANGED <<dialing, eventClients>>
       \/ /\ (~running /\ events[c] = <<>>) \/ cancelled[c]
          /\ Goes(c, "done")
          /\ dialing' = dialing \ {c} /\ Unsubscribes(c)
          /\ UNCHANGED events
    /\ UNCHANGED <<windowVars, feedVars, running, requests, replies, waiting, todo,
                   targets, cancelled, cutOff, closedByUser>>

\* A connection that no command under way uses.
FreshNumber(c) == 1 + Max({0} \cup {r.number : r \in {q \in requests : q.from = c}})

\* Client.Send: a connection of its own for every command.
Send(c) ==
    /\ pc[c] \in Sending /\ waiting[c] = 0
    /\ running /\ (pc[c] = "close" \/ ~cancelled[c])
    /\ waiting' = [waiting EXCEPT ![c] = FreshNumber(c)]
    /\ requests' = requests \cup {[from |-> c, number |-> FreshNumber(c), draw |-> CommandAt(c)]}
    /\ UNCHANGED <<windowVars, feedVars, serverVars, replies, pc, todo, targets, cancelled,
                   cutOff, closedByUser>>

SendSucceeds(c) ==
    /\ pc[c] \in Sending /\ replies[c] = "ok"
    /\ Leaves(c, AfterSuccess(c))
    /\ todo' = IF pc[c] \in Drawing THEN [todo EXCEPT ![c] = Tail(@)] ELSE todo
    /\ IF pc[c] = "close" THEN Unsubscribes(c) ELSE UNCHANGED eventClients
    /\ UNCHANGED <<windowVars, feedVars, running, dialing, events, requests, targets,
                   cancelled, cutOff, closedByUser>>

\* Every failure but that of CREATE leads to the deferred CLOSE.
AfterFailure(c) ==
    IF pc[c] \in {"create", "close"} THEN "done" ELSE "close"

StreamAfterFailure(c, to) ==
    IF to = "done" \/ (to = "close" /\ pc[c] = "redraw") THEN Unsubscribes(c)
    ELSE UNCHANGED eventClients

\* The rest of the frame is given up with its command.
Drops(c) == todo' = [todo EXCEPT ![c] = <<>>]

\* A redraw that finds no window ends the session like any other failure.
SendRejectedPlain(c) ==
    /\ pc[c] \in Sending /\ replies[c] \notin {"none", "ok"}
    /\ Leaves(c, AfterFailure(c))
    /\ StreamAfterFailure(c, AfterFailure(c))
    /\ Drops(c)
    /\ UNCHANGED <<windowVars, feedVars, running, dialing, events, requests, targets,
                   cancelled, cutOff, closedByUser>>

\* WM rejects the command; a redraw that finds no window waits for the event.
SendRejected(c) ==
    /\ pc[c] \in Sending /\ replies[c] \notin {"none", "ok"}
    /\ LET to == IF pc[c] = "redraw" /\ replies[c] = "no_window" THEN "await"
                 ELSE AfterFailure(c)
       IN  Leaves(c, to) /\ StreamAfterFailure(c, to)
    /\ Drops(c)
    /\ UNCHANGED <<windowVars, feedVars, running, dialing, events, requests, targets,
                   cancelled, cutOff, closedByUser>>

\* The connection fails: the context is done, WM is gone or the command times
\* out.  CLOSE has a context of its own.
ConnectionFails(c) ==
    \/ cancelled[c] /\ pc[c] # "close"
    \/ ~running
    \/ pc[c] \in TimesOut /\ waiting[c] # 0

\* WM may still handle the command.  CLOSE is the last one.
CutsOff(c) ==
    cutOff' = IF waiting[c] = 0 \/ pc[c] = "close" THEN cutOff
              ELSE [cutOff EXCEPT ![c] = IF pc[c] = "create" THEN "create" ELSE "later"]

\* The session leaves its window behind when a command fails.
SendGivesUpQuietly(c) ==
    /\ pc[c] \in Sending /\ ConnectionFails(c)
    /\ Leaves(c, "done")
    /\ Unsubscribes(c)
    /\ Drops(c) /\ CutsOff(c)
    /\ UNCHANGED <<windowVars, feedVars, running, dialing, events, requests, targets,
                   cancelled, closedByUser>>

SendGivesUp(c) ==
    /\ pc[c] \in Sending /\ ConnectionFails(c)
    /\ Leaves(c, AfterFailure(c))
    /\ StreamAfterFailure(c, AfterFailure(c))
    /\ Drops(c) /\ CutsOff(c)
    /\ UNCHANGED <<windowVars, feedVars, running, dialing, events, requests, targets,
                   cancelled, closedByUser>>

-----------------------------------------------------------------------------
\* The loop of runMap, and its wait inside a redraw: the event says that the
\* window is gone, so there is nothing to close.
WindowClosed(c) ==
    /\ pc[c] \in {"main", "await"}
    /\ events[c] # <<>> /\ Head(events[c]) = "window_close"
    /\ events' = [events EXCEPT ![c] = Tail(@)]
    /\ Goes(c, "done")
    /\ Unsubscribes(c)
    /\ UNCHANGED <<windowVars, feedVars, running, dialing, requests, replies, waiting,
                   todo, targets, cancelled, cutOff, closedByUser>>

\* Cancellation, the end of the event stream, or the timer of the wait, which
\* is long enough for an event that has been written.
Ends(c) ==
    /\ \/ pc[c] \in {"main", "await"} /\ cancelled[c]
       \/ pc[c] = "main" /\ ~running /\ events[c] = <<>>
       \/ pc[c] = "await" /\ events[c] = <<>>
    /\ Goes(c, "close")
    /\ Unsubscribes(c)
    /\ UNCHANGED <<windowVars, feedVars, running, dialing, events, requests, replies,
                   waiting, todo, targets, cancelled, cutOff, closedByUser>>

feedExceptChannels == <<brokerUp, wire, sentLines, feed, afterNotice, unpublished, offered, received>>

\* A Target for which the map is drawn already is not drawn again.
UpdateOnlyNew ==
    /\ pc[Fed] = "main" /\ updates # <<>>
    /\ updates' = Tail(updates)
    /\ targets' = [targets EXCEPT ![Fed] = Merge(@, Head(updates))]
    /\ IF \E i \in DOMAIN targets[Fed] : targets[Fed][i].targetId = Head(updates).targetId
       THEN UNCHANGED <<pc, todo>>
       ELSE Goes(Fed, "redraw") /\ todo' = [todo EXCEPT ![Fed] = BuildFrame(targets'[Fed])]
    /\ UNCHANGED <<wmVars, feedExceptChannels, notices, waiting, cancelled, cutOff, closedByUser>>

\* A Target update: the Targets change and the whole frame is drawn again.  A
\* closed channel is set to nil and never received from again.
Update ==
    /\ pc[Fed] = "main" /\ updates # <<>>
    /\ updates' = Tail(updates)
    /\ targets' = [targets EXCEPT ![Fed] = Merge(@, Head(updates))]
    /\ IF FrameAccepts(targets'[Fed])
       THEN /\ Goes(Fed, "redraw")
            /\ todo' = [todo EXCEPT ![Fed] = BuildFrame(targets'[Fed])]
            /\ UNCHANGED eventClients
       ELSE Goes(Fed, "close") /\ Unsubscribes(Fed) /\ UNCHANGED todo
    /\ UNCHANGED <<windowVars, running, dialing, events, requests, replies, feedExceptChannels,
                   notices, waiting, cancelled, cutOff, closedByUser>>

\* A notice is written to the log.
LogNotice ==
    /\ pc[Fed] = "main" /\ notices > 0
    /\ notices' = notices - 1
    /\ UNCHANGED <<wmVars, feedExceptChannels, updates, sessionVars>>

\* The deferred function of RunWithBroker: it waits for the feed.  What the
\* process held goes with it.
Returns(c) ==
    /\ pc[c] = "done" /\ (c = Fed => feed = "ended")
    /\ Goes(c, "returned")
    /\ events' = [events EXCEPT ![c] = <<>>]
    /\ todo' = [todo EXCEPT ![c] = <<>>] /\ targets' = [targets EXCEPT ![c] = <<>>]
    /\ cancelled' = [cancelled EXCEPT ![c] = FALSE]
    /\ cutOff' = IF cutOff[c] = "later" THEN [cutOff EXCEPT ![c] = "none"] ELSE cutOff
    /\ closedByUser' = closedByUser \ {c}
    /\ IF c = Fed THEN DropFeed ELSE UNCHANGED feedVars
    /\ UNCHANGED <<windowVars, running, dialing, eventClients, requests, replies, waiting>>

Cancel(c) ==
    /\ pc[c] \in Cancellable /\ ~cancelled[c]
    /\ cancelled' = [cancelled EXCEPT ![c] = TRUE]
    /\ UNCHANGED <<wmVars, feedVars, pc, waiting, todo, targets, cutOff, closedByUser>>

\* The steps a session takes by itself once it has been started.
Session(c) ==
    \/ Subscribed(c) \/ Send(c) \/ SendSucceeds(c) \/ SendRejected(c) \/ SendGivesUp(c)
    \/ WindowClosed(c) \/ Ends(c) \/ Returns(c)
    \/ c = Fed /\ (Update \/ LogNotice)

Feeds == FeedStep(Gone) /\ UNCHANGED <<wmVars, sessionVars>>

HandleAny == \E r \in requests : Handle(r, waiting) /\ UNCHANGED <<feedVars, sessionVars>>

AcceptAny == \E c \in Clients : AcceptEvents(c) /\ UNCHANGED <<feedVars, sessionVars>>

NativeClose ==
    /\ PollClose
    /\ closedByUser' = IF pc[window] = "close" \/ replies[window] = "error" THEN closedByUser
                       ELSE closedByUser \cup {window}
    /\ UNCHANGED <<feedVars, pc, waiting, todo, targets, cancelled, cutOff>>

Next ==
    \/ \E c \in Clients : Subscribe(c) \/ Session(c) \/ Cancel(c)
    \/ Feeds
    \/ (BrokerSends \/ BrokerGoes) /\ UNCHANGED <<wmVars, sessionVars>>
    \/ AcceptAny
    \/ HandleAny
    \/ NativeClose
    \/ UserCloses /\ UNCHANGED <<feedVars, sessionVars>>
    \/ WmMayStop /\ (Quit \/ Stop) /\ UNCHANGED <<feedVars, sessionVars>>

Spec == Init /\ [][Next]_vars

\* The goroutines of a session, of its feed and of WM go on; users, the Broker
\* and signals may come or not.
FairSpec ==
    /\ Spec
    /\ \A c \in Clients : WF_vars(Session(c))
    /\ WF_vars(Feeds)
    /\ WF_vars(AcceptAny)
    /\ WF_vars(HandleAny)

-----------------------------------------------------------------------------
\* What the window shows is one whole frame: what the local preview paints for
\* one list of Targets of one session, whatever commands were cut off by a
\* close, a time-out or a cancellation.  A frame that breaks the drawing
\* contract of the preview, such as a circle outside the image, is none.
FrontIsWhole ==
    front # {} =>
        \E l \in front : front = {[of |-> l.of, draw |-> d] : d \in RenderPreview(BuildFrame(l.draw.shows))}

\* Map does not send CLOSE for a window that the user has closed, unless it is
\* told to stop at the same time, WM is gone or a command has timed out: a
\* redraw that meets the closed window waits for the event.
NoDuplicateClose ==
    \A c \in closedByUser : pc[c] = "close" => cancelled[c] \/ ~running \/ cutOff[c] # "none"

\* A session that has ended leaves no window behind, at whatever point it was
\* cancelled or a command timed out: it has closed it, or its CLOSE is still on
\* the way.  The one exception is a CREATE that was given up and that WM handles
\* all the same: runMap returns before it has deferred the CLOSE.
NoOrphanWindow ==
    \A c \in Clients : pc[c] \in {"done", "returned"} /\ window = c =>
        \/ \E r \in requests : r.from = c /\ r.draw.command = "CLOSE"
        \/ cutOff[c] = "create"

\* A close event of SDL that waits to be polled was made on the window there is
\* now, so that WM never closes a window for the close control of an earlier one.
NoStaleClose ==
    window # NoWindow /\ CloseEvents \cap Range(native) # {} => clicked

\* No line of the Broker ends the session: whatever passes parseTarget and is
\* merged into the Targets, BuildFrame accepts.
FeedLinesHarmless == \A c \in Clients : FrameAccepts(targets[c])

\* The newest Targets are shown in the end: while the session and its window
\* last, the frame in the window comes to show the last Target received for
\* every identifier, those inside the map and no others.
LatestShown ==
    []<>(\/ pc[Fed] \notin {"main", "redraw"} \/ window # Fed
         \/ {l.draw.target : l \in {k \in front : k.draw.command = "DRAW_CIRCLE"}}
              = {t \in received : Inside(t)})

\* After the user has closed the window of a session the session ends; and once
\* runMap has returned, RunWithBroker returns too, whatever the feed waits for.
SessionEnds ==
    \A c \in Clients : (c \in closedByUser \/ pc[c] = "done") ~> pc[c] = "returned"

====
