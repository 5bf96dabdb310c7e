---------------------------- MODULE WindowManager ----------------------------
(***************************************************************************)
(* window-manager/server/server.go: one event loop that owns the window    *)
(* and handles one command per connection, and an event socket on which    *)
(* subscribers learn of the native close control.  A command is read by a  *)
(* goroutine of its connection, so commands whose client has given up are  *)
(* still handled, in any order.  The window is that of one of the two      *)
(* backends: sdl_enabled.go, whose user can close it, and headless.go.     *)
(***************************************************************************)
EXTENDS Integers, Sequences, Functions

CONSTANTS
    Clients,      \* processes that use WM
    NoWindow,
    Backends      \* the backends WM may be started with

ASSUME WindowManagerAssumption == NoWindow \notin Clients

VARIABLES
    backend,      \* "sdl" or "headless"
    window,       \* the client whose CREATE made the window, or NoWindow
    visible,      \* it has been shown
    back, front,  \* its two buffers: the set of commands painted in each
    native,       \* SDL's event queue
    clicked,      \* the user has used the close control of this window
    running,      \* Run has not returned
    dialing,      \* clients that wait for the event socket's Accept
    eventClients, \* the subscribers
    events,       \* what a client can read from the event socket
    requests,     \* commands that reached WM and are not handled
    replies       \* the reply to a client's last command

windowVars == <<backend, window, visible, back, front, native, clicked>>
serverVars == <<running, dialing, eventClients, events>>
wmVars == <<windowVars, serverVars, requests, replies>>

WmInit ==
    /\ backend \in Backends
    /\ window = NoWindow /\ visible = FALSE
    /\ back = {} /\ front = {} /\ native = <<>> /\ clicked = FALSE
    /\ running = TRUE
    /\ dialing = {} /\ eventClients = {}
    /\ events = [c \in Clients |-> <<>>]
    /\ requests = {}
    /\ replies = [c \in Clients |-> "none"]

\* A request is [from, number, draw]; a client that has sent a later command,
\* or has hung up, does not get the reply to an earlier one.
Reply(r, waiting, answer) ==
    replies' = IF waiting[r.from] = r.number THEN [replies EXCEPT ![r.from] = answer]
               ELSE replies

-----------------------------------------------------------------------------
(* The backends *)

\* What a drawing command leaves in a buffer.
Painted(r) == [of |-> r.from, draw |-> r.draw]

CreateWindow(r) ==
    window' = r.from /\ UNCHANGED <<backend, visible, back, front, native, clicked>>

ShowWindow == visible' = TRUE /\ UNCHANGED <<backend, window, back, front, native, clicked>>

\* The new frame starts from what is in the buffer.
BeginFrameKeeps(r) ==
    back' = back \cup {Painted(r)} /\ UNCHANGED <<backend, window, visible, front, native, clicked>>

\* The back buffer is filled.
BeginFrame(r) ==
    back' = {Painted(r)} /\ UNCHANGED <<backend, window, visible, front, native, clicked>>

\* An image or a circle is painted over the back buffer.
Draw(r) ==
    back' = back \cup {Painted(r)} /\ UNCHANGED <<backend, window, visible, front, native, clicked>>

\* The back buffer is copied to the window.
Present == front' = back /\ UNCHANGED <<backend, window, visible, back, native, clicked>>

\* Errors: calls of SDL, which undo a creation but not a change of the window or
\* of its surface that they report late, and images that cannot be read.
CreateFails == backend = "sdl" /\ UNCHANGED windowVars

ShowFails == backend = "sdl" /\ ShowWindow

DrawFails == UNCHANGED windowVars

PresentFails == backend = "sdl" /\ (Present \/ UNCHANGED windowVars)

\* SDL is not shut down: its queue outlives the window.
CloseWindowOnly ==
    /\ window' = NoWindow /\ visible' = FALSE /\ back' = {} /\ front' = {}
    /\ clicked' = FALSE
    /\ UNCHANGED <<backend, native>>

\* Close of a backend: the window is destroyed and SDL is shut down, which
\* empties its event queue.
CloseWindow ==
    /\ window' = NoWindow /\ visible' = FALSE /\ back' = {} /\ front' = {}
    /\ native' = <<>> /\ clicked' = FALSE
    /\ UNCHANGED backend

\* SDL reports the close control of its only window as a window event and then
\* as a request to quit.  PollEvents drops every other event.
UserCloses ==
    /\ running /\ backend = "sdl" /\ visible /\ ~clicked
    /\ native' = native \o <<"close", "quit">>
    /\ clicked' = TRUE
    /\ UNCHANGED <<backend, window, visible, back, front, serverVars, requests, replies>>

CloseEvents == {"close", "quit"}

\* pollWindowEvents: PollEvents stops at the first request to close.  The
\* window is destroyed and the event is broadcast before mu is released.
PollClose ==
    /\ running /\ window # NoWindow /\ CloseEvents \cap Range(native) # {}
    /\ CloseWindow
    /\ events' = [c \in Clients |-> IF c \in eventClients THEN Append(events[c], "window_close")
                                    ELSE events[c]]
    /\ UNCHANGED <<running, dialing, eventClients, requests, replies>>

-----------------------------------------------------------------------------
\* The goroutine of the event listener: register and acknowledge, under mu
\* and eventMu.
AcceptEvents(c) ==
    /\ running /\ c \in dialing
    /\ dialing' = dialing \ {c}
    /\ eventClients' = eventClients \cup {c}
    /\ events' = [events EXCEPT ![c] = Append(@, "subscribed")]
    /\ UNCHANGED <<windowVars, running, requests, replies>>

Is(r, name) == r.draw.command = name

\* handleRequest on the event loop, with no window.
HandleWithoutWindow(r, waiting) ==
    /\ window = NoWindow /\ ~Is(r, "CREATE")
    /\ Reply(r, waiting, "no_window")
    /\ UNCHANGED windowVars

HandleCreate(r, waiting) ==
    /\ Is(r, "CREATE")
    /\ IF window # NoWindow THEN Reply(r, waiting, "exists") /\ UNCHANGED windowVars
       ELSE Reply(r, waiting, "ok") /\ CreateWindow(r)

\* The backend reports an error.
HandleFails(r, waiting) ==
    /\ \/ Is(r, "CREATE") /\ window = NoWindow /\ CreateFails
       \/ Is(r, "SHOW") /\ window # NoWindow /\ ShowFails
       \/ Is(r, "DRAW_IMAGE") /\ window # NoWindow /\ DrawFails
       \/ Is(r, "PRESENT") /\ window # NoWindow /\ PresentFails
    /\ Reply(r, waiting, "error")

HandleBeginFrame(r, waiting) ==
    /\ Is(r, "BEGIN_FRAME") /\ window # NoWindow
    /\ BeginFrame(r) /\ Reply(r, waiting, "ok")

HandleDraw(r, waiting) ==
    /\ Is(r, "DRAW_IMAGE") \/ Is(r, "DRAW_CIRCLE")
    /\ window # NoWindow
    /\ Draw(r) /\ Reply(r, waiting, "ok")

HandlePresent(r, waiting) ==
    /\ Is(r, "PRESENT") /\ window # NoWindow
    /\ Present /\ Reply(r, waiting, "ok")

HandleShow(r, waiting) ==
    /\ Is(r, "SHOW") /\ window # NoWindow
    /\ ShowWindow /\ Reply(r, waiting, "ok")

\* CLOSE closes the window there is; window_id is not compared.
HandleClose(r, waiting) ==
    /\ Is(r, "CLOSE") /\ window # NoWindow
    /\ CloseWindow
    /\ Reply(r, waiting, "ok")

Handle(r, waiting) ==
    /\ running /\ r \in requests
    /\ requests' = requests \ {r}
    /\ \/ HandleWithoutWindow(r, waiting) \/ HandleCreate(r, waiting) \/ HandleFails(r, waiting)
       \/ HandleBeginFrame(r, waiting) \/ HandleDraw(r, waiting) \/ HandlePresent(r, waiting)
       \/ HandleShow(r, waiting) \/ HandleClose(r, waiting)
    /\ UNCHANGED serverVars

\* QUIT from some other client closes the window without an event.  WM goes on
\* until its loop sees the stop channel, or for good when the answer to QUIT
\* cannot be written.
Quit ==
    /\ running /\ window # NoWindow
    /\ CloseWindow
    /\ UNCHANGED <<running, dialing, eventClients, events, requests, replies>>

\* The loop sees the stop channel, a signal or a failed poll: Run returns, the
\* window goes with the process and every connection is closed.
Stop ==
    /\ running
    /\ running' = FALSE
    /\ CloseWindow
    /\ dialing' = {} /\ eventClients' = {} /\ requests' = {}
    /\ UNCHANGED <<events, replies>>

====
