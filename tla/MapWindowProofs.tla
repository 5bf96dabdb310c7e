---------------------------- MODULE MapWindowProofs ----------------------------
(***************************************************************************)
(* What Map knows of its window, and what the window shows.                *)
(*                                                                         *)
(* Closing: a session whose window the user has closed has been told, or   *)
(* is about to be.                                                         *)
(* Pictures: the back buffer holds the commands of a frame up to the next  *)
(* one, and the front buffer nothing or a whole frame.                     *)
(***************************************************************************)
EXTENDS MapSessionProofs

(* The native close control *)

\* What a client has learnt when the user has closed its window.
Heard(c) ==
    /\ pc[c] \in {"show", "main", "redraw", "await", "close"} \cup Over
    /\ pc[c] \in {"show", "main", "redraw", "await"} =>
          events[c] # <<>> /\ replies[c] # "error" /\ (pc[c] = "show" => replies[c] = "ok")
    /\ pc[c] = "close" => cancelled[c] \/ ~running \/ cutOff[c] # "none"

\* A window is visible from SHOW on.
Seeing(c) ==
    /\ replies[c] = "exists" => pc[c] = "create"
    /\ visible /\ window = c =>
          pc[c] \notin {"create", "draw"} /\ (pc[c] = "show" => replies[c] \in {"ok", "error"})
    /\ c \in closedByUser => Heard(c)

Closing == \A c \in Clients : Seeing(c)

CutOffTyped == DOMAIN cutOff = Clients

\* Nothing that matters changes for d.
Still(d) ==
    /\ pc'[d] = pc[d] /\ replies'[d] = replies[d]
    /\ cancelled[d] => cancelled'[d]
    /\ cutOff[d] # "none" => cutOff'[d] # "none"
    /\ ~running => ~running'
    /\ events[d] # <<>> => events'[d] # <<>>
    /\ d \in closedByUser' => d \in closedByUser
    /\ visible' /\ window' = d => visible /\ window = d

\* Every step keeps what a client knows of its window.
LEMMA ClosingStep ==
    ASSUME OneByOne, Base, Sketches, Orderly, Closing, CutOffTyped
    PROVE  Base' /\ [Next]_vars => Closing'
<1>StillSeeing. ASSUME NEW d, Seeing(d), Still(d)
                PROVE  Seeing(d)'
  <2> USE <1>StillSeeing
  <2>1. Heard(d) => Heard(d)'
    BY Zenon DEF Heard, Still
  <2> QED BY <2>1, Zenon DEF Seeing, Still
<1>OneSees. ASSUME NEW c \in Clients, \A d \in Clients \ {c} : Still(d), Seeing(c)'
            PROVE  Closing'
  BY <1>OneSees, <1>StillSeeing, Zenon DEF Closing
<1>NothingSeen. ASSUME \A d \in Clients : Still(d)
                PROVE  Closing'
  BY <1>NothingSeen, <1>StillSeeing, Zenon DEF Closing
<1>Subscribes. ASSUME NEW c \in Clients, Subscribe(c) \/ Subscribed(c)
               PROVE  Closing'
  <2> USE <1>Subscribes
  <2>1. /\ pc[c] \in {"start", "subscribe"} /\ DOMAIN pc = Clients /\ DOMAIN events = Clients
        /\ \E to : pc' = [pc EXCEPT ![c] = to]
        /\ replies' = replies /\ cancelled' = cancelled /\ running' = running /\ closedByUser' = closedByUser
        /\ cutOff' = cutOff
        /\ visible' = visible /\ window' = window
        /\ \A d \in Clients \ {c} : events'[d] = events[d]
    BY Zenon DEF Subscribe, Subscribed, Goes, windowVars, Base, TypeOK
  <2>2. replies[c] = "none" /\ window # c
    BY <2>1, Unheard, Zenon
  <2>3. c \notin closedByUser
    <3>1. pc[c] \notin {"show", "main", "redraw", "await", "close"} \cup Over
      BY <2>1 DEF Over
    <3> QED BY <3>1, Zenon DEF Closing, Seeing, Heard
  <2>4. Seeing(c)'
    BY <2>1, <2>2, <2>3, Zenon DEF Seeing
  <2>5. \A d \in Clients \ {c} : Still(d)
    BY <2>1, Zenon DEF Still
  <2> QED BY <2>4, <2>5, <1>OneSees, Zenon
<1>Quiet. ASSUME UNCHANGED <<pc, replies, cancelled, cutOff, running, events, closedByUser, window, visible>>
          PROVE  Closing'
  <2> USE <1>Quiet
  <2>1. \A d \in Clients : Still(d)
    BY Zenon DEF Still
  <2> QED BY <2>1, <1>NothingSeen, Zenon
<1>Cancel. ASSUME NEW c \in Clients, Cancel(c)
           PROVE  Closing'
  <2> USE <1>Cancel
  <2>1. /\ cancelled' = [cancelled EXCEPT ![c] = TRUE] /\ DOMAIN cancelled = Clients
        /\ UNCHANGED <<pc, replies, running, events, cutOff, closedByUser, window, visible>>
    BY Zenon DEF Cancel, wmVars, windowVars, serverVars, Base, TypeOK
  <2>2. \A d \in Clients : Still(d)
    BY <2>1, Zenon DEF Still
  <2> QED BY <2>2, <1>NothingSeen, Zenon
<1>Accept. ASSUME NEW c \in Clients, AcceptEvents(c) /\ UNCHANGED <<feedVars, sessionVars>>
           PROVE  Closing'
  <2> USE <1>Accept
  <2>1. /\ events' = [events EXCEPT ![c] = Append(@, "subscribed")] /\ DOMAIN events = Clients
        /\ UNCHANGED <<pc, replies, running, cancelled, cutOff, closedByUser, window, visible>>
    BY Zenon DEF AcceptEvents, windowVars, sessionVars, Base, TypeOK
  <2>2. events[c] \in Seq({"subscribed", "window_close"})
    BY Zenon DEF Base, TypeOK
  <2>3. Append(events[c], "subscribed") # <<>>
    BY <2>2, AppendProperties
  <2>4. \A d \in Clients : Still(d)
    BY <2>1, <2>3, Zenon DEF Still
  <2> QED BY <2>4, <1>NothingSeen, Zenon
<1>Quit. ASSUME Quit \/ Stop, UNCHANGED <<feedVars, sessionVars>>
         PROVE  Closing'
  <2> USE <1>Quit
  <2>1. /\ window' = NoWindow /\ visible' = FALSE /\ (running' = running \/ running' = FALSE)
        /\ UNCHANGED <<pc, replies, events, cancelled, cutOff, closedByUser>>
    BY Zenon DEF Quit, Stop, CloseWindow, sessionVars
  <2>2. \A d \in Clients : Still(d)
    BY <2>1, Zenon DEF Still
  <2> QED BY <2>2, <1>NothingSeen, Zenon
\* A session goes on, or ends.
<1>GoesOn. ASSUME NEW c \in Clients, NEW to, pc' = [pc EXCEPT ![c] = to], replies'[c] = "none",
                  \A d \in Clients \ {c} : /\ replies'[d] = replies[d] /\ events'[d] = events[d]
                                           /\ cutOff'[d] = cutOff[d],
                  UNCHANGED <<running, cancelled, closedByUser, visible, window>>,
                  visible /\ window = c => to \notin {"create", "draw", "show"},
                  c \in closedByUser => \/ to \in Over
                                        \/ to \in {"main", "redraw", "await"} /\ events'[c] # <<>>
                                        \/ to = "close" /\ (cancelled[c] \/ ~running \/ cutOff'[c] # "none")
           PROVE  Closing'
  <2> USE <1>GoesOn
  <2>1. DOMAIN pc = Clients /\ pc'[c] = to
    BY Zenon DEF Base, TypeOK
  <2>2. \A d \in Clients \ {c} : Still(d)
    BY <2>1, Zenon DEF Still
  <2>3. c \in closedByUser' => Heard(c)'
    BY <2>1, Zenon DEF Heard, Over
  <2>4. Seeing(c)'
    BY <2>1, <2>3, Zenon DEF Seeing
  <2> QED BY <2>2, <2>4, <1>OneSees, Zenon
<1>Succeeds. ASSUME NEW c \in Clients, SendSucceeds(c)
             PROVE  Closing'
  <2> USE <1>Succeeds
  <2>1. PICK to : to = AfterSuccess(c)
    BY Zenon
  <2>2. /\ pc[c] \in Sending /\ replies[c] = "ok" /\ pc' = [pc EXCEPT ![c] = to]
        /\ replies' = [replies EXCEPT ![c] = "none"] /\ DOMAIN replies = Clients
        /\ UNCHANGED <<running, cancelled, cutOff, closedByUser, visible, window, events>>
    BY <2>1, Zenon DEF SendSucceeds, Leaves, Goes, windowVars, Base, TypeOK
  <2>3. /\ pc[c] \in {"create", "draw"} => to \in {"draw", "show"}
        /\ pc[c] \in {"show", "redraw"} => to \in {"main", "redraw"}
        /\ pc[c] = "close" => to = "done"
    BY <2>1, Successor, Zenon
  <2>4. Seeing(c)
    BY Zenon DEF Closing
  <2>5. visible /\ window = c => pc[c] \in {"show", "redraw", "close"}
    BY <2>2, <2>4, Zenon DEF Seeing, Sending, Drawing
  <2>6. c \in closedByUser => pc[c] \in {"show", "redraw", "close"} /\ (pc[c] # "close" => events[c] # <<>>)
    BY <2>2, <2>4, Zenon DEF Seeing, Heard, Sending, Drawing, Over
  <2>7. visible /\ window = c => to \notin {"create", "draw", "show"}
    BY <2>3, <2>5, Zenon
  <2>8. c \in closedByUser => to \in Over \/ (to \in {"main", "redraw", "await"} /\ events'[c] # <<>>)
    BY <2>2, <2>3, <2>6, Zenon DEF Over
  <2> QED BY <2>2, <2>7, <2>8, <1>GoesOn, Zenon
<1>Rejected. ASSUME NEW c \in Clients, SendRejected(c)
             PROVE  Closing'
  <2> USE <1>Rejected
  <2>1. PICK to : to = IF pc[c] = "redraw" /\ replies[c] = "no_window" THEN "await" ELSE AfterFailure(c)
    BY Zenon
  <2>2. /\ pc[c] \in Sending /\ replies[c] \notin {"none", "ok"} /\ pc' = [pc EXCEPT ![c] = to]
        /\ replies' = [replies EXCEPT ![c] = "none"] /\ DOMAIN replies = Clients /\ replies[c] \in Answers
        /\ UNCHANGED <<running, cancelled, cutOff, closedByUser, visible, window, events>>
    BY <2>1, Zenon DEF SendRejected, Leaves, Goes, windowVars, Base, TypeOK
  <2>3. to \in {"await", "close", "done"} /\ (pc[c] = "close" => to = "done")
        /\ (pc[c] = "redraw" /\ replies[c] = "no_window" => to = "await")
    BY <2>1, Zenon DEF AfterFailure
  <2>4. Seeing(c)
    BY Zenon DEF Closing
  <2>5. c \in closedByUser => pc[c] = "close" \/ (pc[c] = "redraw" /\ events[c] # <<>> /\ replies[c] # "error")
    BY <2>2, <2>4, Zenon DEF Seeing, Heard, Sending, Drawing, Over
  <2>6. pc[c] = "redraw" /\ replies[c] # "error" => replies[c] = "no_window"
    BY <2>2, <2>4, Zenon DEF Answers, Seeing
  <2>7. c \in closedByUser => to \in Over \/ (to \in {"main", "redraw", "await"} /\ events'[c] # <<>>)
    BY <2>2, <2>3, <2>5, <2>6, Zenon DEF Over
  <2>8. to \notin {"create", "draw", "show"}
    BY <2>3
  <2> QED BY <2>2, <2>7, <2>8, <1>GoesOn, Zenon
<1>GivesUp. ASSUME NEW c \in Clients, SendGivesUp(c)
            PROVE  Closing'
  <2> USE <1>GivesUp
  <2>1. PICK to : to = AfterFailure(c)
    BY Zenon
  <2>2. /\ pc[c] \in Sending /\ ConnectionFails(c) /\ pc' = [pc EXCEPT ![c] = to]
        /\ replies' = [replies EXCEPT ![c] = "none"] /\ DOMAIN replies = Clients
        /\ UNCHANGED <<running, cancelled, closedByUser, visible, window, events>>
    BY <2>1, Zenon DEF SendGivesUp, Leaves, Goes, windowVars, Base, TypeOK
  <2>3. to \in {"close", "done"} /\ (pc[c] = "close" => to = "done")
    BY <2>1, Zenon DEF AfterFailure
  <2>4. c \in closedByUser => pc[c] \in {"close", "show", "redraw"}
    BY <2>2, Zenon DEF Closing, Seeing, Heard, Sending, Drawing, Over
  <2>c. /\ \A d \in Clients \ {c} : cutOff'[d] = cutOff[d]
        /\ waiting[c] # 0 /\ pc[c] # "close" => cutOff'[c] # "none"
    BY Zenon DEF SendGivesUp, CutsOff, CutOffTyped
  <2>5. pc[c] \in {"show", "redraw"} => cancelled[c] \/ ~running \/ cutOff'[c] # "none"
    BY <2>2, <2>c, Zenon DEF ConnectionFails
  <2>6. c \in closedByUser => to \in Over \/ (to = "close" /\ (cancelled[c] \/ ~running \/ cutOff'[c] # "none"))
    BY <2>3, <2>4, <2>5, Zenon DEF Over
  <2>7. to \notin {"create", "draw", "show"}
    BY <2>3
  <2> QED BY <2>2, <2>c, <2>6, <2>7, <1>GoesOn, Zenon
<1>Loop. ASSUME NEW c \in Clients, NEW to, (to = "done" /\ WindowClosed(c)) \/ (to = "close" /\ Ends(c))
         PROVE  Closing'
  <2> USE <1>Loop
  <2>1. /\ pc[c] \in {"main", "await"} /\ pc' = [pc EXCEPT ![c] = to] /\ replies' = replies
        /\ UNCHANGED <<running, cancelled, cutOff, closedByUser, visible, window>>
    BY Zenon DEF WindowClosed, Ends, Goes, windowVars
  <2>2. DOMAIN events = Clients
    BY Zenon DEF Base, TypeOK
  <2>3. \A d \in Clients \ {c} : events'[d] = events[d]
    BY <2>2, Zenon DEF WindowClosed, Ends
  <2>4. replies[c] = "none"
    BY <2>1, Settled, Zenon
  <2>5. to \in {"close", "done"}
    BY Zenon
  <2>6. to = "close" => cancelled[c] \/ ~running \/ events[c] = <<>>
    BY <2>5, Zenon DEF Ends
  <2>7. c \in closedByUser => events[c] # <<>>
    BY <2>1, Zenon DEF Closing, Seeing, Heard
  <2>8. c \in closedByUser => to \in Over \/ (to = "close" /\ (cancelled[c] \/ ~running))
    BY <2>5, <2>6, <2>7, Zenon DEF Over
  <2>9. to \notin {"create", "draw", "show"}
    BY <2>5
  <2> QED BY <2>1, <2>3, <2>4, <2>8, <2>9, <1>GoesOn, Zenon
<1>Update. ASSUME Update, Base'
           PROVE  Closing'
  <2> USE <1>Update
  <2>1. Fed \in Clients /\ targets' \in [Clients -> Accepted]
    BY MapSessionAssumption, Zenon DEF Base, TypeOK
  <2>2. FrameAccepts(targets'[Fed])
    BY <2>1, Zenon DEF Accepted
  <2>3. /\ pc[Fed] = "main" /\ pc' = [pc EXCEPT ![Fed] = "redraw"] /\ replies' = replies /\ events' = events
        /\ UNCHANGED <<running, cancelled, cutOff, closedByUser, visible, window>>
    BY <2>2, Zenon DEF Update, Goes, windowVars
  <2>4. replies[Fed] = "none"
    BY <2>1, <2>3, Settled, Zenon
  <2>5. Fed \in closedByUser => events[Fed] # <<>>
    BY <2>1, <2>3, Zenon DEF Closing, Seeing, Heard
  <2> QED BY <2>1, <2>3, <2>4, <2>5, <1>GoesOn, Zenon
<1>Returns. ASSUME NEW c \in Clients, Returns(c)
            PROVE  Closing'
  <2> USE <1>Returns
  <2>1. /\ pc[c] = "done" /\ pc' = [pc EXCEPT ![c] = "returned"] /\ DOMAIN pc = Clients
        /\ events' = [events EXCEPT ![c] = <<>>] /\ DOMAIN events = Clients
        /\ cancelled' = [cancelled EXCEPT ![c] = FALSE] /\ DOMAIN cancelled = Clients
        /\ closedByUser' = closedByUser \ {c}
        /\ \A d \in Clients \ {c} : cutOff'[d] = cutOff[d]
        /\ UNCHANGED <<running, visible, window, replies>>
    BY Zenon DEF Returns, Goes, windowVars, Base, TypeOK, CutOffTyped
  <2>2. \A d \in Clients \ {c} : Still(d)
    BY <2>1, Zenon DEF Still
  <2>3. replies[c] = "none"
    BY <2>1, Zenon DEF Orderly, Asking, Sending, Drawing
  <2>4. Seeing(c)'
    BY <2>1, <2>3, Zenon DEF Seeing
  <2> QED BY <2>2, <2>4, <1>OneSees, Zenon
<1>Handle. ASSUME NEW r \in requests, Handle(r, waiting) /\ UNCHANGED <<feedVars, sessionVars>>
           PROVE  Closing'
  <2> USE <1>Handle
  <2>1. PICK answer : Handled(r, answer)
    BY Handling
  <2>2. PICK c \in Clients : c = r.from
    BY Zenon DEF Base, TypeOK
  <2>3. /\ UNCHANGED <<running, events, pc, cancelled, cutOff, closedByUser>> /\ DOMAIN replies = Clients
    BY Zenon DEF Handle, serverVars, sessionVars, Base, TypeOK
  <2>4. /\ replies' = (IF waiting[c] = r.number THEN [replies EXCEPT ![c] = answer] ELSE replies)
        /\ answer # "none"
    BY <2>1, <2>2, Zenon DEF Handled, Reply
  <2>5. window \in {c, NoWindow} /\ window' \in {c, NoWindow}
    <3>1. window \in {c, NoWindow}
      BY <2>2, Alone, Zenon
    <3> QED BY <2>1, <2>2, <3>1, Zenon DEF Handled
  <2>6. /\ r.number = waiting[c] => pc[c] \in Sending /\ replies[c] = "none" /\ r.draw = CommandAt(c)
        /\ r.number # waiting[c] => pc[c] \in {"close"} \cup Over
        /\ Is(r, "CREATE") => pc[c] = "create" /\ r.number = waiting[c]
        /\ pc[c] \in Sending \cup Over
    BY <2>2, Sender, Zenon
  <2>7. Seeing(c) /\ Owning(c)
    BY Zenon DEF Closing, Orderly
  <2>8. \A d \in Clients \ {c} : Still(d)
    <3> SUFFICES ASSUME NEW d \in Clients \ {c} PROVE Still(d)
      BY Zenon
    <3>1. replies'[d] = replies[d]
      BY <2>3, <2>4, Zenon
    <3>2. d # c /\ d # NoWindow
      BY WindowManagerAssumption, Zenon
    <3>3. window' # d
      BY <2>5, <3>2, Zenon
    <3> QED BY <2>3, <3>1, <3>3, Zenon DEF Still
  <2>9. /\ r.number = waiting[c] => replies'[c] = answer
        /\ r.number # waiting[c] => replies'[c] = replies[c]
    BY <2>3, <2>4, Zenon
  <2>10. c # NoWindow
    BY WindowManagerAssumption, Zenon
  <2>11. replies'[c] = "exists" => pc'[c] = "create"
    <3>1. answer = "exists" => Is(r, "CREATE")
      BY <2>1, Zenon DEF Handled
    <3> QED BY <2>3, <2>6, <2>7, <2>9, <3>1, Zenon DEF Seeing
  <2>12. ASSUME visible', window' = c
         PROVE  pc'[c] \notin {"create", "draw"} /\ (pc'[c] = "show" => replies'[c] \in {"ok", "error"})
    <3>1. HandledView(r)
      BY HandlingView, Zenon
    <3>2. CASE visible
      <4>1. window = c
        BY <2>5, <3>2, Zenon DEF Base, Clicks
      <4>2. pc[c] \notin {"create", "draw"} /\ (pc[c] = "show" => replies[c] \in {"ok", "error"})
        BY <2>7, <3>2, <4>1, Zenon DEF Seeing
      <4>3. pc[c] # "show"
        BY <2>6, <4>2, Zenon DEF Over
      <4> QED BY <2>3, <4>2, <4>3, Zenon
    <3>3. CASE ~visible
      <4>1. Is(r, "SHOW") /\ window # NoWindow
        BY <2>10, <2>12, <3>1, <3>3, Zenon DEF HandledView
      <4>2. ~Is(r, "CREATE")
        BY <4>1 DEF Is
      <4>3. answer \in {"ok", "error"}
        BY <2>1, <4>1, <4>2, Zenon DEF Handled
      <4>4. ASSUME r.number = waiting[c] PROVE pc[c] \notin {"create", "draw"}
        <5>1. CommandAt(c).command = "SHOW"
          BY <2>6, <4>1, <4>4, Zenon DEF Is
        <5>2. pc[c] # "create"
          BY <5>1, CommandIs
        <5>3. pc[c] \notin Drawing
          BY <5>1, DrawingCommand
        <5> QED BY <5>2, <5>3, Zenon DEF Drawing
      <4>5. r.number # waiting[c] => pc[c] \notin {"create", "draw", "show"}
        BY <2>6, Zenon DEF Over
      <4> QED BY <2>3, <2>9, <4>3, <4>4, <4>5, Zenon
    <3> QED BY <3>2, <3>3, Zenon
  <2>13. ASSUME c \in closedByUser PROVE Heard(c)'
    <3>1. Heard(c)
      BY <2>7, <2>13, Zenon DEF Seeing
    <3>2. CASE pc[c] \in {"show", "main", "redraw", "await"}
      <4>1. pc[c] \in Sending /\ r.number = waiting[c] /\ replies[c] = "none"
        BY <2>6, <3>2, Zenon DEF Over
      <4>2. pc[c] = "redraw" /\ events[c] # <<>>
        BY <3>1, <3>2, <4>1, Zenon DEF Heard, Sending, Drawing
      <4>3. window # c
        BY <2>7, <4>2, Zenon DEF Owning, Over
      <4>4. window = NoWindow /\ ~Is(r, "CREATE")
        BY <2>5, <2>6, <4>2, <4>3, Zenon
      <4>5. answer = "no_window"
        BY <2>1, <4>4, Zenon DEF Handled
      <4> QED BY <2>3, <2>9, <3>1, <4>1, <4>2, <4>5, Zenon DEF Heard
    <3>3. CASE pc[c] \notin {"show", "main", "redraw", "await"}
      BY <2>3, <3>1, <3>3, Zenon DEF Heard
    <3> QED BY <3>2, <3>3, Zenon
  <2>14. Seeing(c)'
    BY <2>3, <2>11, <2>12, <2>13, Zenon DEF Seeing
  <2> QED BY <2>8, <2>14, <1>OneSees, Zenon
<1>NativeClose. ASSUME NativeClose
                PROVE  Closing'
  <2> USE <1>NativeClose
  <2>1. PICK w \in Clients : w = window
    BY Zenon DEF NativeClose, PollClose, Base, TypeOK
  <2>2. /\ running /\ window' = NoWindow /\ visible' = FALSE
        /\ UNCHANGED <<running, eventClients, replies, pc, cancelled, cutOff>>
        /\ events' = [c \in Clients |-> IF c \in eventClients THEN Append(events[c], "window_close") ELSE events[c]]
        /\ closedByUser' = IF pc[w] = "close" \/ replies[w] = "error" THEN closedByUser ELSE closedByUser \cup {w}
    BY <2>1, Zenon DEF NativeClose, PollClose, CloseWindow
  <2>3. ASSUME NEW c \in Clients PROVE Append(events[c], "window_close") # <<>>
    <3>1. events[c] \in Seq({"subscribed", "window_close"})
      BY <2>3, Zenon DEF Base, TypeOK
    <3> QED BY <3>1, AppendProperties
  <2>4. \A d \in Clients \ {w} : Still(d)
    BY <2>2, <2>3, Zenon DEF Still
  <2>5. Seeing(w) /\ Owning(w) /\ Listening(w)
    BY Zenon DEF Closing, Orderly
  <2>6. visible
    <3>1. native # <<>>
      BY DEF NativeClose, PollClose, Range
    <3> QED BY <3>1, Zenon DEF Base, Clicks
  <2>7. CASE w \notin closedByUser' \/ w \in closedByUser
    <3>1. Still(w)
      BY <2>2, <2>3, <2>7, Zenon DEF Still
    <3> QED BY <2>4, <3>1, <1>NothingSeen, Zenon
  <2>8. CASE w \in closedByUser' /\ w \notin closedByUser
    <3>1. pc[w] # "close" /\ replies[w] # "error"
      BY <2>2, <2>8, Zenon
    <3>2. pc[w] \notin {"create", "draw", "start", "subscribe"} /\ (pc[w] = "show" => replies[w] = "ok")
      BY <2>1, <2>5, <2>6, <3>1, Zenon DEF Seeing, Owning
    <3>3. pc[w] \in {"show", "main", "redraw", "await"} \cup Over
      BY <3>1, <3>2, Zenon DEF Base, TypeOK, Points, Over
    <3>4. pc[w] \in {"show", "main", "redraw", "await"} => w \in eventClients
      BY <2>2, <2>5, Zenon DEF Listening
    <3>5. w \in eventClients => events'[w] # <<>>
      BY <2>2, <2>3, Zenon
    <3>6. Heard(w)'
      BY <2>2, <3>1, <3>2, <3>3, <3>4, <3>5, Zenon DEF Heard
    <3>7. Seeing(w)'
      BY <2>2, <2>5, <3>6, Zenon DEF Seeing
    <3> QED BY <2>4, <3>7, <1>OneSees, Zenon
  <2> QED BY <2>7, <2>8, Zenon
<1> SUFFICES ASSUME Base', [Next]_vars PROVE Closing'
  OBVIOUS
<1>1. CASE UNCHANGED vars
  BY <1>1, <1>Quiet, Zenon DEF vars, wmVars, windowVars, serverVars, sessionVars
<1>2. ASSUME NEW c \in Clients,
             \/ Subscribe(c) \/ Subscribed(c) \/ SendSucceeds(c) \/ SendRejected(c) \/ SendGivesUp(c)
             \/ Returns(c) \/ Cancel(c)
             \/ AcceptEvents(c) /\ UNCHANGED <<feedVars, sessionVars>>
      PROVE  Closing'
  BY <1>2, <1>Subscribes, <1>Succeeds, <1>Rejected, <1>GivesUp, <1>Returns,
     <1>Cancel, <1>Accept, Zenon
<1>3. ASSUME NEW c \in Clients, Send(c)
      PROVE  Closing'
  BY <1>3, <1>Quiet, Zenon DEF Send, windowVars, serverVars
<1>4. ASSUME NEW c \in Clients, WindowClosed(c) \/ Ends(c)
      PROVE  Closing'
  BY <1>4, <1>Loop, Zenon
<1>5. CASE Update
  BY <1>5, <1>Update
<1>6. CASE LogNotice \/ Feeds \/ ((BrokerSends \/ BrokerGoes) /\ UNCHANGED <<wmVars, sessionVars>>)
  BY <1>6, <1>Quiet, Zenon DEF LogNotice, Feeds, wmVars, windowVars, serverVars, sessionVars
<1>7. CASE \E r \in requests : Handle(r, waiting) /\ UNCHANGED <<feedVars, sessionVars>>
  BY <1>7, <1>Handle, Zenon
<1>8. CASE NativeClose
  BY <1>8, <1>NativeClose
<1>9. CASE UserCloses /\ UNCHANGED <<feedVars, sessionVars>>
  BY <1>9, <1>Quiet, Zenon DEF UserCloses, serverVars, sessionVars
<1>10. CASE (Quit \/ Stop) /\ UNCHANGED <<feedVars, sessionVars>>
  BY <1>10, <1>Quit, Zenon
<1> QED BY <1>1, <1>2, <1>3, <1>4, <1>5, <1>6, <1>7, <1>8, <1>9, <1>10, NextIsSteps, Zenon DEF Steps

\* What each session gave up is known after every step.
LEMMA CutOffStep ==
    ASSUME CutOffTyped, [Next]_vars
    PROVE  CutOffTyped'
<1> USE DEF CutOffTyped
<1>1. ASSUME NEW c \in Clients, SendGivesUp(c) PROVE CutOffTyped'
  BY <1>1, Zenon DEF SendGivesUp, CutsOff
<1>2. ASSUME NEW c \in Clients, Returns(c) PROVE CutOffTyped'
  BY <1>2, Zenon DEF Returns
<1>3. CASE cutOff' = cutOff
  BY <1>3, Zenon
<1>4. ASSUME NEW c \in Clients,
             \/ Subscribe(c) \/ Subscribed(c) \/ Send(c) \/ SendSucceeds(c) \/ SendRejected(c)
             \/ WindowClosed(c) \/ Ends(c) \/ Cancel(c)
      PROVE  cutOff' = cutOff
  BY <1>4, Zenon DEF Subscribe, Subscribed, Send, SendSucceeds, SendRejected, WindowClosed, Ends, Cancel
<1>5. Update \/ LogNotice \/ Feeds \/ NativeClose \/ UNCHANGED sessionVars => cutOff' = cutOff
  BY Zenon DEF Update, LogNotice, Feeds, NativeClose, sessionVars
<1>6. UNCHANGED vars => cutOff' = cutOff
  BY Zenon DEF vars, sessionVars
<1> QED BY <1>1, <1>2, <1>3, <1>4, <1>5, <1>6, NextIsSteps, Zenon DEF Steps

\* When the Maps run one after the other and CREATE is neither cancelled nor
\* timed out, a session whose window the user has closed sends no CLOSE, unless
\* it is told to stop, WM is gone or it gave up a command: the window_close
\* event is there before a redraw is told that the window is gone, and runMap in
\* session.go waits for it.
THEOREM NoDuplicateCloseHolds ==
    ASSUME OneByOne, CreateWaits
    PROVE  Spec => []NoDuplicateClose
<1>1. Init => Closing
  <2> SUFFICES ASSUME Init, NEW c \in Clients PROVE Seeing(c)
    BY Zenon DEF Closing
  <2> QED BY DEF Init, WmInit, Seeing
<1>2. Base /\ Sketches /\ Orderly /\ Closing /\ CutOffTyped /\ Base' /\ [Next]_vars => Closing'
  BY ClosingStep
<1>3. Init => CutOffTyped
  BY Zenon DEF Init, CutOffTyped
<1>4. CutOffTyped /\ [Next]_vars => CutOffTyped'
  BY CutOffStep
<1>5. Base /\ Closing => NoDuplicateClose
  BY Zenon DEF Base, TypeOK, Closing, Seeing, Heard, NoDuplicateClose
<1> QED BY <1>1, <1>2, <1>3, <1>4, <1>5, BaseInvariance, SketchesInvariance, OrderlyInvariance, PTL DEF Spec

-----------------------------------------------------------------------------
(* The two buffers *)

Figures == {"BEGIN_FRAME", "DRAW_IMAGE", "DRAW_CIRCLE", "PRESENT"}

\* The first k commands of a frame, painted.
Layers(c, ts, k) == {[of |-> c, draw |-> BuildFrame(ts)[i]] : i \in 1..k}

\* What is in the back buffer when the kth command of a frame comes.
Ready(c, ts, k) == k > 1 => back = Layers(c, ts, k - 1)

Whole ==
    front = {} \/ \E c \in Clients, ts \in Accepted : front = Layers(c, ts, Len(BuildFrame(ts)) - 1)

\* A session paints its frame command by command.
Stage(c) ==
    window = c /\ pc[c] \in Drawing =>
        \E ts \in Accepted : \E k \in 1..Len(BuildFrame(ts)) :
            /\ todo[c] = Rest(ts, k)
            /\ replies[c] = "none" => Ready(c, ts, k)
            /\ replies[c] = "ok" /\ k < Len(BuildFrame(ts)) => Ready(c, ts, k + 1)

\* A command finds the back buffer as its session left it.
Meant(r, c) ==
    \E ts \in Accepted : \E k \in 1..Len(BuildFrame(ts)) :
        r.draw = BuildFrame(ts)[k] /\ Ready(c, ts, k)

\* Also one that its session has given up.
Left(c) ==
    window = c => \A r \in requests : r.from = c /\ r.number # waiting[c] /\ r.draw.command \in Figures =>
                      Meant(r, c)

Pictures == Whole /\ \A c \in Clients : Stage(c) /\ Left(c)

LEMMA Place ==
    ASSUME NEW ts \in Accepted, NEW F, F = BuildFrame(ts), NEW k \in 1..Len(F)
    PROVE  /\ Len(F) \in Nat /\ Len(F) >= 3
           /\ F[k].command = "BEGIN_FRAME" => k = 1
           /\ F[k].command = "PRESENT" => k = Len(F)
           /\ F[k].command \in {"DRAW_IMAGE", "DRAW_CIRCLE"} => k > 1
<1>1. Len(F) \in Nat /\ Len(F) >= 3
  BY FrameIs, Zenon
<1>2. /\ F[1].command = "BEGIN_FRAME" /\ F[Len(F)].command = "PRESENT"
      /\ \A i \in 2..Len(F) - 1 : F[i].command \in {"DRAW_IMAGE", "DRAW_CIRCLE"}
  BY FrameNames, Zenon
<1>3. k = 1 \/ k = Len(F) \/ k \in 2..Len(F) - 1
  BY <1>1
<1>4. k # 1 => k > 1
  BY <1>1
<1> QED BY <1>1, <1>2, <1>3, <1>4, Zenon

LEMMA FirstLayer ==
    ASSUME NEW c, NEW ts, NEW k, k = 1, NEW F, F = BuildFrame(ts)
    PROVE  Layers(c, ts, k) = {[of |-> c, draw |-> F[k]]}
<1>1. 1..k = {k}
  OBVIOUS
<1> QED BY <1>1, Zenon DEF Layers

LEMMA NextLayer ==
    ASSUME NEW c, NEW ts, NEW k \in Nat, k > 1, NEW j, j = k - 1
    PROVE  Layers(c, ts, k) = Layers(c, ts, j) \cup {[of |-> c, draw |-> BuildFrame(ts)[k]]}
<1>1. PICK A, B, F : A = 1..k /\ B = 1..j /\ F = BuildFrame(ts)
  BY Zenon
<1>2. A = B \cup {k}
  BY <1>1
<1>3. Layers(c, ts, k) = {[of |-> c, draw |-> F[i]] : i \in A} /\ Layers(c, ts, j) = {[of |-> c, draw |-> F[i]] : i \in B}
  BY <1>1, Zenon DEF Layers
<1> QED BY <1>1, <1>2, <1>3

\* Every drawing command that is under way is meant for the back buffer there is.
LEMMA Sent ==
    ASSUME Sketches, Orderly, Pictures, NEW c \in Clients, window = c,
           NEW r \in requests, r.from = c, r.draw.command \in Figures
    PROVE  Meant(r, c)
<1>1. CASE r.number # waiting[c]
  BY <1>1, Zenon DEF Pictures, Left
<1>2. CASE r.number = waiting[c]
  <2>1. pc[c] \in Sending /\ replies[c] = "none" /\ r.draw = CommandAt(c)
    BY <1>2, Sender, Zenon
  <2>2. pc[c] \in Drawing
    <3>1. pc[c] \notin {"create", "show", "close"}
      BY <2>1, CommandIs DEF Figures
    <3> QED BY <2>1, <3>1, Zenon DEF Sending
  <2>3. PICK ts \in Accepted : \E k \in 1..Len(BuildFrame(ts)) : todo[c] = Rest(ts, k) /\ Ready(c, ts, k)
    BY <2>1, <2>2, Zenon DEF Pictures, Stage
  <2>4. PICK k \in 1..Len(BuildFrame(ts)) : todo[c] = Rest(ts, k) /\ Ready(c, ts, k)
    BY <2>3, Zenon
  <2>5. Head(todo[c]) = BuildFrame(ts)[k]
    <3>1. PICK F, s : F = BuildFrame(ts) /\ s = Rest(ts, k)
      BY Zenon
    <3>2. Head(s) = F[k]
      BY <3>1, RestIs, Zenon
    <3> QED BY <2>4, <3>1, <3>2, Zenon
  <2>6. r.draw = BuildFrame(ts)[k]
    BY <2>1, <2>2, <2>5, CommandIs, Zenon
  <2> QED BY <2>4, <2>6, Zenon DEF Meant
<1> QED BY <1>1, <1>2, Zenon

\* Steps of one client that leave the window alone.
LEMMA OnePaints ==
    ASSUME Sketches, Orderly, Pictures, NEW c \in Clients,
           UNCHANGED <<window, front, back>>,
           \A d \in Clients \ {c} : /\ pc'[d] = pc[d] /\ todo'[d] = todo[d]
                                    /\ replies'[d] = replies[d] /\ waiting'[d] = waiting[d],
           \A r \in requests' : r \in requests \/ (r.from = c /\ r.number = waiting'[c]),
           Stage(c)'
    PROVE  Pictures'
<1>1. Whole'
  BY Zenon DEF Pictures, Whole, Layers
<1>2. ASSUME NEW d \in Clients \ {c} PROVE Stage(d)'
  BY <1>2, ZenonT(40) DEF Pictures, Stage, Ready
<1>3. ASSUME NEW d \in Clients, window' = d, NEW r \in requests', r.from = d, r.number # waiting'[d],
             r.draw.command \in Figures
      PROVE  Meant(r, d)'
  <2>1. r \in requests
    BY <1>3, Zenon
  <2>2. Meant(r, d)
    BY <1>3, <2>1, Sent, Zenon
  <2> QED BY <2>2, Zenon DEF Meant, Ready
<1>4. \A d \in Clients : Left(d)'
  BY <1>3, Zenon DEF Left
<1> QED BY <1>1, <1>2, <1>4, Zenon DEF Pictures

LEMMA QuietPictures ==
    ASSUME Pictures, UNCHANGED <<window, front, back, pc, todo, replies, waiting, requests>>
    PROVE  Pictures'
<1>1. Whole'
  BY Zenon DEF Pictures, Whole, Layers
<1>2. \A d \in Clients : Stage(d)'
  BY Zenon DEF Pictures, Stage, Ready
<1>3. \A d \in Clients : Left(d)'
  BY Zenon DEF Pictures, Left, Meant, Ready
<1> QED BY <1>1, <1>2, <1>3, Zenon DEF Pictures

\* The window goes.
LEMMA GonePictures ==
    ASSUME Pictures, window' = NoWindow, front' = front \/ front' = {}
    PROVE  Pictures'
<1>1. \A d \in Clients : window' # d
  BY WindowManagerAssumption, Zenon
<1>2. Whole'
  BY Zenon DEF Pictures, Whole, Layers
<1> QED BY <1>1, <1>2, Zenon DEF Pictures, Stage, Left

LEMMA SubscribesPictures ==
    ASSUME Base, Sketches, Orderly, Pictures, NEW c \in Clients, Subscribe(c) \/ Subscribed(c)
    PROVE  Pictures'
<1>1. /\ pc[c] \in {"start", "subscribe"} /\ DOMAIN pc = Clients /\ DOMAIN todo = Clients
      /\ \E to : pc' = [pc EXCEPT ![c] = to]
      /\ todo' = todo \/ \E rest : todo' = [todo EXCEPT ![c] = rest]
      /\ UNCHANGED <<window, front, back>> /\ replies' = replies /\ waiting' = waiting /\ requests' = requests
  BY Zenon DEF Subscribe, Subscribed, Goes, windowVars, Base, TypeOK
<1>2. window # c
  BY <1>1, Unheard, Zenon
<1>3. Stage(c)'
  BY <1>1, <1>2, Zenon DEF Stage
<1>4. \A d \in Clients \ {c} : /\ pc'[d] = pc[d] /\ todo'[d] = todo[d]
                               /\ replies'[d] = replies[d] /\ waiting'[d] = waiting[d]
  BY <1>1, Zenon
<1> QED BY <1>1, <1>3, <1>4, OnePaints, Zenon

LEMMA SendPictures ==
    ASSUME Base, Sketches, Orderly, Pictures, NEW c \in Clients, Send(c)
    PROVE  Pictures'
<1>1. PICK n, q : n = FreshNumber(c) /\ q = [from |-> c, number |-> n, draw |-> CommandAt(c)]
  BY Zenon
<1>2. /\ waiting' = [waiting EXCEPT ![c] = n] /\ requests' = requests \cup {q}
      /\ UNCHANGED <<window, front, back>> /\ replies' = replies /\ pc' = pc /\ todo' = todo
      /\ waiting \in [Clients -> Nat]
  BY <1>1, Zenon DEF Send, windowVars, Orderly, Numbers
<1>3. q.from = c /\ q.number = n /\ waiting'[c] = n
  BY <1>1, <1>2
<1>4. Stage(c)'
  BY <1>2, Zenon DEF Pictures, Stage, Ready
<1>5. \A d \in Clients \ {c} : /\ pc'[d] = pc[d] /\ todo'[d] = todo[d]
                               /\ replies'[d] = replies[d] /\ waiting'[d] = waiting[d]
  BY <1>2, Zenon
<1>6. \A r \in requests' : r \in requests \/ (r.from = c /\ r.number = waiting'[c])
  BY <1>2, <1>3, Zenon
<1> QED BY <1>2, <1>4, <1>5, <1>6, OnePaints, Zenon

LEMMA SucceedsPictures ==
    ASSUME Base, Sketches, Orderly, Pictures, NEW c \in Clients, SendSucceeds(c)
    PROVE  Pictures'
<1>1. /\ pc[c] \in Sending /\ replies[c] = "ok" /\ pc' = [pc EXCEPT ![c] = AfterSuccess(c)]
      /\ waiting' = [waiting EXCEPT ![c] = 0] /\ replies' = [replies EXCEPT ![c] = "none"]
      /\ todo' = IF pc[c] \in Drawing THEN [todo EXCEPT ![c] = Tail(@)] ELSE todo
      /\ UNCHANGED <<window, front, back>> /\ requests' = requests
      /\ DOMAIN pc = Clients /\ DOMAIN todo = Clients /\ DOMAIN replies = Clients /\ DOMAIN waiting = Clients
  BY Zenon DEF SendSucceeds, Leaves, Goes, windowVars, Base, TypeOK
<1>2. \A d \in Clients \ {c} : /\ pc'[d] = pc[d] /\ todo'[d] = todo[d]
                               /\ replies'[d] = replies[d] /\ waiting'[d] = waiting[d]
  BY <1>1, Zenon
<1>3. replies'[c] = "none" /\ pc'[c] = AfterSuccess(c)
  BY <1>1, Zenon
<1>4. ASSUME window = c, AfterSuccess(c) \in Drawing PROVE Stage(c)'
  <2>1. CASE pc[c] \in Drawing
    <3>1. PICK ts \in Accepted : \E k \in 1..Len(BuildFrame(ts)) :
             todo[c] = Rest(ts, k) /\ (k < Len(BuildFrame(ts)) => Ready(c, ts, k + 1))
      BY <1>1, <1>4, <2>1, Zenon DEF Pictures, Stage
    <3>2. PICK k \in 1..Len(BuildFrame(ts)) :
             todo[c] = Rest(ts, k) /\ (k < Len(BuildFrame(ts)) => Ready(c, ts, k + 1))
      BY <3>1, Zenon
    <3>3. /\ Len(todo[c]) > 1 <=> k < Len(BuildFrame(ts))
          /\ k < Len(BuildFrame(ts)) =>
                Tail(todo[c]) = Rest(ts, k + 1) /\ k + 1 \in 1..Len(BuildFrame(ts))
      BY <3>2, RestIs, Zenon
    <3>4. Len(todo[c]) > 1
      BY <1>4, <2>1, Successor, Zenon DEF Drawing
    <3>5. todo'[c] = Rest(ts, k + 1) /\ k + 1 \in 1..Len(BuildFrame(ts)) /\ Ready(c, ts, k + 1)'
      BY <1>1, <2>1, <3>2, <3>3, <3>4, Zenon DEF Ready
    <3> QED BY <1>3, <3>5, Zenon DEF Stage
  <2>2. CASE pc[c] \notin Drawing
    <3>1. pc[c] = "create"
      BY <1>1, <1>4, <2>2, Successor, Zenon DEF Sending, Drawing
    <3>2. PICK ts \in Accepted : 1 \in 1..Len(BuildFrame(ts)) /\ todo[c] = Rest(ts, 1)
      BY <3>1, Zenon DEF Sketches, Sketch
    <3>3. Ready(c, ts, 1)'
      BY DEF Ready
    <3>4. todo'[c] = Rest(ts, 1)
      BY <1>1, <2>2, <3>2, Zenon
    <3> QED BY <1>3, <3>2, <3>3, <3>4, Zenon DEF Stage
  <2> QED BY <2>1, <2>2, Zenon
<1>5. Stage(c)'
  BY <1>1, <1>3, <1>4, Zenon DEF Stage
<1> QED BY <1>1, <1>2, <1>5, OnePaints, Zenon

LEMMA StopsPictures ==
    ASSUME Base, Sketches, Orderly, Pictures, NEW c \in Clients,
           SendRejected(c) \/ SendGivesUp(c) \/ WindowClosed(c) \/ Ends(c) \/ Returns(c)
    PROVE  Pictures'
<1>1. /\ DOMAIN pc = Clients /\ DOMAIN todo = Clients /\ DOMAIN replies = Clients /\ DOMAIN waiting = Clients
  BY Zenon DEF Base, TypeOK
<1>2. \E to \in {"await", "close", "done", "returned"} : pc' = [pc EXCEPT ![c] = to]
  BY Zenon DEF SendRejected, SendGivesUp, WindowClosed, Ends, Returns, Leaves, Goes, AfterFailure
<1>3. todo' = todo \/ todo' = [todo EXCEPT ![c] = <<>>]
  BY Zenon DEF SendRejected, SendGivesUp, WindowClosed, Ends, Returns, Drops
<1>4. /\ replies' = replies \/ replies' = [replies EXCEPT ![c] = "none"]
      /\ waiting' = waiting \/ waiting' = [waiting EXCEPT ![c] = 0]
  BY Zenon DEF SendRejected, SendGivesUp, WindowClosed, Ends, Returns, Leaves
<1>5. UNCHANGED <<window, front, back>> /\ requests' = requests
  BY Zenon DEF SendRejected, SendGivesUp, WindowClosed, Ends, Returns, windowVars
<1>6. \A d \in Clients \ {c} : /\ pc'[d] = pc[d] /\ todo'[d] = todo[d]
                               /\ replies'[d] = replies[d] /\ waiting'[d] = waiting[d]
  BY <1>1, <1>2, <1>3, <1>4, Zenon
<1>7. pc'[c] \notin Drawing
  BY <1>1, <1>2, Zenon DEF Drawing
<1>8. Stage(c)'
  BY <1>7, Zenon DEF Stage
<1> QED BY <1>5, <1>6, <1>8, OnePaints, Zenon

LEMMA UpdatePictures ==
    ASSUME Base, Sketches, Orderly, Pictures, Update, Base'
    PROVE  Pictures'
<1>1. DOMAIN todo = Clients /\ DOMAIN pc = Clients /\ Fed \in Clients /\ targets' \in [Clients -> Accepted]
  BY MapSessionAssumption, Zenon DEF Base, TypeOK
<1>2. FrameAccepts(targets'[Fed]) /\ targets'[Fed] \in Accepted
  BY <1>1, Zenon DEF Accepted
<1>3. /\ pc[Fed] = "main" /\ pc' = [pc EXCEPT ![Fed] = "redraw"]
      /\ todo' = [todo EXCEPT ![Fed] = BuildFrame(targets'[Fed])]
      /\ UNCHANGED <<window, front, back>> /\ requests' = requests /\ waiting' = waiting /\ replies' = replies
  BY <1>2, Zenon DEF Update, Goes, windowVars
<1>4. PICK ts \in Accepted : ts = targets'[Fed]
  BY <1>2, Zenon
<1>5. 1 \in 1..Len(BuildFrame(ts)) /\ todo'[Fed] = Rest(ts, 1)
  BY <1>1, <1>3, <1>4, RestStarts, Zenon
<1>6. Ready(Fed, ts, 1)'
  BY DEF Ready
<1>7. replies'[Fed] = "none"
  BY <1>1, <1>3, Settled, Zenon
<1>8. Stage(Fed)'
  BY <1>5, <1>6, <1>7, Zenon DEF Stage
<1>9. \A d \in Clients \ {Fed} : /\ pc'[d] = pc[d] /\ todo'[d] = todo[d]
                                 /\ replies'[d] = replies[d] /\ waiting'[d] = waiting[d]
  BY <1>1, <1>3, Zenon
<1> QED BY <1>1, <1>3, <1>8, <1>9, OnePaints, Zenon

LEMMA ReadyNext ==
    ASSUME NEW c, NEW ts, NEW m, NEW k, m - 1 = k, back' = Layers(c, ts, k)
    PROVE  Ready(c, ts, m)'
BY Zenon DEF Ready, Layers

LEMMA PlaceOf ==
    ASSUME NEW ts \in Accepted, NEW k \in 1..Len(BuildFrame(ts)), NEW r, r.draw = BuildFrame(ts)[k]
    PROVE  /\ k \in Nat
           /\ Is(r, "BEGIN_FRAME") => k = 1
           /\ Is(r, "DRAW_IMAGE") \/ Is(r, "DRAW_CIRCLE") => k > 1
           /\ Is(r, "PRESENT") => k = Len(BuildFrame(ts)) /\ k > 1
<1>1. PICK F : F = BuildFrame(ts)
  BY Zenon
<1>2. Len(F) \in Nat /\ Len(F) >= 3
  BY <1>1, FrameIs, Zenon
<1>3. /\ F[k].command = "BEGIN_FRAME" => k = 1
      /\ F[k].command = "PRESENT" => k = Len(F)
      /\ F[k].command \in {"DRAW_IMAGE", "DRAW_CIRCLE"} => k > 1
  BY <1>1, Place, Zenon
<1>4. k \in Nat /\ (k = Len(F) => k > 1)
  BY <1>1, <1>2
<1> QED BY <1>1, <1>3, <1>4, Zenon DEF Is

LEMMA PaintsFirst ==
    ASSUME NEW c, NEW ts, NEW k, k = 1, NEW m, m - 1 = k,
           NEW r, r.from = c, r.draw = BuildFrame(ts)[k], back' = {Painted(r)}
    PROVE  Ready(c, ts, m)'
<1>1. PICK F : F = BuildFrame(ts)
  BY Zenon
<1>2. Layers(c, ts, k) = {[of |-> c, draw |-> F[k]]}
  BY <1>1, FirstLayer
<1>3. back' = {[of |-> c, draw |-> F[k]]}
  BY <1>1, Zenon DEF Painted
<1> QED BY <1>2, <1>3, ReadyNext, Zenon

LEMMA PaintsNext ==
    ASSUME NEW c, NEW ts, NEW k \in Nat, k > 1, Ready(c, ts, k), NEW m, m - 1 = k,
           NEW r, r.from = c, r.draw = BuildFrame(ts)[k], back' = back \cup {Painted(r)}
    PROVE  Ready(c, ts, m)'
<1>1. PICK j, F : j = k - 1 /\ F = BuildFrame(ts)
  BY Zenon
<1>2. back = Layers(c, ts, j)
  BY <1>1, Zenon DEF Ready
<1>3. Layers(c, ts, k) = Layers(c, ts, j) \cup {[of |-> c, draw |-> F[k]]}
  BY <1>1, NextLayer
<1>4. Painted(r) = [of |-> c, draw |-> F[k]]
  BY <1>1, Zenon DEF Painted
<1> QED BY <1>2, <1>3, <1>4, ReadyNext, Zenon

\* A drawing command adds its layer.
LEMMA Grows ==
    ASSUME NEW c \in Clients, NEW r, r.from = c,
           NEW ts \in Accepted, NEW k \in 1..Len(BuildFrame(ts)), NEW m, m = k + 1, k < Len(BuildFrame(ts)),
           r.draw = BuildFrame(ts)[k], Ready(c, ts, k),
           \/ Is(r, "BEGIN_FRAME") /\ back' = {Painted(r)}
           \/ (Is(r, "DRAW_IMAGE") \/ Is(r, "DRAW_CIRCLE")) /\ back' = back \cup {Painted(r)}
           \/ Is(r, "PRESENT")
    PROVE  Ready(c, ts, m)'
<1>1. /\ k \in Nat
      /\ Is(r, "BEGIN_FRAME") => k = 1
      /\ Is(r, "DRAW_IMAGE") \/ Is(r, "DRAW_CIRCLE") => k > 1
      /\ Is(r, "PRESENT") => k = Len(BuildFrame(ts))
  BY PlaceOf, Zenon
<1>2. m - 1 = k /\ k # Len(BuildFrame(ts))
  BY <1>1
<1>3. CASE Is(r, "BEGIN_FRAME") /\ back' = {Painted(r)}
  BY <1>1, <1>2, <1>3, PaintsFirst, Zenon
<1>4. CASE (Is(r, "DRAW_IMAGE") \/ Is(r, "DRAW_CIRCLE")) /\ back' = back \cup {Painted(r)}
  BY <1>1, <1>2, <1>4, PaintsNext, Zenon
<1> QED BY <1>1, <1>2, <1>3, <1>4, Zenon

LEMMA HandlePictures ==
    ASSUME OneByOne, Base, Sketches, Orderly, Pictures, NEW r \in requests,
           Handle(r, waiting) /\ UNCHANGED <<feedVars, sessionVars>>
    PROVE  Pictures'
<1>1. PICK answer : Handled(r, answer) /\ Paints(r, answer)
  BY Handling
<1>2. PICK c \in Clients : c = r.from
  BY Zenon DEF Base, TypeOK
<1>3. /\ requests' = requests \ {r} /\ pc' = pc /\ waiting' = waiting /\ todo' = todo
      /\ DOMAIN replies = Clients
  BY Zenon DEF Handle, sessionVars, Base, TypeOK
<1>4. /\ replies' = (IF waiting[c] = r.number THEN [replies EXCEPT ![c] = answer] ELSE replies)
      /\ answer # "none"
  BY <1>1, <1>2, Zenon DEF Handled, Reply
<1>5. window \in {c, NoWindow} /\ window' \in {c, NoWindow}
  <2>1. window \in {c, NoWindow}
    BY <1>2, Alone, Zenon
  <2> QED BY <1>1, <1>2, <2>1, Zenon DEF Handled
<1>6. /\ r.number = waiting[c] => pc[c] \in Sending /\ replies[c] = "none" /\ r.draw = CommandAt(c)
      /\ r.number # waiting[c] => pc[c] \in {"close"} \cup Over
      /\ Is(r, "CREATE") => pc[c] = "create" /\ r.number = waiting[c]
  BY <1>2, Sender, Zenon
<1>7. pc[c] \in Drawing => r.number = waiting[c] /\ replies'[c] = answer /\ r.draw = CommandAt(c)
  <2>1. pc[c] \in Drawing => pc[c] \notin {"close"} \cup Over
    BY DEF Drawing, Over
  <2> QED BY <1>3, <1>4, <1>6, <2>1, Zenon
<1>8. \A d \in Clients \ {c} : Stage(d)' /\ Left(d)'
  <2>1. \A d \in Clients \ {c} : window' # d
    BY <1>5, WindowManagerAssumption, Zenon
  <2> QED BY <2>1, Zenon DEF Stage, Left
<1>9. CASE window' = NoWindow /\ (front' = front \/ front' = {})
  BY <1>9, GonePictures, Zenon
<1>10. CASE front' = front /\ back' = back /\ (answer = "ok" => Is(r, "CREATE") \/ Is(r, "SHOW"))
  <2>1. Whole'
    BY <1>10, Zenon DEF Pictures, Whole, Layers
  <2>2. ASSUME window' = c, pc[c] \in Drawing PROVE Stage(c)'
    <3>1. r.draw.command \in {"BEGIN_FRAME", "DRAW_IMAGE", "DRAW_CIRCLE", "PRESENT"}
      BY <1>7, <2>2, DrawingCommand, Zenon
    <3>2. answer # "ok"
      BY <1>10, <3>1 DEF Is
    <3>3. \E ts \in Accepted : \E k \in 1..Len(BuildFrame(ts)) : todo[c] = Rest(ts, k)
      BY <2>2, Zenon DEF Sketches, Sketch, Drawing
    <3> QED BY <1>3, <1>4, <1>7, <2>2, <3>2, <3>3, Zenon DEF Stage
  <2>3. ASSUME window' = c, NEW q \in requests', q.from = c, q.number # waiting'[c], q.draw.command \in Figures
        PROVE  Meant(q, c)'
    <3>1. q \in requests /\ q.number # waiting[c]
      BY <1>3, <2>3, Zenon
    <3>2. pc[c] \in {"close"} \cup Over
      BY <2>3, <3>1, Sender, Zenon
    <3>3. pc[c] # "create"
      BY <3>2 DEF Over
    <3>4. window = c
      BY <1>1, <1>2, <1>6, <2>3, <3>3, WindowManagerAssumption, Zenon DEF Handled
    <3>5. Meant(q, c)
      BY <2>3, <3>1, <3>4, Zenon DEF Pictures, Left
    <3> QED BY <1>10, <3>5, Zenon DEF Meant, Ready
  <2>4. Left(c)'
    BY <2>3, Zenon DEF Left
  <2>5. Stage(c)'
    BY <1>3, <2>2, Zenon DEF Stage
  <2> QED BY <1>8, <2>1, <2>4, <2>5, Zenon DEF Pictures
<1>11. CASE /\ window # NoWindow
            /\ \/ Is(r, "BEGIN_FRAME") /\ back' = {Painted(r)} /\ front' = front
               \/ (Is(r, "DRAW_IMAGE") \/ Is(r, "DRAW_CIRCLE")) /\ back' = back \cup {Painted(r)} /\ front' = front
               \/ Is(r, "PRESENT") /\ back' = back /\ front' = back
  <2>1. window = c /\ r.draw.command \in Figures /\ r.draw.command # "CLOSE"
    BY <1>5, <1>11 DEF Is, Figures
  <2>2. \A q \in requests' : q.from = c => q.draw.command = "CLOSE"
    BY <1>2, <1>3, <2>1, Zenon DEF Orderly, Distinct, Is
  <2>3. "CLOSE" \notin Figures
    BY DEF Figures
  <2>4. Left(c)'
    BY <2>2, <2>3, Zenon DEF Left
  <2>5. Stage(c)'
    <3> SUFFICES ASSUME pc[c] \in Drawing PROVE Stage(c)'
      BY <1>3, Zenon DEF Stage
    <3>1. replies[c] = "none" /\ r.draw = Head(todo[c])
      BY <1>6, <1>7, CommandIs, Zenon
    <3>2. PICK ts \in Accepted : \E k \in 1..Len(BuildFrame(ts)) : todo[c] = Rest(ts, k) /\ Ready(c, ts, k)
      BY <2>1, <3>1, Zenon DEF Pictures, Stage
    <3>3. PICK k \in 1..Len(BuildFrame(ts)) : todo[c] = Rest(ts, k) /\ Ready(c, ts, k)
      BY <3>2, Zenon
    <3>4. r.draw = BuildFrame(ts)[k]
      <4>1. PICK F, s : F = BuildFrame(ts) /\ s = Rest(ts, k)
        BY Zenon
      <4>2. Head(s) = F[k]
        BY <4>1, RestIs, Zenon
      <4> QED BY <3>1, <3>3, <4>1, <4>2, Zenon
    <3>5. k < Len(BuildFrame(ts)) => Ready(c, ts, k + 1)'
      BY <1>2, <1>11, <3>3, <3>4, Grows, Zenon
    <3>6. todo'[c] = Rest(ts, k) /\ replies'[c] # "none"
      BY <1>3, <1>4, <1>7, <3>3, Zenon
    <3> QED BY <3>5, <3>6, Zenon DEF Stage
  <2>6. Whole'
    <3>1. CASE front' = front
      BY <3>1, Zenon DEF Pictures, Whole, Layers
    <3>2. CASE Is(r, "PRESENT") /\ front' = back
      <4>1. PICK ts \in Accepted : \E k \in 1..Len(BuildFrame(ts)) : r.draw = BuildFrame(ts)[k] /\ Ready(c, ts, k)
        BY <1>2, <2>1, Sent, Zenon DEF Meant
      <4>2. PICK k \in 1..Len(BuildFrame(ts)) : r.draw = BuildFrame(ts)[k] /\ Ready(c, ts, k)
        BY <4>1, Zenon
      <4>3. k = Len(BuildFrame(ts)) /\ k > 1
        BY <3>2, <4>2, PlaceOf, Zenon
      <4>4. front' = Layers(c, ts, Len(BuildFrame(ts)) - 1)
        BY <3>2, <4>2, <4>3, Zenon DEF Ready
      <4> QED BY <4>4, Zenon DEF Whole, Layers
    <3> QED BY <1>11, <3>1, <3>2, Zenon
  <2> QED BY <1>8, <2>4, <2>5, <2>6, Zenon DEF Pictures
<1> QED BY <1>1, <1>9, <1>10, <1>11, Zenon DEF Paints

\* Every step keeps the buffers.
LEMMA PicturesStep ==
    ASSUME OneByOne, Base, Sketches, Orderly, Pictures, Base', [Next]_vars
    PROVE  Pictures'
<1>1. CASE UNCHANGED vars
  BY <1>1, QuietPictures, Zenon DEF vars, wmVars, windowVars, serverVars, sessionVars
<1>2. ASSUME NEW c \in Clients,
             \/ Subscribe(c) \/ Subscribed(c) \/ Send(c) \/ SendSucceeds(c) \/ SendRejected(c) \/ SendGivesUp(c)
             \/ WindowClosed(c) \/ Ends(c) \/ Returns(c)
      PROVE  Pictures'
  BY <1>2, SubscribesPictures, SendPictures, SucceedsPictures, StopsPictures, Zenon
<1>3. ASSUME NEW c \in Clients, Cancel(c)
      PROVE  Pictures'
  BY <1>3, QuietPictures, Zenon DEF Cancel, wmVars, windowVars, serverVars
<1>4. ASSUME NEW c \in Clients, AcceptEvents(c) /\ UNCHANGED <<feedVars, sessionVars>>
      PROVE  Pictures'
  BY <1>4, QuietPictures, Zenon DEF AcceptEvents, windowVars, sessionVars
<1>5. CASE Update
  BY <1>5, UpdatePictures
<1>6. CASE LogNotice \/ Feeds \/ ((BrokerSends \/ BrokerGoes) /\ UNCHANGED <<wmVars, sessionVars>>)
  BY <1>6, QuietPictures, Zenon DEF LogNotice, Feeds, wmVars, windowVars, serverVars, sessionVars
<1>7. CASE \E r \in requests : Handle(r, waiting) /\ UNCHANGED <<feedVars, sessionVars>>
  BY <1>7, HandlePictures, Zenon
<1>8. CASE NativeClose
  BY <1>8, GonePictures, Zenon DEF NativeClose, PollClose, CloseWindow
<1>9. CASE UserCloses /\ UNCHANGED <<feedVars, sessionVars>>
  BY <1>9, QuietPictures, Zenon DEF UserCloses, serverVars, sessionVars
<1>10. CASE (Quit \/ Stop) /\ UNCHANGED <<feedVars, sessionVars>>
  BY <1>10, GonePictures, Zenon DEF Quit, Stop, CloseWindow, PollClose
<1> QED BY <1>1, <1>2, <1>3, <1>4, <1>5, <1>6, <1>7, <1>8, <1>9, <1>10, NextIsSteps, Zenon DEF Steps

\* While Maps do not overlap, and CREATE is neither cancelled nor given up, what
\* the window shows is nothing or all of one frame that BuildFrame in frame.go
\* made, as RenderPreview in preview.go draws it: PRESENT finds in the back
\* buffer the other commands of its frame, and no more, also when the session
\* has stopped waiting for one of them and goes on.
THEOREM FrontIsWholeHolds ==
    ASSUME OneByOne, CreateWaits
    PROVE  Spec => []FrontIsWhole
<1>1. Init => Pictures
  <2> SUFFICES ASSUME Init PROVE Pictures
    BY Zenon
  <2>1. window = NoWindow /\ front = {}
    BY DEF Init, WmInit
  <2>2. \A d \in Clients : window # d
    BY <2>1, WindowManagerAssumption, Zenon
  <2> QED BY <2>1, <2>2, Zenon DEF Pictures, Whole, Stage, Left
<1>2. Base /\ Sketches /\ Orderly /\ Pictures /\ Base' /\ [Next]_vars => Pictures'
  BY PicturesStep
<1>3. Whole => FrontIsWhole
  <2> SUFFICES ASSUME NEW c \in Clients, NEW ts \in Accepted, front = Layers(c, ts, Len(BuildFrame(ts)) - 1)
               PROVE  FrontIsWhole
    BY Zenon DEF Whole, FrontIsWhole
  <2>1. PICK F, n : F = BuildFrame(ts) /\ n = Len(F) - 1
    BY Zenon
  <2>2. Len(F) \in Nat /\ Len(F) >= 3 /\ \A i \in 1..Len(F) : F[i].shows = ts
    <3>1. Len(F) \in Nat /\ Len(F) >= 3
      BY <2>1, FrameIs, Zenon
    <3>2. \A i \in 1..Len(F) : F[i].shows = ts
      BY <2>1, FrameNames, SMTT(30)
    <3> QED BY <3>1, <3>2, Zenon
  <2>3. 1 \in 1..n /\ 1 \in 1..Len(F)
    BY <2>1, <2>2
  <2>4. front = {[of |-> c, draw |-> F[i]] : i \in 1..n}
    BY <2>1, Zenon DEF Layers
  <2>5. PICK l : l = [of |-> c, draw |-> F[1]]
    BY Zenon
  <2>6. l \in front
    BY <2>3, <2>4, <2>5, Zenon
  <2>7. l.of = c /\ l.draw.shows = ts
    BY <2>2, <2>3, <2>5
  <2>8. RenderPreview(F) = {F[i] : i \in 1..n}
    BY <2>1, PreviewAcceptsFrames, Zenon DEF RenderPreview
  <2>9. front = {[of |-> c, draw |-> d] : d \in RenderPreview(F)}
    BY <2>4, <2>8, Zenon
  <2>10. front = {[of |-> l.of, draw |-> d] : d \in RenderPreview(BuildFrame(l.draw.shows))}
    BY <2>1, <2>7, <2>9, Zenon
  <2> QED BY <2>6, <2>10, Zenon DEF FrontIsWhole
<1> QED BY <1>1, <1>2, <1>3, BaseInvariance, SketchesInvariance, OrderlyInvariance, PTL DEF Spec, Pictures

====
