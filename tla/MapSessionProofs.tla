--------------------------- MODULE MapSessionProofs ---------------------------
(***************************************************************************)
(* Map and its window, for any bounds of the map, any Targets and any      *)
(* lines of the Broker.                                                    *)
(*                                                                         *)
(* Base: the types, what the feed lets through and the close control.      *)
(* Sketches: what a session has still to draw is the rest of a frame.      *)
(* Orderly: which command a session waits for, what it has heard of its    *)
(* window, and whose window there is, while Maps do not overlap.           *)
(***************************************************************************)
EXTENDS MapSession, SequenceTheorems, WellFoundedInduction, TLAPS

Points == {"start", "subscribe", "create", "draw", "show", "main", "redraw", "await", "close",
           "done", "returned"}
Answers == {"none", "ok", "error", "exists", "no_window"}
Known == Range(Demo) \cup {line.payload.value : line \in FeedLines}

Valid(t) == t.targetId # "" /\ validCoordinates(t) /\ ProbabilityValid(t)
Accepted == {ts \in Seq(Known) : FrameAccepts(ts)}

\* The variables hold what they are meant to hold, and what the feed lets
\* through is valid.
TypeOK ==
    /\ pc \in [Clients -> Points] /\ DOMAIN waiting = Clients
    /\ cancelled \in [Clients -> BOOLEAN] /\ closedByUser \subseteq Clients
    /\ DOMAIN todo = Clients /\ targets \in [Clients -> Accepted]
    /\ window \in Clients \cup {NoWindow} /\ visible \in BOOLEAN /\ clicked \in BOOLEAN
    /\ native \in Seq(CloseEvents)
    /\ running \in BOOLEAN /\ dialing \subseteq Clients /\ eventClients \subseteq Clients
    /\ events \in [Clients -> Seq({"subscribed", "window_close"})]
    /\ replies \in [Clients -> Answers]
    /\ \A r \in requests : r.from \in Clients
    /\ wire \in Seq(FeedLines)
    /\ offered \subseteq {t \in Known : Valid(t)} /\ updates \in Seq({t \in Known : Valid(t)})

\* The close control belongs to a window that is visible.
Clicks ==
    /\ native # <<>> => clicked
    /\ clicked => visible
    /\ visible => window # NoWindow

Base == TypeOK /\ Clicks

LEMMA SeqMonotone ==
    ASSUME NEW S, NEW T, S \subseteq T, NEW s \in Seq(S)
    PROVE  s \in Seq(T)
<1>1. Len(s) \in Nat /\ DOMAIN s = 1..Len(s) /\ \A i \in 1..Len(s) : s[i] \in S
  BY LenProperties, ElementOfSeq
<1>2. s \in [1..Len(s) -> S]
  BY <1>1, SeqDef
<1>3. s \in [1..Len(s) -> T]
  BY <1>1, <1>2
<1> QED BY <1>1, <1>3, SeqDef

-----------------------------------------------------------------------------
(* Types, the feed and the close control *)

LEMMA InitBase == Init => Base
<1> SUFFICES ASSUME Init PROVE Base
  OBVIOUS
<1> USE DEF Init, WmInit, FeedInit
<1>1. <<>> \in Accepted
  BY DEF Accepted, FrameAccepts
<1>2. Demo \in Accepted
  <2>1. Range(Demo) \subseteq Known
    BY DEF Known
  <2>2. Demo \in Seq(Known)
    BY <2>1, MapSessionAssumption, SeqMonotone
  <2> QED BY <2>2, MapSessionAssumption DEF Accepted
<1>3. TypeOK
  <2>1. \A S : <<>> \in Seq(S)
    OBVIOUS
  <2>2. targets \in [Clients -> Accepted]
    BY <1>1, <1>2
  <2>3. pc \in [Clients -> Points] /\ cancelled \in [Clients -> BOOLEAN] /\ replies \in [Clients -> Answers]
    BY DEF Points, Answers
  <2>4. events \in [Clients -> Seq({"subscribed", "window_close"})]
    BY <2>1
  <2>5. native \in Seq(CloseEvents) /\ wire \in Seq(FeedLines) /\ updates \in Seq({t \in Known : Valid(t)})
    BY <2>1
  <2> QED BY <2>2, <2>3, <2>4, <2>5, Zenon DEF TypeOK
<1>4. Clicks
  BY DEF Clicks
<1> QED BY <1>3, <1>4 DEF Base

\* Where a session goes on, by where it is.
LEMMA Successor ==
    ASSUME NEW c \in Clients
    PROVE  /\ pc[c] = "create" => AfterSuccess(c) = "draw"
           /\ pc[c] = "draw" => AfterSuccess(c) = IF Len(todo[c]) > 1 THEN "draw" ELSE "show"
           /\ pc[c] = "show" => AfterSuccess(c) = "main"
           /\ pc[c] = "redraw" => AfterSuccess(c) = IF Len(todo[c]) > 1 THEN "redraw" ELSE "main"
           /\ pc[c] = "close" => AfterSuccess(c) = "done"
BY DEF AfterSuccess, Drawing

\* The command of a session, by where it is.
LEMMA CommandIs ==
    ASSUME NEW c \in Clients
    PROVE  /\ pc[c] = "create" => CommandAt(c) = [command |-> "CREATE"]
           /\ pc[c] = "show" => CommandAt(c) = [command |-> "SHOW"]
           /\ pc[c] = "close" => CommandAt(c) = [command |-> "CLOSE"]
           /\ pc[c] \in Drawing => CommandAt(c) = Head(todo[c])
<1>1. pc[c] \in Drawing => CommandAt(c) = Head(todo[c])
  BY Zenon DEF CommandAt
<1>2. pc[c] \in {"create", "show", "close"} => pc[c] \notin Drawing
  BY DEF Drawing
<1>3. pc[c] = "create" => CommandAt(c) = [command |-> "CREATE"]
  BY <1>2 DEF CommandAt
<1>4. pc[c] = "show" => CommandAt(c) = [command |-> "SHOW"]
  BY <1>2 DEF CommandAt
<1>5. pc[c] = "close" => CommandAt(c) = [command |-> "CLOSE"]
  BY <1>2 DEF CommandAt
<1> QED BY <1>1, <1>3, <1>4, <1>5

\* The steps of the feed and of the Broker touch nothing else.
Elsewhere == UNCHANGED <<wmVars, sessionVars>>

\* What handling a request does to the window and to its sender.
Handled(r, answer) ==
    /\ Reply(r, waiting, answer) /\ answer \in Answers \ {"none"}
    /\ \/ window' = window
       \/ window = NoWindow /\ window' = r.from /\ Is(r, "CREATE") /\ answer = "ok"
       \/ window' = NoWindow /\ Is(r, "CLOSE") /\ answer = "ok"
    /\ Is(r, "CREATE") => \/ window' = window /\ answer \in {"exists", "error"}
                          \/ window' = r.from /\ answer = "ok"
    /\ Is(r, "CREATE") /\ window # NoWindow => answer = "exists"
    /\ ~Is(r, "CREATE") /\ window # NoWindow => answer \in {"ok", "error"}
    /\ ~Is(r, "CREATE") /\ window = NoWindow => window' = NoWindow /\ answer = "no_window"
    /\ Is(r, "CLOSE") => window' = NoWindow

\* What it does to the buffers.
Paints(r, answer) ==
    \/ window' = NoWindow /\ (front' = front \/ front' = {})
    \/ front' = front /\ back' = back /\ (answer = "ok" => Is(r, "CREATE") \/ Is(r, "SHOW"))
    \/ window # NoWindow /\ Is(r, "BEGIN_FRAME") /\ back' = {Painted(r)} /\ front' = front
    \/ /\ window # NoWindow /\ (Is(r, "DRAW_IMAGE") \/ Is(r, "DRAW_CIRCLE"))
       /\ back' = back \cup {Painted(r)} /\ front' = front
    \/ window # NoWindow /\ Is(r, "PRESENT") /\ back' = back /\ front' = back

LEMMA Handling ==
    ASSUME NEW r, Handle(r, waiting)
    PROVE  \E answer : Handled(r, answer) /\ Paints(r, answer)
<1> USE DEF Handled, Paints, Is, Answers
<1>1. CASE HandleWithoutWindow(r, waiting)
  <2>1. Handled(r, "no_window") /\ Paints(r, "no_window")
    BY <1>1, Zenon DEF HandleWithoutWindow, windowVars
  <2> QED BY <2>1, Zenon
<1>2. CASE HandleCreate(r, waiting)
  <2>1. CASE window # NoWindow
    <3>1. Handled(r, "exists") /\ Paints(r, "exists")
      BY <1>2, <2>1, Zenon DEF HandleCreate, windowVars
    <3> QED BY <3>1, Zenon
  <2>2. CASE window = NoWindow
    <3>1. Handled(r, "ok") /\ Paints(r, "ok")
      BY <1>2, <2>2, Zenon DEF HandleCreate, CreateWindow
    <3> QED BY <3>1, Zenon
  <2> QED BY <2>1, <2>2, Zenon
<1>3. CASE HandleFails(r, waiting)
  <2>1. window' = window
    BY <1>3, Zenon DEF HandleFails, CreateFails, ShowFails, ShowWindow, DrawFails, PresentFails, Present, windowVars
  <2>2. Reply(r, waiting, "error") /\ (Is(r, "CREATE") => window = NoWindow)
    BY <1>3, Zenon DEF HandleFails
  <2>3. ~Is(r, "CREATE") => window # NoWindow
    BY <1>3, Zenon DEF HandleFails
  <2>4. ~Is(r, "CLOSE")
    BY <1>3, Zenon DEF HandleFails
  <2>5. Handled(r, "error")
    BY <2>1, <2>2, <2>3, <2>4, Zenon
  <2>6. Paints(r, "error")
    BY <1>3, Zenon DEF HandleFails, CreateFails, ShowFails, ShowWindow, DrawFails, PresentFails, Present, windowVars
  <2> QED BY <2>5, <2>6, Zenon
<1>4. CASE HandleBeginFrame(r, waiting)
  <2>1. Handled(r, "ok") /\ Paints(r, "ok")
    BY <1>4, Zenon DEF HandleBeginFrame, BeginFrame
  <2> QED BY <2>1, Zenon
<1>5. CASE HandleDraw(r, waiting)
  <2>1. Handled(r, "ok") /\ Paints(r, "ok")
    BY <1>5, Zenon DEF HandleDraw, Draw
  <2> QED BY <2>1
<1>6. CASE HandlePresent(r, waiting)
  <2>1. Handled(r, "ok") /\ Paints(r, "ok")
    BY <1>6, Zenon DEF HandlePresent, Present
  <2> QED BY <2>1
<1>7. CASE HandleShow(r, waiting)
  <2>1. Handled(r, "ok") /\ Paints(r, "ok")
    BY <1>7, Zenon DEF HandleShow, ShowWindow
  <2> QED BY <2>1
<1>8. CASE HandleClose(r, waiting)
  <2>1. Handled(r, "ok") /\ Paints(r, "ok")
    BY <1>8, Zenon DEF HandleClose, CloseWindow
  <2> QED BY <2>1
<1> QED BY <1>1, <1>2, <1>3, <1>4, <1>5, <1>6, <1>7, <1>8, Zenon DEF Handle

HandledView(r) ==
    \/ /\ clicked' = clicked /\ native' = native /\ (window # NoWindow => window' = window)
       /\ visible' = visible \/ (visible' = TRUE /\ Is(r, "SHOW") /\ window # NoWindow)
    \/ clicked' = FALSE /\ native' = <<>> /\ visible' = FALSE /\ window' = NoWindow /\ Is(r, "CLOSE")

LEMMA HandlingView ==
    ASSUME NEW r, Handle(r, waiting)
    PROVE  HandledView(r)
<1> USE DEF HandledView
<1>1. CASE HandleWithoutWindow(r, waiting)
  BY <1>1 DEF HandleWithoutWindow, windowVars
<1>2. CASE HandleCreate(r, waiting)
  BY <1>2, Zenon DEF HandleCreate, CreateWindow, windowVars
<1>3. CASE HandleFails(r, waiting)
  BY <1>3 DEF HandleFails, CreateFails, ShowFails, ShowWindow, DrawFails, PresentFails, Present, windowVars
<1>4. CASE HandleBeginFrame(r, waiting)
  BY <1>4 DEF HandleBeginFrame, BeginFrame
<1>5. CASE HandleDraw(r, waiting)
  BY <1>5 DEF HandleDraw, Draw
<1>6. CASE HandlePresent(r, waiting)
  BY <1>6 DEF HandlePresent, Present
<1>7. CASE HandleShow(r, waiting)
  BY <1>7, Zenon DEF HandleShow, ShowWindow
<1>8. CASE HandleClose(r, waiting)
  BY <1>8 DEF HandleClose, CloseWindow
<1> QED BY <1>1, <1>2, <1>3, <1>4, <1>5, <1>6, <1>7, <1>8, Zenon DEF Handle

\* The steps of Next, one by one.
Steps ==
    \/ \E c \in Clients : \/ Subscribe(c) \/ Subscribed(c) \/ Send(c) \/ SendSucceeds(c)
                          \/ SendRejected(c) \/ SendGivesUp(c) \/ WindowClosed(c) \/ Ends(c)
                          \/ Returns(c) \/ Cancel(c)
                          \/ AcceptEvents(c) /\ UNCHANGED <<feedVars, sessionVars>>
    \/ Update \/ LogNotice
    \/ Feeds \/ ((BrokerSends \/ BrokerGoes) /\ UNCHANGED <<wmVars, sessionVars>>)
    \/ \E r \in requests : Handle(r, waiting) /\ UNCHANGED <<feedVars, sessionVars>>
    \/ NativeClose
    \/ UserCloses /\ UNCHANGED <<feedVars, sessionVars>>
    \/ (Quit \/ Stop) /\ UNCHANGED <<feedVars, sessionVars>>

LEMMA NextIsSteps == Next => Steps
BY Zenon DEF Next, Steps, Session, HandleAny, AcceptAny

\* Every step keeps the types and the close control.
LEMMA BaseStep ==
    ASSUME Base
    PROVE  [Next]_vars => Base'
\* A valid Target can be merged into every list that BuildFrame accepts.
<1>MergeAccepts. ASSUME NEW ts \in Accepted, NEW t \in Known, Valid(t)
                 PROVE  Merge(ts, t) \in Accepted
  <2> USE <1>MergeAccepts
  <2> DEFINE m == Merge(ts, t)
  <2>1. ts \in Seq(Known) /\ Len(ts) \in Nat /\ DOMAIN ts = 1..Len(ts) /\ \A i \in 1..Len(ts) : ts[i] \in Known
    BY LenProperties, ElementOfSeq DEF Accepted
  <2>2. CASE \E i \in DOMAIN ts : ts[i].targetId = t.targetId
    <3>1. m = [i \in 1..Len(ts) |-> IF ts[i].targetId = t.targetId THEN t ELSE ts[i]]
      BY <2>1, <2>2, Zenon DEF Merge
    <3> HIDE DEF m
    <3>2. m \in [1..Len(ts) -> Known]
      BY <2>1, <3>1
    <3>3. m \in Seq(Known) /\ DOMAIN m = 1..Len(ts)
      BY <2>1, <3>2
    <3>4. \A i \in 1..Len(ts) : /\ m[i].targetId = ts[i].targetId
                                /\ m[i] = t \/ m[i] = ts[i]
      BY <3>1
    <3>5. FrameAccepts(m)
      BY <2>1, <3>3, <3>4, Zenon DEF FrameAccepts, Accepted, Valid
    <3> QED BY <3>3, <3>5 DEF Accepted, m
  <2>3. CASE ~ \E i \in DOMAIN ts : ts[i].targetId = t.targetId
    <3>1. m = Append(ts, t)
      BY <2>3 DEF Merge
    <3> HIDE DEF m
    <3>2. m \in Seq(Known) /\ Len(m) = Len(ts) + 1 /\ m[Len(ts) + 1] = t /\ \A i \in 1..Len(ts) : m[i] = ts[i]
      BY <2>1, <3>1, AppendProperties
    <3>3. DOMAIN m = 1..(Len(ts) + 1)
      BY <3>2, LenProperties
    <3>a. \A i \in 1..(Len(ts) + 1) : (i \in DOMAIN ts /\ m[i] = ts[i]) \/ (i = Len(ts) + 1 /\ m[i] = t)
      BY <2>1, <3>2
    <3>b. FrameAccepts(ts)
      BY DEF Accepted
    <3>4. FrameAccepts(m)
      <4>1. \A i \in DOMAIN m : /\ m[i].targetId # "" /\ ProbabilityValid(m[i]) /\ validCoordinates(m[i])
        BY <3>a, <3>b, <3>3, Zenon DEF FrameAccepts, Valid
      <4>2. \A i, j \in DOMAIN m : m[i].targetId = m[j].targetId => i = j
        <5> SUFFICES ASSUME NEW i \in DOMAIN m, NEW j \in DOMAIN m, m[i].targetId = m[j].targetId PROVE i = j
          OBVIOUS
        <5>1. /\ (i \in DOMAIN ts /\ m[i] = ts[i]) \/ (i = Len(ts) + 1 /\ m[i] = t)
              /\ (j \in DOMAIN ts /\ m[j] = ts[j]) \/ (j = Len(ts) + 1 /\ m[j] = t)
          BY <3>a, <3>3
        <5>2. \A k \in DOMAIN ts : ts[k].targetId # t.targetId
          BY <2>3
        <5>3. \A k, l \in DOMAIN ts : ts[k].targetId = ts[l].targetId => k = l
          BY <3>b, Zenon DEF FrameAccepts
        <5> QED BY <5>1, <5>2, <5>3, Zenon
      <4> QED BY <4>1, <4>2, Zenon DEF FrameAccepts
    <3> QED BY <3>2, <3>4 DEF Accepted, m
  <2> QED BY <2>2, <2>3
<1>Subscribe. ASSUME NEW c \in Clients, Subscribe(c)
              PROVE  Base'
  <2> USE <1>Subscribe
  <2> USE DEF Base
  <2>1. TypeOK'
    BY Zenon DEF TypeOK, Subscribe, Goes, StartFeed, feedVars, windowVars, Points
  <2>2. Clicks'
    BY Zenon DEF Clicks, Subscribe, windowVars
  <2> QED BY <2>1, <2>2
<1>Subscribed. ASSUME NEW c \in Clients, Subscribed(c)
               PROVE  Base'
  <2> USE <1>Subscribed
  <2> USE DEF Base
  <2>1. events' \in [Clients -> Seq({"subscribed", "window_close"})]
    <3>1. events[c] \in Seq({"subscribed", "window_close"})
      BY DEF TypeOK
    <3>2. events[c] # <<>> => Tail(events[c]) \in Seq({"subscribed", "window_close"})
      BY <3>1, HeadTailProperties
    <3>3. CASE events' = events
      BY <3>3 DEF TypeOK
    <3>4. CASE events[c] # <<>> /\ events' = [events EXCEPT ![c] = Tail(@)]
      BY <3>2, <3>4, Zenon DEF TypeOK
    <3> QED BY <3>3, <3>4 DEF Subscribed
  <2>2. TypeOK'
    BY <2>1, Zenon DEF TypeOK, Subscribed, Goes, Unsubscribes, feedVars, windowVars, Points
  <2>3. Clicks'
    BY Zenon DEF Clicks, Subscribed, windowVars
  <2> QED BY <2>2, <2>3
<1>Send. ASSUME NEW c \in Clients, Send(c)
         PROVE  Base'
  <2> USE <1>Send
  <2> USE DEF Base
  <2>1. TypeOK'
    BY DEF TypeOK, Send, feedVars, windowVars, serverVars
  <2>2. Clicks'
    BY Zenon DEF Clicks, Send, windowVars
  <2> QED BY <2>1, <2>2
<1>SendSucceeds. ASSUME NEW c \in Clients, SendSucceeds(c)
                 PROVE  Base'
  <2> USE <1>SendSucceeds
  <2> USE DEF Base
  <2>1. AfterSuccess(c) \in Points
    BY Successor, Zenon DEF SendSucceeds, Sending, Drawing, Points
  <2>2. DOMAIN todo' = Clients /\ eventClients' \subseteq Clients
    BY Zenon DEF SendSucceeds, Unsubscribes, TypeOK
  <2>3. TypeOK'
    BY <2>1, <2>2, Zenon DEF TypeOK, SendSucceeds, Leaves, Goes, feedVars, windowVars, Answers
  <2>4. Clicks'
    BY Zenon DEF Clicks, SendSucceeds, windowVars
  <2> QED BY <2>3, <2>4
<1>SendRejected. ASSUME NEW c \in Clients, SendRejected(c)
                 PROVE  Base'
  <2> USE <1>SendRejected
  <2> USE DEF Base
  <2>2. DOMAIN todo' = Clients /\ eventClients' \subseteq Clients
    BY Zenon DEF SendRejected, StreamAfterFailure, Unsubscribes, Drops, TypeOK
  <2>3. TypeOK'
    BY <2>2 DEF TypeOK, SendRejected, AfterFailure, Leaves, Goes, feedVars, windowVars, Answers, Points
  <2>4. Clicks'
    BY Zenon DEF Clicks, SendRejected, windowVars
  <2> QED BY <2>3, <2>4
<1>SendGivesUp. ASSUME NEW c \in Clients, SendGivesUp(c)
                PROVE  Base'
  <2> USE <1>SendGivesUp
  <2> USE DEF Base
  <2>2. DOMAIN todo' = Clients /\ eventClients' \subseteq Clients
    BY DEF SendGivesUp, StreamAfterFailure, Unsubscribes, Drops, TypeOK
  <2>3. TypeOK'
    BY <2>2, Zenon DEF TypeOK, SendGivesUp, AfterFailure, Leaves, Goes, feedVars, windowVars, Answers, Points
  <2>4. Clicks'
    BY Zenon DEF Clicks, SendGivesUp, windowVars
  <2> QED BY <2>3, <2>4
<1>WindowClosed. ASSUME NEW c \in Clients, WindowClosed(c)
                 PROVE  Base'
  <2> USE <1>WindowClosed
  <2> USE DEF Base
  <2>1. events' \in [Clients -> Seq({"subscribed", "window_close"})]
    BY DEF TypeOK, WindowClosed
  <2>2. TypeOK'
    BY <2>1 DEF TypeOK, WindowClosed, Goes, Unsubscribes, feedVars, windowVars, Points
  <2>3. Clicks'
    BY Zenon DEF Clicks, WindowClosed, windowVars
  <2> QED BY <2>2, <2>3
<1>Ends. ASSUME NEW c \in Clients, Ends(c)
         PROVE  Base'
  <2> USE <1>Ends
  <2> USE DEF Base
  <2>2. TypeOK'
    BY Zenon DEF TypeOK, Ends, Goes, Unsubscribes, feedVars, windowVars, Points
  <2>3. Clicks'
    BY Zenon DEF Clicks, Ends, windowVars
  <2> QED BY <2>2, <2>3
<1>Update. ASSUME Update
           PROVE  Base' /\ targets'[Fed] \in Accepted /\ FrameAccepts(targets'[Fed])
  <2> USE <1>Update
  <2> USE DEF Base
  <2>0. Fed \in Clients
    BY MapSessionAssumption, Zenon
  <2>1. /\ updates # <<>> /\ updates \in Seq({t \in Known : Valid(t)})
        /\ updates' = Tail(updates)
        /\ targets' = [targets EXCEPT ![Fed] = Merge(targets[Fed], Head(updates))]
    BY Zenon DEF Update, TypeOK
  <2>2. Head(updates) \in {t \in Known : Valid(t)} /\ updates' \in Seq({t \in Known : Valid(t)})
    BY <2>1, HeadTailProperties, Zenon
  <2>3. Merge(targets[Fed], Head(updates)) \in Accepted
    BY <2>0, <2>2, <1>MergeAccepts DEF TypeOK
  <2>4. targets' \in [Clients -> Accepted] /\ targets'[Fed] \in Accepted
    BY <2>0, <2>1, <2>3, Zenon DEF TypeOK
  <2>5. FrameAccepts(targets'[Fed])
    BY <2>4, Zenon DEF Accepted
  <2>6. pc' \in [Clients -> Points] /\ DOMAIN todo' = Clients /\ eventClients' \subseteq Clients
    BY <2>0, <2>5, Zenon DEF Update, TypeOK, Goes, Points
  <2>7. TypeOK'
    BY <2>2, <2>4, <2>6, Zenon DEF TypeOK, Update, windowVars, feedExceptChannels
  <2>8. Clicks'
    BY Zenon DEF Clicks, Update, windowVars
  <2> QED BY <2>4, <2>5, <2>7, <2>8
<1>LogNotice. ASSUME LogNotice
              PROVE  Base'
  <2> USE <1>LogNotice
  <2> USE DEF Base, LogNotice, wmVars, windowVars, serverVars, sessionVars, feedExceptChannels
  <2>1. TypeOK'
    BY Zenon DEF TypeOK
  <2>2. Clicks'
    BY DEF Clicks
  <2> QED BY <2>1, <2>2, Zenon
<1>Returns. ASSUME NEW c \in Clients, Returns(c)
            PROVE  Base'
  <2> USE <1>Returns
  <2> USE DEF Base
  <2>1. <<>> \in Accepted /\ \A S : <<>> \in Seq(S)
    BY DEF Accepted, FrameAccepts
  <2>2. wire' \in Seq(FeedLines) /\ updates' \in Seq({t \in Known : Valid(t)}) /\ offered' = offered
    BY <2>1, Zenon DEF TypeOK, Returns, DropFeed, feedVars
  <2>3. events' \in [Clients -> Seq({"subscribed", "window_close"})] /\ targets' \in [Clients -> Accepted]
    BY <2>1 DEF TypeOK, Returns
  <2>4. TypeOK'
    BY <2>2, <2>3 DEF TypeOK, Returns, Goes, windowVars, Points
  <2>5. Clicks'
    BY DEF Clicks, Returns, windowVars
  <2> QED BY <2>4, <2>5
<1>Cancel. ASSUME NEW c \in Clients, Cancel(c)
           PROVE  Base'
  <2> USE <1>Cancel
  <2> USE DEF Base, Cancel, wmVars, windowVars, serverVars, feedVars
  <2>1. TypeOK'
    BY Zenon DEF TypeOK
  <2>2. Clicks'
    BY DEF Clicks
  <2> QED BY <2>1, <2>2, Zenon
\* What the feed does, to the session.
<1>FeedsTyped. ASSUME TypeOK, NEW gone, FeedStep(gone)
               PROVE  /\ wire' \in Seq(FeedLines)
                      /\ offered' \subseteq {t \in Known : Valid(t)} /\ updates' \in Seq({t \in Known : Valid(t)})
  <2> USE <1>FeedsTyped
  <2> DEFINE G == {t \in Known : Valid(t)}
  <2>0. wire \in Seq(FeedLines) /\ offered \subseteq G /\ updates \in Seq(G)
    BY Zenon DEF TypeOK
  <2> HIDE DEF G
  <2>1. CASE Connect(gone) \/ WritePub(gone) \/ Notice(gone)
    BY <2>0, <2>1 DEF Connect, WritePub, Notice, G
  <2>2. CASE ReadFails(gone)
    BY <2>0, <2>2 DEF ReadFails, G
  <2>3. CASE ReadLine
    <3>1. wire # <<>> /\ wire' = Tail(wire) /\ updates' = updates
      BY <2>3 DEF ReadLine
    <3>2. Head(wire) \in FeedLines /\ wire' \in Seq(FeedLines)
      BY <2>0, <3>1, HeadTailProperties, Zenon
    <3>3. offered' = offered \/ (parseTarget(Head(wire).payload) /\ offered' = {Head(wire).payload.value})
      BY <2>3 DEF ReadLine
    <3>4. parseTarget(Head(wire).payload) => Head(wire).payload.value \in G
      BY <3>2, Zenon DEF parseTarget, Valid, Known, G
    <3> QED BY <2>0, <3>1, <3>2, <3>3, <3>4, Zenon DEF G
  <2>4. CASE Offer(gone)
    <3>1. wire' = wire /\ offered' = {}
      BY <2>4 DEF Offer
    <3>2. updates' = updates \/ \E t \in offered : updates' = Append(updates, t)
      BY <2>4 DEF Offer
    <3>3. updates' \in Seq(G)
      BY <2>0, <3>2, AppendProperties
    <3> QED BY <2>0, <3>1, <3>3 DEF G
  <2> QED BY <2>1, <2>2, <2>3, <2>4, Zenon DEF FeedStep
<1>Elsewhere. ASSUME Elsewhere, wire' \in Seq(FeedLines), offered' \subseteq {t \in Known : Valid(t)},
                     updates' \in Seq({t \in Known : Valid(t)})
              PROVE  Base'
  <2> USE <1>Elsewhere
  <2> USE DEF Base, Elsewhere, wmVars, windowVars, serverVars, sessionVars
  <2>1. TypeOK'
    BY DEF TypeOK
  <2>2. Clicks'
    BY DEF Clicks
  <2> QED BY <2>1, <2>2, Zenon
<1>Feeds. ASSUME Feeds \/ ((BrokerSends \/ BrokerGoes) /\ UNCHANGED <<wmVars, sessionVars>>)
          PROVE  Base' /\ Elsewhere
  <2> USE <1>Feeds
  <2>1. Elsewhere
    BY DEF Feeds, Elsewhere
  <2>2. CASE Feeds
    BY <2>1, <2>2, <1>FeedsTyped, <1>Elsewhere DEF Feeds, Base
  <2>3. CASE BrokerSends
    <3>1. /\ \E line \in FeedLines : wire' = Append(wire, line)
          /\ offered' = offered /\ updates' = updates /\ wire \in Seq(FeedLines)
      BY <2>3, Zenon DEF BrokerSends, Base, TypeOK
    <3>2. wire' \in Seq(FeedLines)
      BY <3>1, AppendProperties
    <3> QED BY <2>1, <3>1, <3>2, <1>Elsewhere, Zenon DEF Base, TypeOK
  <2>4. CASE BrokerGoes
    BY <2>1, <2>4, <1>Elsewhere, Zenon DEF BrokerGoes, Base, TypeOK
  <2> QED BY <2>2, <2>3, <2>4
<1>AcceptEvents. ASSUME NEW c \in Clients, AcceptEvents(c) /\ UNCHANGED <<feedVars, sessionVars>>
                 PROVE  Base'
  <2> USE <1>AcceptEvents
  <2> USE DEF Base
  <2>1. events' \in [Clients -> Seq({"subscribed", "window_close"})]
    <3>1. PICK E : E = {"subscribed", "window_close"}
      BY Zenon
    <3>2. events \in [Clients -> Seq(E)] /\ "subscribed" \in E
      BY <3>1, Zenon DEF TypeOK
    <3>3. events' = [events EXCEPT ![c] = Append(events[c], "subscribed")]
      BY Zenon DEF AcceptEvents
    <3>4. Append(events[c], "subscribed") \in Seq(E)
      BY <3>2, AppendProperties, Zenon
    <3>5. events' \in [Clients -> Seq(E)]
      BY <3>2, <3>3, <3>4, Zenon
    <3> QED BY <3>1, <3>5, Zenon
  <2>2. TypeOK'
    BY <2>1, Zenon DEF TypeOK, AcceptEvents, windowVars, feedVars, sessionVars
  <2>3. Clicks'
    BY DEF Clicks, AcceptEvents, windowVars
  <2> QED BY <2>2, <2>3
<1>Handle. ASSUME NEW r \in requests, Handle(r, waiting) /\ UNCHANGED <<feedVars, sessionVars>>
           PROVE  Base'
  <2> USE <1>Handle
  <2> USE DEF Base
  <2>0. r.from \in Clients
    BY DEF TypeOK
  <2>1. PICK answer : Handled(r, answer)
    BY Handling
  <2>2. HandledView(r)
    BY HandlingView, Zenon
  <2>3. replies' \in [Clients -> Answers]
    BY <2>0, <2>1, Zenon DEF Handled, Reply, TypeOK
  <2>4. window' \in Clients \cup {NoWindow} /\ visible' \in BOOLEAN /\ clicked' \in BOOLEAN
        /\ native' \in Seq(CloseEvents)
    <3>1. window' \in Clients \cup {NoWindow}
      BY <2>0, <2>1, Zenon DEF Handled, TypeOK
    <3>2. visible' \in BOOLEAN /\ clicked' \in BOOLEAN
      BY <2>2, Zenon DEF HandledView, TypeOK
    <3>3. native' = native \/ native' = <<>>
      BY <2>2, Zenon DEF HandledView
    <3>4. native \in Seq(CloseEvents) /\ <<>> \in Seq(CloseEvents)
      BY DEF TypeOK
    <3> QED BY <3>1, <3>2, <3>3, <3>4, Zenon
  <2>5. requests' = requests \ {r} /\ UNCHANGED serverVars
    BY Zenon DEF Handle
  <2>6. TypeOK'
    BY <2>3, <2>4, <2>5, Zenon DEF TypeOK, serverVars, feedVars, sessionVars
  <2>7. Clicks'
    BY <2>0, <2>2, WindowManagerAssumption DEF HandledView, Clicks
  <2> QED BY <2>6, <2>7, Zenon
<1>NativeClose. ASSUME NativeClose
                PROVE  Base'
  <2> USE <1>NativeClose
  <2> USE DEF Base
  <2>0. window \in Clients
    BY Zenon DEF NativeClose, PollClose, TypeOK
  <2>1. /\ events' = [c \in Clients |-> IF c \in eventClients THEN Append(events[c], "window_close") ELSE events[c]]
        /\ window' = NoWindow /\ visible' = FALSE /\ native' = <<>> /\ clicked' = FALSE
    BY Zenon DEF NativeClose, PollClose, CloseWindow
  <2>2. events' \in [Clients -> Seq({"subscribed", "window_close"})]
    BY <2>1 DEF TypeOK
  <2>3. closedByUser' \subseteq Clients
    BY <2>0 DEF NativeClose, TypeOK
  <2>4. TypeOK'
    <3>1. native' \in Seq(CloseEvents)
      BY <2>1
    <3> QED BY <2>1, <2>2, <2>3, <3>1, Zenon DEF NativeClose, PollClose, TypeOK, feedVars
  <2>5. Clicks'
    BY <2>1 DEF Clicks
  <2> QED BY <2>4, <2>5, Zenon
<1>UserCloses. ASSUME UserCloses /\ UNCHANGED <<feedVars, sessionVars>>
               PROVE  Base'
  <2> USE <1>UserCloses
  <2> USE DEF Base
  <2>1. native' \in Seq(CloseEvents)
    <3>1. <<"close", "quit">> \in Seq(CloseEvents) /\ native \in Seq(CloseEvents)
      BY DEF CloseEvents, TypeOK
    <3> QED BY <3>1, ConcatProperties, Zenon DEF UserCloses
  <2>2. TypeOK'
    BY <2>1, Zenon DEF UserCloses, TypeOK, serverVars, feedVars, sessionVars
  <2>3. Clicks'
    BY DEF UserCloses, Clicks
  <2> QED BY <2>2, <2>3, Zenon
<1>Quit. ASSUME Quit \/ Stop, UNCHANGED <<feedVars, sessionVars>>
         PROVE  Base'
  <2> USE <1>Quit
  <2> USE DEF Base
  <2>1. window' = NoWindow /\ visible' = FALSE /\ native' = <<>> /\ clicked' = FALSE
    BY Zenon DEF Quit, Stop, CloseWindow
  <2>2. TypeOK'
    <3>1. native' \in Seq(CloseEvents)
      BY <2>1
    <3> QED BY <2>1, <3>1, Zenon DEF TypeOK, Quit, Stop, feedVars, sessionVars
  <2>3. Clicks'
    BY <2>1 DEF Clicks
  <2> QED BY <2>2, <2>3, Zenon
<1>Stutter. ASSUME UNCHANGED vars
            PROVE  Base'
  <2> USE <1>Stutter
  <2> USE DEF Base, vars, wmVars, windowVars, serverVars, feedVars, sessionVars
  <2>1. TypeOK'
    BY DEF TypeOK
  <2>2. Clicks'
    BY DEF Clicks
  <2> QED BY <2>1, <2>2
<1> SUFFICES ASSUME [Next]_vars PROVE Base'
  OBVIOUS
<1>1. CASE UNCHANGED vars
  BY <1>1, <1>Stutter
<1>2. ASSUME NEW c \in Clients,
             \/ Subscribe(c) \/ Subscribed(c) \/ Send(c) \/ SendSucceeds(c)
             \/ SendRejected(c) \/ SendGivesUp(c) \/ WindowClosed(c) \/ Ends(c)
             \/ Returns(c) \/ Cancel(c)
             \/ AcceptEvents(c) /\ UNCHANGED <<feedVars, sessionVars>>
      PROVE  Base'
  BY <1>2, <1>Subscribe, <1>Subscribed, <1>Send, <1>SendSucceeds, <1>SendRejected, <1>SendGivesUp,
     <1>WindowClosed, <1>Ends, <1>Returns, <1>Cancel, <1>AcceptEvents, Zenon
<1>3. CASE Update \/ LogNotice
  BY <1>3, <1>Update, <1>LogNotice, Zenon
<1>4. CASE Feeds \/ ((BrokerSends \/ BrokerGoes) /\ UNCHANGED <<wmVars, sessionVars>>)
  BY <1>4, <1>Feeds, Zenon
<1>5. CASE \E r \in requests : Handle(r, waiting) /\ UNCHANGED <<feedVars, sessionVars>>
  BY <1>5, <1>Handle, Zenon
<1>6. CASE NativeClose \/ (UserCloses /\ UNCHANGED <<feedVars, sessionVars>>)
                      \/ ((Quit \/ Stop) /\ UNCHANGED <<feedVars, sessionVars>>)
  BY <1>6, <1>NativeClose, <1>UserCloses, <1>Quit, Zenon
<1> QED BY <1>1, <1>2, <1>3, <1>4, <1>5, <1>6, NextIsSteps, Zenon DEF Steps

\* Types and the close control, whatever the processes and the user do.
THEOREM BaseInvariance == Spec => []Base
<1>1. Base /\ [Next]_vars => Base'
  BY BaseStep
<1> QED BY <1>1, InitBase, PTL DEF Spec

\* No line of the Broker makes BuildFrame in frame.go refuse the Targets of a
\* session: parseTarget refuses it first, and merging keeps the identifiers
\* apart.
THEOREM FeedLinesHarmlessHolds == Spec => []FeedLinesHarmless
<1>1. Base => FeedLinesHarmless
  BY Zenon DEF Base, TypeOK, Accepted, FeedLinesHarmless
<1> QED BY <1>1, BaseInvariance, PTL

\* pollWindowEvents in server.go never closes a window for the close control of
\* an earlier one: Close of the backend empties the event queue.
THEOREM NoStaleCloseHolds == Spec => []NoStaleClose
<1>1. Base => NoStaleClose
  <2> SUFFICES ASSUME Base, CloseEvents \cap Range(native) # {} PROVE clicked
    BY DEF NoStaleClose
  <2>1. native # <<>>
    BY DEF Range
  <2> QED BY <2>1 DEF Base, Clicks
<1> QED BY <1>1, BaseInvariance, PTL

-----------------------------------------------------------------------------
(* Recursion: WFMin of WellFoundedInduction, which is about sets, gives     *)
(* induction on sets of numbers, and functions defined step by step.        *)

Below == {p \in Nat \X Nat : p[1] < p[2]}

LEMMA BelowWellFounded == IsWellFoundedOn(Below, Nat)
BY NatLessThanWellFounded DEF OpToRel, Below

LEMMA LeastNumber ==
    ASSUME NEW T \in SUBSET Nat, T # {}
    PROVE  \E x \in T : \A y \in T : x <= y
<1>1. PICK x \in T : \A y \in T : ~ (<<y, x>> \in Below)
  BY BelowWellFounded, WFMin, Zenon
<1>2. ASSUME NEW y \in T PROVE x <= y
  <2>1. <<y, x>> \notin Below
    BY <1>1
  <2> QED BY <2>1 DEF Below
<1> QED BY <1>2

LEMMA Induction ==
    ASSUME NEW T \in SUBSET Nat, 0 \in T, \A n \in T : n + 1 \in T
    PROVE  T = Nat
<1> SUFFICES ASSUME Nat \ T # {} PROVE FALSE
  BY Zenon
<1>1. PICK x \in Nat \ T : \A y \in Nat \ T : x <= y
  BY LeastNumber, Zenon
<1>2. x - 1 \in T
  BY <1>1
<1> QED BY <1>1, <1>2

\* f runs through the n steps from a.
Turns(n, S) == [1..n -> [S -> S]]
Runs(f, n, S, a, step) ==
    f \in [0..n -> S] /\ f[0] = a /\ \A i \in 1..n : f[i] = step[i][f[i - 1]]

\* A function on 0..n can be defined by its first value and its steps.
LEMMA Recursion ==
    ASSUME NEW S, NEW n \in Nat, NEW a \in S, NEW step \in Turns(n, S)
    PROVE  \E f : Runs(f, n, S, a, step)
<1> DEFINE Follows(m, f) == f[0] = a /\ \A i \in 1..m : f[i] = step[i][f[i - 1]]
           T == {m \in Nat : m <= n => \E f \in [0..m -> S] : Follows(m, f)}
<1>0. step \in [1..n -> [S -> S]]
  BY DEF Turns
<1>1. 0 \in T
  <2>1. [i \in 0..0 |-> a] \in [0..0 -> S] /\ Follows(0, [i \in 0..0 |-> a])
    OBVIOUS
  <2> QED BY <2>1, Zenon
<1>2. ASSUME NEW m \in T PROVE m + 1 \in T
  <2>0. m \in Nat
    BY Zenon
  <2>1. ASSUME m + 1 <= n PROVE \E f \in [0..(m + 1) -> S] : Follows(m + 1, f)
    <3>1. PICK f \in [0..m -> S] : Follows(m, f)
      BY <2>1
    <3>2. PICK g : g = [i \in 0..(m + 1) |-> IF i <= m THEN f[i] ELSE step[m + 1][f[m]]]
      BY Zenon
    <3>3. step[m + 1] \in [S -> S] /\ f[m] \in S
      BY <1>0, <2>1
    <3>4. g \in [0..(m + 1) -> S]
      BY <3>2, <3>3
    <3>5. g[0] = a /\ \A i \in 1..m : g[i] = step[i][g[i - 1]]
      BY <3>1, <3>2
    <3>6. g[m + 1] = step[m + 1][g[m]]
      BY <3>2
    <3>7. Follows(m + 1, g)
      <4>1. \A i \in 1..(m + 1) : i \in 1..m \/ i = m + 1
        BY <2>0
      <4>2. (m + 1) - 1 = m
        BY <2>0
      <4>3. ASSUME NEW i \in 1..(m + 1) PROVE g[i] = step[i][g[i - 1]]
        <5>1. CASE i \in 1..m
          BY <3>5, <5>1, Zenon
        <5>2. CASE i = m + 1
          BY <3>6, <4>2, <5>2
        <5> QED BY <4>1, <5>1, <5>2, Zenon
      <4> QED BY <3>5, <4>3, Zenon
    <3> QED BY <3>4, <3>7, Zenon
  <2>2. m + 1 \in Nat
    BY <2>0
  <2> QED BY <2>1, <2>2, Zenon
<1> HIDE DEF T
<1>3. T \in SUBSET Nat
  BY DEF T
<1>4. T = Nat
  BY <1>1, <1>2, <1>3, Induction
<1>5. n \in T /\ n <= n
  BY <1>4
<1>6. PICK f \in [0..n -> S] : Follows(n, f)
  BY <1>5 DEF T
<1> QED BY <1>6 DEF Runs

-----------------------------------------------------------------------------
(* The frame *)

\* What the preview accepts between BEGIN_FRAME and PRESENT.
Middle(x) ==
    /\ x.command \in {"DRAW_IMAGE", "DRAW_CIRCLE"}
    /\ x.command = "DRAW_CIRCLE" => /\ x.radius \in 1..128 /\ x.alpha \in 0..255
                                    /\ x.x \in 0..Width - 1 /\ x.y \in 0..Height - 1

Strokes(ts) ==
    {Plain(name, ts) : name \in {"BEGIN_FRAME", "DRAW_IMAGE", "PRESENT"}}
    \cup {Circle(t, 13, 255, ts) : t \in Known} \cup {Circle(t, 10, Alpha(t), ts) : t \in Known}

\* The commands of a frame before PRESENT.
Opening(ts) ==
    {x \in Seq(Strokes(ts)) : /\ Len(x) >= 2 /\ x[1] = Plain("BEGIN_FRAME", ts)
                              /\ \A i \in 2..Len(x) : Middle(x[i])}

LEMMA Quotient ==
    ASSUME NEW a \in Nat, NEW b \in Nat \ {0}
    PROVE  a \div b \in Nat
OBVIOUS

LEMMA ProjectInside ==
    ASSUME NEW t, Inside(t)
    PROVE  Project(t).x \in 0..Width - 1 /\ Project(t).y \in 0..Height - 1
<1>0. /\ Bounds.latMin \in Int /\ Bounds.latMax \in Int /\ Bounds.lonMin \in Int /\ Bounds.lonMax \in Int
      /\ Bounds.latMin < Bounds.latMax /\ Bounds.lonMin < Bounds.lonMax
  BY MapFrameAssumption DEF BoundsValid
<1>1. ASSUME NEW n \in Nat, NEW d \in Nat \ {0} PROVE Round(n, d) \in Nat
  BY Quotient DEF Round
<1>2. ASSUME NEW n \in Nat, NEW m \in Nat PROVE Min({n, m}) \in 0..m
  <2>1. \E x \in {n, m} : \A y \in {n, m} : x <= y
    OBVIOUS
  <2>2. Min({n, m}) \in {n, m} /\ \A y \in {n, m} : Min({n, m}) <= y
    BY <2>1, Zenon DEF Min
  <2> QED BY <2>2
<1>3. /\ (t.longitude - Bounds.lonMin) * Width \in Nat /\ Bounds.lonMax - Bounds.lonMin \in Nat \ {0}
      /\ (Bounds.latMax - t.latitude) * Height \in Nat /\ Bounds.latMax - Bounds.latMin \in Nat \ {0}
  BY <1>0 DEF Inside, Width, Height
<1>4. /\ Project(t).x = Min({Round((t.longitude - Bounds.lonMin) * Width, Bounds.lonMax - Bounds.lonMin), Width - 1})
      /\ Project(t).y = Min({Round((Bounds.latMax - t.latitude) * Height, Bounds.latMax - Bounds.latMin), Height - 1})
  BY DEF Project
<1>5. Width - 1 \in Nat /\ Height - 1 \in Nat
  BY DEF Width, Height
<1> QED BY <1>1, <1>2, <1>3, <1>4, <1>5, Zenon

LEMMA AlphaInRange ==
    ASSUME NEW t, ProbabilityValid(t)
    PROVE  Alpha(t) \in 0..255
BY DEF Alpha, Round, ProbabilityValid

\* A turn of the loop of BuildFrame.
LEMMA CirclesKeep ==
    ASSUME NEW ts, NEW t \in Known, Valid(t), NEW x \in Opening(ts)
    PROVE  x \o Circles(t, ts) \in Opening(ts)
<1>1. x \in Seq(Strokes(ts)) /\ Len(x) >= 2 /\ x[1] = Plain("BEGIN_FRAME", ts) /\ \A i \in 2..Len(x) : Middle(x[i])
  BY DEF Opening
<1>2. CASE ~Inside(t)
  <2>1. Circles(t, ts) = <<>>
    BY <1>2 DEF Circles
  <2> QED BY <1>1, <2>1
<1>3. CASE Inside(t)
  <2>1. PICK a, b : a = Circle(t, 13, 255, ts) /\ b = Circle(t, 10, Alpha(t), ts)
    OBVIOUS
  <2>2. Alpha(t) \in 0..255
    BY AlphaInRange, Zenon DEF Valid
  <2>3. a \in Strokes(ts) /\ b \in Strokes(ts)
    BY <2>1, <2>2, Zenon DEF Strokes
  <2>4. Middle(a) /\ Middle(b)
    BY <1>3, <2>1, <2>2, ProjectInside, SMTT(30) DEF Middle, Circle
  <2>5. Circles(t, ts) = <<a, b>>
    BY <1>3, <2>1 DEF Circles
  <2>6. PICK y : y = x \o <<a, b>>
    BY Zenon
  <2>7. /\ y \in Seq(Strokes(ts)) /\ Len(y) = Len(x) + 2
        /\ \A i \in 1..Len(x) : y[i] = x[i]
        /\ y[Len(x) + 1] = a /\ y[Len(x) + 2] = b
    BY <1>1, <2>3, <2>6
  <2>8. \A i \in 2..Len(y) : Middle(y[i])
    <3>1. ASSUME NEW i \in 2..Len(y) PROVE Middle(y[i])
      <4>1. i \in 2..Len(x) \/ i = Len(x) + 1 \/ i = Len(x) + 2
        BY <1>1, <2>7
      <4> QED BY <1>1, <2>4, <2>7, <4>1
    <3> QED BY <3>1, Zenon
  <2>9. Len(y) >= 2 /\ y[1] = Plain("BEGIN_FRAME", ts)
    BY <1>1, <2>7
  <2> QED BY <2>5, <2>6, <2>7, <2>8, <2>9, Zenon DEF Opening
<1> QED BY <1>2, <1>3

LEMMA OpeningStarts ==
    ASSUME NEW ts
    PROVE  <<Plain("BEGIN_FRAME", ts), Plain("DRAW_IMAGE", ts)>> \in Opening(ts)
<1>1. PICK a, b : a = Plain("BEGIN_FRAME", ts) /\ b = Plain("DRAW_IMAGE", ts)
  OBVIOUS
<1>2. a \in Strokes(ts) /\ b \in Strokes(ts)
  BY <1>1, Zenon DEF Strokes
<1>3. Middle(b)
  BY <1>1 DEF Middle, Plain
<1>4. <<a, b>> \in Seq(Strokes(ts)) /\ Len(<<a, b>>) = 2 /\ <<a, b>>[1] = a /\ <<a, b>>[2] = b
  BY <1>2
<1>5. \A i \in 2..Len(<<a, b>>) : Middle(<<a, b>>[i])
  BY <1>3, <1>4
<1> QED BY <1>1, <1>4, <1>5 DEF Opening

\* BuildFrame ends what its loop has made by PRESENT.
LEMMA BuildFrameIs ==
    ASSUME NEW ts \in Accepted
    PROVE  \E x \in Opening(ts) : BuildFrame(ts) = Append(x, Plain("PRESENT", ts))
<1> DEFINE n == Len(ts)
           a == <<Plain("BEGIN_FRAME", ts), Plain("DRAW_IMAGE", ts)>>
           G == Opening(ts)
           Loop(f) == [i \in 0..n |-> IF i = 0 THEN a ELSE f[i - 1] \o Circles(ts[i], ts)]
           g == CHOOSE f : f = Loop(f)
<1>1. n \in Nat /\ \A i \in 1..n : ts[i] \in Known /\ Valid(ts[i])
  BY LenProperties, ElementOfSeq, Zenon DEF Accepted, FrameAccepts, Valid
<1>2. a \in G
  BY OpeningStarts
<1>3. \A i \in 1..n : \A x \in G : x \o Circles(ts[i], ts) \in G
  BY <1>1, CirclesKeep
<1>4. BuildFrame(ts) = Append(g[n], Plain("PRESENT", ts))
  BY DEF BuildFrame
<1> HIDE DEF n, a, G, g
<1>5. \E f : f = Loop(f)
  <2>1. PICK step : step = [i \in 1..n |-> [x \in G |-> x \o Circles(ts[i], ts)]]
    BY Zenon
  <2>2. step \in Turns(n, G)
    BY <1>3, <2>1 DEF Turns
  <2>0. PICK f : Runs(f, n, G, a, step)
    BY <1>1, <1>2, <2>2, Recursion, Zenon
  <2>3. f \in [0..n -> G] /\ f[0] = a /\ \A i \in 1..n : f[i] = step[i][f[i - 1]]
    BY <2>0, Zenon DEF Runs
  <2>4. ASSUME NEW i \in 0..n PROVE f[i] = IF i = 0 THEN a ELSE f[i - 1] \o Circles(ts[i], ts)
    <3>1. CASE i = 0
      BY <2>3, <3>1
    <3>2. CASE i \in 1..n
      <4>1. f[i - 1] \in G /\ step[i] = [x \in G |-> x \o Circles(ts[i], ts)]
        BY <1>1, <2>1, <2>3, <3>2
      <4> QED BY <1>1, <2>3, <3>2, <4>1, Zenon
    <3> QED BY <1>1, <3>1, <3>2
  <2>5. f = Loop(f)
    BY <2>3, <2>4, Zenon
  <2> QED BY <2>5, Zenon
<1>6. g = Loop(g)
  BY <1>5, Zenon DEF g
<1>7. g[0] = a /\ \A i \in 1..n : g[i] = g[i - 1] \o Circles(ts[i], ts)
  BY <1>1, <1>6
<1>8. g[n] \in G
  <2> DEFINE T == {i \in Nat : i <= n => g[i] \in G}
  <2>1. 0 \in T
    BY <1>2, <1>7
  <2>2. ASSUME NEW i \in T PROVE i + 1 \in T
    <3>0. i \in Nat /\ i + 1 \in Nat
      OBVIOUS
    <3>1. ASSUME i + 1 <= n PROVE g[i + 1] \in G
      <4>1. g[i] \in G
        BY <1>1, <3>1
      <4>2. i + 1 \in 1..n /\ (i + 1) - 1 = i
        BY <1>1, <3>0, <3>1
      <4>3. g[i + 1] = g[i] \o Circles(ts[i + 1], ts)
        BY <1>7, <4>2, Zenon
      <4> QED BY <1>3, <4>1, <4>2, <4>3
    <3> QED BY <3>0, <3>1
  <2> HIDE DEF T
  <2>3. T \in SUBSET Nat
    BY DEF T
  <2>4. T = Nat
    BY <2>1, <2>2, <2>3, Induction
  <2>5. n \in T /\ n <= n
    BY <1>1, <2>4
  <2> QED BY <2>5 DEF T
<1> QED BY <1>4, <1>8 DEF G

\* What a frame consists of.
LEMMA FrameIs ==
    ASSUME NEW ts \in Accepted, NEW F, F = BuildFrame(ts)
    PROVE  /\ F \in Seq(Strokes(ts)) /\ Len(F) \in Nat /\ Len(F) >= 3
           /\ F[1] = Plain("BEGIN_FRAME", ts) /\ F[Len(F)] = Plain("PRESENT", ts)
           /\ \A i \in 2..Len(F) - 1 : Middle(F[i])
<1>1. PICK x \in Opening(ts) : F = Append(x, Plain("PRESENT", ts))
  BY BuildFrameIs, Zenon
<1>2. /\ x \in Seq(Strokes(ts)) /\ Len(x) >= 2 /\ x[1] = Plain("BEGIN_FRAME", ts)
      /\ \A i \in 2..Len(x) : Middle(x[i])
  BY <1>1, Zenon DEF Opening
<1>3. PICK p : p = Plain("PRESENT", ts)
  BY Zenon
<1>4. p \in Strokes(ts)
  BY <1>3, Zenon DEF Strokes
<1>5. /\ F \in Seq(Strokes(ts)) /\ Len(F) = Len(x) + 1 /\ Len(x) \in Nat
      /\ F[Len(F)] = p /\ \A i \in 1..Len(x) : F[i] = x[i]
  BY <1>1, <1>2, <1>3, <1>4
<1>6. ASSUME NEW i \in 2..Len(F) - 1 PROVE Middle(F[i])
  <2>1. i \in 2..Len(x) /\ i \in 1..Len(x)
    BY <1>5
  <2> QED BY <1>2, <1>5, <2>1, Zenon
<1>7. Len(F) \in Nat /\ Len(F) >= 3 /\ 1 \in 1..Len(x)
  BY <1>2, <1>5
<1> QED BY <1>2, <1>3, <1>5, <1>6, <1>7, Zenon

\* The name of each command, and the list that all of them show.
LEMMA FrameNames ==
    ASSUME NEW ts \in Accepted, NEW F, F = BuildFrame(ts)
    PROVE  /\ \A i \in 1..Len(F) : F[i].shows = ts
           /\ F[1].command = "BEGIN_FRAME" /\ F[Len(F)].command = "PRESENT"
           /\ \A i \in 2..Len(F) - 1 : F[i].command \in {"DRAW_IMAGE", "DRAW_CIRCLE"}
<1>1. F \in Seq(Strokes(ts)) /\ Len(F) \in Nat /\ Len(F) >= 3
  BY FrameIs, Zenon
<1>2. ASSUME NEW x \in Strokes(ts) PROVE x.shows = ts
  <2>1. \A name : Plain(name, ts).shows = ts
    BY DEF Plain
  <2>2. \A t, radius, alpha : Circle(t, radius, alpha, ts).shows = ts
    BY DEF Circle
  <2> QED BY <2>1, <2>2, Zenon DEF Strokes
<1>3. \A i \in 1..Len(F) : F[i] \in Strokes(ts)
  BY <1>1
<1>4. \A i \in 1..Len(F) : F[i].shows = ts
  BY <1>2, <1>3, Zenon
<1>5. F[1] = Plain("BEGIN_FRAME", ts) /\ F[Len(F)] = Plain("PRESENT", ts)
      /\ \A i \in 2..Len(F) - 1 : Middle(F[i])
  BY FrameIs, Zenon
<1>6. F[1].command = "BEGIN_FRAME" /\ F[Len(F)].command = "PRESENT"
  BY <1>5 DEF Plain
<1> QED BY <1>4, <1>5, <1>6, Zenon DEF Middle

\* RenderPreview in preview.go accepts every frame that BuildFrame in frame.go
\* makes, for all bounds of the map and all Targets: each circle is inside the
\* image, and has a radius and an opacity that the drawing contract allows.
THEOREM PreviewAcceptsFrames ==
    ASSUME NEW ts \in Accepted
    PROVE  PreviewAccepts(BuildFrame(ts))
<1>1. PICK F : F = BuildFrame(ts)
  BY Zenon
<1>2. PICK names : names = [i \in DOMAIN F |-> F[i].command]
  BY Zenon
<1>3. F \in Seq(Strokes(ts)) /\ Len(F) \in Nat /\ Len(F) >= 3 /\ \A i \in 2..Len(F) - 1 : Middle(F[i])
  BY <1>1, FrameIs, Zenon
<1>4. DOMAIN F = 1..Len(F)
  BY <1>3
<1>5. Len(names) = Len(F) /\ DOMAIN names = 1..Len(F) /\ \A i \in 1..Len(F) : names[i] = F[i].command
  BY <1>2, <1>3, <1>4
<1>6. names # <<>>
  BY <1>3, <1>5
<1>7. F[1].command = "BEGIN_FRAME" /\ F[Len(F)].command = "PRESENT"
      /\ \A i \in 2..Len(F) - 1 : F[i].command \in {"DRAW_IMAGE", "DRAW_CIRCLE"}
  BY <1>1, FrameNames, Zenon
<1>8. 1 \in 1..Len(F) /\ Len(F) \in 1..Len(F)
  BY <1>3
<1>9. ASSUME NEW i \in 1..Len(F)
      PROVE  /\ F[i].command = "BEGIN_FRAME" => i = 1
             /\ F[i].command = "PRESENT" => i = Len(F)
             /\ F[i].command = "DRAW_CIRCLE" => /\ F[i].radius \in 1..128 /\ F[i].alpha \in 0..255
                                                /\ F[i].x \in 0..Width - 1 /\ F[i].y \in 0..Height - 1
  <2>1. i = 1 \/ i = Len(F) \/ i \in 2..Len(F) - 1
    BY <1>3
  <2>2. CASE i = 1 \/ i = Len(F)
    BY <1>7, <2>2, Zenon
  <2>3. CASE i \in 2..Len(F) - 1
    BY <1>3, <1>7, <2>3, Zenon DEF Middle
  <2> QED BY <2>1, <2>2, <2>3, Zenon
<1>10. /\ names # <<>> /\ names[1] = "BEGIN_FRAME" /\ names[Len(names)] = "PRESENT"
       /\ \A i \in DOMAIN names :
             /\ names[i] = "BEGIN_FRAME" => i = 1
             /\ names[i] = "PRESENT" => i = Len(names)
             /\ names[i] = "DRAW_CIRCLE" => /\ F[i].radius \in 1..128 /\ F[i].alpha \in 0..255
                                            /\ F[i].x \in 0..Width - 1 /\ F[i].y \in 0..Height - 1
  <2>1. names[1] = "BEGIN_FRAME" /\ names[Len(names)] = "PRESENT"
    BY <1>5, <1>7, <1>8, Zenon
  <2>2. ASSUME NEW i \in DOMAIN names
        PROVE  /\ names[i] = "BEGIN_FRAME" => i = 1
               /\ names[i] = "PRESENT" => i = Len(names)
               /\ names[i] = "DRAW_CIRCLE" => /\ F[i].radius \in 1..128 /\ F[i].alpha \in 0..255
                                              /\ F[i].x \in 0..Width - 1 /\ F[i].y \in 0..Height - 1
    <3>1. i \in 1..Len(F) /\ names[i] = F[i].command
      BY <1>5
    <3> QED BY <1>5, <1>9, <3>1, Zenon
  <2> QED BY <1>6, <2>1, <2>2, Zenon
<1>11. PreviewAccepts(F)
  BY <1>2, <1>10, SMTT(30) DEF PreviewAccepts
<1> QED BY <1>1, <1>11, Zenon

\* The commands of a frame from the kth on.
Rest(ts, k) == SubSeq(BuildFrame(ts), k, Len(BuildFrame(ts)))

LEMMA Suffix ==
    ASSUME NEW S, NEW F \in Seq(S), NEW m \in 1..Len(F), NEW t, t = SubSeq(F, m, Len(F))
    PROVE  /\ t \in Seq(S) /\ Len(t) = Len(F) - m + 1
           /\ \A i \in 1..Len(F) - m + 1 : t[i] = F[m + i - 1]
OBVIOUS

LEMMA RestIs ==
    ASSUME NEW ts \in Accepted, NEW k \in 1..Len(BuildFrame(ts)), NEW F, F = BuildFrame(ts), NEW s, s = Rest(ts, k)
    PROVE  /\ Len(F) \in Nat /\ Head(s) = F[k] /\ s # <<>>
           /\ Len(s) > 1 <=> k < Len(F)
           /\ k < Len(F) => Tail(s) = Rest(ts, k + 1) /\ k + 1 \in 1..Len(F)
<1>1. F \in Seq(Strokes(ts)) /\ Len(F) \in Nat /\ Len(F) >= 3
  BY FrameIs, Zenon
<1>2. s = SubSeq(F, k, Len(F)) /\ k \in 1..Len(F)
  BY Zenon DEF Rest
<1>3. /\ s \in Seq(Strokes(ts)) /\ Len(s) = Len(F) - k + 1
      /\ \A i \in 1..Len(F) - k + 1 : s[i] = F[k + i - 1]
  BY <1>1, <1>2, Suffix
<1>4. Head(s) = F[k] /\ s # <<>> /\ (Len(s) > 1 <=> k < Len(F))
  <2>1. 1 \in 1..Len(F) - k + 1 /\ k + 1 - 1 = k
    BY <1>1, <1>2
  <2>2. s[1] = F[k] /\ Len(s) > 0
    BY <1>1, <1>2, <1>3, <2>1
  <2>3. Head(s) = s[1] /\ s # <<>>
    BY <1>3, <2>2
  <2> QED BY <1>1, <1>2, <1>3, <2>2, <2>3
<1>5. ASSUME k < Len(F) PROVE Tail(s) = Rest(ts, k + 1) /\ k + 1 \in 1..Len(F)
  <2>1. k + 1 \in 1..Len(F)
    BY <1>1, <1>2, <1>5
  <2>2. PICK t : t = SubSeq(F, k + 1, Len(F))
    BY Zenon
  <2>3. /\ t \in Seq(Strokes(ts)) /\ Len(t) = Len(F) - (k + 1) + 1
        /\ \A i \in 1..Len(F) - (k + 1) + 1 : t[i] = F[k + 1 + i - 1]
    BY <1>1, <2>1, <2>2, Suffix
  <2>4. /\ Tail(s) \in Seq(Strokes(ts)) /\ Len(Tail(s)) = Len(F) - k
        /\ \A i \in 1..Len(F) - k : Tail(s)[i] = F[k + i]
    BY <1>1, <1>2, <1>3, <1>4
  <2>5. Len(t) = Len(F) - k /\ \A i \in 1..Len(F) - k : t[i] = F[k + i]
    BY <1>1, <2>1, <2>3, SMTT(30)
  <2>6. Tail(s) = t
    BY <2>3, <2>4, <2>5, SeqEqual, Zenon
  <2> QED BY <2>1, <2>2, <2>6, Zenon DEF Rest
<1> QED BY <1>1, <1>4, <1>5, Zenon

LEMMA RestStarts ==
    ASSUME NEW ts \in Accepted
    PROVE  1 \in 1..Len(BuildFrame(ts)) /\ BuildFrame(ts) = Rest(ts, 1)
<1>1. PICK F : F = BuildFrame(ts)
  BY Zenon
<1>2. F \in Seq(Strokes(ts)) /\ Len(F) \in Nat /\ Len(F) >= 3
  BY <1>1, FrameIs, Zenon
<1>3. F = SubSeq(F, 1, Len(F)) /\ 1 \in 1..Len(F)
  BY <1>2
<1> QED BY <1>1, <1>3, Zenon DEF Rest

-----------------------------------------------------------------------------
(* What a session still has to send is the rest of a frame. *)

Sketch(c) ==
    pc[c] \in {"subscribe", "create", "draw", "redraw"} =>
        \E ts \in Accepted : \E k \in 1..Len(BuildFrame(ts)) :
            todo[c] = Rest(ts, k) /\ (pc[c] \in {"subscribe", "create"} => k = 1)

Sketches == \A c \in Clients : Sketch(c)

\* Every step keeps the rest of a frame.
LEMMA SketchesStep ==
    ASSUME Base, Sketches
    PROVE  Base' /\ [Next]_vars => Sketches'
\* Nothing else changes the commands of a session.
<1>Kept. ASSUME NEW c, \A d \in Clients \ {c} : pc'[d] = pc[d] /\ todo'[d] = todo[d], Sketch(c)'
         PROVE  Sketches'
  <2> USE <1>Kept
  <2>1. ASSUME NEW d \in Clients \ {c} PROVE Sketch(d)'
    BY <2>1, Zenon DEF Sketches, Sketch
  <2> QED BY <2>1, Zenon DEF Sketches
\* A frame is begun.
<1>Begun. ASSUME NEW c, NEW ts \in Accepted,
                 \A d \in Clients \ {c} : pc'[d] = pc[d] /\ todo'[d] = todo[d],
                 todo'[c] = BuildFrame(ts)
          PROVE  Sketches'
  <2> USE <1>Begun
  <2>1. 1 \in 1..Len(BuildFrame(ts)) /\ todo'[c] = Rest(ts, 1)
    BY RestStarts, Zenon
  <2>2. Sketch(c)'
    BY <2>1, Zenon DEF Sketch
  <2> QED BY <2>2, <1>Kept, Zenon
<1>Subscribe. ASSUME NEW c \in Clients, Subscribe(c)
              PROVE  Sketches'
  <2> USE <1>Subscribe
  <2>1. DOMAIN todo = Clients /\ DOMAIN pc = Clients /\ targets[c] \in Accepted
    BY Zenon DEF Base, TypeOK
  <2>2. \A d \in Clients \ {c} : pc'[d] = pc[d] /\ todo'[d] = todo[d]
    BY <2>1, Zenon DEF Subscribe, Goes
  <2>3. todo'[c] = BuildFrame(targets[c])
    BY <2>1, Zenon DEF Subscribe
  <2> QED BY <2>1, <2>2, <2>3, <1>Begun, Zenon
<1>Subscribed. ASSUME NEW c \in Clients, Subscribed(c)
               PROVE  Sketches'
  <2> USE <1>Subscribed
  <2>1. DOMAIN pc = Clients /\ todo' = todo /\ pc[c] = "subscribe"
    BY Zenon DEF Base, TypeOK, Subscribed
  <2>2. \A d \in Clients \ {c} : pc'[d] = pc[d] /\ todo'[d] = todo[d]
    BY <2>1, Zenon DEF Subscribed, Goes
  <2>3. Sketch(c)'
    BY <2>1, Zenon DEF Sketches, Sketch
  <2> QED BY <2>2, <2>3, <1>Kept, Zenon
<1>Succeeds. ASSUME NEW c \in Clients, SendSucceeds(c)
             PROVE  Sketches'
  <2> USE <1>Succeeds
  <2>1. /\ DOMAIN pc = Clients /\ DOMAIN todo = Clients /\ pc[c] \in Sending
        /\ pc' = [pc EXCEPT ![c] = AfterSuccess(c)]
        /\ todo' = IF pc[c] \in Drawing THEN [todo EXCEPT ![c] = Tail(@)] ELSE todo
    BY Zenon DEF Base, TypeOK, SendSucceeds, Leaves, Goes
  <2>2. \A d \in Clients \ {c} : pc'[d] = pc[d] /\ todo'[d] = todo[d]
    BY <2>1, Zenon
  <2>3. CASE pc[c] \in Drawing
    <3>0. PICK ts \in Accepted : \E k \in 1..Len(BuildFrame(ts)) : todo[c] = Rest(ts, k)
      BY <2>3, Zenon DEF Sketches, Sketch, Drawing
    <3>1. PICK k \in 1..Len(BuildFrame(ts)) : todo[c] = Rest(ts, k)
      BY <3>0, Zenon
    <3>2. /\ Len(todo[c]) > 1 <=> k < Len(BuildFrame(ts))
          /\ k < Len(BuildFrame(ts)) =>
                Tail(todo[c]) = Rest(ts, k + 1) /\ k + 1 \in 1..Len(BuildFrame(ts))
      BY <3>1, RestIs, Zenon
    <3>3. CASE Len(todo[c]) > 1
      <4>1. pc'[c] = pc[c] /\ todo'[c] = Rest(ts, k + 1) /\ k + 1 \in 1..Len(BuildFrame(ts))
        BY <2>1, <2>3, <3>2, <3>3, Zenon DEF AfterSuccess
      <4>2. pc[c] \notin {"subscribe", "create"}
        BY <2>3 DEF Drawing
      <4>3. Sketch(c)'
        BY <4>1, <4>2, Zenon DEF Sketch
      <4> QED BY <2>2, <4>3, <1>Kept, Zenon
    <3>4. CASE ~(Len(todo[c]) > 1)
      <4>1. pc'[c] \in {"show", "main"}
        BY <2>1, <2>3, <3>4, Successor, Zenon DEF Drawing
      <4>2. Sketch(c)'
        BY <4>1, Zenon DEF Sketch
      <4> QED BY <2>2, <4>2, <1>Kept, Zenon
    <3> QED BY <3>3, <3>4, Zenon
  <2>4. CASE pc[c] \notin Drawing
    <3>1. todo'[c] = todo[c] /\ pc[c] \in {"create", "show", "close"}
      BY <2>1, <2>4, Zenon DEF Sending
    <3>2. CASE pc[c] = "create"
      <4>1. pc'[c] = "draw"
        BY <2>1, <3>2, Successor, Zenon
      <4>2. Sketch(c)'
        BY <3>1, <3>2, <4>1, Zenon DEF Sketches, Sketch
      <4> QED BY <2>2, <4>2, <1>Kept, Zenon
    <3>3. CASE pc[c] # "create"
      <4>1. pc'[c] \in {"main", "done"}
        BY <2>1, <3>1, <3>3, Successor, Zenon
      <4>2. Sketch(c)'
        BY <4>1, Zenon DEF Sketch
      <4> QED BY <2>2, <4>2, <1>Kept, Zenon
    <3> QED BY <3>2, <3>3, Zenon
  <2> QED BY <2>3, <2>4, Zenon
<1>Stops. ASSUME NEW c \in Clients,
                 SendRejected(c) \/ SendGivesUp(c) \/ WindowClosed(c) \/ Ends(c) \/ Returns(c)
          PROVE  Sketches'
  <2> USE <1>Stops
  <2>1. DOMAIN pc = Clients /\ DOMAIN todo = Clients
    BY Zenon DEF Base, TypeOK
  <2>2. \E to \in {"await", "close", "done", "returned"} : pc' = [pc EXCEPT ![c] = to]
    BY Zenon DEF SendRejected, SendGivesUp, WindowClosed, Ends, Returns, Leaves, Goes, AfterFailure
  <2>3. todo' = todo \/ todo' = [todo EXCEPT ![c] = <<>>]
    BY Zenon DEF SendRejected, SendGivesUp, WindowClosed, Ends, Returns, Drops
  <2>4. \A d \in Clients \ {c} : pc'[d] = pc[d] /\ todo'[d] = todo[d]
    BY <2>1, <2>2, <2>3, Zenon
  <2>5. Sketch(c)'
    BY <2>1, <2>2, Zenon DEF Sketch
  <2> QED BY <2>4, <2>5, <1>Kept, Zenon
<1>Update. ASSUME Base', Update
           PROVE  Sketches'
  <2> USE <1>Update
  <2>1. DOMAIN pc = Clients /\ DOMAIN todo = Clients /\ Fed \in Clients /\ targets' \in [Clients -> Accepted]
    BY MapSessionAssumption, Zenon DEF Base, TypeOK
  <2>2. FrameAccepts(targets'[Fed]) /\ targets'[Fed] \in Accepted
    BY <2>1, Zenon DEF Accepted
  <2>3. todo' = [todo EXCEPT ![Fed] = BuildFrame(targets'[Fed])] /\ pc' = [pc EXCEPT ![Fed] = "redraw"]
    BY <2>2, Zenon DEF Update, Goes
  <2>4. /\ todo'[Fed] = BuildFrame(targets'[Fed])
        /\ \A d \in Clients \ {Fed} : pc'[d] = pc[d] /\ todo'[d] = todo[d]
    BY <2>1, <2>3, Zenon
  <2> QED BY <2>2, <2>4, <1>Begun, Zenon
<1>Others. ASSUME UNCHANGED <<pc, todo>>
           PROVE  Sketches'
  BY <1>Others, Zenon DEF Sketches, Sketch
<1> SUFFICES ASSUME Base', [Next]_vars PROVE Sketches'
  OBVIOUS
<1>1. CASE UNCHANGED vars
  BY <1>1, <1>Others, Zenon DEF vars, sessionVars
<1>2. ASSUME NEW c \in Clients,
             \/ Subscribe(c) \/ Subscribed(c) \/ SendSucceeds(c)
             \/ SendRejected(c) \/ SendGivesUp(c) \/ WindowClosed(c) \/ Ends(c) \/ Returns(c)
      PROVE  Sketches'
  BY <1>2, <1>Subscribe, <1>Subscribed, <1>Succeeds, <1>Stops, Zenon
<1>3. ASSUME NEW c \in Clients,
             Send(c) \/ Cancel(c) \/ (AcceptEvents(c) /\ UNCHANGED <<feedVars, sessionVars>>)
      PROVE  Sketches'
  BY <1>3, <1>Others, Zenon DEF Send, Cancel, sessionVars
<1>4. CASE Update
  BY <1>4, <1>Update
<1>5. CASE LogNotice \/ Feeds \/ ((BrokerSends \/ BrokerGoes) /\ UNCHANGED <<wmVars, sessionVars>>)
  BY <1>5, <1>Others, Zenon DEF LogNotice, Feeds, sessionVars
<1>6. CASE \E r \in requests : Handle(r, waiting) /\ UNCHANGED <<feedVars, sessionVars>>
  BY <1>6, <1>Others, Zenon DEF sessionVars
<1>7. CASE NativeClose \/ (UserCloses /\ UNCHANGED <<feedVars, sessionVars>>)
                      \/ ((Quit \/ Stop) /\ UNCHANGED <<feedVars, sessionVars>>)
  BY <1>7, <1>Others, Zenon DEF NativeClose, sessionVars
<1> QED BY <1>1, <1>2, <1>3, <1>4, <1>5, <1>6, <1>7, NextIsSteps, Zenon DEF Steps

\* A session of runMap in session.go that draws has before it the rest of a
\* frame that BuildFrame in frame.go made.
THEOREM SketchesInvariance == Spec => []Sketches
<1>1. Init => Sketches
  BY DEF Init, Sketches, Sketch
<1>2. Base /\ Sketches /\ Base' /\ [Next]_vars => Sketches'
  BY SketchesStep
<1> QED BY <1>1, <1>2, BaseInvariance, PTL DEF Spec

\* A drawing command is none of the commands for the window itself.
LEMMA DrawingCommand ==
    ASSUME Sketches, NEW c \in Clients, pc[c] \in Drawing
    PROVE  CommandAt(c).command \in {"BEGIN_FRAME", "DRAW_IMAGE", "DRAW_CIRCLE", "PRESENT"}
<1>0. PICK ts \in Accepted : \E k \in 1..Len(BuildFrame(ts)) : todo[c] = Rest(ts, k)
  BY Zenon DEF Sketches, Sketch, Drawing
<1>1. PICK k \in 1..Len(BuildFrame(ts)) : todo[c] = Rest(ts, k)
  BY <1>0, Zenon
<1>2. PICK F : F = BuildFrame(ts)
  BY Zenon
<1>3. CommandAt(c) = F[k] /\ Len(F) \in Nat /\ k \in 1..Len(F)
  BY <1>1, <1>2, CommandIs, RestIs, Zenon
<1>4. k = 1 \/ k = Len(F) \/ k \in 2..Len(F) - 1
  BY <1>3
<1>5. /\ F[1].command = "BEGIN_FRAME" /\ F[Len(F)].command = "PRESENT"
      /\ \A i \in 2..Len(F) - 1 : F[i].command \in {"DRAW_IMAGE", "DRAW_CIRCLE"}
  BY <1>2, FrameNames, Zenon
<1> QED BY <1>3, <1>4, <1>5, Zenon

-----------------------------------------------------------------------------
(* Who waits for what, and who has the window *)

Over == {"done", "returned"}

\* The commands of a client that are on their way: the one it waits for, and
\* one that it has given up.
Asking(c) ==
    /\ waiting[c] # 0 => pc[c] \in Sending
    /\ waiting[c] = 0 => replies[c] = "none"
    /\ \A r \in requests : r.from = c =>
         /\ r.number = waiting[c] => replies[c] = "none" /\ r.draw = CommandAt(c)
         /\ r.number # waiting[c] => pc[c] \in {"close"} \cup Over /\ ~Is(r, "CREATE")
         /\ Is(r, "CLOSE") => pc[c] \in Over \/ r.number = waiting[c]
    /\ waiting[c] # 0 /\ replies[c] = "none" /\ running =>
         \E r \in requests : r.from = c /\ r.number = waiting[c]
    /\ pc[c] = "create" /\ waiting[c] # 0 => ~cancelled[c]

Distinct ==
    \A r, q \in requests : r.from = q.from =>
        /\ r.number = q.number => r = q
        /\ ~Is(r, "CLOSE") /\ ~Is(q, "CLOSE") => r = q

\* What a client has heard on the event socket.
Listening(c) ==
    /\ c \in dialing => pc[c] = "subscribe" /\ events[c] = <<>>
    /\ c \in eventClients => pc[c] # "start" /\ c \notin dialing
    /\ pc[c] = "start" => events[c] = <<>>
    /\ pc[c] = "subscribe" => events[c] \in {<<>>, <<"subscribed">>}
    /\ pc[c] \notin {"start", "subscribe"} \cup Over => \A i \in 1..Len(events[c]) : events[c][i] = "window_close"
    /\ running /\ pc[c] \in {"create", "draw", "show", "main", "redraw", "await"} => c \in eventClients
    /\ running /\ pc[c] = "subscribe" /\ events[c] # <<>> => c \in eventClients

\* Where a client may be that has a window, or has lost one.
Owning(c) ==
    /\ window = c => pc[c] \notin {"start", "subscribe"} /\ (pc[c] = "create" => replies[c] = "ok")
    /\ pc[c] = "close" /\ replies[c] # "none" => window # c
    /\ pc[c] \in Over /\ window = c => \E r \in requests : r.from = c /\ Is(r, "CLOSE")
    /\ events[c] # <<>> /\ pc[c] \notin {"subscribe"} \cup Over =>
          window # c /\ (pc[c] = "create" => replies[c] # "none")

\* Maps run one after the other.
InTurn ==
    /\ ~running => requests = {} /\ window = NoWindow
    /\ \A c \in Clients \ {Fed} : pc[c] # "start" =>
          pc[Fed] = "returned" /\ window # Fed /\ \A r \in requests : r.from # Fed

Numbers ==
    /\ waiting \in [Clients -> Nat]
    /\ \A r \in requests : r.number \in Nat \ {0}

Orderly ==
    /\ Numbers /\ InTurn /\ Distinct
    /\ \A c \in Clients : Asking(c) /\ Listening(c) /\ Owning(c)

\* The circumstances: Maps do not overlap, and CREATE is neither cancelled nor
\* given up.
OneByOne == ~Overlap /\ \A c, d \in Clients \ {Fed} : c = d
CreateWaits == "create" \notin Cancellable \cup TimesOut

-----------------------------------------------------------------------------
(* A step of one session *)

\* Nothing changes for d.
Same(d) ==
    /\ pc'[d] = pc[d] /\ waiting'[d] = waiting[d] /\ replies'[d] = replies[d]
    /\ cancelled'[d] = cancelled[d] /\ todo'[d] = todo[d] /\ events'[d] = events[d]
    /\ running' = running
    /\ d \in dialing' <=> d \in dialing
    /\ d \in eventClients' <=> d \in eventClients
    /\ window' = d <=> window = d
    /\ \A r : r.from = d => (r \in requests' <=> r \in requests)

\* A step of a session that is under way.
Moves(c) ==
    /\ pc[c] \notin {"start", "returned"}
    /\ \A d \in Clients \ {c} : pc'[d] = pc[d]
    /\ window' = window /\ running' = running
    /\ \A r \in requests' : r \in requests \/ (r.from = c /\ running)

\* Before CREATE a client has sent nothing and owns nothing.
LEMMA Unheard ==
    ASSUME Orderly, NEW c \in Clients, pc[c] \in {"start", "subscribe"}
    PROVE  /\ waiting[c] = 0 /\ (\A r \in requests : r.from # c) /\ replies[c] = "none" /\ window # c
           /\ pc[c] = "start" => events[c] = <<>> /\ c \notin eventClients /\ c \notin dialing
           /\ pc[c] = "subscribe" => events[c] \in {<<>>, <<"subscribed">>} /\ (c \in dialing => events[c] = <<>>)
<1>1. Asking(c) /\ Listening(c) /\ Owning(c) /\ Numbers
  BY Zenon DEF Orderly
<1>2. pc[c] \notin Sending /\ pc[c] \notin {"close"} \cup Over /\ (pc[c] = "start" => pc[c] # "subscribe")
  BY DEF Sending, Drawing, Over
<1>3. waiting[c] = 0 /\ replies[c] = "none"
  BY <1>1, <1>2, Zenon DEF Asking
<1>4. ASSUME NEW r \in requests, r.from = c PROVE FALSE
  <2>1. r.number # waiting[c]
    BY <1>1, <1>3, Zenon DEF Numbers
  <2> QED BY <1>1, <1>2, <1>4, <2>1, Zenon DEF Asking
<1>5. window # c
  BY <1>1, Zenon DEF Owning
<1>6. pc[c] = "start" => events[c] = <<>> /\ c \notin eventClients /\ c \notin dialing
  BY <1>1, <1>2, Zenon DEF Listening
<1>7. pc[c] = "subscribe" => events[c] \in {<<>>, <<"subscribed">>} /\ (c \in dialing => events[c] = <<>>)
  BY <1>1, Zenon DEF Listening
<1> QED BY <1>3, <1>4, <1>5, <1>6, <1>7, Zenon

\* A session goes from one point to another with nothing to wait for.
Departs(c, to) ==
    /\ pc[c] \in Sending \cup {"main", "await"}
    /\ to \in {"draw", "show", "main", "redraw", "await", "close", "done"}
    /\ pc[c] = "close" => to = "done"
    /\ pc' = [pc EXCEPT ![c] = to]
    /\ waiting' = [waiting EXCEPT ![c] = 0] /\ replies' = [replies EXCEPT ![c] = "none"]
    /\ \A d \in Clients \ {c} : todo'[d] = todo[d] /\ events'[d] = events[d]
    /\ window' = window /\ running' = running /\ requests' = requests
    /\ cancelled' = cancelled /\ dialing' = dialing
    /\ to # "done" => events' = events
    /\ \/ eventClients' = eventClients
       \/ eventClients' = eventClients \ {c} /\ to \in {"close", "done"}

\* What it may leave behind.
LeavesBehind(c, to) ==
    /\ \A r \in requests : r.from = c =>
          to \in {"close", "done"} /\ ~Is(r, "CREATE") /\ (Is(r, "CLOSE") => to = "done")
    /\ to = "done" /\ window = c => \E r \in requests : r.from = c /\ Is(r, "CLOSE")

\* A session that waits for nothing has no command on its way.
LEMMA Settled ==
    ASSUME Base, Orderly, NEW c \in Clients, pc[c] \in {"main", "await"}
    PROVE  /\ \A r \in requests : r.from # c
           /\ waiting[c] = 0 /\ replies[c] = "none"
           /\ waiting = [waiting EXCEPT ![c] = 0] /\ replies = [replies EXCEPT ![c] = "none"]
<1>1. waiting[c] = 0 /\ replies[c] = "none"
  BY Zenon DEF Orderly, Asking, Sending, Drawing
<1>2. waiting \in [Clients -> Nat] /\ replies \in [Clients -> Answers]
  BY Zenon DEF Orderly, Numbers, Base, TypeOK
<1>3. waiting = [waiting EXCEPT ![c] = 0] /\ replies = [replies EXCEPT ![c] = "none"]
  BY <1>1, <1>2, Zenon
<1>4. \A r \in requests : r.from # c
  BY <1>1, Zenon DEF Orderly, Asking, Numbers, Over
<1> QED BY <1>1, <1>3, <1>4, Zenon

\* While a client is under way, or a command of it is, there is no window but
\* its own.
LEMMA Alone ==
    ASSUME OneByOne, Base, Orderly, NEW c \in Clients,
           pc[c] \notin {"start", "returned"} \/ \E r \in requests : r.from = c
    PROVE  window \in {c, NoWindow}
<1> SUFFICES ASSUME NEW d \in Clients \ {c}, window = d PROVE FALSE
  BY Zenon DEF Base, TypeOK
<1>1. pc[d] # "start" /\ Fed \in Clients
  BY MapSessionAssumption, Zenon DEF Orderly, Owning
<1>2. pc[c] # "start"
  BY Unheard, Zenon
<1>3. CASE d = Fed
  BY <1>2, <1>3, Zenon DEF Orderly, InTurn
<1>4. CASE d # Fed
  <2>1. c = Fed
    BY <1>4, Zenon DEF OneByOne
  <2> QED BY <1>1, <1>4, <2>1, Zenon DEF Orderly, InTurn
<1> QED BY <1>3, <1>4, Zenon

\* Where the sender of a command is.
LEMMA Sender ==
    ASSUME Sketches, Orderly, NEW r \in requests, NEW c \in Clients, r.from = c
    PROVE  /\ pc[c] \in Sending \cup Over
           /\ r.number = waiting[c] => pc[c] \in Sending /\ replies[c] = "none" /\ r.draw = CommandAt(c)
           /\ r.number # waiting[c] => pc[c] \in {"close"} \cup Over
           /\ Is(r, "CREATE") => pc[c] = "create" /\ r.number = waiting[c]
           /\ r.number = waiting[c] /\ pc[c] = "close" => Is(r, "CLOSE")
<1>1. Asking(c) /\ r.number # 0
  BY Zenon DEF Orderly, Numbers
<1>2. r.number = waiting[c] => pc[c] \in Sending /\ replies[c] = "none" /\ r.draw = CommandAt(c)
  BY <1>1, Zenon DEF Asking
<1>3. r.number # waiting[c] => pc[c] \in {"close"} \cup Over /\ ~Is(r, "CREATE")
  BY <1>1, Zenon DEF Asking
<1>4. ASSUME Is(r, "CREATE") PROVE pc[c] = "create"
  <2>1. CommandAt(c).command = "CREATE" /\ pc[c] \in Sending
    BY <1>2, <1>3, <1>4, Zenon DEF Is
  <2>2. pc[c] \notin Drawing
    BY <2>1, DrawingCommand
  <2>3. pc[c] \notin {"show", "close"}
    BY <2>1, CommandIs
  <2> QED BY <2>1, <2>2, <2>3, Zenon DEF Sending
<1>5. r.number = waiting[c] /\ pc[c] = "close" => Is(r, "CLOSE")
  BY <1>2, CommandIs DEF Is
<1>6. "close" \in Sending
  BY DEF Sending
<1> QED BY <1>2, <1>3, <1>4, <1>5, <1>6, Zenon

LEMMA InitOrderly == Init => Orderly
<1> SUFFICES ASSUME Init PROVE Orderly
  OBVIOUS
<1>1. /\ window = NoWindow /\ running = TRUE /\ dialing = {} /\ eventClients = {} /\ requests = {}
      /\ events = [c \in Clients |-> <<>>] /\ replies = [c \in Clients |-> "none"]
      /\ pc = [c \in Clients |-> "start"] /\ waiting = [c \in Clients |-> 0]
  BY Zenon DEF Init, WmInit
<1>2. Numbers /\ InTurn /\ Distinct
  BY <1>1 DEF Numbers, InTurn, Distinct
<1>3. ASSUME NEW c \in Clients PROVE Asking(c) /\ Listening(c) /\ Owning(c)
  <2>1. /\ pc[c] = "start" /\ waiting[c] = 0 /\ replies[c] = "none" /\ events[c] = <<>> /\ window # c
    BY <1>1, <1>3, WindowManagerAssumption, Zenon
  <2>2. Asking(c)
    BY <1>1, <2>1, Zenon DEF Asking
  <2>3. Listening(c)
    BY <1>1, <2>1, Zenon DEF Listening
  <2>4. Owning(c)
    BY <2>1, Zenon DEF Owning
  <2> QED BY <2>2, <2>3, <2>4, Zenon
<1> QED BY <1>2, <1>3, Zenon DEF Orderly

\* Every step keeps that order.
LEMMA OrderlyStep ==
    ASSUME OneByOne, CreateWaits, Base, Sketches, Orderly
    PROVE  Base' /\ [Next]_vars => Orderly'
<1>SameKeeps. ASSUME NEW d, Asking(d), Listening(d), Owning(d), Same(d)
              PROVE  Asking(d)' /\ Listening(d)' /\ Owning(d)'
  <2> USE <1>SameKeeps
  <2>1. CommandAt(d)' = CommandAt(d)
    BY Zenon DEF Same, CommandAt
  <2>2. Asking(d)'
    BY <2>1, Zenon DEF Asking, Same
  <2>3. Listening(d)'
    BY Zenon DEF Listening, Same
  <2>4. Owning(d)'
    BY Zenon DEF Owning, Same
  <2> QED BY <2>2, <2>3, <2>4, Zenon
<1>Assemble. ASSUME NEW c \in Clients, \A d \in Clients \ {c} : Same(d), Asking(c)', Listening(c)',
                    Owning(c)', InTurn', Distinct', Numbers'
             PROVE  Orderly'
  <2> USE <1>Assemble
  <2>1. ASSUME NEW d \in Clients \ {c} PROVE Asking(d)' /\ Listening(d)' /\ Owning(d)'
    BY <2>1, <1>SameKeeps, Zenon DEF Orderly
  <2> QED BY <2>1, Zenon DEF Orderly
<1>MovesInTurn. ASSUME InTurn, NEW c \in Clients, Moves(c)
                PROVE  InTurn'
  <2> USE <1>MovesInTurn
  <2>0. Fed \in Clients
    BY MapSessionAssumption, Zenon
  <2>1. ~running' => requests' = {} /\ window' = NoWindow
    BY Zenon DEF InTurn, Moves
  <2>2. ASSUME NEW d \in Clients \ {Fed}, pc'[d] # "start"
        PROVE  pc'[Fed] = "returned" /\ window' # Fed /\ \A r \in requests' : r.from # Fed
    <3>1. CASE c = Fed
      BY <2>0, <2>2, <3>1, Zenon DEF InTurn, Moves
    <3>2. CASE c # Fed
      BY <2>0, <2>2, <3>2, Zenon DEF InTurn, Moves
    <3> QED BY <3>1, <3>2, Zenon
  <2> QED BY <2>1, <2>2, Zenon DEF InTurn
<1>Subscribe. ASSUME NEW c \in Clients, Subscribe(c)
              PROVE  Orderly'
  <2> USE <1>Subscribe
  <2>0. Fed \in Clients
    BY MapSessionAssumption
  <2>1. /\ pc[c] = "start" /\ MayStart(c)
        /\ window' = window /\ running' = running /\ eventClients' = eventClients /\ events' = events
        /\ requests' = requests /\ replies' = replies /\ waiting' = waiting /\ cancelled' = cancelled
        /\ DOMAIN todo = Clients /\ DOMAIN pc = Clients
        /\ \E rest : todo' = [todo EXCEPT ![c] = rest]
        /\ \/ pc' = [pc EXCEPT ![c] = "subscribe"] /\ dialing' = dialing \cup {c}
           \/ pc' = [pc EXCEPT ![c] = "done"] /\ dialing' = dialing
    BY Zenon DEF Subscribe, Goes, windowVars, Base, TypeOK
  <2>2. /\ waiting[c] = 0 /\ (\A r \in requests : r.from # c) /\ replies[c] = "none"
        /\ events[c] = <<>> /\ c \notin eventClients /\ window # c /\ c \notin dialing
    BY <2>1, Unheard, Zenon
  <2>3. \A d \in Clients \ {c} : Same(d)
    BY <2>1, Zenon DEF Same
  <2>4. Asking(c)'
    BY <2>1, <2>2, Zenon DEF Asking
  <2>5. Listening(c)'
    BY <2>1, <2>2, Zenon DEF Listening, Over
  <2>6. Owning(c)'
    BY <2>1, <2>2, Zenon DEF Owning, Over
  <2>7. InTurn'
    <3>1. CASE c = Fed
      BY <2>1, <3>1, Zenon DEF Orderly, InTurn
    <3>2. CASE c # Fed
      <4>1. pc[Fed] = "returned" /\ requests = {}
        BY <2>1, <3>2, Zenon DEF MayStart, OneByOne
      <4>2. window # Fed
        BY <2>0, <4>1, Zenon DEF Orderly, Owning, Over
      <4> QED BY <2>0, <2>1, <3>2, <4>1, <4>2, Zenon DEF Orderly, InTurn
    <3> QED BY <3>1, <3>2, Zenon
  <2>8. Distinct' /\ Numbers'
    BY <2>1, Zenon DEF Orderly, Distinct, Numbers, Is
  <2> QED BY <2>3, <2>4, <2>5, <2>6, <2>7, <2>8, <1>Assemble
<1>Subscribed. ASSUME NEW c \in Clients, Subscribed(c)
               PROVE  Orderly'
  <2> USE <1>Subscribed
  <2>1. /\ pc[c] = "subscribe"
        /\ window' = window /\ running' = running
        /\ requests' = requests /\ replies' = replies /\ waiting' = waiting /\ cancelled' = cancelled
        /\ todo' = todo /\ DOMAIN pc = Clients /\ DOMAIN events = Clients
    BY Zenon DEF Subscribed, windowVars, Base, TypeOK
  <2>2. \/ /\ events[c] # <<>> /\ events' = [events EXCEPT ![c] = Tail(@)]
           /\ dialing' = dialing /\ eventClients' = eventClients
           /\ pc' = [pc EXCEPT ![c] = IF Head(events[c]) = "subscribed" THEN "create" ELSE "done"]
        \/ /\ pc' = [pc EXCEPT ![c] = "done"] /\ events' = events
           /\ dialing' = dialing \ {c} /\ eventClients' = eventClients \ {c}
    BY DEF Subscribed, Goes, Unsubscribes
  <2>3. /\ waiting[c] = 0 /\ (\A r \in requests : r.from # c) /\ replies[c] = "none"
        /\ events[c] \in {<<>>, <<"subscribed">>} /\ window # c
        /\ c \in dialing => events[c] = <<>>
    BY <2>1, Unheard, Zenon
  <2>4. \A d \in Clients \ {c} : Same(d)
    BY <2>1, <2>2, Zenon DEF Same
  <2>5. Asking(c)'
    BY <2>1, <2>2, <2>3, Zenon DEF Asking
  <2>6. Listening(c)' /\ Owning(c)'
    <3>1. CASE events[c] # <<>>  /\ events' = [events EXCEPT ![c] = Tail(@)]
                  /\ dialing' = dialing /\ eventClients' = eventClients
           /\ pc' = [pc EXCEPT ![c] = IF Head(events[c]) = "subscribed" THEN "create" ELSE "done"]
      <4>0. \A x : Head(<<x>>) = x /\ Tail(<<x>>) = <<>>
        OBVIOUS
      <4>1. events[c] = <<"subscribed">> /\ Head(events[c]) = "subscribed" /\ Tail(events[c]) = <<>>
        BY <2>3, <3>1, <4>0, Zenon
      <4>2. events'[c] = <<>> /\ pc'[c] = "create" /\ c \notin dialing
        BY <2>1, <2>3, <3>1, <4>1, Zenon
      <4>3. running => c \in eventClients
        BY <2>1, <4>1 DEF Orderly, Listening
      <4>4. "create" \notin {"start", "subscribe"} \cup Over /\ Len(<<>>) = 0 /\ 1..0 = {}
        BY DEF Over
      <4>5. Listening(c)'
        BY <2>1, <3>1, <4>2, <4>3, <4>4, Zenon DEF Listening
      <4>6. Owning(c)'
        BY <2>1, <2>3, <4>2, <4>4, Zenon DEF Owning
      <4> QED BY <4>5, <4>6
    <3>2. CASE pc' = [pc EXCEPT ![c] = "done"] /\ events' = events
           /\ dialing' = dialing \ {c} /\ eventClients' = eventClients \ {c}
      BY <2>1, <2>3, <3>2, Zenon DEF Listening, Owning, Over
    <3> QED BY <2>2, <3>1, <3>2
  <2>7. InTurn'
    <3>1. Moves(c)
      BY <2>1, <2>2 DEF Moves
    <3> QED BY <3>1, <1>MovesInTurn, Zenon DEF Orderly
  <2>8. Distinct' /\ Numbers'
    BY <2>1, Zenon DEF Orderly, Distinct, Numbers, Is
  <2> QED BY <2>4, <2>5, <2>6, <2>7, <2>8, <1>Assemble
<1>MaxOfTwo. ASSUME NEW n \in Nat
             PROVE  Max({0, n}) = n
  <2> USE <1>MaxOfTwo
  <2>1. \E x \in {0, n} : \A y \in {0, n} : x >= y
    OBVIOUS
  <2>2. Max({0, n}) \in {0, n} /\ \A y \in {0, n} : Max({0, n}) >= y
    BY <2>1, Zenon DEF Max
  <2> QED BY <2>2
\* The number of a new command differs from that of the one command that its
\* sender may have given up.
<1>Fresh. ASSUME NEW c \in Clients, pc[c] \in Sending, waiting[c] = 0
          PROVE  /\ FreshNumber(c) \in Nat \ {0}
                 /\ \A r \in requests : r.from = c =>
                       r.number # FreshNumber(c) /\ pc[c] = "close" /\ ~Is(r, "CLOSE") /\ ~Is(r, "CREATE")
  <2> USE <1>Fresh
  <2>1. \A r \in requests : r.from = c =>
          r.number \in Nat \ {0} /\ pc[c] = "close" /\ ~Is(r, "CLOSE") /\ ~Is(r, "CREATE")
    BY ZenonT(40) DEF Orderly, Asking, Numbers, Sending, Drawing, Over
  <2>2. CASE \A r \in requests : r.from # c
    <3>1. {0} \cup {r.number : r \in {q \in requests : q.from = c}} = {0, 0}
      BY <2>2, Zenon
    <3>2. FreshNumber(c) = 1
      BY <3>1, <1>MaxOfTwo DEF FreshNumber
    <3> QED BY <2>2, <3>2
  <2>3. ASSUME NEW p \in requests, p.from = c
        PROVE  FreshNumber(c) = 1 + p.number /\ \A r \in requests : r.from = c => r = p
    <3>1. \A r \in requests : r.from = c => r = p
      BY <2>1, <2>3, Zenon DEF Orderly, Distinct
    <3>2. {0} \cup {r.number : r \in {q \in requests : q.from = c}} = {0, p.number}
      BY <2>3, <3>1, Zenon
    <3> QED BY <2>1, <2>3, <3>1, <3>2, <1>MaxOfTwo, Zenon DEF FreshNumber
  <2>4. CASE \E p \in requests : p.from = c
    <3>1. PICK p \in requests : p.from = c
      BY <2>4, Zenon
    <3>2. FreshNumber(c) = 1 + p.number /\ (\A r \in requests : r.from = c => r = p) /\ p.number \in Nat \ {0}
      BY <2>1, <2>3, <3>1, Zenon
    <3> QED BY <2>1, <3>2
  <2> QED BY <2>2, <2>4, Zenon
<1>Send. ASSUME NEW c \in Clients, Send(c)
         PROVE  Orderly'
  <2> USE <1>Send
  <2>1. /\ pc[c] \in Sending /\ waiting[c] = 0 /\ running /\ (pc[c] = "close" \/ ~cancelled[c])
        /\ window' = window /\ running' = running /\ dialing' = dialing /\ eventClients' = eventClients
        /\ events' = events /\ replies' = replies /\ pc' = pc /\ todo' = todo /\ cancelled' = cancelled
        /\ waiting \in [Clients -> Nat]
    BY Zenon DEF Send, windowVars, serverVars, Orderly, Numbers
  <2>2. PICK n, q : /\ n = FreshNumber(c) /\ q = [from |-> c, number |-> n, draw |-> CommandAt(c)]
    BY Zenon
  <2>3. waiting' = [waiting EXCEPT ![c] = n] /\ requests' = requests \cup {q}
    BY <2>2, Zenon DEF Send
  <2>4. /\ n \in Nat \ {0}
        /\ \A r \in requests : r.from = c => r.number # n /\ pc[c] = "close" /\ ~Is(r, "CLOSE") /\ ~Is(r, "CREATE")
    BY <2>1, <2>2, <1>Fresh, Zenon
  <2>5. q.from = c /\ q.number = n /\ q.draw = CommandAt(c)
    BY <2>2
  <2>6. replies[c] = "none"
    BY <2>1, Zenon DEF Orderly, Asking
  <2>7. \A d \in Clients \ {c} : Same(d)
    BY <2>1, <2>3, <2>5, Zenon DEF Same
  <2>8. CommandAt(c)' = CommandAt(c) /\ waiting'[c] = n
    BY <2>1, <2>3, Zenon DEF CommandAt
  <2>9. Asking(c)'
    <3>1. /\ waiting'[c] # 0 => pc'[c] \in Sending
          /\ waiting'[c] = 0 => replies'[c] = "none"
          /\ pc'[c] = "create" /\ waiting'[c] # 0 => ~cancelled'[c]
      BY <2>1, <2>4, <2>8, Zenon
    <3>2. \E r \in requests' : r.from = c /\ r.number = waiting'[c]
      BY <2>3, <2>5, <2>8
    <3>3. ASSUME NEW r \in requests', r.from = c
          PROVE  /\ r.number = waiting'[c] => replies'[c] = "none" /\ r.draw = CommandAt(c)'
                 /\ r.number # waiting'[c] => pc'[c] \in {"close"} \cup Over /\ ~Is(r, "CREATE")
                 /\ Is(r, "CLOSE") => pc'[c] \in Over \/ r.number = waiting'[c]
      <4>1. CASE r = q
        BY <2>1, <2>5, <2>6, <2>8, <4>1, Zenon
      <4>2. CASE r \in requests
        BY <2>1, <2>4, <2>8, <3>3, <4>2, Zenon
      <4> QED BY <2>3, <4>1, <4>2, Zenon
    <3> QED BY <3>1, <3>2, <3>3, Zenon DEF Asking, Is
  <2>10. Listening(c)' /\ Owning(c)'
    <3>1. Listening(c) /\ Owning(c)
      BY Zenon DEF Orderly
    <3>2. Listening(c)'
      BY <2>1, <3>1, Zenon DEF Listening
    <3>3. Owning(c)'
      BY <2>1, <2>3, <2>6, <3>1, Zenon DEF Owning, Is, Sending, Drawing, Over
    <3> QED BY <3>2, <3>3
  <2>11. InTurn'
    <3>1. Moves(c)
      BY <2>1, <2>3, <2>5, Zenon DEF Moves, Sending, Drawing
    <3> QED BY <3>1, <1>MovesInTurn DEF Orderly
  <2>12. Numbers'
    BY <2>1, <2>3, <2>4, <2>5, Zenon DEF Numbers, Orderly
  <2>13. Distinct'
    <3>1. pc[c] = "close" => Is(q, "CLOSE")
      BY <2>5, CommandIs DEF Is
    <3>2. \A r \in requests : r.from = c => r.number # q.number /\ (~Is(r, "CLOSE") => Is(q, "CLOSE"))
      BY <2>4, <2>5, <3>1, Zenon
    <3> QED BY <2>3, <2>5, <3>2, Zenon DEF Distinct, Orderly, Is
  <2> QED BY <2>7, <2>9, <2>10, <2>11, <2>12, <2>13, <1>Assemble
<1>Departs. ASSUME NEW c \in Clients, NEW to, Departs(c, to), LeavesBehind(c, to)
            PROVE  Orderly'
  <2> USE <1>Departs
  <2>1. /\ pc'[c] = to /\ waiting'[c] = 0 /\ replies'[c] = "none"
        /\ waiting' \in [Clients -> Nat]
    BY Zenon DEF Departs, Base, TypeOK, Orderly, Numbers
  <2>2. \A d \in Clients \ {c} : Same(d)
    BY Zenon DEF Departs, Same, Base, TypeOK
  <2>3. \A r \in requests : r.number # 0
    BY DEF Orderly, Numbers
  <2>4. Asking(c)'
    <3>1. /\ waiting'[c] # 0 => pc'[c] \in Sending
          /\ waiting'[c] = 0 => replies'[c] = "none"
          /\ waiting'[c] # 0 /\ replies'[c] = "none" /\ running' =>
                \E r \in requests' : r.from = c /\ r.number = waiting'[c]
          /\ pc'[c] = "create" /\ waiting'[c] # 0 => ~cancelled'[c]
      BY <2>1, Zenon
    <3>2. ASSUME NEW r \in requests', r.from = c
          PROVE  /\ r.number = waiting'[c] => replies'[c] = "none" /\ r.draw = CommandAt(c)'
                 /\ r.number # waiting'[c] => pc'[c] \in {"close"} \cup Over /\ ~Is(r, "CREATE")
                 /\ Is(r, "CLOSE") => pc'[c] \in Over \/ r.number = waiting'[c]
      BY <2>1, <2>3, <3>2, Zenon DEF Departs, LeavesBehind, Over
    <3> QED BY <3>1, <3>2, Zenon DEF Asking, Is
  <2>5. Listening(c)'
    <3>1. Listening(c) /\ pc[c] \notin {"start", "subscribe"} \cup Over
      BY Zenon DEF Orderly, Departs, Sending, Drawing, Over
    <3>2. c \notin dialing
      BY <3>1, Zenon DEF Listening
    <3>3. running /\ to \notin {"close", "done"} => pc[c] \in {"create", "draw", "show", "main", "redraw", "await"}
      BY Zenon DEF Departs, Sending, Drawing
    <3>4. running' => (pc'[c] \in {"create", "draw", "show", "main", "redraw", "await"} => c \in eventClients')
      BY <2>1, <3>1, <3>3, Zenon DEF Listening, Departs
    <3>5. pc'[c] \notin {"start", "subscribe"} /\ c \notin dialing'
      BY <2>1, <3>2, Zenon DEF Departs
    <3>6. pc'[c] \notin {"start", "subscribe"} \cup Over =>
            \A i \in 1..Len(events'[c]) : events'[c][i] = "window_close"
      BY <2>1, <3>1, Zenon DEF Listening, Departs, Over
    <3> QED BY <3>4, <3>5, <3>6, Zenon DEF Listening
  <2>6. Owning(c)'
    <3>1. Owning(c)
      BY DEF Orderly
    <3> QED BY <2>1, <3>1, Zenon DEF Owning, Departs, LeavesBehind, Over, Is, Sending, Drawing
  <2>7. InTurn'
    <3>1. Moves(c)
      BY Zenon DEF Departs, Moves, Sending, Drawing, Base, TypeOK
    <3> QED BY <3>1, <1>MovesInTurn, Zenon DEF Orderly
  <2>8. Distinct' /\ Numbers'
    BY <2>1, Zenon DEF Departs, Orderly, Distinct, Numbers, Is
  <2> QED BY <2>2, <2>4, <2>5, <2>6, <2>7, <2>8, <1>Assemble
<1>Succeeds. ASSUME NEW c \in Clients, SendSucceeds(c)
             PROVE  Orderly'
  <2> USE <1>Succeeds
  <2>1. PICK to : to = AfterSuccess(c)
    BY Zenon
  <2>2. /\ pc[c] \in Sending /\ replies[c] = "ok" /\ pc' = [pc EXCEPT ![c] = to]
        /\ waiting' = [waiting EXCEPT ![c] = 0] /\ replies' = [replies EXCEPT ![c] = "none"]
        /\ window' = window /\ running' = running /\ requests' = requests
        /\ cancelled' = cancelled /\ dialing' = dialing /\ events' = events
        /\ todo' = todo \/ todo' = [todo EXCEPT ![c] = Tail(@)]
        /\ pc[c] # "close" => eventClients' = eventClients
        /\ eventClients' = eventClients \/ eventClients' = eventClients \ {c}
        /\ DOMAIN todo = Clients
    BY <2>1, Zenon DEF SendSucceeds, Leaves, Goes, Unsubscribes, windowVars, Base, TypeOK
  <2>3. to \in {"draw", "show", "main", "redraw", "done"} /\ (pc[c] = "close" <=> to = "done")
    BY <2>1, <2>2, Successor, Zenon DEF Sending, Drawing
  <2>4. Departs(c, to)
    BY <2>2, <2>3, Zenon DEF Departs
  <2>5. LeavesBehind(c, to)
    <3>1. \A r \in requests : r.from = c => pc[c] = "close" /\ ~Is(r, "CREATE")
      BY <2>2, ZenonT(40) DEF Orderly, Asking, Sending, Drawing, Over
    <3>2. pc[c] = "close" => window # c
      BY <2>2, Zenon DEF Orderly, Owning
    <3> QED BY <2>3, <3>1, <3>2, Zenon DEF LeavesBehind
  <2> QED BY <2>4, <2>5, <1>Departs
<1>Rejected. ASSUME NEW c \in Clients, SendRejected(c)
             PROVE  Orderly'
  <2> USE <1>Rejected
  <2>1. PICK to : to = IF pc[c] = "redraw" /\ replies[c] = "no_window" THEN "await" ELSE AfterFailure(c)
    BY Zenon
  <2>2. /\ pc[c] \in Sending /\ replies[c] \notin {"none", "ok"} /\ pc' = [pc EXCEPT ![c] = to]
        /\ waiting' = [waiting EXCEPT ![c] = 0] /\ replies' = [replies EXCEPT ![c] = "none"]
        /\ window' = window /\ running' = running /\ requests' = requests
        /\ cancelled' = cancelled /\ dialing' = dialing /\ events' = events
        /\ todo' = [todo EXCEPT ![c] = <<>>] /\ StreamAfterFailure(c, to)
        /\ DOMAIN todo = Clients
    BY <2>1, Zenon DEF SendRejected, Leaves, Goes, Drops, windowVars, Base, TypeOK
  <2>3. /\ to \in {"await", "close", "done"} /\ (to = "done" <=> pc[c] \in {"create", "close"})
    BY <2>1, Zenon DEF AfterFailure
  <2>4. Departs(c, to)
    BY <2>2, <2>3, Zenon DEF Departs, StreamAfterFailure, Unsubscribes
  <2>5. LeavesBehind(c, to)
    <3>1. \A r \in requests : r.from = c => pc[c] = "close" /\ ~Is(r, "CREATE")
      BY <2>2, Zenon DEF Orderly, Asking, Sending, Drawing, Over
    <3>2. pc[c] \in {"create", "close"} => window # c
      BY <2>2, Zenon DEF Orderly, Owning
    <3> QED BY <2>3, <3>1, <3>2, Zenon DEF LeavesBehind
  <2> QED BY <2>4, <2>5, <1>Departs
\* CREATE is waited for, so that a session that gives up knows its window.
<1>GivesUp. ASSUME NEW c \in Clients, SendGivesUp(c)
            PROVE  Orderly'
  <2> USE <1>GivesUp
  <2>1. PICK to : to = AfterFailure(c)
    BY Zenon
  <2>2. /\ pc[c] \in Sending /\ ConnectionFails(c) /\ pc' = [pc EXCEPT ![c] = to]
        /\ waiting' = [waiting EXCEPT ![c] = 0] /\ replies' = [replies EXCEPT ![c] = "none"]
        /\ window' = window /\ running' = running /\ requests' = requests
        /\ cancelled' = cancelled /\ dialing' = dialing /\ events' = events
        /\ todo' = [todo EXCEPT ![c] = <<>>] /\ StreamAfterFailure(c, to)
        /\ DOMAIN todo = Clients
    BY <2>1, Zenon DEF SendGivesUp, Leaves, Goes, Drops, windowVars, Base, TypeOK
  <2>3. to \in {"close", "done"} /\ (to = "done" <=> pc[c] \in {"create", "close"})
    BY <2>1, Zenon DEF AfterFailure
  <2>4. Departs(c, to)
    BY <2>2, <2>3, Zenon DEF Departs, StreamAfterFailure, Unsubscribes
  <2>5. Asking(c) /\ Owning(c) /\ InTurn
    BY Zenon DEF Orderly
  <2>6. pc[c] = "create" => window # c /\ \A r \in requests : r.from # c
    <3> SUFFICES ASSUME pc[c] = "create" PROVE window # c /\ \A r \in requests : r.from # c
      BY Zenon
    <3>1. ~running \/ waiting[c] = 0
      BY <2>2, <2>5, Zenon DEF ConnectionFails, CreateWaits, Asking
    <3>2. CASE ~running
      BY <2>5, <3>2, WindowManagerAssumption, Zenon DEF InTurn
    <3>3. CASE waiting[c] = 0
      <4>1. replies[c] = "none"
        BY <2>5, <3>3, Zenon DEF Asking
      <4>2. pc[c] \notin {"close"} \cup Over
        BY Zenon DEF Over
      <4> QED BY <2>5, <3>3, <4>1, <4>2, Zenon DEF Owning, Asking, Orderly, Numbers
    <3> QED BY <3>1, <3>2, <3>3, Zenon
  <2>7. ASSUME NEW r \in requests, r.from = c
        PROVE  ~Is(r, "CREATE") /\ (Is(r, "CLOSE") => to = "done")
    <3>1. CASE r.number = waiting[c]
      <4>1. r.draw = CommandAt(c) /\ pc[c] # "create"
        BY <2>5, <2>6, <2>7, <3>1, Zenon DEF Asking
      <4>2. CASE pc[c] = "close"
        BY <2>3, <4>1, <4>2, CommandIs DEF Is
      <4>3. CASE pc[c] = "show"
        BY <4>1, <4>3, CommandIs DEF Is
      <4>4. CASE pc[c] \in Drawing
        BY <4>1, <4>4, DrawingCommand DEF Is
      <4> QED BY <2>2, <4>1, <4>2, <4>3, <4>4, Zenon DEF Sending
    <3>2. CASE r.number # waiting[c]
      <4>1. pc[c] \in {"close"} \cup Over /\ ~Is(r, "CREATE")
        BY <2>5, <2>7, <3>2, Zenon DEF Asking
      <4>2. pc[c] = "close"
        BY <2>2, <4>1 DEF Sending, Drawing, Over
      <4> QED BY <2>3, <4>1, <4>2, Zenon
    <3> QED BY <3>1, <3>2, Zenon
  <2>8. ASSUME to = "done", window = c
        PROVE  \E r \in requests : r.from = c /\ Is(r, "CLOSE")
    <3>1. pc[c] = "close" /\ running /\ replies[c] = "none"
      BY <2>3, <2>5, <2>6, <2>8, WindowManagerAssumption, Zenon DEF Owning, InTurn
    <3>2. waiting[c] # 0
      BY <2>2, <3>1, Zenon DEF ConnectionFails
    <3>3. PICK r \in requests : r.from = c /\ r.number = waiting[c]
      BY <2>5, <3>1, <3>2, Zenon DEF Asking
    <3>4. r.draw = CommandAt(c)
      BY <2>5, <3>3, Zenon DEF Asking
    <3>5. Is(r, "CLOSE")
      BY <3>1, <3>4, CommandIs DEF Is
    <3> QED BY <3>3, <3>5, Zenon
  <2>9. LeavesBehind(c, to)
    BY <2>3, <2>7, <2>8, Zenon DEF LeavesBehind
  <2> QED BY <2>4, <2>9, <1>Departs
<1>Loop. ASSUME NEW c \in Clients, NEW to, (to = "done" /\ WindowClosed(c)) \/ (to = "close" /\ Ends(c))
         PROVE  Orderly'
  <2> USE <1>Loop
  <2>1. pc' = [pc EXCEPT ![c] = to] /\ to \in {"close", "done"}
    BY Zenon DEF WindowClosed, Ends, Goes
  <2>2. /\ pc[c] \in {"main", "await"} /\ eventClients' = eventClients \ {c}
        /\ window' = window /\ running' = running /\ requests' = requests
        /\ cancelled' = cancelled /\ dialing' = dialing /\ todo' = todo
        /\ waiting' = waiting /\ replies' = replies
        /\ to = "close" => events' = events
        /\ \A d \in Clients \ {c} : events'[d] = events[d]
    <3>1. DOMAIN events = Clients
      BY Zenon DEF Base, TypeOK
    <3>2. CASE to = "done" /\ WindowClosed(c)
      BY <3>1, <3>2, Zenon DEF WindowClosed, Unsubscribes, windowVars
    <3>3. CASE to = "close" /\ Ends(c)
      BY <3>1, <3>3, Zenon DEF Ends, Unsubscribes, windowVars
    <3> QED BY <3>2, <3>3, Zenon
  <2>3. /\ \A r \in requests : r.from # c
        /\ waiting = [waiting EXCEPT ![c] = 0] /\ replies = [replies EXCEPT ![c] = "none"]
    BY <2>2, Settled, Zenon
  <2>4. Departs(c, to)
    BY <2>1, <2>2, <2>3, Zenon DEF Departs
  <2>5. to = "done" => window # c
    <3>1. to = "done" => events[c] # <<>>
      BY Zenon DEF WindowClosed
    <3> QED BY <2>2, <3>1, Zenon DEF Orderly, Owning, Over
  <2>6. LeavesBehind(c, to)
    BY <2>3, <2>5, Zenon DEF LeavesBehind
  <2> QED BY <2>4, <2>6, <1>Departs
<1>Update. ASSUME Update, Base'
           PROVE  Orderly'
  <2> USE <1>Update
  <2>1. DOMAIN todo = Clients /\ Fed \in Clients /\ targets' \in [Clients -> Accepted]
    BY MapSessionAssumption, Zenon DEF Base, TypeOK
  <2>2. FrameAccepts(targets'[Fed])
    BY <2>1, Zenon DEF Accepted
  <2>3. /\ pc[Fed] = "main" /\ pc' = [pc EXCEPT ![Fed] = "redraw"] /\ eventClients' = eventClients
        /\ \E rest : todo' = [todo EXCEPT ![Fed] = rest]
        /\ window' = window /\ running' = running /\ requests' = requests
        /\ cancelled' = cancelled /\ dialing' = dialing /\ events' = events
        /\ waiting' = waiting /\ replies' = replies
    BY <2>2, Zenon DEF Update, Goes, windowVars
  <2>4. /\ \A r \in requests : r.from # Fed
        /\ waiting = [waiting EXCEPT ![Fed] = 0] /\ replies = [replies EXCEPT ![Fed] = "none"]
    BY <2>1, <2>3, Settled, Zenon
  <2>5. Departs(Fed, "redraw")
    BY <2>1, <2>3, <2>4, Zenon DEF Departs
  <2>6. LeavesBehind(Fed, "redraw")
    BY <2>4, Zenon DEF LeavesBehind
  <2> QED BY <2>1, <2>5, <2>6, <1>Departs
<1>Returns. ASSUME NEW c \in Clients, Returns(c)
            PROVE  Orderly'
  <2> USE <1>Returns
  <2>1. /\ pc[c] = "done" /\ pc' = [pc EXCEPT ![c] = "returned"]
        /\ events' = [events EXCEPT ![c] = <<>>] /\ todo' = [todo EXCEPT ![c] = <<>>]
        /\ cancelled' = [cancelled EXCEPT ![c] = FALSE]
        /\ window' = window /\ running' = running /\ dialing' = dialing /\ eventClients' = eventClients
        /\ requests' = requests /\ replies' = replies /\ waiting' = waiting
        /\ DOMAIN pc = Clients /\ DOMAIN events = Clients /\ DOMAIN todo = Clients /\ DOMAIN cancelled = Clients
    BY Zenon DEF Returns, Goes, windowVars, Base, TypeOK
  <2>2. Asking(c) /\ Listening(c) /\ Owning(c)
    BY Zenon DEF Orderly
  <2>3. waiting[c] = 0 /\ \A r \in requests : r.number # 0
    BY <2>1, <2>2, Zenon DEF Asking, Sending, Drawing, Orderly, Numbers
  <2>4. \A d \in Clients \ {c} : Same(d)
    BY <2>1, Zenon DEF Same
  <2>5. pc'[c] = "returned" /\ events'[c] = <<>> /\ "returned" \in Over /\ pc[c] \in Over
    BY <2>1, Zenon DEF Over
  <2>6. Asking(c)'
    BY <2>1, <2>2, <2>3, <2>5, Zenon DEF Asking
  <2>7. Listening(c)'
    BY <2>1, <2>2, <2>5, Zenon DEF Listening
  <2>8. Owning(c)'
    BY <2>1, <2>2, <2>5, Zenon DEF Owning
  <2>9. InTurn'
    <3>1. Moves(c)
      BY <2>1, Zenon DEF Moves
    <3> QED BY <3>1, <1>MovesInTurn, Zenon DEF Orderly
  <2>10. Distinct' /\ Numbers'
    BY <2>1, Zenon DEF Orderly, Distinct, Numbers, Is
  <2> QED BY <2>4, <2>6, <2>7, <2>8, <2>9, <2>10, <1>Assemble
<1>Cancel. ASSUME NEW c \in Clients, Cancel(c)
           PROVE  Orderly'
  <2> USE <1>Cancel
  <2>1. /\ pc[c] # "create" /\ pc' = pc /\ events' = events /\ todo' = todo
        /\ cancelled' = [cancelled EXCEPT ![c] = TRUE]
        /\ window' = window /\ running' = running /\ dialing' = dialing /\ eventClients' = eventClients
        /\ requests' = requests /\ replies' = replies /\ waiting' = waiting
        /\ DOMAIN cancelled = Clients
    BY Zenon DEF Cancel, CreateWaits, wmVars, windowVars, serverVars, Base, TypeOK
  <2>2. Asking(c) /\ Listening(c) /\ Owning(c)
    BY Zenon DEF Orderly
  <2>3. \A d \in Clients \ {c} : Same(d)
    BY <2>1, Zenon DEF Same
  <2>4. CommandAt(c)' = CommandAt(c)
    BY <2>1, Zenon DEF CommandAt
  <2>5. Asking(c)'
    BY <2>1, <2>2, <2>4, Zenon DEF Asking
  <2>6. Listening(c)' /\ Owning(c)'
    BY <2>1, <2>2, Zenon DEF Listening, Owning
  <2>7. InTurn' /\ Distinct' /\ Numbers'
    BY <2>1, Zenon DEF Orderly, InTurn, Distinct, Numbers, Is
  <2> QED BY <2>3, <2>5, <2>6, <2>7, <1>Assemble
<1>Accept. ASSUME NEW c \in Clients, AcceptEvents(c) /\ UNCHANGED <<feedVars, sessionVars>>
           PROVE  Orderly'
  <2> USE <1>Accept
  <2>1. /\ c \in dialing /\ dialing' = dialing \ {c} /\ eventClients' = eventClients \cup {c}
        /\ events' = [events EXCEPT ![c] = Append(@, "subscribed")]
        /\ window' = window /\ running' = running
        /\ requests' = requests /\ replies' = replies /\ waiting' = waiting /\ pc' = pc /\ todo' = todo
        /\ cancelled' = cancelled /\ DOMAIN events = Clients
    BY Zenon DEF AcceptEvents, windowVars, sessionVars, Base, TypeOK
  <2>2. Asking(c) /\ Listening(c) /\ Owning(c)
    BY Zenon DEF Orderly
  <2>3. pc[c] = "subscribe" /\ events[c] = <<>>
    BY <2>1, <2>2, Zenon DEF Listening
  <2>4. Append(<<>>, "subscribed") = <<"subscribed">>
    OBVIOUS
  <2>5. events'[c] = <<"subscribed">>
    BY <2>1, <2>3, <2>4, Zenon
  <2>6. \A d \in Clients \ {c} : Same(d)
    BY <2>1, Zenon DEF Same
  <2>7. CommandAt(c)' = CommandAt(c)
    BY <2>1, Zenon DEF CommandAt
  <2>8. Asking(c)'
    BY <2>1, <2>2, <2>7, Zenon DEF Asking
  <2>9. Listening(c)'
    BY <2>1, <2>3, <2>5, Zenon DEF Listening
  <2>10. Owning(c)'
    BY <2>1, <2>2, <2>3, Zenon DEF Owning
  <2>11. InTurn' /\ Distinct' /\ Numbers'
    BY <2>1, Zenon DEF Orderly, InTurn, Distinct, Numbers, Is
  <2> QED BY <2>6, <2>8, <2>9, <2>10, <2>11, <1>Assemble
\* Steps of the feed, of the Broker and of the user.
<1>Quiet. ASSUME UNCHANGED <<window, running, dialing, eventClients, events, requests, replies, pc, waiting, todo, cancelled>>
          PROVE  Orderly'
  <2> USE <1>Quiet
  <2>1. Numbers' /\ InTurn' /\ Distinct'
    BY Zenon DEF Orderly, InTurn, Distinct, Numbers, Is
  <2>2. ASSUME NEW c \in Clients PROVE Same(c)
    BY Zenon DEF Same
  <2>3. ASSUME NEW c \in Clients PROVE Asking(c)' /\ Listening(c)' /\ Owning(c)'
    BY <2>2, <2>3, <1>SameKeeps, Zenon DEF Orderly
  <2> QED BY <2>1, <2>3, Zenon DEF Orderly
\* The window goes, whoever made it.
<1>Quit. ASSUME Quit \/ Stop, UNCHANGED <<feedVars, sessionVars>>
         PROVE  Orderly'
  <2> USE <1>Quit
  <2>1. /\ window' = NoWindow /\ events' = events /\ replies' = replies /\ pc' = pc /\ waiting' = waiting
        /\ todo' = todo /\ cancelled' = cancelled
        /\ \/ /\ running' = running /\ dialing' = dialing /\ eventClients' = eventClients /\ requests' = requests
           \/ running' = FALSE /\ dialing' = {} /\ eventClients' = {} /\ requests' = {}
    BY Zenon DEF Quit, Stop, CloseWindow, sessionVars
  <2>2. ASSUME NEW c \in Clients PROVE Asking(c)' /\ Listening(c)' /\ Owning(c)'
    <3>1. Asking(c) /\ Listening(c) /\ Owning(c) /\ c # NoWindow
      BY WindowManagerAssumption, Zenon DEF Orderly
    <3>2. CommandAt(c)' = CommandAt(c)
      BY <2>1, Zenon DEF CommandAt
    <3>3. Asking(c)'
      <4>1. CASE running' = running /\ requests' = requests
        BY <2>1, <3>1, <3>2, <4>1, Zenon DEF Asking
      <4>2. CASE running' = FALSE /\ requests' = {}
        BY <2>1, <3>1, <4>2, Zenon DEF Asking
      <4> QED BY <2>1, <4>1, <4>2, Zenon
    <3>4. Listening(c)'
      <4>1. CASE running' = running /\ dialing' = dialing /\ eventClients' = eventClients
        BY <2>1, <3>1, <4>1, Zenon DEF Listening
      <4>2. CASE running' = FALSE /\ dialing' = {} /\ eventClients' = {}
        BY <2>1, <3>1, <4>2, Zenon DEF Listening
      <4> QED BY <2>1, <4>1, <4>2, Zenon
    <3>5. window' # c
      BY <2>1, <3>1, Zenon
    <3>6. Owning(c)'
      BY <2>1, <3>1, <3>5, Zenon DEF Owning
    <3> QED BY <3>3, <3>4, <3>6, Zenon
  <2>3. InTurn'
    BY <2>1, MapSessionAssumption, WindowManagerAssumption, Zenon DEF Orderly, InTurn
  <2>4. Distinct' /\ Numbers'
    BY <2>1, Zenon DEF Orderly, Distinct, Numbers, Is
  <2> QED BY <2>2, <2>3, <2>4, Zenon DEF Orderly
<1>NativeClose. ASSUME NativeClose
                PROVE  Orderly'
  <2> USE <1>NativeClose
  <2>1. /\ running /\ window \in Clients /\ window' = NoWindow /\ running' = running
        /\ dialing' = dialing /\ eventClients' = eventClients /\ requests' = requests
        /\ replies' = replies /\ pc' = pc /\ waiting' = waiting /\ todo' = todo /\ cancelled' = cancelled
        /\ events' = [c \in Clients |-> IF c \in eventClients THEN Append(events[c], "window_close") ELSE events[c]]
    BY Zenon DEF NativeClose, PollClose, CloseWindow, Base, TypeOK
  <2>2. ASSUME NEW c \in Clients PROVE Asking(c)' /\ Listening(c)' /\ Owning(c)'
    <3>1. Asking(c) /\ Listening(c) /\ Owning(c) /\ window' # c
      BY <2>1, WindowManagerAssumption, Zenon DEF Orderly
    <3>2. CommandAt(c)' = CommandAt(c)
      BY <2>1, Zenon DEF CommandAt
    <3>3. Asking(c)'
      BY <2>1, <3>1, <3>2, Zenon DEF Asking
    <3>4. CASE c \notin eventClients
      <4>1. events'[c] = events[c]
        BY <2>1, <3>4, Zenon
      <4>2. Listening(c)'
        BY <2>1, <3>1, <4>1, Zenon DEF Listening
      <4>3. Owning(c)'
        BY <2>1, <3>1, <4>1, Zenon DEF Owning
      <4> QED BY <3>3, <4>2, <4>3, Zenon
    <3>5. CASE c \in eventClients
      <4>1. events'[c] = Append(events[c], "window_close") /\ events[c] \in Seq({"subscribed", "window_close"})
        BY <2>1, <3>5, Zenon DEF Base, TypeOK
      <4>2. pc[c] # "start" /\ c \notin dialing
        BY <3>1, <3>5, Zenon DEF Listening
      <4>3. pc[c] \notin {"start", "subscribe"} /\ (pc[c] = "create" => replies[c] = "ok")
        <5>1. pc[c] \notin {"start", "returned"} => window = c
          BY <2>1, Alone, WindowManagerAssumption, Zenon
        <5> QED BY <3>1, <4>2, <5>1, Zenon DEF Owning
      <4>4. pc[c] \notin {"start", "subscribe"} \cup Over =>
               \A i \in 1..Len(events'[c]) : events'[c][i] = "window_close"
        <5> SUFFICES ASSUME pc[c] \notin {"start", "subscribe"} \cup Over, NEW i \in 1..Len(events'[c])
                     PROVE  events'[c][i] = "window_close"
          BY Zenon
        <5>1. \A j \in 1..Len(events[c]) : events[c][j] = "window_close"
          BY <3>1, Zenon DEF Listening
        <5> QED BY <4>1, <5>1
      <4>5. Listening(c)'
        BY <2>1, <3>1, <4>2, <4>3, <4>4, Zenon DEF Listening
      <4>6. pc'[c] = "create" => replies'[c] # "none"
        BY <2>1, <4>3
      <4>7. Owning(c)'
        BY <2>1, <3>1, <4>6, Zenon DEF Owning
      <4> QED BY <3>3, <4>5, <4>7, Zenon
    <3> QED BY <3>4, <3>5, Zenon
  <2>3. InTurn'
    BY <2>1, MapSessionAssumption, WindowManagerAssumption, Zenon DEF Orderly, InTurn
  <2>4. Distinct' /\ Numbers'
    BY <2>1, Zenon DEF Orderly, Distinct, Numbers, Is
  <2> QED BY <2>2, <2>3, <2>4, Zenon DEF Orderly
\* WM handles a command.
<1>Handle. ASSUME NEW r \in requests, Handle(r, waiting) /\ UNCHANGED <<feedVars, sessionVars>>
           PROVE  Orderly'
  <2> USE <1>Handle
  <2>1. PICK answer : Handled(r, answer)
    BY Handling
  <2>2. PICK c \in Clients : c = r.from
    BY Zenon DEF Base, TypeOK
  <2>3. /\ running /\ running' = running /\ requests' = requests \ {r}
        /\ dialing' = dialing /\ eventClients' = eventClients /\ events' = events
        /\ pc' = pc /\ waiting' = waiting /\ todo' = todo /\ cancelled' = cancelled
        /\ DOMAIN replies = Clients
    BY Zenon DEF Handle, serverVars, sessionVars, Base, TypeOK
  <2>4. /\ replies' = (IF waiting[c] = r.number THEN [replies EXCEPT ![c] = answer] ELSE replies)
        /\ answer # "none"
    BY <2>1, <2>2, Zenon DEF Handled, Reply
  <2>5. window \in {c, NoWindow} /\ window' \in {c, NoWindow}
    <3>1. window \in {c, NoWindow}
      BY <2>2, Alone, Zenon
    <3> QED BY <2>1, <2>2, <3>1, Zenon DEF Handled
  <2>6. /\ r.number = waiting[c] => pc[c] \in Sending /\ replies[c] = "none" /\ r.draw = CommandAt(c)
        /\ r.number # waiting[c] => pc[c] \in {"close"} \cup Over
        /\ Is(r, "CREATE") => pc[c] = "create" /\ r.number = waiting[c]
        /\ r.number = waiting[c] /\ pc[c] = "close" => Is(r, "CLOSE")
        /\ pc[c] \in Sending \cup Over
    BY <2>2, Sender, Zenon
  <2>7. Asking(c) /\ Listening(c) /\ Owning(c) /\ Distinct /\ Numbers /\ InTurn
    BY Zenon DEF Orderly
  <2>8. \A d \in Clients \ {c} : Same(d)
    <3> SUFFICES ASSUME NEW d \in Clients \ {c} PROVE Same(d)
      BY Zenon
    <3>1. replies'[d] = replies[d]
      BY <2>3, <2>4, Zenon
    <3>2. d # c /\ d # NoWindow
      BY WindowManagerAssumption, Zenon
    <3>3. window # d /\ window' # d
      BY <2>5, <3>2, Zenon
    <3> QED BY <2>2, <2>3, <3>1, <3>3, Zenon DEF Same
  <2>9. CommandAt(c)' = CommandAt(c)
    BY <2>3, Zenon DEF CommandAt
  <2>10. /\ r.number = waiting[c] => replies'[c] = answer
         /\ r.number # waiting[c] => replies'[c] = replies[c]
    BY <2>3, <2>4, Zenon
  <2>11. Asking(c)'
    <3>1. waiting'[c] = 0 => replies'[c] = "none"
      BY <2>3, <2>7, <2>10, Zenon DEF Asking, Numbers
    <3>2. ASSUME NEW q \in requests', q.from = c
          PROVE  q.number = waiting'[c] => replies'[c] = "none" /\ q.draw = CommandAt(c)'
      <4>1. q \in requests /\ q # r
        BY <2>3, <3>2, Zenon
      <4>2. q.number # r.number
        BY <2>2, <2>7, <3>2, <4>1, Zenon DEF Distinct
      <4> QED BY <2>3, <2>7, <2>9, <2>10, <3>2, <4>1, <4>2, Zenon DEF Asking
    <3>3. ASSUME waiting'[c] # 0 /\ replies'[c] = "none"
          PROVE  \E q \in requests' : q.from = c /\ q.number = waiting'[c]
      <4>1. r.number # waiting[c]
        BY <2>4, <2>10, <3>3, Zenon
      <4>2. PICK q \in requests : q.from = c /\ q.number = waiting[c]
        BY <2>3, <2>7, <2>10, <3>3, <4>1, Zenon DEF Asking
      <4> QED BY <2>3, <4>1, <4>2, Zenon
    <3>4. \A q \in requests' : q \in requests
      BY <2>3, Zenon
    <3> QED BY <2>3, <2>7, <3>1, <3>2, <3>3, <3>4, Zenon DEF Asking, Is
  <2>12. Listening(c)'
    BY <2>3, <2>7, Zenon DEF Listening
  <2>13. window' = c => window = c \/ (pc[c] = "create" /\ r.number = waiting[c] /\ answer = "ok")
    BY <2>1, <2>2, <2>6, WindowManagerAssumption, Zenon DEF Handled
  <2>14. Owning(c)'
    <3>0. pc[c] \in Sending \cup Over => pc[c] \notin {"start", "subscribe"}
      BY DEF Sending, Drawing, Over
    <3>1. window' = c => pc'[c] \notin {"start", "subscribe"} /\ (pc'[c] = "create" => replies'[c] = "ok")
      <4> SUFFICES ASSUME window' = c, pc[c] = "create" PROVE replies'[c] = "ok"
        BY <2>3, <2>6, <3>0, Zenon
      <4>1. r.number = waiting[c] /\ replies[c] = "none"
        BY <2>6, Zenon DEF Over
      <4>2. window # c
        BY <2>7, <4>1, Zenon DEF Owning
      <4> QED BY <2>10, <2>13, <4>1, <4>2, Zenon
    <3>2. pc'[c] = "close" /\ replies'[c] # "none" => window' # c
      <4> SUFFICES ASSUME pc[c] = "close", replies'[c] # "none", window' = c PROVE FALSE
        BY <2>3, Zenon
      <4>1. window = c /\ replies[c] = "none"
        BY <2>7, <2>13, Zenon DEF Owning
      <4>2. Is(r, "CLOSE")
        BY <2>6, <2>10, <4>1, Zenon
      <4> QED BY <2>1, <2>2, <4>2, WindowManagerAssumption, Zenon DEF Handled
    <3>3. pc'[c] \in Over /\ window' = c => \E q \in requests' : q.from = c /\ Is(q, "CLOSE")
      <4> SUFFICES ASSUME pc[c] \in Over, window' = c PROVE \E q \in requests' : q.from = c /\ Is(q, "CLOSE")
        BY <2>3, Zenon
      <4>1. window = c
        BY <2>13, Zenon DEF Over
      <4>2. PICK q \in requests : q.from = c /\ Is(q, "CLOSE")
        BY <2>7, <4>1, Zenon DEF Owning
      <4>3. ~Is(r, "CLOSE")
        BY <2>1, <2>2, WindowManagerAssumption, Zenon DEF Handled
      <4> QED BY <2>3, <4>2, <4>3, Zenon
    <3>4. events'[c] # <<>> /\ pc'[c] \notin {"subscribe"} \cup Over =>
            window' # c /\ (pc'[c] = "create" => replies'[c] # "none")
      <4> SUFFICES ASSUME events[c] # <<>>, pc[c] \notin {"subscribe"} \cup Over
                   PROVE  window' # c /\ (pc[c] = "create" => replies'[c] # "none")
        BY <2>3, Zenon
      <4>1. window # c /\ (pc[c] = "create" => replies[c] # "none")
        BY <2>7, Zenon DEF Owning
      <4>2. pc[c] # "create"
        BY <2>6, <4>1, Zenon DEF Over
      <4> QED BY <2>13, <4>1, <4>2, Zenon
    <3> QED BY <3>1, <3>2, <3>3, <3>4, Zenon DEF Owning, Is
  <2>15. InTurn'
    <3>1. ASSUME NEW d \in Clients \ {Fed}, pc'[d] # "start"
          PROVE  pc'[Fed] = "returned" /\ window' # Fed /\ \A q \in requests' : q.from # Fed
      <4>1. pc[Fed] = "returned" /\ window # Fed /\ \A q \in requests : q.from # Fed
        BY <2>3, <2>7, <3>1, Zenon DEF InTurn
      <4>2. c # Fed
        BY <2>2, <4>1, Zenon
      <4> QED BY <2>3, <2>5, <4>1, <4>2, MapSessionAssumption, WindowManagerAssumption, Zenon
    <3> QED BY <2>3, <3>1, Zenon DEF InTurn
  <2>16. Distinct' /\ Numbers'
    BY <2>3, <2>7, Zenon DEF Distinct, Numbers, Is
  <2> QED BY <2>8, <2>11, <2>12, <2>14, <2>15, <2>16, <1>Assemble
<1> SUFFICES ASSUME Base', [Next]_vars PROVE Orderly'
  OBVIOUS
<1>1. CASE UNCHANGED vars
  BY <1>1, <1>Quiet, Zenon DEF vars, wmVars, windowVars, serverVars, sessionVars
<1>2. ASSUME NEW c \in Clients,
             \/ Subscribe(c) \/ Subscribed(c) \/ Send(c) \/ SendSucceeds(c)
             \/ SendRejected(c) \/ SendGivesUp(c) \/ Returns(c) \/ Cancel(c)
             \/ AcceptEvents(c) /\ UNCHANGED <<feedVars, sessionVars>>
      PROVE  Orderly'
  BY <1>2, <1>Subscribe, <1>Subscribed, <1>Send, <1>Succeeds, <1>Rejected,
     <1>GivesUp, <1>Returns, <1>Cancel, <1>Accept, Zenon
<1>3. ASSUME NEW c \in Clients, WindowClosed(c) \/ Ends(c)
      PROVE  Orderly'
  BY <1>3, <1>Loop, Zenon
<1>4. CASE Update
  BY <1>4, <1>Update
<1>5. CASE LogNotice \/ Feeds \/ ((BrokerSends \/ BrokerGoes) /\ UNCHANGED <<wmVars, sessionVars>>)
  BY <1>5, <1>Quiet, Zenon DEF LogNotice, Feeds, wmVars, windowVars, serverVars, sessionVars
<1>6. CASE \E r \in requests : Handle(r, waiting) /\ UNCHANGED <<feedVars, sessionVars>>
  BY <1>6, <1>Handle, Zenon
<1>7. CASE NativeClose
  BY <1>7, <1>NativeClose
<1>8. CASE UserCloses /\ UNCHANGED <<feedVars, sessionVars>>
  BY <1>8, <1>Quiet, Zenon DEF UserCloses, serverVars, sessionVars
<1>9. CASE (Quit \/ Stop) /\ UNCHANGED <<feedVars, sessionVars>>
  BY <1>9, <1>Quit, Zenon
<1> QED BY <1>1, <1>2, <1>3, <1>4, <1>5, <1>6, <1>7, <1>8, <1>9, NextIsSteps, Zenon DEF Steps

\* When the Maps run one after the other and CREATE is neither cancelled nor
\* timed out, Client.Send in client.go and handleRequest in server.go keep the
\* commands and the events of a session apart from those of every other.
THEOREM OrderlyInvariance ==
    ASSUME OneByOne, CreateWaits
    PROVE  Spec => []Orderly
<1>1. Base /\ Sketches /\ Orderly /\ Base' /\ [Next]_vars => Orderly'
  BY OrderlyStep
<1> QED BY <1>1, InitOrderly, BaseInvariance, SketchesInvariance, PTL DEF Spec

\* When the Maps run one after the other and CREATE is neither cancelled nor
\* timed out, a session of runMap in session.go that has ended has closed its
\* window, or its CLOSE is on the way to WM: no failure, cancellation, time-out
\* of another command or native close leaves a window behind.
THEOREM NoOrphanWindowHolds ==
    ASSUME OneByOne, CreateWaits
    PROVE  Spec => []NoOrphanWindow
<1>1. Orderly => NoOrphanWindow
  BY Zenon DEF Orderly, Owning, NoOrphanWindow, Over, Is
<1> QED BY <1>1, OrderlyInvariance, PTL

====
