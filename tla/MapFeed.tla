------------------------------- MODULE MapFeed -------------------------------
(***************************************************************************)
(* The goroutine that RunWithBroker of app/map/broker.go starts beside a   *)
(* session: receiveTargets connects to the Broker, subscribes, publishes   *)
(* the Observations it was given and then hands every Target it reads to   *)
(* the session.  Two bounded channels lead to the session; a context that  *)
(* is done closes the connection and frees the goroutine from both.        *)
(***************************************************************************)
EXTENDS MapFrame

CONSTANTS
    FeedLines,     \* the lines the Broker may send: [prefix, payload]
    MaxLines,      \* how many lines the Broker sends
    Observations,  \* how many Observations Map publishes
    UpdatesCap,    \* capacity of the channel of updates (16 in the code)
    NoticesCap     \* capacity of the channel of notices (8 in the code)

ASSUME MapFeedAssumption ==
    /\ MaxLines \in Nat /\ Observations \in Nat
    /\ UpdatesCap \in Nat /\ NoticesCap \in Nat

VARIABLES
    brokerUp,      \* the Broker accepts and keeps connections
    wire,          \* lines sent by the Broker and not yet read
    sentLines,     \* how many lines the Broker has sent
    feed,          \* where the goroutine is
    afterNotice,   \* where it goes on after a notice
    unpublished,   \* Observations still to publish
    offered,       \* the Target that waits for room in the channel
    updates,       \* the channel of updates
    notices,       \* how many notices are in their channel
    received       \* the last valid Target read for each identifier

feedVars == <<brokerUp, wire, sentLines, feed, afterNotice, unpublished, offered, updates, notices,
              received>>

FeedInit ==
    /\ brokerUp = TRUE /\ wire = <<>> /\ sentLines = 0
    /\ feed = "idle" /\ afterNotice = "idle" /\ unpublished = Observations
    /\ offered = {} /\ updates = <<>> /\ notices = 0 /\ received = {}

Notices(to) == feed' = "notice" /\ afterNotice' = to

-----------------------------------------------------------------------------
\* RunWithBroker starts the goroutine before the session.
StartFeed ==
    /\ feed = "idle"
    /\ feed' = "connect"
    /\ UNCHANGED <<brokerUp, wire, sentLines, afterNotice, unpublished, offered, updates, notices, received>>

\* The process of the feed exits.
DropFeed ==
    /\ wire' = <<>> /\ updates' = <<>> /\ notices' = 0 /\ received' = {}
    /\ unpublished' = 0 /\ sentLines' = MaxLines /\ brokerUp' = FALSE
    /\ UNCHANGED <<feed, afterNotice, offered>>

\* "gone": the context of RunWithBroker is done.  An error is reported unless
\* it is, and then the channels are closed.
FeedFails(gone) ==
    IF gone THEN feed' = "ended" /\ UNCHANGED afterNotice ELSE Notices("ended")

\* The connection, and SUB targets.updated on it.
Connect(gone) ==
    /\ feed = "connect"
    /\ IF brokerUp /\ ~gone THEN Notices("publish") ELSE FeedFails(gone)
    /\ UNCHANGED <<brokerUp, wire, sentLines, unpublished, offered, updates, notices, received>>

\* The Observations; a write may succeed when the Broker is gone, and fails on
\* a connection closed by the context.
WritePub(gone) ==
    /\ feed = "publish"
    /\ \/ /\ unpublished = 0
          /\ feed' = "read"
          /\ UNCHANGED <<afterNotice, unpublished>>
       \/ /\ unpublished > 0 /\ ~gone
          /\ unpublished' = unpublished - 1
          /\ Notices("publish")
       \/ /\ unpublished > 0 /\ (gone \/ ~brokerUp)
          /\ FeedFails(gone)
          /\ UNCHANGED unpublished
    /\ UNCHANGED <<brokerUp, wire, sentLines, offered, updates, notices, received>>

\* The select of notice: the channel, or the end of the context.
Notice(gone) ==
    /\ feed = "notice"
    /\ \/ notices < NoticesCap /\ notices' = notices + 1
       \/ gone /\ UNCHANGED notices
    /\ feed' = afterNotice /\ afterNotice' = "idle"
    /\ UNCHANGED <<brokerUp, wire, sentLines, unpublished, offered, updates, received>>

\* A line that is not a valid Target is reported and skipped.
ReadLine ==
    /\ feed = "read" /\ wire # <<>>
    /\ wire' = Tail(wire)
    /\ LET line == Head(wire)
       IN  IF line.prefix /\ parseTarget(line.payload)
           THEN /\ feed' = "offer" /\ offered' = {line.payload.value}
                /\ received' = {t \in received : t.targetId # line.payload.value.targetId}
                               \cup {line.payload.value}
                /\ UNCHANGED afterNotice
           ELSE Notices("read") /\ UNCHANGED <<offered, received>>
    /\ UNCHANGED <<brokerUp, sentLines, unpublished, updates, notices>>

ReadFails(gone) ==
    /\ feed = "read" /\ (gone \/ (~brokerUp /\ wire = <<>>))
    /\ FeedFails(gone) /\ wire' = <<>>
    /\ UNCHANGED <<brokerUp, sentLines, unpublished, offered, updates, notices, received>>

\* The Target waits for room whatever happens to the session.
OfferWaits(gone) ==
    /\ feed = "offer"
    /\ Len(updates) < UpdatesCap
    /\ \E t \in offered : updates' = Append(updates, t)
    /\ feed' = "read" /\ offered' = {}
    /\ UNCHANGED <<brokerUp, wire, sentLines, afterNotice, unpublished, notices, received>>

\* The select on the channel of updates and the end of the context.
Offer(gone) ==
    /\ feed = "offer"
    /\ \/ /\ Len(updates) < UpdatesCap
          /\ \E t \in offered : updates' = Append(updates, t)
          /\ feed' = "read"
       \/ gone /\ feed' = "ended" /\ UNCHANGED updates
    /\ offered' = {}
    /\ UNCHANGED <<brokerUp, wire, sentLines, afterNotice, unpublished, notices, received>>

FeedStep(gone) ==
    \/ Connect(gone) \/ WritePub(gone) \/ Notice(gone) \/ ReadLine \/ ReadFails(gone)
    \/ Offer(gone)

-----------------------------------------------------------------------------
\* The Broker: it sends lines to the subscriber, and it may go away.
BrokerSends ==
    /\ brokerUp /\ feed \in {"publish", "read", "offer", "notice"} /\ afterNotice # "ended"
    /\ sentLines < MaxLines
    /\ sentLines' = sentLines + 1
    /\ \E line \in FeedLines : wire' = Append(wire, line)
    /\ UNCHANGED <<brokerUp, feed, afterNotice, unpublished, offered, updates, notices, received>>

BrokerGoes ==
    /\ brokerUp /\ feed # "ended"
    /\ brokerUp' = FALSE
    /\ UNCHANGED <<wire, sentLines, feed, afterNotice, unpublished, offered, updates, notices, received>>

====
