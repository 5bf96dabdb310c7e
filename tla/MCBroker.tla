------------------------------ MODULE MCBroker ------------------------------
(* Small instances of Broker for TLC.                                       *)
EXTENDS Broker, TLC

CONSTANTS t, pub1, pub2, sub1, sub2

Cmd(op) == [op |-> op, topic |-> t]

\* Two publishers and a subscriber that may also break the line limit.
VocabularyRace ==
    pub1 :> {Cmd("PUB")} @@ pub2 :> {Cmd("PUB"), Cmd("OTHER")} @@
    sub1 :> {Cmd("SUB"), Cmd("LONG")}

\* One publisher, two subscribers.
VocabularyFanOut ==
    pub1 :> {Cmd("PUB")} @@ sub1 :> {Cmd("SUB")} @@ sub2 :> {Cmd("SUB")}

LinesRace == pub1 :> 2 @@ pub2 :> 1 @@ sub1 :> 2

LinesFanOut == pub1 :> 2 @@ sub1 :> 2 @@ sub2 :> 1

====
