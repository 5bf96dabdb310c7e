------------------------------- MODULE PubSub -------------------------------
(***************************************************************************)
(* What the broker promises (spec/broker-protocol.md): a publication is    *)
(* owed to exactly the clients that subscribe to its topic at that         *)
(* moment; every owed message is received once or lost, never repeated;    *)
(* and a client publishes again only when nothing of its previous          *)
(* publication is still owed.                                              *)
(***************************************************************************)
EXTENDS Naturals, Sequences

CONSTANTS Clients, Topics

VARIABLES
    subscribed,   \* subscribed[t]: the clients that subscribe to topic t
    executed,     \* executed[c]: how many commands of c were executed
    owed,         \* the messages still to be received, with their recipient
    received      \* received[c]: what c was sent, in order

vars == <<subscribed, executed, owed, received>>

Message == [from : Clients, topic : Topics, n : Nat, whole : BOOLEAN]

TypeOK ==
    /\ subscribed \in [Topics -> SUBSET Clients]
    /\ executed \in [Clients -> Nat]
    /\ owed \subseteq Message \X Clients
    /\ received \in [Clients -> Seq(Message)]

Init ==
    /\ subscribed = [t \in Topics |-> {}]
    /\ executed = [c \in Clients |-> 0]
    /\ owed = {}
    /\ received = [c \in Clients |-> <<>>]

Execute(c) == executed' = [executed EXCEPT ![c] = @ + 1]

Ignore(c) == Execute(c) /\ UNCHANGED <<subscribed, owed, received>>

Subscribe(c, t) ==
    /\ Execute(c)
    /\ subscribed' = [subscribed EXCEPT ![t] = @ \cup {c}]
    /\ UNCHANGED <<owed, received>>

Unsubscribe(c) ==
    /\ subscribed' = [t \in Topics |-> subscribed[t] \ {c}]
    /\ UNCHANGED <<executed, owed, received>>

Publish(c, t, whole) ==
    /\ \A o \in owed : o[1].from # c
    /\ Execute(c)
    /\ LET msg == [from |-> c, topic |-> t, n |-> executed[c] + 1, whole |-> whole]
       IN owed' = owed \cup ({msg} \X subscribed[t])
    /\ UNCHANGED <<subscribed, received>>

Receive(o) ==
    /\ owed' = owed \ {o}
    /\ received' = [received EXCEPT ![o[2]] = Append(@, o[1])]
    /\ UNCHANGED <<subscribed, executed>>

Lose(o) == owed' = owed \ {o} /\ UNCHANGED <<subscribed, executed, received>>

Next ==
    \/ \E c \in Clients : Ignore(c) \/ Unsubscribe(c)
    \/ \E c \in Clients, t \in Topics : Subscribe(c, t)
    \/ \E c \in Clients, t \in Topics, whole \in BOOLEAN : Publish(c, t, whole)
    \/ \E o \in owed : Receive(o) \/ Lose(o)

Spec == Init /\ [][Next]_vars

====
