---------------------------- MODULE BrokerProofs ----------------------------
(***************************************************************************)
(* Proofs about Broker for any number of clients, topics and lines.        *)
(*                                                                         *)
(* PublisherOrder is not inductive.  It is strengthened by: the lines a    *)
(* peer wrote carry consecutive numbers (Numbered); deliveries exist only  *)
(* while their publisher waits in publish, at most one per recipient       *)
(* (Waited); and a line that a subscriber already has is older than every  *)
(* delivery and every buffered line of its publisher (Ordered).            *)
(*                                                                         *)
(* LinesIntact needs mutual exclusion on writeMu (Exclusive) and that the  *)
(* unterminated bytes of a live connection belong to the delivery that is  *)
(* writing (CleanTail), on connections whose peer never stops reading.     *)
(*                                                                         *)
(* The refinement of PubSub rests on the order invariant, which gives the  *)
(* two facts the steps need: the line a handler takes carries the number   *)
(* after the last executed one, and a publisher that scans has no delivery *)
(* left.                                                                   *)
(***************************************************************************)
EXTENDS Broker, SequenceTheorems, TLAPS

InWire(p) == Len(wire[p])

InScanner(p) == Len(scanner[p])

Numbered ==
    \A p \in Clients :
        /\ InWire(p) + InScanner(p) =< written[p]
        /\ \A i \in 1..InScanner(p) :
              scanner[p][i].n = written[p] - (InWire(p) + InScanner(p)) + i
        /\ \A i \in 1..InWire(p) : wire[p][i].n = written[p] - InWire(p) + i

Waited ==
    /\ \A c \in Clients : conn[c] = "new" => handler[c] = "none"
    /\ \A d \in deliveries : handler[d.msg.from] = "publish"
    /\ \A d, e \in deliveries : d.msg.from = e.msg.from /\ d.to = e.to => d = e

Ordered ==
    /\ \A d \in deliveries : d.msg.n =< Executed[d.msg.from]
    /\ \A c \in Clients : \A i \in 1..Len(lines[c]) :
          /\ lines[c][i].msg.n =< Executed[lines[c][i].msg.from]
          /\ \A d \in deliveries :
                d.to = c /\ d.msg.from = lines[c][i].msg.from
                    => lines[c][i].msg.n < d.msg.n

Exclusive ==
    \A d \in deliveries : d.stage \in {"write", "partial"} => writeMu[d.to] = d.msg

CleanAt(c) ==
    /\ tail[c] # {} => \E d \in deliveries : d.to = c /\ d.stage = "partial"
    /\ \A d \in deliveries : d.to = c /\ d.stage = "partial" => tail[c] = {d.msg}

CleanTail == \A c \in Clients \ Slow : Lost(c) \/ CleanAt(c)

-----------------------------------------------------------------------------
(* Type correctness.                                                       *)

\* The lines a peer writes are lines.
LEMMA LineType ==
    ASSUME TypeOK, NEW c \in Clients, NEW cmd \in Vocabulary[c], NEW w \in BOOLEAN
    PROVE  LineOf(c, cmd, w) \in Line
<1>1. cmd \in Command
  BY BrokerAssumption
<1>2. written[c] + 1 \in Nat
  BY DEF TypeOK
<1> QED
  BY <1>1, <1>2 DEF LineOf, Line, Command

\* Delivery goroutines keep their type when one of them moves or ends.
LEMMA DeliveryMoves ==
    ASSUME TypeOK, NEW d \in deliveries, NEW from, NEW to,
           to \in {"write", "partial", "failed", "closed"},
           Moves(d, from, to) \/ Ends(d, from)
    PROVE  deliveries' \subseteq Delivery
<1>1. d \in Delivery
  BY DEF TypeOK
<1>2. [d EXCEPT !.stage = to] \in Delivery
  BY <1>1 DEF Delivery
<1> QED
  BY <1>1, <1>2, Zenon DEF TypeOK, Moves, Ends

\* Every step of the broker and of its peers keeps the types.
LEMMA TypeStep == TypeOK /\ [Next]_vars => TypeOK'
<1> SUFFICES ASSUME TypeOK, [Next]_vars PROVE TypeOK'
  OBVIOUS
<1> USE DEF peerVars, readVars, streamVars
<1>1. CASE UNCHANGED vars
  BY <1>1, Zenon DEF vars, TypeOK
<1>2. ASSUME NEW c \in Clients, PeerWrite(c) PROVE TypeOK'
  <2>1. PICK cmd \in Vocabulary[c] : wire' = [wire EXCEPT ![c] = Append(@, LineOf(c, cmd, TRUE))]
    BY <1>2, Zenon DEF PeerWrite
  <2>2. Append(wire[c], LineOf(c, cmd, TRUE)) \in Seq(Line)
    BY LineType, AppendProperties, Zenon DEF TypeOK
  <2>3. wire' \in [Clients -> Seq(Line)]
    BY <2>1, <2>2, Zenon DEF TypeOK
  <2>4. /\ written' = [written EXCEPT ![c] = @ + 1]
        /\ UNCHANGED <<conn, gone, scanner, handler, subscribers, deliveries, streamVars>>
    BY <1>2 DEF PeerWrite
  <2>5. written' \in [Clients -> Nat]
    BY <2>4 DEF TypeOK
  <2> QED
    BY <2>3, <2>4, <2>5, Zenon DEF TypeOK
<1>3. ASSUME NEW c \in Clients, PeerClose(c) PROVE TypeOK'
  BY <1>3, Zenon DEF PeerClose, TypeOK
<1>4. ASSUME NEW c \in Clients, PeerTear(c) PROVE TypeOK'
  <2>1. PICK cmd \in Vocabulary[c] : wire' = [wire EXCEPT ![c] = Append(@, LineOf(c, cmd, FALSE))]
    BY <1>4, Zenon DEF PeerTear
  <2>2. Append(wire[c], LineOf(c, cmd, FALSE)) \in Seq(Line)
    BY LineType, AppendProperties, Zenon DEF TypeOK
  <2>3. wire' \in [Clients -> Seq(Line)]
    BY <2>1, <2>2, Zenon DEF TypeOK
  <2>4. /\ written' = [written EXCEPT ![c] = @ + 1]
        /\ gone' = [gone EXCEPT ![c] = TRUE]
        /\ UNCHANGED <<conn, scanner, handler, subscribers, deliveries, streamVars>>
    BY <1>4 DEF PeerTear
  <2>5. written' \in [Clients -> Nat]
    BY <2>4 DEF TypeOK
  <2> QED
    BY <2>3, <2>4, <2>5, Zenon DEF TypeOK
<1>5. ASSUME NEW c \in Clients, Accept(c) PROVE TypeOK'
  BY <1>5, Zenon DEF Accept, TypeOK
<1>6. ASSUME NEW c \in Clients, Fill(c) PROVE TypeOK'
  BY <1>6, Zenon DEF Fill, TypeOK
<1>7. ASSUME NEW c \in Clients, Ignore(c) PROVE TypeOK'
  <2>1. Tail(scanner[c]) \in Seq(Line) /\ Head(scanner[c]) \in Line
    BY <1>7, HeadTailProperties DEF Ignore, Scans, TypeOK
  <2> QED
    BY <1>7, <2>1, Zenon DEF Ignore, TypeOK, Line
<1>8. ASSUME NEW c \in Clients, Subscribe(c) PROVE TypeOK'
  <2>1. Tail(scanner[c]) \in Seq(Line) /\ Head(scanner[c]) \in Line
    BY <1>8, HeadTailProperties DEF Subscribe, Scans, TypeOK
  <2> QED
    BY <1>8, <2>1, ZenonT(40) DEF Subscribe, TypeOK, Line
<1>9. ASSUME NEW c \in Clients, Publish(c) PROVE TypeOK'
  <2>1. Tail(scanner[c]) \in Seq(Line) /\ Head(scanner[c]) \in Line
    BY <1>9, HeadTailProperties DEF Publish, Scans, TypeOK
  <2>2. deliveries' \subseteq Delivery
    BY <1>9, <2>1 DEF Publish, Line, Delivery, Message, TypeOK
  <2> QED
    BY <1>9, <2>1, <2>2, Zenon DEF Publish, TypeOK
<1>10. ASSUME NEW c \in Clients, PublishReturns(c) PROVE TypeOK'
  BY <1>10, Zenon DEF PublishReturns, TypeOK
<1>11. ASSUME NEW c \in Clients, ScanEnds(c) PROVE TypeOK'
  BY <1>11, Zenon DEF ScanEnds, TypeOK
<1>12. ASSUME NEW c \in Clients, DeferredRemove(c) PROVE TypeOK'
  BY <1>12, Zenon DEF DeferredRemove, Without, TypeOK
<1>13. ASSUME NEW c \in Clients, DeferredClose(c) PROVE TypeOK'
  BY <1>13, Zenon DEF DeferredClose, TypeOK
<1>14. ASSUME NEW d \in deliveries, Deliver(d) PROVE TypeOK'
  <2> d \in Delivery /\ d.msg \in Message /\ d.to \in Clients
    BY DEF TypeOK, Delivery
  <2> deliveries' \subseteq Delivery
    BY <1>14, DeliveryMoves, Zenon
       DEF Deliver, Lock, WritePart, WriteSucceeds, WriteFails, FailedClose, FailedRemove
  <2>1. CASE Lock(d)
    BY <2>1, Zenon DEF Lock, TypeOK
  <2>2. CASE WritePart(d)
    BY <2>2, Zenon DEF WritePart, TypeOK
  <2>3. CASE WriteSucceeds(d)
    <3>1. IsIntact(d) \in BOOLEAN
      BY DEF IsIntact
    <3>2. Append(lines[d.to], [msg |-> d.msg, intact |-> IsIntact(d)])
             \in Seq([msg : Message, intact : BOOLEAN])
      BY <3>1, AppendProperties, Zenon DEF TypeOK
    <3> QED
      BY <2>3, <3>2, Zenon DEF WriteSucceeds, TypeOK
  <2>4. CASE WriteFails(d)
    BY <2>4, Zenon DEF WriteFails, TypeOK
  <2>5. CASE FailedClose(d)
    BY <2>5, Zenon DEF FailedClose, TypeOK
  <2>6. CASE FailedRemove(d)
    BY <2>6, Zenon DEF FailedRemove, Without, TypeOK
  <2> QED
    BY <1>14, <2>1, <2>2, <2>3, <2>4, <2>5, <2>6 DEF Deliver
<1> QED
  BY <1>1, <1>2, <1>3, <1>4, <1>5, <1>6, <1>7, <1>8, <1>9, <1>10, <1>11, <1>12,
     <1>13, <1>14 DEF Next, Peer, Handle

\* The broker's state is always well typed.
THEOREM TypeCorrect == Spec => []TypeOK
<1>1. Init => TypeOK
  BY DEF Init, TypeOK
<1> QED
  BY <1>1, TypeStep, PTL DEF Spec

-----------------------------------------------------------------------------
(* The numbers of a peer's lines.                                          *)

\* The four ways in which a step can treat the unread lines.
Quiet == UNCHANGED <<written, wire, scanner>>

Takes(c) ==
    /\ scanner[c] # <<>>
    /\ scanner' = [scanner EXCEPT ![c] = Tail(@)]
    /\ UNCHANGED <<written, wire>>

Grows(c, line) ==
    /\ line.n = written[c] + 1
    /\ wire' = [wire EXCEPT ![c] = Append(@, line)]
    /\ written' = [written EXCEPT ![c] = @ + 1]
    /\ UNCHANGED scanner

Reading ==
    \/ Quiet
    \/ \E c \in Clients : Takes(c) \/ Fill(c) \/ \E line \in Line : Grows(c, line)

\* No step treats the unread lines in any other way.
LEMMA ReadingStep == ASSUME TypeOK, [Next]_vars PROVE Reading
<1> USE DEF peerVars, readVars, streamVars
<1>1. ASSUME NEW c \in Clients, PeerWrite(c) \/ PeerTear(c) PROVE Reading
  <2>1. PICK cmd \in Vocabulary[c], w \in BOOLEAN :
           wire' = [wire EXCEPT ![c] = Append(@, LineOf(c, cmd, w))]
    BY <1>1, Zenon DEF PeerWrite, PeerTear
  <2>2. LineOf(c, cmd, w) \in Line
    BY LineType
  <2>3. LineOf(c, cmd, w).n = written[c] + 1
    BY DEF LineOf
  <2>4. written' = [written EXCEPT ![c] = @ + 1] /\ UNCHANGED scanner
    BY <1>1, Zenon DEF PeerWrite, PeerTear
  <2> QED
    BY <2>1, <2>2, <2>3, <2>4, Zenon DEF Reading, Grows
<1>2. ASSUME NEW c \in Clients, Ignore(c) \/ Subscribe(c) \/ Publish(c) PROVE Reading
  <2>1. Takes(c)
    BY <1>2, Zenon DEF Ignore, Subscribe, Publish, Scans, Takes
  <2> QED
    BY <2>1 DEF Reading
<1>3. ASSUME NEW c \in Clients, Fill(c) PROVE Reading
  BY <1>3 DEF Reading
<1>4. ASSUME NEW c \in Clients,
             \/ PeerClose(c) \/ Accept(c) \/ PublishReturns(c) \/ ScanEnds(c)
             \/ DeferredRemove(c) \/ DeferredClose(c)
      PROVE  Reading
  BY <1>4 DEF PeerClose, Accept, PublishReturns, ScanEnds, DeferredRemove,
              DeferredClose, Reading, Quiet
<1>5. ASSUME NEW d \in deliveries, Deliver(d) PROVE Reading
  BY <1>5 DEF Deliver, Lock, WritePart, WriteSucceeds, WriteFails, FailedClose,
              FailedRemove, Reading, Quiet
<1>6. CASE UNCHANGED vars
  BY <1>6 DEF vars, Reading, Quiet
<1> QED
  BY <1>1, <1>2, <1>3, <1>4, <1>5, <1>6 DEF Next, Peer, Handle

\* Counting the unread lines.
LEMMA LineSeqs ==
    ASSUME TypeOK, NEW c \in Clients
    PROVE  wire[c] \in Seq(Line) /\ scanner[c] \in Seq(Line)
BY DEF TypeOK

LEMMA Counts ==
    ASSUME TypeOK, NEW c \in Clients
    PROVE  InWire(c) \in Nat /\ InScanner(c) \in Nat /\ written[c] \in Nat
BY LineSeqs, LenProperties DEF TypeOK, InWire, InScanner

LEMMA ExecutedIs ==
    Executed = [c \in Clients |-> written[c] - (InWire(c) + InScanner(c))]
BY DEF InWire, InScanner, Executed

\* The line that is handled next carries the next number.
LEMMA Unread ==
    ASSUME TypeOK, Numbered
    PROVE  /\ Executed \in [Clients -> Nat]
           /\ \A c \in Clients : scanner[c] # <<>> =>
                 /\ Head(scanner[c]) \in Line
                 /\ Head(scanner[c]).n = Executed[c] + 1
<1>1. ASSUME NEW c \in Clients PROVE written[c] - (InWire(c) + InScanner(c)) \in Nat
  BY Counts DEF Numbered
<1>2. ASSUME NEW c \in Clients, scanner[c] # <<>>
      PROVE  Head(scanner[c]) \in Line /\ Head(scanner[c]).n = Executed[c] + 1
  <2>1. scanner[c] \in Seq(Line)
    BY LineSeqs
  <2>2. Head(scanner[c]) \in Line /\ InScanner(c) \in Nat \ {0}
    BY <1>2, <2>1, EmptySeq, HeadTailProperties DEF InScanner
  <2>3. Head(scanner[c]) = scanner[c][1]
    BY <1>2, <2>1
  <2>4. 1 \in 1..InScanner(c)
    BY <2>2
  <2>5. scanner[c][1].n = written[c] - (InWire(c) + InScanner(c)) + 1
    BY <2>4 DEF Numbered
  <2> QED
    BY <2>2, <2>3, <2>5, ExecutedIs
<1> QED
  BY <1>1, <1>2, ExecutedIs

\* What each treatment of the unread lines does to their counts.
LEMMA CountsStep ==
    ASSUME TypeOK, NEW c \in Clients
    PROVE  /\ Takes(c) =>
                 /\ InScanner(c) # 0 /\ InScanner(c)' = InScanner(c) - 1 /\ InWire(c)' = InWire(c)
                 /\ \A i \in 1..InScanner(c)' : scanner'[c][i] = scanner[c][i + 1]
           /\ Fill(c) =>
                 /\ InScanner(c) = 0 /\ InScanner(c)' = InWire(c) /\ InWire(c)' = 0
                 /\ scanner'[c] = wire[c] /\ written'[c] = written[c]
           /\ \A line \in Line : Grows(c, line) =>
                 /\ InWire(c)' = InWire(c) + 1 /\ InScanner(c)' = InScanner(c)
                 /\ written'[c] = written[c] + 1
                 /\ \A i \in 1..InWire(c) : wire'[c][i] = wire[c][i]
                 /\ wire'[c][InWire(c) + 1] = line
<1>1. wire[c] \in Seq(Line) /\ scanner[c] \in Seq(Line)
  BY LineSeqs
<1>2. ASSUME Takes(c)
      PROVE  /\ InScanner(c) # 0 /\ InScanner(c)' = InScanner(c) - 1 /\ InWire(c)' = InWire(c)
             /\ \A i \in 1..InScanner(c)' : scanner'[c][i] = scanner[c][i + 1]
  <2>1. scanner'[c] = Tail(scanner[c]) /\ wire' = wire
    BY <1>2 DEF Takes, TypeOK
  <2> QED
    BY <1>1, <1>2, <2>1, EmptySeq, HeadTailProperties, ZenonT(40) DEF Takes, InScanner, InWire
<1>3. ASSUME Fill(c)
      PROVE  /\ InScanner(c) = 0 /\ InScanner(c)' = InWire(c) /\ InWire(c)' = 0
             /\ scanner'[c] = wire[c] /\ written'[c] = written[c]
  <2>1. scanner'[c] = wire[c] /\ wire'[c] = <<>> /\ scanner[c] = <<>> /\ written' = written
    BY <1>3 DEF Fill, TypeOK, peerVars
  <2> QED
    BY <2>1, EmptySeq DEF InScanner, InWire
<1>4. ASSUME NEW line \in Line, Grows(c, line)
      PROVE  /\ InWire(c)' = InWire(c) + 1 /\ InScanner(c)' = InScanner(c)
             /\ written'[c] = written[c] + 1
             /\ \A i \in 1..InWire(c) : wire'[c][i] = wire[c][i]
             /\ wire'[c][InWire(c) + 1] = line
  <2>1. /\ wire'[c] = Append(wire[c], line) /\ scanner' = scanner
        /\ written'[c] = written[c] + 1
    BY <1>4 DEF Grows, TypeOK
  <2> QED
    BY <1>1, <2>1, AppendProperties DEF InScanner, InWire
<1> QED
  BY <1>2, <1>3, <1>4

\* A step leaves the unread lines of all other clients alone.
LEMMA OthersStep ==
    ASSUME TypeOK, NEW c \in Clients,
           Takes(c) \/ Fill(c) \/ \E line \in Line : Grows(c, line)
    PROVE  \A p \in Clients \ {c} :
              /\ wire'[p] = wire[p] /\ scanner'[p] = scanner[p] /\ written'[p] = written[p]
              /\ InWire(p)' = InWire(p) /\ InScanner(p)' = InScanner(p)
BY DEF Takes, Fill, Grows, TypeOK, InWire, InScanner, peerVars

\* How a step changes the number of executed lines.
LEMMA ExecutedStep ==
    ASSUME TypeOK, NEW c \in Clients
    PROVE  /\ Quiet => Executed' = Executed
           /\ Fill(c) => Executed' = Executed
           /\ \A line \in Line : Grows(c, line) => Executed' = Executed
           /\ Takes(c) => Executed' = [Executed EXCEPT ![c] = @ + 1]
<1>0. Executed' = [p \in Clients |-> written'[p] - (InWire(p)' + InScanner(p)')]
  BY DEF Executed, InWire, InScanner
<1>1. Quiet => Executed' = Executed
  BY DEF Quiet, Executed
<1>2. ASSUME Fill(c) \/ \E line \in Line : Grows(c, line) PROVE Executed' = Executed
  <2>1. written'[c] - (InWire(c)' + InScanner(c)') = written[c] - (InWire(c) + InScanner(c))
    BY <1>2, Counts, CountsStep
  <2> QED
    BY <1>0, <1>2, <2>1, ExecutedIs, OthersStep
<1>3. ASSUME Takes(c) PROVE Executed' = [Executed EXCEPT ![c] = @ + 1]
  <2>1. written'[c] = written[c]
    BY <1>3 DEF Takes
  <2>2. written'[c] - (InWire(c)' + InScanner(c)') = written[c] - (InWire(c) + InScanner(c)) + 1
    BY <1>3, <2>1, Counts, CountsStep
  <2> QED
    BY <1>0, <1>3, <2>2, ExecutedIs, OthersStep
<1> QED
  BY <1>1, <1>2, <1>3

\* The lines of a peer stay consecutively numbered.
LEMMA NumberedStep == ASSUME TypeOK, Numbered, [Next]_vars PROVE Numbered'
<1>1. CASE Quiet
  BY <1>1, Zenon DEF Quiet, Numbered, InWire, InScanner
<1>2. ASSUME NEW c \in Clients, Takes(c) PROVE Numbered'
  <2>1. written' = written /\ wire' = wire
    BY <1>2 DEF Takes
  <2>2. InWire(c)' + InScanner(c)' =< written'[c]
    BY <1>2, <2>1, Counts, CountsStep DEF Numbered
  <2>3. ASSUME NEW i \in 1..InScanner(c)'
        PROVE  scanner'[c][i].n = written'[c] - (InWire(c)' + InScanner(c)') + i
    <3>1. InScanner(c)' = InScanner(c) - 1 /\ InWire(c)' = InWire(c)
      BY <1>2, CountsStep
    <3>2. scanner'[c][i] = scanner[c][i + 1]
      BY <1>2, CountsStep
    <3>3. i + 1 \in 1..InScanner(c)
      BY <3>1, Counts
    <3>4. scanner[c][i + 1].n = written[c] - (InWire(c) + InScanner(c)) + (i + 1)
      BY <3>3 DEF Numbered
    <3> QED
      BY <2>1, <3>1, <3>2, <3>4, Counts
  <2>4. ASSUME NEW i \in 1..InWire(c)' PROVE wire'[c][i].n = written'[c] - InWire(c)' + i
    BY <1>2, <2>1, Counts, CountsStep DEF Numbered
  <2> QED
    BY <1>2, <2>2, <2>3, <2>4, OthersStep DEF Numbered
<1>3. ASSUME NEW c \in Clients, Fill(c) PROVE Numbered'
  <2>1. /\ InWire(c)' + InScanner(c)' =< written'[c]
        /\ \A i \in 1..InScanner(c)' :
              scanner'[c][i].n = written'[c] - (InWire(c)' + InScanner(c)') + i
        /\ \A i \in 1..InWire(c)' : wire'[c][i].n = written'[c] - InWire(c)' + i
    BY <1>3, Counts, CountsStep DEF Numbered
  <2> QED
    BY <1>3, <2>1, OthersStep DEF Numbered
<1>4. ASSUME NEW c \in Clients, NEW line \in Line, Grows(c, line) PROVE Numbered'
  <2>1. line.n = written[c] + 1 /\ scanner' = scanner
    BY <1>4 DEF Grows
  <2>2. InWire(c)' + InScanner(c)' =< written'[c]
    BY <1>4, <2>1, Counts, CountsStep DEF Numbered
  <2>3. ASSUME NEW i \in 1..InScanner(c)'
        PROVE  scanner'[c][i].n = written'[c] - (InWire(c)' + InScanner(c)') + i
    BY <1>4, <2>1, Counts, CountsStep DEF Numbered
  <2>4. ASSUME NEW i \in 1..InWire(c)' PROVE wire'[c][i].n = written'[c] - InWire(c)' + i
    <3>1. InWire(c)' = InWire(c) + 1 /\ written'[c] = written[c] + 1
      BY <1>4, CountsStep
    <3>2. CASE i = InWire(c) + 1
      BY <1>4, <2>1, <3>1, <3>2, Counts, CountsStep
    <3>3. CASE i # InWire(c) + 1
      <4>1. i \in 1..InWire(c)
        BY <3>1, <3>3, Counts
      <4>2. wire'[c][i] = wire[c][i]
        BY <1>4, <4>1, CountsStep
      <4>3. wire[c][i].n = written[c] - InWire(c) + i
        BY <4>1 DEF Numbered
      <4> QED
        BY <3>1, <4>2, <4>3, Counts
    <3> QED
      BY <3>2, <3>3
  <2> QED
    BY <1>4, <2>2, <2>3, <2>4, OthersStep DEF Numbered
<1> QED
  BY <1>1, <1>2, <1>3, <1>4, ReadingStep DEF Reading

-----------------------------------------------------------------------------
(* Deliveries and their publishers.                                        *)

\* A delivery step leaves every other delivery alone, and keeps the message
\* and the recipient of its own.
LEMMA DeliverShape ==
    ASSUME TypeOK, NEW d \in deliveries, Deliver(d)
    PROVE  /\ d \in Delivery
           /\ \/ deliveries' = deliveries \ {d}
              \/ \E s \in {"write", "partial", "failed", "closed"} :
                    deliveries' = (deliveries \ {d}) \cup {[d EXCEPT !.stage = s]}
           /\ UNCHANGED <<handler, written, wire, scanner>>
BY DEF TypeOK, Deliver, Lock, WritePart, WriteSucceeds, WriteFails, FailedClose,
       FailedRemove, Moves, Ends, peerVars, readVars

\* So each delivery afterwards is one from before, up to its stage.
LEMMA DeliverKeeps ==
    ASSUME TypeOK, NEW d \in deliveries, Deliver(d), NEW e \in deliveries'
    PROVE  \E f \in deliveries : e.msg = f.msg /\ e.to = f.to /\ (f = d \/ f = e)
<1>1. d \in Delivery
  BY DeliverShape
<1>2. CASE deliveries' = deliveries \ {d}
  BY <1>2
<1>3. ASSUME NEW s \in {"write", "partial", "failed", "closed"},
             deliveries' = (deliveries \ {d}) \cup {[d EXCEPT !.stage = s]}
      PROVE  \E f \in deliveries : e.msg = f.msg /\ e.to = f.to /\ (f = d \/ f = e)
  BY <1>1, <1>3 DEF Delivery
<1> QED
  BY <1>2, <1>3, DeliverShape

\* publish starts its deliveries only when none of its own are left.
LEMMA WaitedStep == ASSUME TypeOK, Waited, [Next]_vars PROVE Waited'
<1> USE DEF peerVars, readVars, streamVars
<1>1. CASE UNCHANGED vars
  BY <1>1 DEF vars, Waited
<1>2. ASSUME NEW c \in Clients,
             PeerWrite(c) \/ PeerClose(c) \/ PeerTear(c) \/ Fill(c) \/ Ignore(c) \/ Subscribe(c)
      PROVE  Waited'
  BY <1>2, Zenon DEF PeerWrite, PeerClose, PeerTear, Fill, Ignore, Subscribe, Waited
<1>3. ASSUME NEW c \in Clients, Accept(c) PROVE Waited'
  BY <1>3 DEF Accept, Waited, TypeOK
<1>4. ASSUME NEW c \in Clients, Publish(c) PROVE Waited'
  <2>1. PICK msg :
           /\ msg.from = c
           /\ deliveries' = deliveries \cup
                 {[msg |-> msg, to |-> r, stage |-> "wait"] :
                     r \in subscribers[Head(scanner[c]).topic]}
    BY <1>4, Zenon DEF Publish
  <2>2. /\ handler[c] = "scan" /\ handler' = [handler EXCEPT ![c] = "publish"]
        /\ conn' = conn
    BY <1>4 DEF Publish, Scans
  <2>3. \A d \in deliveries : d.msg.from # c /\ d \in Delivery
    BY <2>2 DEF Waited, TypeOK
  <2>4. \A d \in deliveries' : handler'[d.msg.from] = "publish"
    BY <2>1, <2>2, <2>3 DEF Waited, TypeOK, Delivery
  <2>5. \A d, e \in deliveries' : d.msg.from = e.msg.from /\ d.to = e.to => d = e
    BY <2>1, <2>3 DEF Waited
  <2> QED
    BY <2>2, <2>4, <2>5 DEF Waited, TypeOK
<1>5. ASSUME NEW c \in Clients, PublishReturns(c) PROVE Waited'
  BY <1>5 DEF PublishReturns, Waited, TypeOK
<1>6. ASSUME NEW c \in Clients, ScanEnds(c) \/ DeferredRemove(c) \/ DeferredClose(c)
      PROVE  Waited'
  <2>1. PICK h \in {"ending", "removed", "done"} :
           /\ handler[c] \in {"scan", "ending", "removed"}
           /\ handler' = [handler EXCEPT ![c] = h] /\ deliveries' = deliveries
    BY <1>6 DEF ScanEnds, DeferredRemove, DeferredClose
  <2>2. \A p \in Clients : conn'[p] = "new" => conn[p] = "new"
    BY <1>6 DEF ScanEnds, DeferredRemove, DeferredClose, TypeOK
  <2>3. \A d \in deliveries : d.msg.from # c /\ d.msg.from \in Clients
    BY <2>1 DEF Waited, TypeOK, Delivery, Message
  <2> QED
    BY <2>1, <2>2, <2>3 DEF Waited, TypeOK
<1>7. ASSUME NEW d \in deliveries, Deliver(d) PROVE Waited'
  <2>1. \A c \in Clients : conn'[c] = "new" => conn[c] = "new"
    BY <1>7, Zenon DEF Deliver, Lock, WritePart, WriteSucceeds, WriteFails, FailedClose,
                FailedRemove, TypeOK
  <2>2. handler' = handler /\ d \in Delivery
    BY <1>7, DeliverShape
  <2>3. \A e \in deliveries' : handler'[e.msg.from] = "publish"
    BY <1>7, <2>2, DeliverKeeps DEF Waited
  <2>4. \A e, f \in deliveries' : e.msg.from = f.msg.from /\ e.to = f.to => e = f
    <3>1. CASE deliveries' = deliveries \ {d}
      BY <3>1 DEF Waited
    <3>2. ASSUME NEW s, deliveries' = (deliveries \ {d}) \cup {[d EXCEPT !.stage = s]}
          PROVE  \A e, f \in deliveries' : e.msg.from = f.msg.from /\ e.to = f.to => e = f
      BY <2>2, <3>2 DEF Waited, Delivery
    <3> QED
      BY <1>7, <3>1, <3>2, DeliverShape, ZenonT(40)
  <2> QED
    BY <2>1, <2>2, <2>3, <2>4, SMTT(30) DEF Waited
<1> QED
  BY <1>1, <1>2, <1>3, <1>4, <1>5, <1>6, <1>7 DEF Next, Peer, Handle

-----------------------------------------------------------------------------
(* The order of one publisher's messages.                                  *)

\* A step adds at most the line of one succeeding delivery.
LEMMA LinesShape ==
    ASSUME TypeOK, [Next]_vars, NEW c \in Clients
    PROVE  \/ lines'[c] = lines[c]
           \/ \E d \in deliveries :
                 /\ WriteSucceeds(d) /\ d.to = c /\ ~Lost(c)
                 /\ lines'[c] = Append(lines[c], [msg |-> d.msg, intact |-> IsIntact(d)])
<1> USE DEF peerVars, readVars, streamVars
<1>1. CASE UNCHANGED vars
  BY <1>1 DEF vars
<1>2. ASSUME NEW p \in Clients, Peer(p) \/ Accept(p) \/ Handle(p) PROVE lines' = lines
  BY <1>2, Zenon DEF Peer, Handle, PeerWrite, PeerClose, PeerTear, Accept, Fill, Ignore, Subscribe,
              Publish, PublishReturns, ScanEnds, DeferredRemove, DeferredClose
<1>3. ASSUME NEW d \in deliveries,
             Lock(d) \/ WritePart(d) \/ WriteFails(d) \/ FailedClose(d) \/ FailedRemove(d)
      PROVE  lines' = lines
  BY <1>3 DEF Lock, WritePart, WriteFails, FailedClose, FailedRemove
<1>4. ASSUME NEW d \in deliveries, WriteSucceeds(d)
      PROVE  \/ lines'[c] = lines[c]
             \/ /\ d.to = c /\ ~Lost(c)
                /\ lines'[c] = Append(lines[c], [msg |-> d.msg, intact |-> IsIntact(d)])
  BY <1>4, SMTT(30) DEF WriteSucceeds, Lost, TypeOK
<1> QED
  BY <1>1, <1>2, <1>3, <1>4 DEF Next, Deliver

\* A step adds at most the deliveries of one publication, which carry the
\* number of the line that it takes.
LEMMA DeliveriesShape ==
    ASSUME TypeOK, Numbered, [Next]_vars, NEW e \in deliveries'
    PROVE  \/ \E f \in deliveries : e.msg = f.msg /\ e.to = f.to
           \/ \E c \in Clients :
                 Takes(c) /\ UNCHANGED lines /\ e.msg.from = c /\ e.msg.n = Executed[c] + 1
<1> USE DEF peerVars, readVars, streamVars
<1>1. ASSUME NEW d \in deliveries, Deliver(d)
      PROVE  \E f \in deliveries : e.msg = f.msg /\ e.to = f.to
  BY <1>1, DeliverKeeps, SMTT(30)
<1>2. ASSUME NEW c \in Clients, Publish(c)
      PROVE  \/ e \in deliveries
             \/ Takes(c) /\ UNCHANGED lines /\ e.msg.from = c /\ e.msg.n = Executed[c] + 1
  <2>1. Takes(c) /\ UNCHANGED lines
    BY <1>2, Zenon DEF Publish, Scans, Takes
  <2>2. e \in deliveries \/ (e.msg.from = c /\ e.msg.n = Head(scanner[c]).n)
    BY <1>2, SMTT(30) DEF Publish
  <2> QED
    BY <2>1, <2>2, Unread DEF Takes
<1>3. ASSUME NEW c \in Clients,
             \/ Peer(c) \/ Accept(c) \/ Fill(c) \/ Ignore(c) \/ Subscribe(c)
             \/ PublishReturns(c) \/ ScanEnds(c) \/ DeferredRemove(c) \/ DeferredClose(c)
      PROVE  deliveries' = deliveries
  BY <1>3, Zenon DEF Peer, PeerWrite, PeerClose, PeerTear, Accept, Fill, Ignore, Subscribe,
              PublishReturns, ScanEnds, DeferredRemove, DeferredClose
<1>4. CASE UNCHANGED vars
  BY <1>4 DEF vars
<1> QED
  BY <1>1, <1>2, <1>3, <1>4, Zenon DEF Next, Handle

\* The number of executed lines never falls.
LEMMA ExecutedGrows ==
    ASSUME TypeOK, Numbered, [Next]_vars, NEW p \in Clients
    PROVE  Executed[p] =< Executed'[p] /\ Executed[p] \in Nat /\ Executed'[p] \in Nat
<1>1. Executed \in [Clients -> Nat]
  BY Unread
<1>2. CASE Executed' = Executed
  BY <1>1, <1>2
<1>3. ASSUME NEW c \in Clients, Takes(c)
      PROVE  Executed[p] =< Executed'[p] /\ Executed[p] \in Nat /\ Executed'[p] \in Nat
  BY <1>1, <1>3, ExecutedStep
<1> QED
  BY <1>2, <1>3, ReadingStep, ExecutedStep DEF Reading

\* A line after a step is an old one, or the message of a delivery that ends.
LEMMA LineShape ==
    ASSUME TypeOK, [Next]_vars, NEW c \in Clients, NEW i \in 1..Len(lines'[c])
    PROVE  \/ i \in 1..Len(lines[c]) /\ lines'[c][i] = lines[c][i]
           \/ \E d \in deliveries :
                 /\ WriteSucceeds(d) /\ d.to = c /\ ~Lost(c) /\ i = Len(lines[c]) + 1
                 /\ lines'[c][i] = [msg |-> d.msg, intact |-> IsIntact(d)]
<1>1. CASE lines'[c] = lines[c]
  BY <1>1
<1>2. ASSUME NEW d \in deliveries, WriteSucceeds(d), d.to = c, ~Lost(c),
             lines'[c] = Append(lines[c], [msg |-> d.msg, intact |-> IsIntact(d)])
      PROVE  \/ i \in 1..Len(lines[c]) /\ lines'[c][i] = lines[c][i]
             \/ /\ i = Len(lines[c]) + 1
                /\ lines'[c][i] = [msg |-> d.msg, intact |-> IsIntact(d)]
  <2>1. lines[c] \in Seq([msg : Message, intact : BOOLEAN])
    BY Zenon DEF TypeOK
  <2>2. [msg |-> d.msg, intact |-> IsIntact(d)] \in [msg : Message, intact : BOOLEAN]
    BY DEF TypeOK, Delivery, IsIntact
  <2>3. Len(lines'[c]) = Len(lines[c]) + 1 /\ Len(lines[c]) \in Nat
    BY <1>2, <2>1, <2>2, AppendProperties, LenProperties
  <2> QED
    BY <1>2, <2>1, <2>2, <2>3, AppendProperties
<1> QED
  BY <1>1, <1>2, LinesShape, Zenon

\* The types of the numbers that are compared.
LEMMA MessageTypes ==
    ASSUME TypeOK
    PROVE  /\ \A d \in deliveries : d.msg.from \in Clients /\ d.msg.n \in Nat /\ d.to \in Clients
           /\ \A c \in Clients : \A i \in 1..Len(lines[c]) :
                 lines[c][i].msg.from \in Clients /\ lines[c][i].msg.n \in Nat
<1>1. ASSUME NEW c \in Clients, NEW i \in 1..Len(lines[c])
      PROVE  lines[c][i] \in [msg : Message, intact : BOOLEAN]
  BY ElementOfSeq, Zenon DEF TypeOK
<1> QED
  BY <1>1, Zenon DEF TypeOK, Delivery, Message

\* What subscribers have stays older than what is on its way.
LEMMA OrderedStep ==
    ASSUME TypeOK, Numbered, Waited, Ordered, [Next]_vars PROVE Ordered'
<1>1. ASSUME NEW e \in deliveries' PROVE e.msg.n =< Executed'[e.msg.from]
  <2>1. ASSUME NEW f \in deliveries, e.msg = f.msg
        PROVE  e.msg.n =< Executed'[e.msg.from]
    BY <2>1, ExecutedGrows, MessageTypes, SMTT(30) DEF Ordered
  <2>2. ASSUME NEW c \in Clients, Takes(c), e.msg.from = c, e.msg.n = Executed[c] + 1
        PROVE  e.msg.n =< Executed'[e.msg.from]
    BY <2>2, ExecutedStep, Unread, SMTT(30)
  <2> QED
    BY <2>1, <2>2, DeliveriesShape
<1>2. ASSUME NEW c \in Clients, NEW i \in 1..Len(lines'[c])
      PROVE  /\ lines'[c][i].msg.n =< Executed'[lines'[c][i].msg.from]
             /\ \A e \in deliveries' :
                   e.to = c /\ e.msg.from = lines'[c][i].msg.from
                       => lines'[c][i].msg.n < e.msg.n
  <2>1. CASE i \in 1..Len(lines[c]) /\ lines'[c][i] = lines[c][i]
    <3> DEFINE m == lines[c][i].msg
    <3>1. m.from \in Clients /\ m.n \in Nat /\ m.n =< Executed[m.from]
      BY <2>1, MessageTypes, Zenon DEF Ordered
    <3>2. \A d \in deliveries : d.to = c /\ d.msg.from = m.from => m.n < d.msg.n
      BY <2>1 DEF Ordered
    <3> HIDE DEF m
    <3>3. m.n =< Executed'[m.from]
      BY <3>1, ExecutedGrows
    <3>4. ASSUME NEW e \in deliveries', e.to = c, e.msg.from = m.from PROVE m.n < e.msg.n
      <4>1. CASE \E f \in deliveries : e.msg = f.msg /\ e.to = f.to
        BY <3>2, <3>4, <4>1
      <4>2. CASE e.msg.n = Executed[m.from] + 1
        BY <3>1, <4>2, Unread
      <4> QED
        BY <3>4, <4>1, <4>2, DeliveriesShape
    <3> QED
      BY <2>1, <3>3, <3>4, Zenon DEF m
  <2>2. ASSUME NEW d \in deliveries, WriteSucceeds(d), d.to = c,
               lines'[c][i] = [msg |-> d.msg, intact |-> IsIntact(d)]
        PROVE  /\ lines'[c][i].msg.n =< Executed'[lines'[c][i].msg.from]
               /\ \A e \in deliveries' : e.to = c => e.msg.from # lines'[c][i].msg.from
    <3>1. lines'[c][i].msg = d.msg
      BY <2>2
    <3>2. d.msg.n =< Executed'[d.msg.from]
      BY ExecutedGrows, MessageTypes, SMTT(30) DEF Ordered
    <3>3. deliveries' = deliveries \ {d}
      BY <2>2 DEF WriteSucceeds, Ends
    <3> QED
      BY <2>2, <3>1, <3>2, <3>3, Zenon DEF Waited
  <2> QED
    BY <2>1, <2>2, LineShape, Zenon
<1> QED
  BY <1>1, <1>2, Zenon DEF Ordered

\* No step delivers a message behind a later one of its publisher.
LEMMA PublisherOrderStep ==
    ASSUME TypeOK, Ordered, PublisherOrder, [Next]_vars PROVE PublisherOrder'
<1> SUFFICES ASSUME NEW c \in Clients,
                    NEW i \in 1..Len(lines'[c]), NEW j \in 1..Len(lines'[c]), i < j,
                    lines'[c][i].msg.from = lines'[c][j].msg.from
             PROVE  lines'[c][i].msg.n < lines'[c][j].msg.n
  BY DEF PublisherOrder
<1>0. Len(lines[c]) \in Nat
  BY LenProperties DEF TypeOK
<1>3. i # Len(lines[c]) + 1 => i \in 1..Len(lines[c]) /\ lines'[c][i] = lines[c][i]
  BY LineShape, Zenon
<1>1. CASE j \in 1..Len(lines[c]) /\ lines'[c][j] = lines[c][j]
  <2>1. i \in 1..Len(lines[c]) /\ lines'[c][i] = lines[c][i]
    <3>1. i # Len(lines[c]) + 1
      BY <1>0, <1>1
    <3> QED
      BY <1>3, <3>1
  <2> QED
    BY <1>1, <2>1 DEF PublisherOrder
<1>2. ASSUME NEW d \in deliveries, d.to = c, j = Len(lines[c]) + 1,
             lines'[c][j] = [msg |-> d.msg, intact |-> IsIntact(d)]
      PROVE  lines'[c][i].msg.n < lines'[c][j].msg.n
  <2>1. i \in 1..Len(lines[c]) /\ lines'[c][i] = lines[c][i]
    <3>1. i # Len(lines[c]) + 1
      BY <1>0, <1>2
    <3> QED
      BY <1>3, <3>1
  <2>2. lines'[c][j].msg = d.msg
    BY <1>2
  <2> QED
    BY <1>2, <2>1, <2>2, Zenon DEF Ordered
<1> QED
  BY <1>1, <1>2, LineShape, Zenon

\* The inductive invariant behind PublisherOrder.
OrderInv == TypeOK /\ Numbered /\ Waited /\ Ordered /\ PublisherOrder

LEMMA OrderInvariant == Spec => []OrderInv
<1>1. Init => OrderInv
  <2> SUFFICES ASSUME Init PROVE OrderInv
    OBVIOUS
  <2>1. TypeOK
    BY DEF Init, TypeOK
  <2>2. \A c \in Clients : InWire(c) = 0 /\ InScanner(c) = 0 /\ written[c] = 0
    BY Zenon DEF Init, InWire, InScanner
  <2>3. Numbered
    BY <2>2 DEF Numbered
  <2>4. Waited
    BY DEF Init, Waited
  <2>5. deliveries = {} /\ \A c \in Clients : Len(lines[c]) = 0
    BY DEF Init
  <2>6. Ordered /\ PublisherOrder
    BY <2>5 DEF Ordered, PublisherOrder
  <2> QED
    BY <2>1, <2>3, <2>4, <2>6 DEF OrderInv
<1>2. OrderInv /\ [Next]_vars => OrderInv'
  BY TypeStep, NumberedStep, WaitedStep, OrderedStep, PublisherOrderStep DEF OrderInv
<1> QED
  BY <1>1, <1>2, PTL DEF Spec

\* With any number of clients, topics and lines, and whatever peers do, a
\* subscriber reads one publisher's messages in the order in which that
\* publisher wrote them and none of them twice (publish waits for its
\* deliveries before handle scans the next line).
THEOREM PublisherOrderHolds == Spec => []PublisherOrder
<1>1. OrderInv => PublisherOrder
  BY DEF OrderInv
<1> QED
  BY <1>1, OrderInvariant, PTL

-----------------------------------------------------------------------------
(* Mutual exclusion of the writes to one connection.                       *)

Writing(d) == d.stage \in {"write", "partial"}

\* At most one delivery writes to a connection at a time.
LEMMA OneWriter ==
    ASSUME Waited, Exclusive, NEW d \in deliveries, NEW e \in deliveries,
           Writing(d), Writing(e), d.to = e.to
    PROVE  d = e
BY DEF Waited, Exclusive, Writing

\* The steps of Next that touch no delivery but may start new ones.
LEMMA HandlerShape ==
    ASSUME TypeOK, NEW c \in Clients, Peer(c) \/ Accept(c) \/ Handle(c)
    PROVE  /\ UNCHANGED <<writeMu, tail, lines>>
           /\ deliveries \subseteq deliveries'
           /\ \A d \in deliveries' \ deliveries : d.stage = "wait"
           /\ \A p \in Clients : Lost(p) => Lost(p)'
<1> USE DEF peerVars, readVars, streamVars
<1>1. CASE Publish(c)
  BY <1>1, SMTT(30) DEF Publish, Lost
<1>2. CASE \/ PeerWrite(c) \/ Accept(c) \/ Fill(c) \/ Ignore(c) \/ Subscribe(c)
           \/ PublishReturns(c) \/ ScanEnds(c) \/ DeferredRemove(c) \/ DeferredClose(c)
  BY <1>2, Zenon DEF PeerWrite, Accept, Fill, Ignore, Subscribe, PublishReturns, ScanEnds,
              DeferredRemove, DeferredClose, Lost, TypeOK
<1>3. CASE PeerClose(c) \/ PeerTear(c)
  BY <1>3, Zenon DEF PeerClose, PeerTear, Lost, TypeOK
<1> QED
  BY <1>1, <1>2, <1>3, SMTT(30) DEF Peer, Handle

\* A delivery that writes holds the writeMu of its recipient.
LEMMA ExclusiveStep ==
    ASSUME TypeOK, Waited, Exclusive, [Next]_vars PROVE Exclusive'
<1> USE DEF peerVars, readVars, streamVars
<1>1. CASE UNCHANGED vars
  BY <1>1, Zenon DEF vars, Exclusive
<1>2. ASSUME NEW c \in Clients, Peer(c) \/ Accept(c) \/ Handle(c) PROVE Exclusive'
  BY <1>2, HandlerShape DEF Exclusive
<1>3. ASSUME NEW d \in deliveries, Deliver(d) PROVE Exclusive'
  <2>1. d \in Delivery /\ d.msg \in Message /\ d.to \in Clients
    BY DEF TypeOK, Delivery
  <2>2. \A e \in deliveries : e \in Delivery /\ e.msg \in Message /\ e.to \in Clients
    BY DEF TypeOK, Delivery
  <2>3. CASE Lock(d)
    <3>1. \A e \in deliveries : e.to = d.to => ~Writing(e)
      BY <2>2, <2>3, BrokerAssumption DEF Lock, Exclusive, Writing
    <3> QED
      BY <2>1, <2>2, <2>3, <3>1, Zenon DEF Lock, Moves, Exclusive, Writing, TypeOK, Delivery
  <2>4. CASE WritePart(d)
    BY <2>1, <2>2, <2>4 DEF WritePart, Moves, Exclusive, Delivery
  <2>5. CASE WriteSucceeds(d)
    <3>1. \A e \in deliveries' : Writing(e) => e.to # d.to
      BY <2>5, OneWriter DEF WriteSucceeds, Ends, Writing
    <3> QED
      BY <2>2, <2>5, <3>1, Zenon DEF WriteSucceeds, Ends, Exclusive, Writing, TypeOK
  <2>6. CASE WriteFails(d)
    <3>1. \A e \in deliveries \ {d} : Writing(e) => e.to # d.to
      BY <2>6, OneWriter DEF WriteFails, Moves, Writing
    <3> QED
      BY <2>1, <2>2, <2>6, <3>1 DEF WriteFails, Moves, Exclusive, Writing, TypeOK, Delivery
  <2>7. CASE FailedClose(d)
    BY <2>1, <2>7 DEF FailedClose, Moves, Exclusive, Delivery
  <2>8. CASE FailedRemove(d)
    BY <2>8 DEF FailedRemove, Ends, Exclusive
  <2> QED
    BY <1>3, <2>3, <2>4, <2>5, <2>6, <2>7, <2>8 DEF Deliver
<1> QED
  BY <1>1, <1>2, <1>3 DEF Next

\* A delivery step concerns no connection but its recipient's.
LEMMA CleanElsewhere ==
    ASSUME TypeOK, NEW d \in deliveries, Deliver(d), NEW c \in Clients, c # d.to,
           Lost(c) \/ CleanAt(c)
    PROVE  Lost(c)' \/ CleanAt(c)'
<1>1. d \in Delivery
  BY SMTT(30) DEF TypeOK
<1>2. tail'[c] = tail[c] /\ conn'[c] = conn[c] /\ gone' = gone
  BY Zenon DEF Deliver, Lock, WritePart, WriteSucceeds, WriteFails, FailedClose, FailedRemove,
         TypeOK, peerVars, streamVars
<1>3. \A e : e.to = c => (e \in deliveries' <=> e \in deliveries)
  BY <1>1, DeliverShape DEF Delivery
<1> QED
  BY <1>2, <1>3 DEF CleanAt, Lost

\* The unterminated bytes of a live connection whose peer keeps reading are
\* those of the delivery that is writing to it.
LEMMA CleanTailStep ==
    ASSUME TypeOK, Waited, Exclusive, CleanTail, [Next]_vars PROVE CleanTail'
<1> USE DEF peerVars, readVars, streamVars
<1>1. CASE UNCHANGED vars
  BY <1>1, Zenon DEF vars, CleanTail, CleanAt, Lost
<1>2. ASSUME NEW c \in Clients, Peer(c) \/ Accept(c) \/ Handle(c) PROVE CleanTail'
  BY <1>2, HandlerShape DEF CleanTail, CleanAt
<1>3. ASSUME NEW d \in deliveries, Deliver(d) PROVE CleanTail'
  <2> DEFINE r == d.to
  <2>1. d \in Delivery /\ r \in Clients
    BY DEF TypeOK, Delivery
  <2>0. CASE r \in Slow
    BY <1>3, <2>0, CleanElsewhere DEF CleanTail
  <2> SUFFICES ASSUME r \notin Slow PROVE CleanTail'
    BY <2>0
  <2>2. Lost(r) \/ CleanAt(r)
    BY <2>1 DEF CleanTail
  <2>3. Writing(d) => \A e \in deliveries \ {d} : e.to = r => e.stage # "partial"
    BY OneWriter DEF Writing
  <2>4. CASE Lock(d)
    BY <2>1, <2>2, <2>4, CleanElsewhere, <1>3 DEF Lock, Moves, CleanTail, CleanAt, Lost, Delivery
  <2>5. CASE WritePart(d)
    <3>1. d.stage = "write" /\ ~Lost(r) /\ Writing(d)
      BY <2>5 DEF WritePart, Moves, Lost, Writing
    <3>2. tail[r] = {}
      BY <2>2, <2>3, <3>1 DEF CleanAt
    <3>3. tail'[r] = {d.msg}
      BY <2>1, <2>5, <3>2 DEF WritePart, TypeOK
    <3>4. deliveries' = (deliveries \ {d}) \cup {[d EXCEPT !.stage = "partial"]}
      BY <2>5 DEF WritePart, Moves
    <3>5. CleanAt(r)'
      <4> DEFINE e == [d EXCEPT !.stage = "partial"]
      <4>1. e.to = r /\ e.stage = "partial" /\ e.msg = d.msg
        BY <2>1 DEF Delivery
      <4>2. \A f \in deliveries' : f.to = r /\ f.stage = "partial" => f = e
        BY <2>3, <3>1, <3>4
      <4>3. e \in deliveries'
        BY <3>4
      <4> QED
        BY <3>3, <4>1, <4>2, <4>3, Zenon DEF CleanAt
    <3> QED
      BY <1>3, <3>5, CleanElsewhere DEF CleanTail
  <2>6. CASE WriteSucceeds(d)
    <3>1. Writing(d) /\ deliveries' = deliveries \ {d}
      BY <2>6 DEF WriteSucceeds, Ends, Writing
    <3>2. Lost(r)' \/ tail'[r] = {}
      BY <2>1, <2>6 DEF WriteSucceeds, Lost, TypeOK
    <3>3. Lost(r)' \/ CleanAt(r)'
      BY <2>3, <3>1, <3>2 DEF CleanAt
    <3> QED
      BY <1>3, <3>3, CleanElsewhere DEF CleanTail
  <2>7. CASE WriteFails(d)
    <3>1. Lost(r)'
      BY <2>7, Zenon DEF WriteFails, Lost
    <3> QED
      BY <1>3, <3>1, CleanElsewhere, SMTT(30) DEF CleanTail
  <2>8. CASE FailedClose(d)
    <3>1. Lost(r)'
      BY <2>1, <2>8, SMTT(30) DEF FailedClose, Lost, TypeOK
    <3> QED
      BY <1>3, <3>1, CleanElsewhere DEF CleanTail
  <2>9. CASE FailedRemove(d)
    <3>1. Lost(r)' \/ CleanAt(r)'
      BY <2>2, <2>9, Zenon DEF FailedRemove, Ends, CleanAt, Lost
    <3> QED
      BY <1>3, <3>1, CleanElsewhere DEF CleanTail
  <2> QED
    BY <1>3, <2>4, <2>5, <2>6, <2>7, <2>8, <2>9 DEF Deliver
<1> QED
  BY <1>1, <1>2, <1>3 DEF Next

\* A line ends up with the bytes of one delivery.
LEMMA LinesIntactStep ==
    ASSUME TypeOK, Waited, Exclusive, CleanTail, LinesIntact, [Next]_vars PROVE LinesIntact'
<1>1. ASSUME NEW d \in deliveries, WriteSucceeds(d), ~Lost(d.to), d.to \notin Slow
      PROVE  IsIntact(d)
  <2>1. d.to \in Clients
    BY SMTT(30) DEF TypeOK, Delivery
  <2>2. \A e \in deliveries : e.stage = "partial" /\ e.to = d.to => e = d
    BY <1>1, OneWriter, Zenon DEF WriteSucceeds, Ends, Writing
  <2> QED
    BY <1>1, <2>1, <2>2, SMTT(30) DEF CleanTail, CleanAt, IsIntact
<1>2. ASSUME NEW c \in Clients \ Slow, NEW i \in 1..Len(lines'[c]) PROVE lines'[c][i].intact
  <2>1. CASE i \in 1..Len(lines[c]) /\ lines'[c][i] = lines[c][i]
    BY <2>1 DEF LinesIntact, Intact
  <2>2. ASSUME NEW d \in deliveries, WriteSucceeds(d), d.to = c, ~Lost(c),
               lines'[c][i] = [msg |-> d.msg, intact |-> IsIntact(d)]
        PROVE  lines'[c][i].intact
    <3>1. IsIntact(d)
      BY <1>1, <2>2
    <3>2. lines'[c][i].intact = IsIntact(d)
      BY <2>2
    <3> QED
      BY <3>1, <3>2
  <2> QED
    BY <2>1, <2>2, LineShape, Zenon
<1> QED
  BY <1>2, SMTT(30) DEF LinesIntact, Intact

\* The inductive invariant behind LinesIntact.
IntactInv == TypeOK /\ Waited /\ Exclusive /\ CleanTail /\ LinesIntact

\* Concurrent publishers never mix their bytes in one line of a subscriber that
\* keeps reading, however many there are, wherever peers die and whatever
\* slower subscribers do (client.send holds writeMu for the whole line).
THEOREM LinesIntactHolds == Spec => []LinesIntact
<1>1. Init => IntactInv
  <2> SUFFICES ASSUME Init PROVE IntactInv
    OBVIOUS
  <2>1. TypeOK /\ Waited
    BY DEF Init, TypeOK, Waited
  <2>2. Exclusive /\ CleanTail
    BY DEF Init, Exclusive, CleanTail, CleanAt
  <2>3. \A c \in Clients : Len(lines[c]) = 0
    BY Zenon DEF Init
  <2>4. LinesIntact
    BY <2>3 DEF LinesIntact, Intact
  <2> QED
    BY <2>1, <2>2, <2>4 DEF IntactInv
<1>2. IntactInv /\ [Next]_vars => IntactInv'
  BY TypeStep, WaitedStep, ExclusiveStep, CleanTailStep, LinesIntactStep DEF IntactInv
<1>3. IntactInv => LinesIntact
  BY DEF IntactInv
<1> QED
  BY <1>1, <1>2, <1>3, PTL DEF Spec

-----------------------------------------------------------------------------
(* The refinement of PubSub *)

Owes(d) == d.stage \in {"wait", "write", "partial"}

\* The messages of a client's lines form a sequence.
LEMMA SentIs ==
    ASSUME TypeOK, NEW c \in Clients
    PROVE  /\ Sent[c] \in Seq(Message) /\ Len(Sent[c]) = Len(lines[c])
           /\ \A i \in 1..Len(lines[c]) : Sent[c][i] = lines[c][i].msg
<1> DEFINE n == Len(lines[c])
<1>1. n \in Nat
  BY LenProperties DEF TypeOK
<1>2. \A i \in 1..n : lines[c][i].msg \in Message
  <2>1. ASSUME NEW i \in 1..n PROVE lines[c][i] \in [msg : Message, intact : BOOLEAN]
    BY ElementOfSeq, Zenon DEF TypeOK
  <2> QED
    BY <2>1
<1>3. Sent[c] = [i \in 1..n |-> lines[c][i].msg]
  BY DEF Sent
<1> HIDE DEF n
<1>4. Sent[c] \in [1..n -> Message]
  BY <1>2, <1>3
<1>5. Sent[c] \in Seq(Message) /\ Len(Sent[c]) = n
  BY <1>1, <1>4
<1> QED
  BY <1>3, <1>5 DEF n

\* A delivery that succeeds appends its message to what its recipient has.
LEMMA SentAppends ==
    ASSUME TypeOK, TypeOK', NEW c \in Clients, NEW rec \in [msg : Message, intact : BOOLEAN],
           lines' = [lines EXCEPT ![c] = Append(@, rec)]
    PROVE  Sent' = [Sent EXCEPT ![c] = Append(@, rec.msg)]
<1> DEFINE old == lines[c]
           new == Append(old, rec)
<1>1. old \in Seq([msg : Message, intact : BOOLEAN]) /\ lines'[c] = new
  BY DEF TypeOK
<1>2. /\ Len(new) = Len(old) + 1 /\ Len(old) \in Nat
      /\ \A i \in 1..Len(old) : new[i] = old[i]
      /\ new[Len(old) + 1] = rec
  BY <1>1, AppendProperties, LenProperties, SMTT(30)
<1>3. rec.msg \in Message /\ Sent[c] \in Seq(Message) /\ Len(Sent[c]) = Len(old)
  BY SentIs
<1> DEFINE want == Append(Sent[c], rec.msg)
<1>4. /\ want \in Seq(Message) /\ Len(want) = Len(old) + 1
      /\ \A i \in 1..Len(old) : want[i] = Sent[c][i]
      /\ want[Len(old) + 1] = rec.msg
  BY <1>3, AppendProperties
<1>5. Sent'[c] = [i \in 1..Len(new) |-> new[i].msg]
  BY <1>1 DEF Sent
<1>6. want = [i \in 1..Len(want) |-> want[i]]
  BY <1>4, LenProperties
<1>7. \A i \in 1..Len(old) : Sent[c][i] = old[i].msg
  BY SentIs
<1> DEFINE n == Len(old)
<1>8. n \in Nat /\ Len(new) = n + 1 /\ Len(want) = n + 1
  BY <1>2, <1>4
<1>9. (\A i \in 1..n : new[i].msg = want[i]) /\ new[n + 1].msg = want[n + 1]
  BY <1>2, <1>4, <1>7
<1> HIDE DEF n, new, want
<1>10. \A i \in 1..(n + 1) : new[i].msg = want[i]
  BY <1>8, <1>9
<1>11. Sent'[c] = want
  BY <1>5, <1>6, <1>8, <1>10
<1>12. \A p \in Clients \ {c} : Sent'[p] = Sent[p]
  BY DEF Sent, TypeOK
<1> QED
  BY <1>11, <1>12, Zenon DEF Sent, want

\* Ending or failing a write takes exactly that message off the debts.
LEMMA OwedShrinks ==
    ASSUME TypeOK, Waited, NEW d \in deliveries, Owes(d),
           deliveries \ {d} \subseteq deliveries',
           \A e \in deliveries' : e \in deliveries \ {d} \/ ~Owes(e)
    PROVE  Owed' = Owed \ {<<d.msg, d.to>>}
<1>1. \A e \in deliveries : <<e.msg, e.to>> = <<d.msg, d.to>> => e = d
  BY DEF Waited
<1> QED
  BY <1>1 DEF Owed, Owes

\* Moving from one debt stage to the next changes nothing.
LEMMA OwedStays ==
    ASSUME TypeOK, NEW d \in deliveries, NEW s, deliveries' = (deliveries \ {d}) \cup {[d EXCEPT !.stage = s]},
           Owes(d) <=> s \in {"wait", "write", "partial"}
    PROVE  Owed' = Owed
<1> DEFINE e == [d EXCEPT !.stage = s]
<1>1. d \in Delivery
  BY DEF TypeOK
<1>2. e.msg = d.msg /\ e.to = d.to /\ e.stage = s
  BY <1>1 DEF Delivery
<1> HIDE DEF e
<1>3. deliveries' = (deliveries \ {d}) \cup {e}
  BY DEF e
<1> QED
  BY <1>2, <1>3 DEF Owed, Owes

\* Every step of the broker is a step of PubSub or changes nothing in it.
LEMMA RefinementStep ==
    ASSUME OrderInv, OrderInv', [Next]_vars PROVE [PS!Next]_(PS!vars)
<1> USE DEF peerVars, readVars, streamVars
<1>0. TypeOK /\ Numbered /\ Waited /\ TypeOK'
  BY SMTT(30) DEF OrderInv
<1>1. CASE UNCHANGED vars
  BY <1>1, Zenon DEF vars, PS!vars, Executed, Owed, Sent
<1>2. ASSUME NEW c \in Clients, PeerWrite(c) \/ PeerTear(c) \/ Fill(c) PROVE UNCHANGED PS!vars
  <2>1. UNCHANGED <<subscribers, deliveries, lines>>
    BY <1>2, Zenon DEF PeerWrite, PeerTear, Fill
  <2>2. Fill(c) \/ \E line \in Line : Grows(c, line)
    <3>1. ASSUME NEW cmd \in Vocabulary[c], NEW w \in BOOLEAN,
                 wire' = [wire EXCEPT ![c] = Append(@, LineOf(c, cmd, w))],
                 written' = [written EXCEPT ![c] = @ + 1], UNCHANGED scanner
          PROVE  \E line \in Line : Grows(c, line)
      <4>1. LineOf(c, cmd, w) \in Line /\ LineOf(c, cmd, w).n = written[c] + 1
        BY <1>0, LineType DEF LineOf
      <4> QED
        BY <3>1, <4>1, Zenon DEF Grows
    <3> QED
      BY <1>2, <3>1, Zenon DEF PeerWrite, PeerTear
  <2>3. Executed' = Executed
    BY <1>0, <2>2, ExecutedStep
  <2> QED
    BY <2>1, <2>3, Zenon DEF PS!vars, Owed, Sent
<1>3. ASSUME NEW c \in Clients,
             PeerClose(c) \/ Accept(c) \/ PublishReturns(c) \/ ScanEnds(c) \/ DeferredClose(c)
      PROVE  UNCHANGED PS!vars
  BY <1>3, Zenon DEF PeerClose, Accept, PublishReturns, ScanEnds, DeferredClose, PS!vars,
              Executed, Owed, Sent
<1>4. ASSUME NEW c \in Clients, Ignore(c) PROVE PS!Ignore(c)
  <2>1. Takes(c) /\ UNCHANGED <<subscribers, deliveries, lines>>
    BY <1>4, SMTT(30) DEF Ignore, Scans, Takes
  <2> QED
    BY <1>0, <2>1, ExecutedStep, Zenon DEF PS!Ignore, PS!Execute, Owed, Sent
<1>5. ASSUME NEW c \in Clients, Subscribe(c) PROVE \E t \in Topics : PS!Subscribe(c, t)
  <2>1. Takes(c) /\ UNCHANGED <<deliveries, lines>>
    BY <1>5, SMTT(30) DEF Subscribe, Scans, Takes
  <2>2. Head(scanner[c]).topic \in Topics
    BY <1>0, <2>1, Unread DEF Takes, Line
  <2> QED
    BY <1>0, <1>5, <2>1, <2>2, ExecutedStep, Zenon DEF Subscribe, PS!Subscribe, PS!Execute, Owed, Sent
<1>6. ASSUME NEW c \in Clients, Publish(c)
      PROVE  \E t \in Topics, whole \in BOOLEAN : PS!Publish(c, t, whole)
  <2> DEFINE line == Head(scanner[c])
             msg == [from |-> c, topic |-> line.topic, n |-> line.n, whole |-> line.whole]
  <2>1. Takes(c) /\ UNCHANGED <<subscribers, lines>> /\ handler[c] = "scan"
    BY <1>6, Zenon DEF Publish, Scans, Takes
  <2>2. line.topic \in Topics /\ line.whole \in BOOLEAN /\ line.n = Executed[c] + 1
    BY <1>0, <2>1, Unread DEF Takes, Line
  <2>3. \A o \in Owed : o[1].from # c
    BY <1>0, <2>1, SMTT(30) DEF Owed, Waited
  <2>4. deliveries' = deliveries \cup
           {[msg |-> msg, to |-> r, stage |-> "wait"] : r \in subscribers[line.topic]}
    BY <1>6, Zenon DEF Publish
  <2> HIDE DEF msg, line
  <2>5. Owed' = Owed \cup ({msg} \X subscribers[line.topic])
    <3> DEFINE new == {[msg |-> msg, to |-> r, stage |-> "wait"] : r \in subscribers[line.topic]}
    <3>3. \A d \in new : Owes(d) /\ d.msg = msg /\ d.to \in subscribers[line.topic]
      BY DEF Owes
    <3>4. ASSUME NEW r \in subscribers[line.topic] PROVE \E d \in new : d.to = r
      <4>1. [msg |-> msg, to |-> r, stage |-> "wait"] \in new
        OBVIOUS
      <4> QED
        BY <4>1
    <3> HIDE DEF new
    <3>1. {<<d.msg, d.to>> : d \in {e \in new : Owes(e)}} = {msg} \X subscribers[line.topic]
      BY <3>3, <3>4
    <3>2. Owed' = Owed \cup {<<d.msg, d.to>> : d \in {e \in new : Owes(e)}}
      BY <2>4 DEF Owed, Owes, new
    <3> QED
      BY <3>1, <3>2
  <2>6. Executed' = [Executed EXCEPT ![c] = @ + 1] /\ Sent' = Sent
    BY <1>0, <2>1, ExecutedStep, Zenon DEF Sent
  <2>7. msg = [from |-> c, topic |-> line.topic, n |-> Executed[c] + 1, whole |-> line.whole]
    BY <2>2, Zenon DEF msg
  <2>8. PS!Publish(c, line.topic, line.whole)
    BY <2>1, <2>3, <2>5, <2>6, <2>7, Zenon DEF PS!Publish, PS!Execute
  <2> QED
    BY <2>2, <2>8
<1>7. ASSUME NEW c \in Clients, DeferredRemove(c) PROVE PS!Unsubscribe(c)
  BY <1>7, Zenon DEF DeferredRemove, Without, PS!Unsubscribe, Executed, Owed, Sent
<1>8. ASSUME NEW d \in deliveries, Deliver(d) PROVE [PS!Next]_(PS!vars)
  <2>1. d \in Delivery /\ d.to \in Clients /\ d.msg \in Message
    BY <1>0 DEF TypeOK, Delivery
  <2>2. Executed' = Executed
    BY <1>8, DeliverShape, <1>0, Zenon DEF Executed
  <2>3. CASE Lock(d) \/ WritePart(d)
    <3>1. PICK s \in {"write", "partial"} :
             /\ deliveries' = (deliveries \ {d}) \cup {[d EXCEPT !.stage = s]} /\ Owes(d)
             /\ UNCHANGED <<subscribers, lines>>
      BY <2>3 DEF Lock, WritePart, Moves, Owes
    <3>2. Owed' = Owed
      BY <1>0, <3>1, OwedStays
    <3> QED
      BY <2>2, <3>1, <3>2 DEF PS!vars, Sent
  <2>4. CASE WriteSucceeds(d)
    <3> DEFINE o == <<d.msg, d.to>>
    <3>1. Owes(d) /\ o \in Owed /\ deliveries' = deliveries \ {d} /\ UNCHANGED subscribers
      BY <2>4, Zenon DEF WriteSucceeds, Ends, Owes, Owed
    <3>2. Owed' = Owed \ {o}
      BY <1>0, <3>1, OwedShrinks, SMTT(30)
    <3>3. CASE lines' = lines
      BY <2>2, <3>1, <3>2, <3>3, Zenon DEF PS!Next, PS!Lose, Sent
    <3>4. CASE lines' = [lines EXCEPT ![d.to] = Append(@, [msg |-> d.msg, intact |-> IsIntact(d)])]
      <4>1. IsIntact(d) \in BOOLEAN
        BY DEF IsIntact
      <4>2. Sent' = [Sent EXCEPT ![d.to] = Append(@, d.msg)]
        <5> DEFINE rec == [msg |-> d.msg, intact |-> IsIntact(d)]
        <5>1. rec \in [msg : Message, intact : BOOLEAN] /\ rec.msg = d.msg
          BY <2>1, <4>1
        <5>2. lines' = [lines EXCEPT ![d.to] = Append(@, rec)]
          BY <3>4
        <5> HIDE DEF rec
        <5> QED
          BY <1>0, <2>1, <5>1, <5>2, SentAppends, Zenon
      <4>3. PS!Receive(o)
        BY <2>2, <3>1, <3>2, <4>2, Zenon DEF PS!Receive
      <4> QED
        BY <3>1, <4>3 DEF PS!Next
    <3> QED
      BY <2>4, <3>3, <3>4, Zenon DEF WriteSucceeds
  <2>5. CASE WriteFails(d)
    <3> DEFINE o == <<d.msg, d.to>>
               e == [d EXCEPT !.stage = "failed"]
    <3>1. Owes(d) /\ o \in Owed /\ deliveries' = (deliveries \ {d}) \cup {e}
          /\ UNCHANGED <<subscribers, lines>>
      BY <2>5 DEF WriteFails, Moves, Owes, Owed
    <3>2. e \in Delivery /\ ~Owes(e)
      BY <2>1 DEF Delivery, Owes
    <3>3. Owed' = Owed \ {o}
      BY <1>0, <3>1, <3>2, OwedShrinks
    <3> QED
      BY <2>2, <3>1, <3>3 DEF PS!Next, PS!Lose, Sent
  <2>6. CASE FailedClose(d)
    <3>1. /\ deliveries' = (deliveries \ {d}) \cup {[d EXCEPT !.stage = "closed"]} /\ ~Owes(d)
          /\ UNCHANGED <<subscribers, lines>>
      BY <2>6 DEF FailedClose, Moves, Owes
    <3>2. Owed' = Owed
      BY <1>0, <3>1, OwedStays
    <3> QED
      BY <2>2, <3>1, <3>2 DEF PS!vars, Sent
  <2>7. CASE FailedRemove(d)
    <3>1. d.stage = "closed" /\ deliveries' = deliveries \ {d} /\ UNCHANGED lines
      BY <2>7 DEF FailedRemove, Ends
    <3>2. Owed' = Owed
      BY <3>1 DEF Owed
    <3>3. PS!Unsubscribe(d.to)
      BY <2>2, <2>7, <3>1, <3>2 DEF FailedRemove, Without, PS!Unsubscribe, Sent
    <3> QED
      BY <2>1, <3>3 DEF PS!Next
  <2> QED
    BY <1>8, <2>3, <2>4, <2>5, <2>6, <2>7 DEF Deliver
<1> QED
  BY <1>1, <1>2, <1>3, <1>4, <1>5, <1>6, <1>7, <1>8 DEF Next, Peer, Handle, PS!Next

\* The broker implements PubSub: a publication is owed to the subscribers of
\* that moment and no one else, each debt is settled at most once, and a
\* publisher's next line waits until none of its debts are left.
THEOREM BrokerImplementsPubSub == Spec => ImplementsPubSub
<1>1. Init => PS!Init
  <2> SUFFICES ASSUME Init PROVE PS!Init
    OBVIOUS
  <2>1. Executed = [c \in Clients |-> 0]
    BY DEF Init, Executed
  <2>2. Sent = [c \in Clients |-> <<>>]
    BY DEF Init, Sent
  <2> QED
    BY <2>1, <2>2 DEF Init, PS!Init, Owed
<1>2. OrderInv /\ OrderInv' /\ [Next]_vars => [PS!Next]_(PS!vars)
  BY RefinementStep
<1> QED
  BY <1>1, <1>2, OrderInvariant, PTL DEF Spec, ImplementsPubSub, PS!Spec

====
