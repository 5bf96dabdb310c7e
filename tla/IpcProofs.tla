------------------------------ MODULE IpcProofs ------------------------------
(***************************************************************************)
(* Proofs about Ipc for any number of senders, sends and connections, any  *)
(* message sizes, limits and capacities.                                   *)
(*                                                                         *)
(* The invariant speaks of a connection's stream: what the receiver has    *)
(* buffered, what is in the pipe and what its sender has still to send,    *)
(* one after the other.  Most steps only move bytes from one part of it to *)
(* the next; the others append a line, cut the stream short, take its      *)
(* first line or drop it.  A stream is a sequence of whole lines but for   *)
(* its end (Framed), of one sender and in the order of its calls           *)
(* (Ordered); and as connections are accepted in the order they were made, *)
(* so are the messages a sender spreads over several of them (OrderOf).    *)
(***************************************************************************)
EXTENDS Ipc, SequenceTheorems, TLAPS

Message == [from : Senders, n : Nat, size : Sizes, valid : BOOLEAN]
Byte == [of : Message, newline : BOOLEAN]

\* A message starts at position a of a stream of bytes.
Starts(S, a) == a = 1 \/ S[a - 1].newline

\* The stream is a sequence of lines, of which the last may be cut short.
Framed(S) ==
    \A a \in 1..Len(S) : Starts(S, a) =>
        \A j \in 0..S[a].of.size : a + j <= Len(S) =>
            S[a + j].of = S[a].of /\ (S[a + j].newline <=> j = S[a].of.size)

\* The lines are of one sender, in the order of its calls.
Ordered(S) ==
    \A a, b \in 1..Len(S) : a < b =>
        /\ S[a].of.from = S[b].of.from
        /\ S[a].of.n <= S[b].of.n
        /\ S[a].newline => S[a].of.n < S[b].of.n

\* The last line is whole.
Closed(S) == S # <<>> => S[Len(S)].newline

Mentions(S, m) == \E i \in 1..Len(S) : S[i].of = m

-----------------------------------------------------------------------------
\* What the owner of connection k has still to send, what has left it, and all
\* that the receiver will read on k if nothing fails.
RestOf(conn, rest, k) ==
    IF \E s \in Senders : conn[s] = k
    THEN rest[CHOOSE s \in Senders : conn[s] = k]
    ELSE <<>>

ArrivedOf(cur, buf, bytes, k) == IF k = cur THEN buf \o bytes[k] ELSE bytes[k]

Stream == [k \in Conns |-> ArrivedOf(current, buffer, pipe, k) \o RestOf(connection, unsent, k)]

TypeOK ==
    /\ dialed \in 0..MaxConns
    /\ pipe \in [Conns -> Seq(Byte)]
    /\ receiverOpen \subseteq 1..dialed
    /\ backlog \in Seq(Nat)
    /\ connection \in [Senders -> 0..dialed]
    /\ sends \in [Senders -> 0..MaxSends]
    /\ unsent \in [Senders -> Seq(Byte)]
    /\ sent \subseteq [message : Message, on : Conns]
    /\ buffer \in Seq(Byte)
    /\ received \in Seq(Seq(Byte))

\* Every open connection is the current one or waits in the backlog, and they
\* are taken in the order they were made.
Queue ==
    /\ current \in receiverOpen \cup {None}
    /\ \A i \in 1..Len(backlog) : backlog[i] \in receiverOpen /\ (current # None => current < backlog[i])
    /\ \A i, j \in 1..Len(backlog) : i < j => backlog[i] < backlog[j]
    /\ \A k \in receiverOpen : k = current \/ \E i \in 1..Len(backlog) : backlog[i] = k
    /\ current = None => buffer = <<>>
    /\ \A k \in Conns \ receiverOpen : pipe[k] = <<>>

\* A connection has one sender.
Owners ==
    /\ \A s, t \in Senders : connection[s] = connection[t] /\ connection[s] # None => s = t
    /\ \A s \in Senders : unsent[s] # <<>> => connection[s] # None

\* The streams f of the open connections, those that senders hold, and how
\* often these have called ipc_send.
StreamsOf(open, f, conn, calls) ==
    /\ \A k \in open : Framed(f[k]) /\ Ordered(f[k])
    /\ \A s \in Senders : conn[s] \in open => Closed(f[conn[s]])
    /\ \A k \in open : \A m \in Message : Mentions(f[k], m) =>
            /\ m.n <= calls[m.from]
            /\ conn[m.from] # None => k <= conn[m.from]
            /\ \A s \in Senders : conn[s] = k => m.from = s

\* The message of the i-th line received.
Got(got, i) == Head(got[i]).of

\* Across connections, and after what has been received.
OrderOf(open, f, got) ==
    /\ \A k, l \in open : \A x, y \in Message :
            k < l /\ Mentions(f[k], x) /\ Mentions(f[l], y) /\ x.from = y.from => x.n < y.n
    /\ \A i \in 1..Len(got), k \in open : \A x \in Message :
            Mentions(f[k], x) /\ Got(got, i).from = x.from => Got(got, i).n < x.n

ResultsOf(got, calls) ==
    /\ \A i \in 1..Len(got) :
            /\ Got(got, i) \in Message /\ Got(got, i).valid /\ Got(got, i).n <= calls[Got(got, i).from]
            /\ got[i] = Front(Line(Got(got, i)))
            /\ Len(got[i]) <= MaxMessage
    /\ \A i, j \in 1..Len(got) :
            i < j /\ Got(got, i).from = Got(got, j).from => Got(got, i).n < Got(got, j).n

Large == \A m \in tooLarge : m.size > MaxMessage

Kept ==
    \A x \in sent :
        \/ x.on \in failed
        \/ \E i \in 1..Len(received) : Got(received, i) = x.message
        \/ Mentions(pipe[x.on], x.message)
        \/ x.on = current /\ Mentions(buffer, x.message)

Base == TypeOK /\ Queue /\ Owners

IInv ==
    /\ Base
    /\ StreamsOf(receiverOpen, Stream, connection, sends)
    /\ OrderOf(receiverOpen, Stream, received)
    /\ ResultsOf(received, sends)
    /\ Large
    /\ Kept

-----------------------------------------------------------------------------
(* Streams of bytes.                                                       *)

\* A line is appended to what ipc_receive has returned.
LEMMA Appended ==
    ASSUME NEW s \in Seq(Seq(Byte)), NEW x \in Seq(Byte), NEW t, t = Append(s, x)
    PROVE  /\ Len(s) \in Nat /\ Len(t) = Len(s) + 1
           /\ \A i \in 1..Len(s) : t[i] = s[i]
           /\ t[Len(s) + 1] = x
BY AppendProperties, LenProperties

LEMMA ByteFacts ==
    ASSUME NEW S \in Seq(Byte)
    PROVE  /\ Len(S) \in Nat
           /\ DOMAIN S = 1..Len(S)
           /\ \A i \in 1..Len(S) :
                 /\ S[i] \in Byte /\ S[i].newline \in BOOLEAN /\ S[i].of \in Message
                 /\ S[i].of.size \in Nat \ {0} /\ S[i].of.n \in Nat /\ S[i].of.from \in Senders
           /\ S = <<>> <=> Len(S) = 0
<1>1. Len(S) \in Nat /\ DOMAIN S = 1..Len(S) /\ (S = <<>> <=> Len(S) = 0)
  BY LenProperties, EmptySeq
<1>2. \A i \in 1..Len(S) : S[i] \in Byte
  BY ElementOfSeq
<1>3. \A b \in Byte : /\ b.newline \in BOOLEAN /\ b.of \in Message
                      /\ b.of.size \in Nat \ {0} /\ b.of.n \in Nat /\ b.of.from \in Senders
  BY IpcAssumption, Zenon DEF Byte, Message
<1> QED
  BY <1>1, <1>2, <1>3

LEMMA LineFacts ==
    ASSUME NEW m \in Message
    PROVE  /\ Line(m) \in Seq(Byte)
           /\ Len(Line(m)) = m.size + 1
           /\ \A i \in 1..(m.size + 1) : Line(m)[i].of = m /\ (Line(m)[i].newline <=> i = m.size + 1)
<1>1. m.size \in Nat
  BY IpcAssumption, Zenon DEF Message
<1>2. Line(m) \in [1..(m.size + 1) -> Byte]
  BY <1>1 DEF Line, Byte
<1>3. Line(m) \in Seq(Byte)
  BY <1>1, <1>2, SeqDef
<1>4. Len(Line(m)) = m.size + 1
  BY <1>1, <1>2, <1>3, LenProperties
<1>5. \A i \in 1..(m.size + 1) : Line(m)[i] = [of |-> m, newline |-> i = m.size + 1]
  BY DEF Line
<1>6. \A r, e : r = [of |-> m, newline |-> e] => r.of = m /\ r.newline = e
  OBVIOUS
<1>7. \A i \in 1..(m.size + 1) : Line(m)[i].of = m /\ Line(m)[i].newline = (i = m.size + 1)
  BY <1>5, <1>6, Zenon
<1> QED
  BY <1>3, <1>4, <1>7, Zenon

LEMMA MentionsIsMessage ==
    ASSUME NEW S \in Seq(Byte), NEW m, Mentions(S, m)
    PROVE  m \in Message
BY ByteFacts DEF Mentions

LEMMA MentionsConcat ==
    ASSUME NEW S \in Seq(Byte), NEW T \in Seq(Byte), NEW m
    PROVE  /\ S \o T \in Seq(Byte)
           /\ Mentions(S \o T, m) <=> Mentions(S, m) \/ Mentions(T, m)
<1>1. /\ Len(S) \in Nat /\ Len(T) \in Nat
      /\ S \o T \in Seq(Byte) /\ Len(S \o T) = Len(S) + Len(T)
      /\ \A i \in 1..Len(S) + Len(T) : (S \o T)[i] = IF i <= Len(S) THEN S[i] ELSE T[i - Len(S)]
  BY ConcatProperties, ByteFacts
<1>2. Mentions(S \o T, m) => Mentions(S, m) \/ Mentions(T, m)
  <2>1. SUFFICES ASSUME NEW i \in 1..Len(S) + Len(T), (S \o T)[i].of = m
                 PROVE  Mentions(S, m) \/ Mentions(T, m)
    BY <1>1 DEF Mentions
  <2>2. CASE i <= Len(S)
    BY <1>1, <2>1, <2>2 DEF Mentions
  <2>3. CASE i > Len(S)
    <3>1. i - Len(S) \in 1..Len(T) /\ (S \o T)[i] = T[i - Len(S)]
      BY <1>1, <2>3
    <3> QED
      BY <2>1, <3>1 DEF Mentions
  <2> QED
    BY <1>1, <2>2, <2>3
<1>3. Mentions(S, m) => Mentions(S \o T, m)
  <2>1. SUFFICES ASSUME NEW i \in 1..Len(S), S[i].of = m
                 PROVE  Mentions(S \o T, m)
    BY DEF Mentions
  <2>2. i \in 1..Len(S \o T) /\ (S \o T)[i] = S[i]
    BY <1>1
  <2> QED
    BY <2>1, <2>2 DEF Mentions
<1>4. Mentions(T, m) => Mentions(S \o T, m)
  <2>1. SUFFICES ASSUME NEW i \in 1..Len(T), T[i].of = m
                 PROVE  Mentions(S \o T, m)
    BY DEF Mentions
  <2>2. Len(S) + i \in 1..Len(S \o T) /\ (S \o T)[Len(S) + i] = T[i]
    BY <1>1
  <2> QED
    BY <2>1, <2>2 DEF Mentions
<1> QED
  BY <1>1, <1>2, <1>3, <1>4

LEMMA Associative ==
    \A x, y, z \in Seq(Byte) : (x \o y) \o z = x \o (y \o z)
BY ConcatAssociative

\* A sequence cut in two.
LEMMA Cut ==
    ASSUME NEW S \in Seq(Byte), NEW n \in 0..Len(S)
    PROVE  /\ SubSeq(S, 1, n) \in Seq(Byte) /\ SubSeq(S, n + 1, Len(S)) \in Seq(Byte)
           /\ Len(SubSeq(S, 1, n)) = n /\ Len(SubSeq(S, n + 1, Len(S))) = Len(S) - n
           /\ \A i \in 1..n : SubSeq(S, 1, n)[i] = S[i]
           /\ \A i \in 1..(Len(S) - n) : SubSeq(S, n + 1, Len(S))[i] = S[n + i]
           /\ SubSeq(S, 1, n) \o SubSeq(S, n + 1, Len(S)) = S
<1>1. Len(S) \in Nat /\ \A i \in 1..Len(S) : S[i] \in Byte
  BY ByteFacts
<1>2. /\ SubSeq(S, 1, n) \in Seq(Byte) /\ Len(SubSeq(S, 1, n)) = n
      /\ \A i \in 1..n : SubSeq(S, 1, n)[i] = S[i]
  <2>1. n \in Int /\ \A i \in 1..n : S[i] \in Byte
    BY <1>1
  <2>2. /\ SubSeq(S, 1, n) \in Seq(Byte)
        /\ Len(SubSeq(S, 1, n)) = IF 1 <= n THEN n - 1 + 1 ELSE 0
        /\ \A i \in 1..(n - 1 + 1) : SubSeq(S, 1, n)[i] = S[1 + i - 1]
    BY <2>1, SubSeqProperties
  <2> QED
    BY <1>1, <2>2
<1>3. /\ SubSeq(S, n + 1, Len(S)) \in Seq(Byte) /\ Len(SubSeq(S, n + 1, Len(S))) = Len(S) - n
      /\ \A i \in 1..(Len(S) - n) : SubSeq(S, n + 1, Len(S))[i] = S[n + i]
  <2>1. n + 1 \in Int /\ Len(S) \in Int /\ \A i \in (n + 1)..Len(S) : S[i] \in Byte
    BY <1>1
  <2>2. /\ SubSeq(S, n + 1, Len(S)) \in Seq(Byte)
        /\ Len(SubSeq(S, n + 1, Len(S))) = IF n + 1 <= Len(S) THEN Len(S) - (n + 1) + 1 ELSE 0
        /\ \A i \in 1..(Len(S) - (n + 1) + 1) : SubSeq(S, n + 1, Len(S))[i] = S[n + 1 + i - 1]
    BY <2>1, SubSeqProperties
  <2> QED
    BY <1>1, <2>2
<1>4. SubSeq(S, 1, n) \o SubSeq(S, n + 1, Len(S)) = S
  <2>1. 1 \in 1..Len(S) + 1 /\ n \in (1 - 1)..Len(S) /\ Len(S) \in n..Len(S)
    BY <1>1
  <2>2. SubSeq(S, 1, n) \o SubSeq(S, n + 1, Len(S)) = SubSeq(S, 1, Len(S))
    BY <2>1, ConcatAdjacentSubSeq, Zenon
  <2> QED
    BY <2>2, SubSeqFull, Zenon
<1> QED
  BY <1>2, <1>3, <1>4, Zenon


\* A line more: the message is the sender's next one.
LEMMA Extended ==
    ASSUME NEW S \in Seq(Byte), Framed(S), Ordered(S), Closed(S),
           NEW m \in Message,
           \A x \in Message : Mentions(S, x) => x.from = m.from /\ x.n < m.n
    PROVE  Framed(S \o Line(m)) /\ Ordered(S \o Line(m)) /\ Closed(S \o Line(m))
<1> DEFINE T == S \o Line(m)
<1>1. /\ Len(S) \in Nat /\ m.size \in Nat \ {0} /\ m.n \in Nat
      /\ T \in Seq(Byte) /\ Len(T) = Len(S) + m.size + 1
      /\ \A i \in 1..Len(S) : T[i] = S[i]
      /\ \A i \in (Len(S) + 1)..(Len(S) + m.size + 1) :
            T[i].of = m /\ (T[i].newline <=> i = Len(S) + m.size + 1)
  <2>1. Len(S) \in Nat /\ m.size \in Nat \ {0} /\ m.n \in Nat
    BY ByteFacts, IpcAssumption, Zenon DEF Message
  <2>2. /\ Line(m) \in Seq(Byte) /\ Len(Line(m)) = m.size + 1
        /\ \A i \in 1..(m.size + 1) : Line(m)[i].of = m /\ (Line(m)[i].newline <=> i = m.size + 1)
    BY LineFacts
  <2>3. /\ T \in Seq(Byte) /\ Len(T) = Len(S) + Len(Line(m))
        /\ \A i \in 1..Len(S) + Len(Line(m)) :
                T[i] = IF i <= Len(S) THEN S[i] ELSE Line(m)[i - Len(S)]
    BY <2>2, ConcatProperties, SMTT(30)
  <2>4. \A i \in 1..Len(S) : T[i] = S[i]
    BY <2>1, <2>2, <2>3
  <2>5. ASSUME NEW i \in (Len(S) + 1)..(Len(S) + m.size + 1)
        PROVE  T[i].of = m /\ (T[i].newline <=> i = Len(S) + m.size + 1)
    <3>1. /\ i - Len(S) \in 1..(m.size + 1) /\ T[i] = Line(m)[i - Len(S)]
          /\ i - Len(S) = m.size + 1 <=> i = Len(S) + m.size + 1
      <4>1. /\ i - Len(S) \in 1..(m.size + 1) /\ ~(i <= Len(S)) /\ i \in 1..Len(S) + (m.size + 1)
            /\ i - Len(S) = m.size + 1 <=> i = Len(S) + m.size + 1
        BY <2>1
      <4>2. T[i] = Line(m)[i - Len(S)]
        BY <2>2, <2>3, <4>1, Zenon
      <4> QED BY <4>1, <4>2, Zenon
    <3> QED
      BY <2>2, <3>1, Zenon
  <2> QED
    BY <2>1, <2>2, <2>3, <2>4, <2>5
<1>2. \A i \in 1..Len(S) : /\ S[i].of \in Message /\ S[i].of.size \in Nat /\ S[i].of.n \in Nat
                           /\ S[i].of.from = m.from /\ S[i].of.n < m.n
  BY ByteFacts DEF Mentions
<1> HIDE DEF T
<1>3. Framed(T)
  <2>1. SUFFICES ASSUME NEW a \in 1..Len(T), Starts(T, a),
                        NEW j \in 0..T[a].of.size, a + j <= Len(T)
                 PROVE  T[a + j].of = T[a].of /\ (T[a + j].newline <=> j = T[a].of.size)
    BY DEF Framed
  <2>2. CASE a <= Len(S)
    <3>1. T[a] = S[a] /\ a \in 1..Len(S)
      BY <1>1, <2>2
    <3>2. Starts(S, a)
      <4>1. CASE a = 1
        BY <4>1 DEF Starts
      <4>2. CASE a # 1
        <5>1. a - 1 \in 1..Len(S)
          BY <1>1, <3>1, <4>2
        <5> QED
          BY <1>1, <2>1, <4>2, <5>1, Zenon DEF Starts
      <4> QED
        BY <4>1, <4>2
    <3>3. \A i \in 0..S[a].of.size : a + i <= Len(S) =>
              S[a + i].of = S[a].of /\ (S[a + i].newline <=> i = S[a].of.size)
      BY <3>1, <3>2 DEF Framed
    <3>4. a + S[a].of.size <= Len(S)
      <4>1. SUFFICES ASSUME a + S[a].of.size > Len(S)
                     PROVE  FALSE
        BY <1>1, <1>2, <3>1
      <4>2. Len(S) - a \in 0..S[a].of.size /\ a + (Len(S) - a) = Len(S) /\ Len(S) - a # S[a].of.size
        BY <1>1, <1>2, <3>1, <4>1
      <4>3. PICK i : i = Len(S) - a
        OBVIOUS
      <4>5. ~S[Len(S)].newline
        <5>1. i \in 0..S[a].of.size /\ a + i = Len(S) /\ i # S[a].of.size
          BY <4>2, <4>3, Zenon
        <5>2. a + i <= Len(S)
          BY <1>1, <5>1
        <5>3. ~S[a + i].newline
          BY <3>3, <5>1, <5>2, Zenon
        <5> QED
          BY <5>1, <5>3, Zenon
      <4>4. S # <<>>
        <5>1. Len(S) # 0
          BY <1>1, <3>1
        <5>2. Len(<<>>) = 0
          OBVIOUS
        <5> QED
          BY <5>1, <5>2, Zenon
      <4> QED
        BY <4>4, <4>5 DEF Closed
    <3>5. j \in 0..S[a].of.size /\ a + j <= Len(S) /\ a + j \in 1..Len(S)
      BY <1>1, <1>2, <2>1, <3>1, <3>4
    <3> QED
      BY <1>1, <3>1, <3>3, <3>5
  <2>3. CASE a > Len(S)
    <3>1. a \in (Len(S) + 1)..(Len(S) + m.size + 1)
      BY <1>1, <2>3
    <3>2. a = Len(S) + 1
      <4>1. SUFFICES ASSUME a # Len(S) + 1
                     PROVE  FALSE
        OBVIOUS
      <4>2. a - 1 \in (Len(S) + 1)..(Len(S) + m.size + 1) /\ a - 1 # Len(S) + m.size + 1 /\ a # 1
        BY <1>1, <3>1, <4>1
      <4> QED
        BY <1>1, <2>1, <4>2, Zenon DEF Starts
    <3>3. T[a].of = m
      BY <1>1, <3>1
    <3>4. /\ a + j \in (Len(S) + 1)..(Len(S) + m.size + 1)
          /\ a + j = Len(S) + m.size + 1 <=> j = m.size
      BY <1>1, <2>1, <3>2, <3>3
    <3> QED
      BY <1>1, <3>3, <3>4
  <2> QED
    BY <1>1, <2>2, <2>3
<1>4. Ordered(T)
  <2>1. SUFFICES ASSUME NEW a \in 1..Len(T), NEW b \in 1..Len(T), a < b
                 PROVE  /\ T[a].of.from = T[b].of.from
                        /\ T[a].of.n <= T[b].of.n
                        /\ T[a].newline => T[a].of.n < T[b].of.n
    BY DEF Ordered
  <2>2. CASE b <= Len(S)
    <3>1. a \in 1..Len(S) /\ b \in 1..Len(S)
      BY <1>1, <2>1, <2>2
    <3>2. T[a] = S[a] /\ T[b] = S[b]
      BY <1>1, <3>1, Zenon
    <3> QED
      BY <2>1, <3>1, <3>2, ZenonT(40) DEF Ordered
  <2>3. CASE a <= Len(S) /\ b > Len(S)
    <3>1. a \in 1..Len(S) /\ b \in (Len(S) + 1)..(Len(S) + m.size + 1)
      BY <1>1, <2>3
    <3>2. T[a] = S[a] /\ T[b].of = m
      BY <1>1, <3>1
    <3>3. \A x, y \in Nat : x < y => x <= y
      OBVIOUS
    <3> QED
      BY <1>1, <1>2, <3>1, <3>2, <3>3, Zenon
  <2>4. CASE a > Len(S)
    <3>1. /\ a \in (Len(S) + 1)..(Len(S) + m.size + 1) /\ b \in (Len(S) + 1)..(Len(S) + m.size + 1)
          /\ a # Len(S) + m.size + 1
      BY <1>1, <2>1, <2>4
    <3>2. T[a].of = m /\ T[b].of = m /\ ~T[a].newline
      BY <1>1, <3>1
    <3> QED
      BY <1>1, <3>2
  <2> QED
    BY <1>1, <2>2, <2>3, <2>4
<1>5. Closed(T)
  BY <1>1 DEF Closed
<1> QED
  BY <1>3, <1>4, <1>5 DEF T


\* A stream that is cut short.
LEMMA Shortened ==
    ASSUME NEW S \in Seq(Byte), NEW U \in Seq(Byte), Framed(S \o U), Ordered(S \o U)
    PROVE  Framed(S) /\ Ordered(S)
<1> DEFINE T == S \o U
<1>1. /\ Len(S) \in Nat /\ Len(U) \in Nat /\ Len(T) = Len(S) + Len(U)
      /\ \A i \in 1..Len(S) : T[i] = S[i]
      /\ \A i \in 1..Len(S) : S[i].of.size \in Nat
  <2>1. /\ Len(S) \in Nat /\ Len(U) \in Nat /\ \A i \in 1..Len(S) : S[i].of.size \in Nat
    BY ByteFacts
  <2>2. /\ Len(T) = Len(S) + Len(U)
        /\ \A i \in 1..Len(S) + Len(U) : T[i] = IF i <= Len(S) THEN S[i] ELSE U[i - Len(S)]
    BY ConcatProperties
  <2> QED
    BY <2>1, <2>2
<1>2. Framed(T) /\ Ordered(T)
  OBVIOUS
<1> HIDE DEF T
<1>3. Framed(S)
  <2>1. SUFFICES ASSUME NEW a \in 1..Len(S), Starts(S, a),
                        NEW j \in 0..S[a].of.size, a + j <= Len(S)
                 PROVE  S[a + j].of = S[a].of /\ (S[a + j].newline <=> j = S[a].of.size)
    BY DEF Framed
  <2>2. a \in 1..Len(T) /\ T[a] = S[a] /\ a + j \in 1..Len(S) /\ a + j <= Len(T)
    BY <1>1, <2>1
  <2>3. Starts(T, a)
    <3>1. CASE a = 1
      BY <3>1 DEF Starts
    <3>2. CASE a # 1
      <4>1. a - 1 \in 1..Len(S)
        BY <1>1, <3>2
      <4> QED
        BY <1>1, <2>1, <3>2, <4>1 DEF Starts
    <3> QED
      BY <3>1, <3>2
  <2>4. T[a + j].of = T[a].of /\ (T[a + j].newline <=> j = T[a].of.size)
    BY <1>2, <2>1, <2>2, <2>3 DEF Framed
  <2> QED
    BY <1>1, <2>2, <2>4
<1>4. Ordered(S)
  <2>1. SUFFICES ASSUME NEW a \in 1..Len(S), NEW b \in 1..Len(S), a < b
                 PROVE  /\ S[a].of.from = S[b].of.from
                        /\ S[a].of.n <= S[b].of.n
                        /\ S[a].newline => S[a].of.n < S[b].of.n
    BY DEF Ordered
  <2>2. a \in 1..Len(T) /\ b \in 1..Len(T) /\ T[a] = S[a] /\ T[b] = S[b]
    BY <1>1
  <2> QED
    BY <1>2, <2>1, <2>2 DEF Ordered
<1> QED
  BY <1>3, <1>4

\* The bytes up to the first newline are one message.
LEMMA FirstLine ==
    ASSUME NEW B \in Seq(Byte), NEW U \in Seq(Byte), Framed(B \o U), Ordered(B \o U),
           NEW end \in 1..Len(B), B[end].newline,
           \A i \in 1..Len(B) : B[i].newline => end <= i
    PROVE  LET m == B[1].of
               C == SubSeq(B, end + 1, Len(B))
           IN  /\ m \in Message /\ Mentions(B, m)
               /\ SubSeq(B, 1, end - 1) = Front(Line(m))
               /\ Len(SubSeq(B, 1, end - 1)) = m.size
               /\ Head(SubSeq(B, 1, end - 1)).of = m
               /\ end = m.size + 1
               /\ C \in Seq(Byte)
               /\ Framed(C \o U) /\ Ordered(C \o U) /\ (Closed(B \o U) => Closed(C \o U))
               /\ \A x : Mentions(C \o U, x) => Mentions(B \o U, x) /\ x.from = m.from /\ m.n < x.n
               /\ \A x : Mentions(B, x) => x = m \/ Mentions(C, x)
<1> DEFINE m == B[1].of
           C == SubSeq(B, end + 1, Len(B))
           S == B \o U
           T == C \o U
           line == SubSeq(B, 1, end - 1)
<1>1. /\ Len(B) \in Nat /\ Len(U) \in Nat /\ m \in Message /\ m.size \in Nat \ {0} /\ m.n \in Nat
      /\ \A i \in 1..Len(B) : B[i] \in Byte
      /\ end \in Nat /\ 1 \in 1..Len(B)
  BY ByteFacts
<1>2. /\ S \in Seq(Byte) /\ Len(S) = Len(B) + Len(U)
      /\ \A i \in 1..Len(B) : S[i] = B[i]
      /\ \A i \in 1..Len(U) : S[Len(B) + i] = U[i]
  <2>1. /\ S \in Seq(Byte) /\ Len(S) = Len(B) + Len(U)
        /\ \A i \in 1..Len(B) + Len(U) : S[i] = IF i <= Len(B) THEN B[i] ELSE U[i - Len(B)]
    BY ConcatProperties
  <2> QED
    BY <1>1, <2>1
<1>3. /\ C \in Seq(Byte) /\ Len(C) = Len(B) - end
      /\ \A i \in 1..(Len(B) - end) : C[i] = B[end + i]
  <2>1. end \in 0..Len(B)
    BY <1>1
  <2> QED
    BY <2>1, Cut
<1>4. /\ T \in Seq(Byte) /\ Len(T) = Len(S) - end
      /\ \A i \in 1..Len(T) : T[i] = S[end + i]
  <2>1. /\ T \in Seq(Byte) /\ Len(T) = Len(C) + Len(U)
        /\ \A i \in 1..Len(C) + Len(U) : T[i] = IF i <= Len(C) THEN C[i] ELSE U[i - Len(C)]
    BY <1>3, ConcatProperties
  <2> HIDE DEF C, S, T
  <2>2. Len(T) = Len(S) - end
    BY <1>1, <1>2, <1>3, <2>1
  <2>3. ASSUME NEW i \in 1..Len(T)
        PROVE  T[i] = S[end + i]
    <3>1. CASE i <= Len(C)
      <4>1. T[i] = C[i] /\ i \in 1..(Len(B) - end) /\ end + i \in 1..Len(B)
        BY <1>1, <1>2, <1>3, <2>1, <3>1
      <4> QED
        BY <1>2, <1>3, <4>1, Zenon
    <3>2. CASE i > Len(C)
      <4>1. i - Len(C) \in 1..Len(U) /\ T[i] = U[i - Len(C)] /\ Len(B) + (i - Len(C)) = end + i
        BY <1>1, <1>2, <1>3, <2>1, <3>2
      <4> QED
        BY <1>2, <4>1, Zenon
    <3> QED
      BY <1>1, <1>3, <2>1, <3>1, <3>2
  <2> QED
    BY <2>1, <2>2, <2>3
<1>5. Framed(S) /\ Ordered(S) /\ Len(S) \in Nat
  BY <1>1, <1>2
<1>6. PICK e : e = end - 1
  OBVIOUS
<1>7. line \in Seq(Byte) /\ Len(line) = e /\ \A i \in 1..e : line[i] = B[i]
  <2>1. e \in 0..Len(B)
    BY <1>1, <1>6
  <2> QED
    BY <1>6, <2>1, Cut
<1> HIDE DEF C, S, T, line
<1>8. \A j \in 0..m.size : 1 + j <= Len(S) => S[1 + j].of = m /\ (S[1 + j].newline <=> j = m.size)
  <2>1. Starts(S, 1) /\ 1 \in 1..Len(S) /\ S[1].of = m
    BY <1>1, <1>2 DEF Starts
  <2> QED
    BY <1>5, <2>1 DEF Framed
<1>9. end = m.size + 1
  <2>1. end <= m.size + 1
    <3>1. SUFFICES ASSUME end > m.size + 1
                   PROVE  FALSE
      BY <1>1
    <3>2. m.size \in 0..m.size /\ 1 + m.size <= Len(S) /\ 1 + m.size \in 1..Len(B) /\ ~(end <= 1 + m.size)
      BY <1>1, <1>2, <3>1
    <3>3. S[1 + m.size].newline
      BY <1>8, <3>2, Zenon
    <3> QED
      BY <1>2, <3>2, <3>3
  <2>2. e \in 0..m.size /\ 1 + e = end /\ 1 + e <= Len(S)
    BY <1>1, <1>2, <1>6, <2>1
  <2>3. S[end].newline
    BY <1>2
  <2>4. e = m.size
    BY <1>8, <2>2, <2>3
  <2> QED
    BY <1>1, <2>2, <2>4
<1>10. \A i \in 1..end : B[i].of = m /\ (B[i].newline <=> i = end)
  <2>1. SUFFICES ASSUME NEW i \in 1..end
                 PROVE  B[i].of = m /\ (B[i].newline <=> i = end)
    OBVIOUS
  <2>2. PICK j : j = i - 1
    OBVIOUS
  <2>3. j \in 0..m.size /\ 1 + j = i /\ 1 + j <= Len(S) /\ i \in 1..Len(B) /\ (j = m.size <=> i = end)
    <3> HIDE DEF m
    <3>1. i \in Nat /\ 1 <= i /\ i <= end /\ end <= Len(B) /\ j \in Nat /\ 1 + j = i
      BY <1>1, <2>2
    <3>2. j \in 0..m.size /\ (j = m.size <=> i = end)
      BY <1>1, <1>9, <3>1
    <3>3. Len(B) <= Len(S)
      BY <1>1, <1>2
    <3> QED
      BY <1>1, <1>5, <3>1, <3>2, <3>3
  <2>4. S[1 + j].of = m /\ (S[1 + j].newline <=> j = m.size)
    BY <1>8, <2>3
  <2> QED
    BY <1>2, <2>3, <2>4
<1>11. line = Front(Line(m)) /\ Len(line) = m.size /\ Head(line).of = m
  <2>1. e = m.size /\ e \in Nat \ {0} /\ e < end
    BY <1>1, <1>6, <1>9
  <2>2. /\ Line(m) \in Seq(Byte) /\ Len(Line(m)) = m.size + 1
        /\ \A i \in 1..(m.size + 1) : Line(m)[i].of = m /\ (Line(m)[i].newline <=> i = m.size + 1)
    BY <1>1, LineFacts, Zenon
  <2>3. /\ Front(Line(m)) \in Seq(Byte) /\ Len(Front(Line(m))) = e
        /\ \A i \in 1..e : Front(Line(m))[i] = Line(m)[i]
    <3>1. e \in 0..Len(Line(m)) /\ Len(Line(m)) - 1 = e
      BY <2>1, <2>2
    <3> QED
      BY <2>2, <3>1, Cut DEF Front
  <2>4. ASSUME NEW i \in 1..e
        PROVE  line[i] = Front(Line(m))[i]
    <3>1. /\ i \in 1..end /\ i \in 1..Len(B) /\ i \in 1..(m.size + 1) /\ i \in 1..Len(Line(m))
          /\ i # end /\ i # m.size + 1
      BY <1>1, <1>9, <2>1, <2>2
    <3>2. B[i].of = m /\ ~B[i].newline /\ Line(m)[i].of = m /\ ~Line(m)[i].newline
      BY <1>10, <2>2, <3>1, Zenon
    <3>3. B[i] \in Byte /\ Line(m)[i] \in Byte
      BY <1>1, <2>2, <3>1, ByteFacts
    <3>4. \A x, y \in Byte : x.of = y.of /\ ~x.newline /\ ~y.newline => x = y
      BY DEF Byte
    <3> QED
      BY <1>7, <2>3, <3>2, <3>3, <3>4, Zenon
  <2>5. line = Front(Line(m))
    BY <1>7, <2>3, <2>4, SeqEqual
  <2>6. Head(line) = line[1] /\ line[1] = B[1]
    BY <1>7, <2>1
  <2> QED
    BY <1>7, <2>1, <2>5, <2>6
<1>12. Framed(T)
  <2>1. SUFFICES ASSUME NEW a \in 1..Len(T), Starts(T, a),
                        NEW j \in 0..T[a].of.size, a + j <= Len(T)
                 PROVE  T[a + j].of = T[a].of /\ (T[a + j].newline <=> j = T[a].of.size)
    BY Zenon DEF Framed
  <2>2. T[a].of.size \in Nat
    BY <1>4, ByteFacts, Zenon
  <2>3. PICK b : b = end + a
    OBVIOUS
  <2>4. /\ b \in 1..Len(S) /\ T[a] = S[b] /\ b + j = end + (a + j) /\ b + j <= Len(S)
        /\ a + j \in 1..Len(T)
    <3>1. T[a] = S[b]
      BY <1>4, <2>3, Zenon
    <3>2. Len(T) \in Nat /\ Len(T) = Len(S) - end /\ Len(S) \in Nat /\ end \in Nat
      BY <1>1, <1>4, <1>5, ByteFacts
    <3>3. a \in Nat /\ 1 <= a /\ a <= Len(T) /\ j \in Nat
      BY <2>2, <3>2
    <3> QED
      BY <2>1, <2>3, <3>1, <3>2, <3>3
  <2>5. Starts(S, b)
    <3>1. CASE a = 1
      <4>1. b - 1 = end /\ S[end].newline
        BY <1>1, <1>2, <2>3, <3>1, SMTT(30)
      <4> QED
        BY <4>1 DEF Starts
    <3>2. CASE a # 1
      <4>1. a - 1 \in 1..Len(T) /\ b - 1 = end + (a - 1)
        <5>1. a \in Nat /\ a >= 1 /\ a <= Len(T) /\ Len(T) \in Nat
          BY <1>4, ByteFacts
        <5> QED
          BY <1>1, <2>3, <3>2, <5>1
      <4> QED
        BY <1>4, <2>1, <3>2, <4>1, Zenon DEF Starts
    <3> QED
      BY <3>1, <3>2
  <2>6. S[b + j].of = S[b].of /\ (S[b + j].newline <=> j = S[b].of.size)
    BY <1>5, <2>1, <2>4, <2>5, Zenon DEF Framed
  <2>7. T[a + j] = S[b + j]
    BY <1>4, <2>4, Zenon
  <2> QED
    BY <2>4, <2>6, <2>7
<1>13. \A i \in 1..Len(T) : end + i \in 1..Len(S) /\ end < end + i
  BY <1>1, <1>4, <1>5
<1>14. Ordered(T)
  <2>1. SUFFICES ASSUME NEW a \in 1..Len(T), NEW b \in 1..Len(T), a < b
                 PROVE  /\ T[a].of.from = T[b].of.from
                        /\ T[a].of.n <= T[b].of.n
                        /\ T[a].newline => T[a].of.n < T[b].of.n
    BY Zenon DEF Ordered
  <2>2. PICK c, d : c = end + a /\ d = end + b
    OBVIOUS
  <2>3. c \in 1..Len(S) /\ d \in 1..Len(S) /\ c < d /\ T[a] = S[c] /\ T[b] = S[d]
    BY <1>1, <1>4, <1>13, <2>1, <2>2
  <2>4. /\ S[c].of.from = S[d].of.from /\ S[c].of.n <= S[d].of.n
        /\ S[c].newline => S[c].of.n < S[d].of.n
    BY <1>5, <2>3, Zenon DEF Ordered
  <2> QED
    BY <2>3, <2>4, Zenon
<1>15. Closed(S) => Closed(T)
  <2>1. SUFFICES ASSUME Closed(S), T # <<>>
                 PROVE  T[Len(T)].newline
    BY DEF Closed
  <2>2. Len(T) \in 1..Len(T) /\ end + Len(T) = Len(S) /\ Len(S) # 0
    BY <1>1, <1>4, <1>5, <2>1, ByteFacts
  <2>3. S # <<>> /\ T[Len(T)] = S[Len(S)]
    BY <1>2, <1>4, <2>2, ByteFacts, Zenon
  <2> QED
    BY <2>1, <2>3 DEF Closed
<1>16. \A x : Mentions(T, x) => Mentions(S, x) /\ x.from = m.from /\ m.n < x.n
  <2>1. SUFFICES ASSUME NEW x, NEW i \in 1..Len(T), T[i].of = x
                 PROVE  Mentions(S, x) /\ x.from = m.from /\ m.n < x.n
    BY Zenon DEF Mentions
  <2>2. PICK c : c = end + i
    OBVIOUS
  <2>3. end \in 1..Len(S) /\ c \in 1..Len(S) /\ end < c /\ S[c].of = x
    BY <1>1, <1>2, <1>4, <1>13, <2>1, <2>2
  <2>4. S[end].newline /\ S[end].of = m
    BY <1>1, <1>2, <1>10
  <2>5. m.from = x.from /\ m.n < x.n
    BY <1>5, <2>3, <2>4 DEF Ordered
  <2> QED
    BY <2>3, <2>5, Zenon DEF Mentions
<1>17. \A x : Mentions(B, x) => x = m \/ Mentions(C, x)
  <2>1. SUFFICES ASSUME NEW x, NEW i \in 1..Len(B), B[i].of = x, x # m
                 PROVE  Mentions(C, x)
    BY DEF Mentions
  <2>2. ~(i <= end)
    BY <1>1, <1>10, <2>1
  <2>3. PICK c : c = i - end
    OBVIOUS
  <2>4. c \in 1..(Len(B) - end) /\ end + c = i
    BY <1>1, <2>2, <2>3
  <2> QED
    BY <1>3, <2>1, <2>4, Zenon DEF Mentions
<1>18. Mentions(B, m)
  BY <1>1 DEF Mentions
<1> QED
  BY <1>1, <1>3, <1>9, <1>11, <1>12, <1>14, <1>15, <1>16, <1>17, <1>18, Zenon DEF C, S, T, line

LEMMA FirstNewline ==
    ASSUME NEW B \in Seq(Byte), NEW U \in Seq(Byte), Framed(B \o U),
           NEW i \in 1..Len(B), B[i].newline
    PROVE  \E e \in 1..Len(B) : B[e].newline /\ \A j \in 1..Len(B) : B[j].newline => e <= j
<1> DEFINE S == B \o U
           m == B[1].of
<1>1. /\ Len(B) \in Nat \ {0} /\ Len(U) \in Nat /\ m.size \in Nat
  BY ByteFacts
<1>2. /\ Len(S) = Len(B) + Len(U) /\ \A j \in 1..Len(B) : S[j] = B[j]
  <2>1. /\ S \in Seq(Byte) /\ Len(S) = Len(B) + Len(U)
        /\ \A j \in 1..Len(B) + Len(U) : S[j] = IF j <= Len(B) THEN B[j] ELSE U[j - Len(B)]
    BY ConcatProperties
  <2> QED
    BY <1>1, <2>1
<1>3. Framed(S)
  OBVIOUS
<1> HIDE DEF S
<1>4. \A j \in 0..m.size : 1 + j <= Len(S) => (S[1 + j].newline <=> j = m.size)
  <2>1. 1 \in 1..Len(S) /\ Starts(S, 1) /\ S[1].of = m
    BY <1>1, <1>2 DEF Starts
  <2> QED
    BY <1>3, <2>1 DEF Framed
<1> HIDE DEF m
<1>5. ASSUME NEW j \in 1..Len(B), B[j].newline
      PROVE  m.size + 1 <= j
  <2>1. SUFFICES ASSUME j < m.size + 1
                 PROVE  FALSE
    BY <1>1
  <2>2. PICK h : h = j - 1
    OBVIOUS
  <2>3. h \in 0..m.size /\ 1 + h = j /\ 1 + h <= Len(S) /\ h # m.size
    BY <1>1, <1>2, <2>1, <2>2
  <2> QED
    BY <1>2, <1>4, <1>5, <2>3
<1>6. m.size + 1 \in 1..Len(B) /\ 1 + m.size <= Len(S) /\ 1 + m.size = m.size + 1 /\ m.size \in 0..m.size
  BY <1>1, <1>2, <1>5
<1>7. B[m.size + 1].newline
  BY <1>2, <1>4, <1>6
<1> QED
  BY <1>5, <1>6, <1>7

\* Without a newline the message is at least as long as what there is.
LEMMA NoLine ==
    ASSUME NEW B \in Seq(Byte), NEW U \in Seq(Byte), Framed(B \o U), B # <<>>,
           \A i \in 1..Len(B) : ~B[i].newline
    PROVE  B[1].of.size >= Len(B) /\ Head(B).of = B[1].of
<1> DEFINE S == B \o U
           m == B[1].of
<1>1. /\ Len(B) \in Nat \ {0} /\ Len(U) \in Nat /\ m.size \in Nat
  BY ByteFacts
<1>2. /\ Len(S) = Len(B) + Len(U) /\ \A i \in 1..Len(B) : S[i] = B[i]
  <2>1. /\ S \in Seq(Byte) /\ Len(S) = Len(B) + Len(U)
        /\ \A i \in 1..Len(B) + Len(U) : S[i] = IF i <= Len(B) THEN B[i] ELSE U[i - Len(B)]
    BY ConcatProperties
  <2> QED
    BY <1>1, <2>1
<1>3. Framed(S)
  OBVIOUS
<1> HIDE DEF S
<1>4. ASSUME m.size < Len(B)
      PROVE  FALSE
  <2>1. /\ 1 \in 1..Len(S) /\ Starts(S, 1) /\ S[1].of = m
        /\ m.size \in 0..m.size /\ 1 + m.size <= Len(S) /\ 1 + m.size \in 1..Len(B)
    BY <1>1, <1>2, <1>4 DEF Starts
  <2>2. S[1 + m.size].newline
    BY <1>3, <2>1 DEF Framed
  <2> QED
    BY <1>2, <2>1, <2>2, Zenon
<1> QED
  BY <1>1, <1>4


-----------------------------------------------------------------------------
(* What a step can do to the streams: nothing, but close some; append a    *)
(* line; cut one short; take a line.                                       *)

LEMMA StreamsStay ==
    ASSUME NEW open, NEW open2 \in SUBSET open, NEW f, NEW g, \A k \in open2 : g[k] = f[k],
           NEW conn, NEW calls \in [Senders -> Nat], NEW calls2 \in [Senders -> Nat],
           \A s \in Senders : calls[s] <= calls2[s], NEW got,
           StreamsOf(open, f, conn, calls), OrderOf(open, f, got), ResultsOf(got, calls)
    PROVE  StreamsOf(open2, g, conn, calls2) /\ OrderOf(open2, g, got) /\ ResultsOf(got, calls2)
<1>1. \A m \in Message : /\ m.n \in Nat /\ m.from \in Senders
                         /\ m.n <= calls[m.from] => m.n <= calls2[m.from]
  BY DEF Message
<1>2. StreamsOf(open2, g, conn, calls2)
  BY <1>1, Zenon DEF StreamsOf
<1>3. OrderOf(open2, g, got)
  BY Zenon DEF OrderOf
<1>4. ResultsOf(got, calls2)
  BY <1>1, Zenon DEF ResultsOf
<1> QED
  BY <1>2, <1>3, <1>4

LEMMA EmptyStream == Framed(<<>>) /\ Ordered(<<>>) /\ Closed(<<>>) /\ \A x : ~Mentions(<<>>, x)
BY DEF Framed, Ordered, Closed, Mentions

\* A sender s begins its next line m, on its connection c, which may be new.
Extension(open, f, conn, calls, open2, g, conn2, calls2, s, m, c) ==
    /\ open \in SUBSET Nat /\ \A k \in open : f[k] \in Seq(Byte)
    /\ conn \in [Senders -> Nat] /\ conn2 \in [Senders -> Nat]
    /\ calls \in [Senders -> Nat] /\ calls2 \in [Senders -> Nat]
    /\ s \in Senders /\ m \in Message /\ m.from = s /\ calls[s] < m.n /\ m.n <= calls2[s]
    /\ \A t \in Senders \ {s} : conn2[t] = conn[t] /\ calls2[t] = calls[t]
    /\ c \in Nat /\ c # None /\ conn2[s] = c /\ \A t \in Senders : conn2[t] = c => t = s
    /\ \/ conn[s] = c /\ open2 = open
       \/ conn[s] = None /\ open2 = open \cup {c} /\ f[c] = <<>> /\ \A k \in open : k < c
    /\ \A k \in open2 : g[k] = IF k = c THEN f[k] \o Line(m) ELSE f[k]

LEMMA StreamExtends ==
    ASSUME NEW open, NEW f, NEW conn, NEW calls, NEW open2, NEW g, NEW conn2, NEW calls2,
           NEW s, NEW m, NEW c, Extension(open, f, conn, calls, open2, g, conn2, calls2, s, m, c),
           NEW got,
           StreamsOf(open, f, conn, calls), OrderOf(open, f, got), ResultsOf(got, calls)
    PROVE  StreamsOf(open2, g, conn2, calls2) /\ OrderOf(open2, g, got) /\ ResultsOf(got, calls2)
<1>a. /\ open \in SUBSET Nat /\ \A k \in open : f[k] \in Seq(Byte)
      /\ conn \in [Senders -> Nat] /\ conn2 \in [Senders -> Nat]
      /\ calls \in [Senders -> Nat] /\ calls2 \in [Senders -> Nat]
      /\ s \in Senders /\ m \in Message /\ m.from = s /\ calls[s] < m.n /\ m.n <= calls2[s]
      /\ \A t \in Senders \ {s} : conn2[t] = conn[t] /\ calls2[t] = calls[t]
      /\ c \in Nat /\ c # None /\ conn2[s] = c /\ \A t \in Senders : conn2[t] = c => t = s
  BY Zenon DEF Extension
<1>b. \/ conn[s] = c /\ open2 = open
      \/ conn[s] = None /\ open2 = open \cup {c} /\ f[c] = <<>> /\ \A k \in open : k < c
  BY Zenon DEF Extension
<1>c. \A k \in open2 : g[k] = IF k = c THEN f[k] \o Line(m) ELSE f[k]
  BY Zenon DEF Extension
<1> USE <1>a, <1>b, <1>c
<1> USE DEF None
<1>1. \A x \in Message : x.n \in Nat /\ x.from \in Senders
  BY DEF Message
<1>2. ASSUME NEW t \in Senders PROVE calls[t] <= calls2[t] /\ calls[t] \in Nat /\ calls2[t] \in Nat
  <2>1. calls[t] \in Nat /\ calls2[t] \in Nat
    BY Zenon
  <2>2. CASE t = s
    <3>1. m.n \in Nat /\ calls[t] < m.n /\ m.n <= calls2[t]
      BY <1>1, <2>2, Zenon
    <3> QED
      BY <2>1, <3>1, SMTT(30)
  <2>3. CASE t # s
    <3>1. calls2[t] = calls[t]
      BY <2>3, Zenon
    <3> QED
      BY <2>1, <3>1
  <2> QED
    BY <2>1, <2>2, <2>3, Zenon
<1>3. \A x \in Message : x.n <= calls[x.from] => x.n <= calls2[x.from]
  BY <1>1, <1>2
<1>4. ASSUME NEW k \in open2, k # c
      PROVE  k \in open /\ g[k] = f[k]
  BY <1>4
<1>5. ASSUME c \in open2
      PROVE  /\ f[c] \in Seq(Byte) /\ Framed(f[c]) /\ Ordered(f[c]) /\ Closed(f[c])
             /\ \A x \in Message : Mentions(f[c], x) => c \in open /\ x.from = m.from /\ x.n < m.n
  <2>1. CASE conn[s] = c /\ open2 = open
    <3>1. c \in open /\ Framed(f[c]) /\ Ordered(f[c]) /\ Closed(f[c])
      BY <1>5, <2>1, ZenonT(40) DEF StreamsOf
    <3>2. ASSUME NEW x \in Message, Mentions(f[c], x)
          PROVE  x.from = m.from /\ x.n < m.n
      <4>1. x.from = s /\ x.n <= calls[x.from]
        BY <2>1, <3>1, <3>2, ZenonT(40) DEF StreamsOf
      <4> QED
        BY <1>1, <1>2, <4>1, SMTT(30)
    <3> QED
      BY <3>1, <3>2, Zenon
  <2>2. CASE conn[s] = None /\ open2 = open \cup {c} /\ f[c] = <<>> /\ \A k \in open : k < c
    BY <2>2, EmptyStream, EmptySeq, SMTT(30)
  <2> QED
    BY <2>1, <2>2, Zenon
<1>6. ASSUME c \in open2
      PROVE  Framed(g[c]) /\ Ordered(g[c]) /\ Closed(g[c])
  <2>1. Framed(f[c] \o Line(m)) /\ Ordered(f[c] \o Line(m)) /\ Closed(f[c] \o Line(m))
    BY <1>5, <1>6, Extended, Zenon
  <2> QED
    BY <1>6, <2>1, Zenon
<1>7. ASSUME NEW k \in open2, NEW x \in Message, Mentions(g[k], x)
      PROVE  (k \in open /\ Mentions(f[k], x)) \/ (k = c /\ x = m)
  <2>1. CASE k # c
    BY <1>4, <1>7, <2>1, Zenon
  <2>2. CASE k = c
    <3>1. Mentions(f[c], x) \/ Mentions(Line(m), x)
      <4>1. f[c] \in Seq(Byte) /\ Line(m) \in Seq(Byte) /\ Mentions(f[c] \o Line(m), x)
        BY <1>5, <1>7, <2>2, LineFacts, Zenon
      <4> QED
        BY <4>1, MentionsConcat, Zenon
    <3>2. Mentions(Line(m), x) => x = m
      <4>1. Len(Line(m)) = m.size + 1 /\ \A i \in 1..(m.size + 1) : Line(m)[i].of = m
        BY LineFacts, Zenon
      <4> QED
        BY <4>1, Zenon DEF Mentions
    <3> QED
      BY <1>5, <2>2, <3>1, <3>2, Zenon
  <2> QED
    BY <2>1, <2>2, Zenon
<1>8. \A k \in open : k = c => conn[s] = c
  BY SMTT(30)
<1>9. ASSUME NEW k \in open, NEW x \in Message, x.from = s, Mentions(f[k], x)
      PROVE  k <= c /\ x.n <= calls[s]
  <2>1. x.n <= calls[s] /\ (conn[s] # None => k <= conn[s])
    <3>1. x.n <= calls[x.from]
      BY <1>9, Zenon DEF StreamsOf
    <3>2. conn[x.from] # None => k <= conn[x.from]
      BY <1>9, Zenon DEF StreamsOf
    <3> QED
      BY <1>9, <3>1, <3>2, Zenon
  <2>2. CASE conn[s] = c
    BY <2>1, <2>2
  <2>3. CASE \A l \in open : l < c
    <3>1. k < c /\ k \in Nat /\ c \in Nat
      BY <2>3, Zenon
    <3> QED
      BY <2>1, <3>1
  <2> QED
    BY <2>2, <2>3, Zenon
<1>10. StreamsOf(open2, g, conn2, calls2)
  <2>1. \A k \in open2 : Framed(g[k]) /\ Ordered(g[k])
    BY <1>4, <1>6, Zenon DEF StreamsOf
  <2>2. ASSUME NEW t \in Senders, conn2[t] \in open2
        PROVE  Closed(g[conn2[t]])
    <3>1. CASE t = s
      BY <1>6, <2>2, <3>1, Zenon
    <3>2. CASE t # s
      <4>1. conn2[t] = conn[t] /\ conn2[t] # c
        BY <3>2, Zenon
      <4> QED
        BY <1>4, <2>2, <4>1, Zenon DEF StreamsOf
    <3> QED
      BY <3>1, <3>2, Zenon
  <2>3. ASSUME NEW k \in open2, NEW x \in Message, Mentions(g[k], x)
        PROVE  /\ x.n <= calls2[x.from]
               /\ conn2[x.from] # None => k <= conn2[x.from]
               /\ \A t \in Senders : conn2[t] = k => x.from = t
    <3>1. CASE k \in open /\ Mentions(f[k], x)
      <4>1. /\ x.n <= calls[x.from]
            /\ conn[x.from] # None => k <= conn[x.from]
            /\ \A t \in Senders : conn[t] = k => x.from = t
        <5>1. \A l \in open : \A y \in Message : Mentions(f[l], y) =>
                  /\ y.n <= calls[y.from]
                  /\ conn[y.from] # None => l <= conn[y.from]
                  /\ \A t \in Senders : conn[t] = l => y.from = t
          BY Zenon DEF StreamsOf
        <5> QED BY <2>3, <3>1, <5>1, Zenon
      <4>2. x.n <= calls2[x.from]
        BY <1>3, <4>1, Zenon
      <4>3. conn2[x.from] # None => k <= conn2[x.from]
        BY <1>1, <1>9, <3>1, <4>1, Zenon
      <4>4. \A t \in Senders : conn2[t] = k => x.from = t
        BY <1>8, <3>1, <4>1, SMTT(30)
      <4> QED
        BY <4>2, <4>3, <4>4, Zenon
    <3>2. CASE k = c /\ x = m
      BY <3>2, SMTT(30)
    <3> QED
      BY <1>7, <2>3, <3>1, <3>2, Zenon
  <2> QED
    BY <2>1, <2>2, <2>3, Zenon DEF StreamsOf
<1>11. OrderOf(open2, g, got)
  <2>1. ASSUME NEW k \in open2, NEW l \in open2, NEW x \in Message, NEW y \in Message,
               k < l, Mentions(g[k], x), Mentions(g[l], y), x.from = y.from
        PROVE  x.n < y.n
    <3>1. CASE k \in open /\ Mentions(f[k], x) /\ l \in open /\ Mentions(f[l], y)
      BY <2>1, <3>1, Zenon DEF OrderOf
    <3>2. CASE k \in open /\ Mentions(f[k], x) /\ l = c /\ y = m
      <4>1. x.n <= calls[s]
        BY <1>9, <2>1, <3>2, Zenon
      <4> QED
        BY <1>1, <1>2, <3>2, <4>1, SMTT(30)
    <3>3. CASE k = c /\ x = m /\ l \in open /\ Mentions(f[l], y)
      <4>1. l <= c /\ l \in Nat
        BY <1>9, <2>1, <3>3, Zenon
      <4> QED
        BY <2>1, <3>3, <4>1, SMTT(30)
    <3>4. ~(k = c /\ l = c)
      BY <2>1, SMTT(30)
    <3> QED
      BY <1>7, <2>1, <3>1, <3>2, <3>3, <3>4, ZenonT(40)
  <2>2. ASSUME NEW i \in 1..Len(got), NEW k \in open2, NEW x \in Message,
               Mentions(g[k], x), Got(got, i).from = x.from
        PROVE  Got(got, i).n < x.n
    <3>1. CASE k \in open /\ Mentions(f[k], x)
      BY <2>2, <3>1, Zenon DEF OrderOf
    <3>2. CASE x = m
      <4>1. Got(got, i) \in Message /\ Got(got, i).n <= calls[s]
        BY <2>2, <3>2, Zenon DEF ResultsOf
      <4> QED
        BY <1>1, <1>2, <3>2, <4>1, SMTT(30)
    <3> QED
      BY <1>7, <2>2, <3>1, <3>2, Zenon
  <2> QED
    BY <2>1, <2>2, Zenon DEF OrderOf
<1>12. ResultsOf(got, calls2)
  BY <1>3, Zenon DEF ResultsOf
<1> QED
  BY <1>10, <1>11, <1>12, Zenon

\* A sender lets go of its connection, perhaps within a line.
LEMMA StreamCloses ==
    ASSUME NEW open, NEW f, NEW g,
           \A k \in open : f[k] = g[k] \/ \E u \in Seq(Byte) : g[k] \in Seq(Byte) /\ f[k] = g[k] \o u,
           NEW conn, NEW conn2, NEW s \in Senders, conn2[s] = None,
           \A t \in Senders \ {s} : conn2[t] = conn[t] /\ (conn[t] \in open => g[conn[t]] = f[conn[t]]),
           None \notin open,
           NEW calls \in [Senders -> Nat], NEW calls2 \in [Senders -> Nat],
           \A t \in Senders : calls[t] <= calls2[t], NEW got,
           StreamsOf(open, f, conn, calls), OrderOf(open, f, got), ResultsOf(got, calls)
    PROVE  StreamsOf(open, g, conn2, calls2) /\ OrderOf(open, g, got) /\ ResultsOf(got, calls2)
<1>1. \A x \in Message : x.n <= calls[x.from] => x.n <= calls2[x.from]
  <2>1. \A x \in Message : x.n \in Nat /\ x.from \in Senders
    BY Zenon DEF Message
  <2> QED
    BY <2>1, SMTT(30)
<1>2. ASSUME NEW k \in open
      PROVE  /\ Framed(g[k]) /\ Ordered(g[k])
             /\ \A x \in Message : Mentions(g[k], x) => Mentions(f[k], x)
  <2>1. Framed(f[k]) /\ Ordered(f[k])
    BY Zenon DEF StreamsOf
  <2>2. CASE f[k] = g[k]
    BY <2>1, <2>2, ZenonT(40)
  <2>3. ASSUME NEW u \in Seq(Byte), g[k] \in Seq(Byte), f[k] = g[k] \o u
        PROVE  /\ Framed(g[k]) /\ Ordered(g[k])
               /\ \A x \in Message : Mentions(g[k], x) => Mentions(f[k], x)
    BY <2>1, <2>3, Shortened, MentionsConcat, ZenonT(40)
  <2> QED
    BY <2>2, <2>3, Zenon
<1>3. StreamsOf(open, g, conn2, calls2)
  <2>1. \A t \in Senders : conn2[t] \in open => Closed(g[conn2[t]])
    BY Zenon DEF StreamsOf
  <2>2. ASSUME NEW k \in open, NEW x \in Message, Mentions(g[k], x)
        PROVE  /\ x.n <= calls2[x.from]
               /\ conn2[x.from] # None => k <= conn2[x.from]
               /\ \A t \in Senders : conn2[t] = k => x.from = t
    <3>1. /\ x.n <= calls[x.from]
          /\ conn[x.from] # None => k <= conn[x.from]
          /\ \A t \in Senders : conn[t] = k => x.from = t
      BY <1>2, <2>2, Zenon DEF StreamsOf
    <3>2. x.from \in Senders
      BY DEF Message
    <3> QED
      BY <1>1, <3>1, <3>2, Zenon
  <2> QED
    BY <1>2, <2>1, <2>2, Zenon DEF StreamsOf
<1>4. OrderOf(open, g, got)
  BY <1>2, Zenon DEF OrderOf
<1>5. ResultsOf(got, calls2)
  BY <1>1, Zenon DEF ResultsOf
<1> QED
  BY <1>3, <1>4, <1>5, ZenonT(40)


\* The first line m of the oldest connection is received.
Taking(open, f, g, cur, m) ==
    /\ cur \in open /\ \A k \in open : k = cur \/ cur < k
    /\ m \in Message /\ m.valid /\ Mentions(f[cur], m)
    /\ \A k \in open \ {cur} : g[k] = f[k]
    /\ Framed(g[cur]) /\ Ordered(g[cur]) /\ (Closed(f[cur]) => Closed(g[cur]))
    /\ \A x : Mentions(g[cur], x) => Mentions(f[cur], x) /\ x.from = m.from /\ m.n < x.n

LEMMA StreamTaken ==
    ASSUME NEW open, NEW f, NEW g, NEW cur, NEW m, Taking(open, f, g, cur, m),
           NEW got \in Seq(Seq(Byte)), NEW line \in Seq(Byte),
           line = Front(Line(m)), Head(line).of = m, Len(line) <= MaxMessage,
           NEW conn, NEW calls,
           StreamsOf(open, f, conn, calls), OrderOf(open, f, got), ResultsOf(got, calls)
    PROVE  /\ StreamsOf(open, g, conn, calls)
           /\ OrderOf(open, g, Append(got, line))
           /\ ResultsOf(Append(got, line), calls)
<1> DEFINE got2 == Append(got, line)
<1>a. /\ cur \in open /\ \A k \in open : k = cur \/ cur < k
      /\ m \in Message /\ m.valid /\ Mentions(f[cur], m)
      /\ \A k \in open \ {cur} : g[k] = f[k]
      /\ Framed(g[cur]) /\ Ordered(g[cur]) /\ (Closed(f[cur]) => Closed(g[cur]))
  BY Zenon DEF Taking
<1>b. \A x : Mentions(g[cur], x) => Mentions(f[cur], x) /\ x.from = m.from /\ m.n < x.n
  BY Zenon DEF Taking
<1> USE <1>a, <1>b
<1>1. ASSUME NEW k \in open
      PROVE  /\ Framed(g[k]) /\ Ordered(g[k]) /\ (Closed(f[k]) => Closed(g[k]))
             /\ \A x : Mentions(g[k], x) => Mentions(f[k], x)
  <2>1. CASE k = cur
    BY <2>1, Zenon
  <2>2. CASE k # cur
    BY <2>2, Zenon DEF StreamsOf
  <2> QED
    BY <2>1, <2>2, Zenon
<1>2. StreamsOf(open, g, conn, calls)
  BY <1>1, Zenon DEF StreamsOf
<1>3. /\ Len(got) \in Nat /\ Len(got2) = Len(got) + 1
      /\ \A i \in 1..Len(got) : got2[i] = got[i]
      /\ got2[Len(got) + 1] = line
  <2> HIDE <1>a, <1>b
  <2> QED BY Appended
<1> HIDE DEF got2
<1>4. ASSUME NEW i \in 1..Len(got2)
      PROVE  (i \in 1..Len(got) /\ Got(got2, i) = Got(got, i)) \/ (i = Len(got) + 1 /\ Got(got2, i) = m)
  <2>1. i \in 1..Len(got) \/ i = Len(got) + 1
    <3>1. Len(got) \in Nat /\ Len(got2) = Len(got) + 1
      BY <1>3, Zenon
    <3> HIDE <1>a, <1>b
    <3> QED BY <3>1
  <2> QED
    BY <1>3, <2>1, ZenonT(40) DEF Got
<1>5. ASSUME NEW k \in open, NEW x \in Message, Mentions(g[k], x), m.from = x.from
      PROVE  m.n < x.n
  <2>1. CASE k = cur
    BY <1>5, <2>1, Zenon
  <2>2. CASE k # cur
    BY <1>5, <2>2, Zenon DEF OrderOf
  <2> QED
    BY <2>1, <2>2, ZenonT(40)
<1>6. OrderOf(open, g, got2)
  <2>1. ASSUME NEW i \in 1..Len(got2), NEW k \in open, NEW x \in Message,
               Mentions(g[k], x), Got(got2, i).from = x.from
        PROVE  Got(got2, i).n < x.n
    <3>1. CASE i \in 1..Len(got) /\ Got(got2, i) = Got(got, i)
      <4>1. Mentions(f[k], x)
        BY <1>1, <2>1, Zenon
      <4> QED
        BY <2>1, <3>1, <4>1, Zenon DEF OrderOf
    <3>2. CASE Got(got2, i) = m
      BY <1>5, <2>1, <3>2, Zenon
    <3> QED
      BY <1>4, <3>1, <3>2, Zenon
  <2>2. \A k, l \in open : \A x, y \in Message :
            k < l /\ Mentions(g[k], x) /\ Mentions(g[l], y) /\ x.from = y.from => x.n < y.n
    BY <1>1, Zenon DEF OrderOf
  <2> QED
    BY <2>1, <2>2, Zenon DEF OrderOf
<1>7. ResultsOf(got2, calls)
  <2>1. m.n <= calls[m.from]
    BY Zenon DEF StreamsOf
  <2>2. ASSUME NEW i \in 1..Len(got2)
        PROVE  /\ Got(got2, i) \in Message /\ Got(got2, i).valid
               /\ Got(got2, i).n <= calls[Got(got2, i).from]
               /\ got2[i] = Front(Line(Got(got2, i)))
               /\ Len(got2[i]) <= MaxMessage
    <3>1. CASE i \in 1..Len(got) /\ Got(got2, i) = Got(got, i)
      BY <1>3, <3>1, Zenon DEF ResultsOf
    <3>2. CASE i = Len(got) + 1 /\ Got(got2, i) = m
      BY <1>3, <2>1, <3>2, Zenon
    <3> QED
      BY <1>4, <3>1, <3>2, Zenon
  <2>3. ASSUME NEW i \in 1..Len(got2), NEW j \in 1..Len(got2), i < j,
               Got(got2, i).from = Got(got2, j).from
        PROVE  Got(got2, i).n < Got(got2, j).n
    <3>1. i \in 1..Len(got) /\ Got(got2, i) = Got(got, i)
      <4>1. ~(i = Len(got) + 1)
        <5>1. Len(got) \in Nat /\ Len(got2) = Len(got) + 1
          BY <1>3, Zenon
        <5>2. i \in 1..Len(got2) /\ j \in 1..Len(got2) /\ i < j
          BY <2>3, Zenon
        <5> HIDE <1>a, <1>b
        <5> QED BY <5>1, <5>2
      <4> QED
        BY <1>4, <4>1, ZenonT(40)
    <3>2. CASE j \in 1..Len(got) /\ Got(got2, j) = Got(got, j)
      BY <2>3, <3>1, <3>2, Zenon DEF ResultsOf
    <3>3. CASE Got(got2, j) = m
      BY <2>3, <3>1, <3>3, Zenon DEF OrderOf
    <3> QED
      BY <1>4, <3>2, <3>3, Zenon
  <2> QED
    BY <2>2, <2>3, Zenon DEF ResultsOf
<1> QED
  BY <1>2, <1>6, <1>7, Zenon DEF got2

-----------------------------------------------------------------------------
(* The parts of a stream.                                                  *)

LEMMA RestIs ==
    ASSUME NEW conn, NEW rest \in [Senders -> Seq(Byte)], NEW k,
           \A s, t \in Senders : conn[s] = k /\ conn[t] = k => s = t
    PROVE  /\ RestOf(conn, rest, k) \in Seq(Byte)
           /\ \A s \in Senders : conn[s] = k => RestOf(conn, rest, k) = rest[s]
           /\ (\A s \in Senders : conn[s] # k) => RestOf(conn, rest, k) = <<>>
<1>1. CASE \E s \in Senders : conn[s] = k
  <2>1. PICK c : c = CHOOSE s \in Senders : conn[s] = k
    OBVIOUS
  <2>2. c \in Senders /\ conn[c] = k
    BY <1>1, <2>1
  <2>3. RestOf(conn, rest, k) = rest[c]
    BY <1>1, <2>1 DEF RestOf
  <2>4. \A s \in Senders : conn[s] = k => s = c
    BY <2>2
  <2> QED
    BY <2>2, <2>3, <2>4
<1>2. CASE \A s \in Senders : conn[s] # k
  BY <1>2, EmptySeq, Zenon DEF RestOf
<1> QED
  BY <1>1, <1>2

LEMMA RestOwned ==
    ASSUME NEW conn, NEW rest, NEW k, NEW s \in Senders, conn[s] = k,
           \A t \in Senders : conn[t] = k => t = s
    PROVE  RestOf(conn, rest, k) = rest[s]
<1>1. (CHOOSE t \in Senders : conn[t] = k) = s
  OBVIOUS
<1> QED
  BY <1>1 DEF RestOf

\* Two states with the same owner of k, or none.
LEMMA RestStays ==
    ASSUME NEW conn, NEW rest, NEW conn2, NEW rest2, NEW k,
           \A s \in Senders : (conn2[s] = k <=> conn[s] = k) /\ (conn[s] = k => rest2[s] = rest[s])
    PROVE  RestOf(conn2, rest2, k) = RestOf(conn, rest, k)
<1>1. (CHOOSE s \in Senders : conn2[s] = k) = (CHOOSE s \in Senders : conn[s] = k)
  OBVIOUS
<1>2. ASSUME \E s \in Senders : conn[s] = k
      PROVE  \E s \in Senders : s = (CHOOSE t \in Senders : conn[t] = k) /\ conn[s] = k
  BY <1>2
<1> QED
  BY <1>1, <1>2, Zenon DEF RestOf

LEMMA ConnsFacts == Base => /\ receiverOpen \subseteq Conns /\ Conns \subseteq Nat \ {0}
                            /\ None \notin receiverOpen
BY IpcAssumption DEF Base, TypeOK, Conns, None

LEMMA StreamIs ==
    ASSUME Base, NEW k \in Conns
    PROVE  /\ Stream[k] = ArrivedOf(current, buffer, pipe, k) \o RestOf(connection, unsent, k)
           /\ ArrivedOf(current, buffer, pipe, k) \in Seq(Byte)
           /\ RestOf(connection, unsent, k) \in Seq(Byte)
           /\ Stream[k] \in Seq(Byte)
<1>1. buffer \in Seq(Byte) /\ pipe[k] \in Seq(Byte) /\ unsent \in [Senders -> Seq(Byte)]
  BY DEF Base, TypeOK
<1>2. ArrivedOf(current, buffer, pipe, k) \in Seq(Byte)
  BY <1>1, ConcatProperties DEF ArrivedOf
<1>3. RestOf(connection, unsent, k) \in Seq(Byte)
  <2>1. \A s, t \in Senders : connection[s] = k /\ connection[t] = k => s = t
    BY IpcAssumption DEF Base, Owners, Conns, None
  <2> QED
    BY <1>1, <2>1, RestIs, Zenon
<1>4. Stream[k] = ArrivedOf(current, buffer, pipe, k) \o RestOf(connection, unsent, k)
  BY DEF Stream
<1> QED
  BY <1>2, <1>3, <1>4, ConcatProperties


Lines ==
    /\ StreamsOf(receiverOpen, Stream, connection, sends)
    /\ OrderOf(receiverOpen, Stream, received)
    /\ ResultsOf(received, sends)

LEMMA IInvParts == IInv <=> Base /\ Lines /\ Large /\ Kept
BY DEF IInv, Lines

LEMMA StreamIsPrimed ==
    ASSUME Base', NEW k \in Conns
    PROVE  /\ Stream'[k] = ArrivedOf(current', buffer', pipe', k) \o RestOf(connection', unsent', k)
           /\ ArrivedOf(current', buffer', pipe', k) \in Seq(Byte)
           /\ RestOf(connection', unsent', k) \in Seq(Byte)
           /\ Stream'[k] \in Seq(Byte)
<1>1. buffer' \in Seq(Byte) /\ pipe'[k] \in Seq(Byte) /\ unsent' \in [Senders -> Seq(Byte)]
  BY DEF Base, TypeOK
<1>2. ArrivedOf(current', buffer', pipe', k) \in Seq(Byte)
  BY <1>1, ConcatProperties DEF ArrivedOf
<1>3. RestOf(connection', unsent', k) \in Seq(Byte)
  <2>1. \A s, t \in Senders : connection'[s] = k /\ connection'[t] = k => s = t
    BY IpcAssumption DEF Base, Owners, Conns, None
  <2> QED
    BY <1>1, <2>1, RestIs, Zenon
<1>4. Stream'[k] = ArrivedOf(current', buffer', pipe', k) \o RestOf(connection', unsent', k)
  BY DEF Stream
<1> QED
  BY <1>2, <1>3, <1>4, ConcatProperties

\* A sender's new line.
LEMMA SendBeginsKeeps ==
    ASSUME IInv, NEW s \in Senders, NEW size \in Sizes, NEW valid \in BOOLEAN,
           SendBegins(s, size, valid)
    PROVE  IInv'
<1>1. Base /\ Lines /\ Large /\ Kept
  BY IInvParts
<1>2. PICK m : m = [from |-> s, n |-> sends[s] + 1, size |-> size, valid |-> valid]
  BY Zenon
<1>3. sends[s] \in Nat /\ sends \in [Senders -> Nat] /\ MaxSends \in Nat
  BY <1>1, IpcAssumption DEF Base, TypeOK
<1>4. m \in Message /\ m.from = s /\ m.n = sends[s] + 1
  BY <1>2, <1>3 DEF Message
<1>5. Line(m) \in Seq(Byte)
  BY <1>4, LineFacts, Zenon
<1>6. /\ unsent[s] = <<>> /\ sends[s] < MaxSends
      /\ sends' = [sends EXCEPT ![s] = @ + 1]
      /\ unsent' = [unsent EXCEPT ![s] = Line(m)]
      /\ UNCHANGED <<pipe, sent, current, buffer, received, tooLarge, failed>>
  BY <1>2 DEF SendBegins, receiverVars
<1>7. \/ /\ connection[s] # None
         /\ UNCHANGED <<dialed, senderOpen, receiverOpen, backlog, connection>>
      \/ /\ connection[s] = None
         /\ Len(backlog) < Backlog /\ dialed < MaxConns
         /\ dialed' = dialed + 1
         /\ senderOpen' = senderOpen \cup {dialed + 1}
         /\ receiverOpen' = receiverOpen \cup {dialed + 1}
         /\ backlog' = Append(backlog, dialed + 1)
         /\ connection' = [connection EXCEPT ![s] = dialed + 1]
  BY DEF SendBegins
<1>8. sends' \in [Senders -> 0..MaxSends] /\ unsent' \in [Senders -> Seq(Byte)]
  <2>1. sends \in [Senders -> 0..MaxSends] /\ unsent \in [Senders -> Seq(Byte)]
    BY <1>1 DEF Base, TypeOK
  <2>2. sends[s] + 1 \in 0..MaxSends
    BY <1>3, <1>6
  <2> QED
    BY <1>5, <1>6, <2>1, <2>2
<1>9. Base'
  <2>1. CASE connection[s] # None /\ UNCHANGED <<dialed, senderOpen, receiverOpen, backlog, connection>>
    <3>1. TypeOK'
      BY <1>1, <1>6, <1>8, <2>1, Zenon DEF Base, TypeOK
    <3>2. Queue'
      BY <1>1, <1>6, <2>1, Zenon DEF Base, Queue
    <3>3. Owners'
      BY <1>1, <1>6, <2>1 DEF Base, Owners, TypeOK
    <3> QED
      BY <3>1, <3>2, <3>3, Zenon DEF Base
  <2>2. CASE /\ connection[s] = None
             /\ Len(backlog) < Backlog /\ dialed < MaxConns
             /\ dialed' = dialed + 1
             /\ senderOpen' = senderOpen \cup {dialed + 1}
             /\ receiverOpen' = receiverOpen \cup {dialed + 1}
             /\ backlog' = Append(backlog, dialed + 1)
             /\ connection' = [connection EXCEPT ![s] = dialed + 1]
    <3>1. PICK c : c = dialed + 1
      BY Zenon
    <3>2. /\ dialed \in Nat /\ MaxConns \in Nat /\ c \in Conns /\ c \notin receiverOpen /\ c # None
          /\ receiverOpen \subseteq 1..dialed /\ backlog \in Seq(Nat)
          /\ \A k \in receiverOpen : k \in Nat /\ k < c
          /\ dialed' = c /\ receiverOpen' = receiverOpen \cup {c} /\ backlog' = Append(backlog, c)
          /\ connection' = [connection EXCEPT ![s] = c]
      <4>1. dialed \in 0..MaxConns /\ receiverOpen \subseteq 1..dialed /\ backlog \in Seq(Nat)
        BY <1>1, Zenon DEF Base, TypeOK
      <4>2. dialed < MaxConns /\ MaxConns \in Nat
        BY <2>2, IpcAssumption
      <4>3. dialed \in Nat /\ c \in Conns /\ c \notin receiverOpen /\ c # None
        BY <3>1, <4>1, <4>2 DEF Conns, None
      <4>4. \A k \in receiverOpen : k \in Nat /\ k < c
        BY <3>1, <4>1, <4>3
      <4>5. /\ dialed' = c /\ receiverOpen' = receiverOpen \cup {c} /\ backlog' = Append(backlog, c)
            /\ connection' = [connection EXCEPT ![s] = c]
        BY <2>2, <3>1, Zenon
      <4> QED BY <4>1, <4>2, <4>3, <4>4, <4>5, Zenon
    <3>3. connection \in [Senders -> 0..dialed] /\ \A t \in Senders : connection[t] # c
      BY <1>1, <3>1, <3>2 DEF Base, TypeOK
    <3>4. /\ Len(backlog) \in Nat /\ backlog' \in Seq(Nat) /\ Len(backlog') = Len(backlog) + 1
          /\ \A i \in 1..Len(backlog) : backlog'[i] = backlog[i]
          /\ backlog'[Len(backlog) + 1] = c
      <4>1. backlog \in Seq(Nat) /\ backlog' = Append(backlog, c) /\ c \in Conns
        BY <3>2, Zenon
      <4>2. Len(backlog) \in Nat
        BY <4>1, LenProperties, Zenon
      <4>3. c \in Nat
        BY <4>1 DEF Conns
      <4>4. backlog' \in Seq(Nat) /\ Len(backlog') = Len(backlog) + 1
        BY <4>1, <4>3, AppendProperties, Zenon
      <4>5. \A i \in 1..Len(backlog) : backlog'[i] = backlog[i]
        <5>1. \A i \in 1..Len(backlog) : Append(backlog, c)[i] = backlog[i]
          BY <4>1, <4>3, AppendProperties
        <5> QED BY <4>1, <5>1, Zenon
      <4>6. backlog'[Len(backlog) + 1] = c
        BY <4>1, <4>3, AppendProperties, Zenon
      <4> QED BY <4>2, <4>4, <4>5, <4>6, Zenon
    <3>5. TypeOK'
      <4>1. dialed' \in 0..MaxConns /\ receiverOpen' \subseteq 1..dialed' /\ connection' \in [Senders -> 0..dialed']
        BY <3>1, <3>2, <3>3 DEF Conns
      <4> QED
        BY <1>1, <1>6, <1>8, <3>4, <4>1, Zenon DEF Base, TypeOK
    <3>6. Queue'
      <4>1. current \in receiverOpen \cup {None} /\ current' = current /\ buffer' = buffer /\ pipe' = pipe
        BY <1>1, <1>6, Zenon DEF Base, Queue
      <4>2. ASSUME NEW i \in 1..Len(backlog')
            PROVE  i \in 1..Len(backlog) \/ i = Len(backlog) + 1
        BY <3>4
      <4>3. ASSUME NEW i \in 1..Len(backlog')
            PROVE  backlog'[i] \in receiverOpen' /\ (current # None => current < backlog'[i])
        BY <1>1, <3>2, <3>4, <4>1, <4>2 DEF Base, Queue
      <4>4. ASSUME NEW i \in 1..Len(backlog'), NEW j \in 1..Len(backlog'), i < j
            PROVE  backlog'[i] < backlog'[j]
        <5>1. i \in 1..Len(backlog)
          BY <3>4, <4>4
        <5>2. backlog[i] \in receiverOpen /\ backlog'[i] = backlog[i]
          BY <1>1, <3>4, <5>1, Zenon DEF Base, Queue
        <5>3. CASE j \in 1..Len(backlog)
          BY <1>1, <3>4, <4>4, <5>1, <5>2, <5>3, Zenon DEF Base, Queue
        <5>4. CASE j = Len(backlog) + 1
          BY <3>2, <3>4, <5>2, <5>4, Zenon
        <5> QED
          BY <4>2, <5>3, <5>4
      <4>5. ASSUME NEW k \in receiverOpen'
            PROVE  k = current \/ \E i \in 1..Len(backlog') : backlog'[i] = k
        <5>1. CASE k \in receiverOpen
          <6>1. k = current \/ \E i \in 1..Len(backlog) : backlog[i] = k
            BY <1>1, <5>1, Zenon DEF Base, Queue
          <6>2. \A i \in 1..Len(backlog) : i \in 1..Len(backlog') /\ backlog'[i] = backlog[i]
            BY <3>4
          <6> QED
            BY <6>1, <6>2, Zenon
        <5>2. CASE k = c
          <6>1. Len(backlog) + 1 \in 1..Len(backlog')
            BY <3>4
          <6> QED
            BY <3>4, <5>2, <6>1
        <5> QED
          BY <3>2, <5>1, <5>2, Zenon
      <4>6. current = None => buffer = <<>>
        BY <1>1, Zenon DEF Base, Queue
      <4>7. \A k \in Conns \ receiverOpen' : pipe[k] = <<>>
        BY <1>1, <3>2 DEF Base, Queue
      <4>8. current \in receiverOpen' \cup {None}
        BY <3>2, <4>1, Zenon
      <4> QED
        BY <4>1, <4>3, <4>4, <4>5, <4>6, <4>7, <4>8 DEF Queue
    <3>7. Owners'
      <4>1. \A t, u \in Senders : connection'[t] = connection'[u] /\ connection'[t] # None => t = u
        BY <1>1, <3>2, <3>3, Zenon DEF Base, Owners
      <4>2. \A t \in Senders : unsent'[t] # <<>> => connection'[t] # None
        BY <1>1, <1>6, <3>2, <3>3 DEF Base, Owners, TypeOK
      <4> QED
        BY <4>1, <4>2, Zenon DEF Owners
    <3> QED
      BY <3>5, <3>6, <3>7 DEF Base
  <2> QED
    BY <1>7, <2>1, <2>2
<1>10. PICK c : c = connection'[s]
  BY Zenon
<1>11. /\ c \in Nat /\ c # None /\ c \in Conns
       /\ connection \in [Senders -> Nat] /\ connection' \in [Senders -> Nat]
       /\ receiverOpen \subseteq Conns /\ receiverOpen' \subseteq Conns
       /\ \A t \in Senders \ {s} : connection'[t] = connection[t] /\ sends'[t] = sends[t] /\ unsent'[t] = unsent[t]
       /\ \A t \in Senders : connection'[t] = c => t = s
       /\ unsent'[s] = Line(m)
  <2>1. dialed \in 0..MaxConns /\ connection \in [Senders -> 0..dialed] /\ MaxConns \in Nat
    BY <1>1, IpcAssumption, Zenon DEF Base, TypeOK
  <2>2. dialed' \in 0..MaxConns /\ connection' \in [Senders -> 0..dialed']
    BY <1>9, IpcAssumption, Zenon DEF Base, TypeOK
  <2>3. c # None
    BY <1>7, <1>10, <2>1 DEF None
  <2>4. connection \in [Senders -> Nat] /\ connection' \in [Senders -> Nat] /\ c \in Conns /\ c \in Nat
    BY <1>10, <2>1, <2>2, <2>3 DEF Conns, None
  <2>5. receiverOpen \subseteq Conns /\ receiverOpen' \subseteq Conns
    BY <1>1, <1>9, <2>1, <2>2 DEF Base, TypeOK, Conns
  <2>6. \A t \in Senders \ {s} : connection'[t] = connection[t] /\ sends'[t] = sends[t] /\ unsent'[t] = unsent[t]
    BY <1>1, <1>6, <1>7, Zenon DEF Base, TypeOK
  <2>7. \A t \in Senders : connection'[t] = c => t = s
    BY <1>9, <1>10, <2>3, Zenon DEF Base, Owners
  <2>8. unsent'[s] = Line(m)
    BY <1>1, <1>6, Zenon DEF Base, TypeOK
  <2> QED
    BY <2>3, <2>4, <2>5, <2>6, <2>7, <2>8, Zenon
<1>12. \/ connection[s] = c /\ receiverOpen' = receiverOpen
       \/ /\ connection[s] = None /\ receiverOpen' = receiverOpen \cup {c}
          /\ c \notin receiverOpen /\ (\A k \in receiverOpen : k < c)
          /\ \A t \in Senders : connection[t] # c
  <2>1. dialed \in Nat /\ receiverOpen \subseteq 1..dialed /\ connection \in [Senders -> 0..dialed]
    BY <1>1 DEF Base, TypeOK
  <2>2. CASE connection[s] # None /\ UNCHANGED <<dialed, senderOpen, receiverOpen, backlog, connection>>
    BY <1>10, <2>2
  <2>3. CASE /\ connection[s] = None /\ receiverOpen' = receiverOpen \cup {dialed + 1}
             /\ connection' = [connection EXCEPT ![s] = dialed + 1]
    <3>1. c = dialed + 1
      BY <1>10, <2>1, <2>3, Zenon
    <3> QED
      BY <2>1, <2>3, <3>1
  <2> QED
    BY <1>7, <2>2, <2>3
<1>13. ASSUME NEW k \in Conns
       PROVE  Stream'[k] = IF k = c THEN Stream[k] \o Line(m) ELSE Stream[k]
  <2>1. PICK a : a = ArrivedOf(current, buffer, pipe, k)
    OBVIOUS
  <2>2. /\ a \in Seq(Byte) /\ Stream[k] = a \o RestOf(connection, unsent, k)
        /\ Stream'[k] = a \o RestOf(connection', unsent', k)
    BY <1>1, <1>6, <1>9, <2>1, StreamIs, StreamIsPrimed, Zenon
  <2>3. CASE k # c
    <3>1. k # None
      BY DEF Conns, None
    <3>2. \A t \in Senders : (connection'[t] = k <=> connection[t] = k) /\ (connection[t] = k => unsent'[t] = unsent[t])
      BY <1>10, <1>11, <1>12, <2>3, <3>1, Zenon
    <3>3. RestOf(connection', unsent', k) = RestOf(connection, unsent, k)
      BY <3>2, RestStays
    <3> QED
      BY <2>2, <2>3, <3>3
  <2>4. CASE k = c
    <3>1. RestOf(connection', unsent', c) = Line(m)
      <4>1. /\ \A t, u \in Senders : connection'[t] = c /\ connection'[u] = c => t = u
            /\ unsent' \in [Senders -> Seq(Byte)] /\ connection'[s] = c
        BY <1>8, <1>10, <1>11, Zenon
      <4>2. RestOf(connection', unsent', c) = unsent'[s]
        BY <4>1, RestIs
      <4> QED
        BY <1>11, <4>2, Zenon
    <3>2. RestOf(connection, unsent, c) = <<>>
      <4>1. \A t, u \in Senders : connection[t] = c /\ connection[u] = c => t = u
        BY <1>1, <1>11 DEF Base, Owners
      <4>2. unsent \in [Senders -> Seq(Byte)]
        BY <1>1, Zenon DEF Base, TypeOK
      <4>3. /\ \A t \in Senders : connection[t] = c => RestOf(connection, unsent, c) = unsent[t]
            /\ (\A t \in Senders : connection[t] # c) => RestOf(connection, unsent, c) = <<>>
        BY <4>1, <4>2, RestIs
      <4> QED
        BY <1>6, <1>12, <4>3, Zenon
    <3>3. Stream[k] = a
      BY <2>2, <2>4, <3>2, ConcatEmptySeq
    <3> QED
      BY <2>2, <2>4, <3>1, <3>3, Zenon
  <2> QED
    BY <2>3, <2>4
<1>14. c \notin receiverOpen /\ (\A t \in Senders : connection[t] # c) => Stream[c] = <<>>
  <2>1. SUFFICES ASSUME c \notin receiverOpen, \A t \in Senders : connection[t] # c
                 PROVE  Stream[c] = <<>>
    BY Zenon
  <2>2. pipe[c] = <<>> /\ c # current
    BY <1>1, <1>11, <2>1, Zenon DEF Base, Queue
  <2>3. RestOf(connection, unsent, c) = <<>>
    BY <2>1, Zenon DEF RestOf
  <2>4. Stream[c] = <<>> \o <<>>
    BY <1>1, <1>11, <2>2, <2>3, StreamIs, Zenon DEF ArrivedOf
  <2> QED
    BY <2>4
<1>15. Lines'
  <2>1. /\ receiverOpen \in SUBSET Nat /\ \A k \in receiverOpen : Stream[k] \in Seq(Byte)
    BY <1>1, <1>11, StreamIs DEF Conns
  <2>2. sends' \in [Senders -> Nat] /\ sends[s] < m.n /\ m.n <= sends'[s]
    BY <1>3, <1>4, <1>6
  <2>3. \A k \in receiverOpen' : Stream'[k] = IF k = c THEN Stream[k] \o Line(m) ELSE Stream[k]
    BY <1>11, <1>13, Zenon
  <2>4. \/ connection[s] = c /\ receiverOpen' = receiverOpen
        \/ /\ connection[s] = None /\ receiverOpen' = receiverOpen \cup {c}
           /\ Stream[c] = <<>> /\ \A k \in receiverOpen : k < c
    BY <1>12, <1>14
  <2>5. /\ StreamsOf(receiverOpen, Stream, connection, sends)
        /\ OrderOf(receiverOpen, Stream, received)
        /\ ResultsOf(received, sends)
    BY <1>1, Zenon DEF Lines
  <2>6. /\ StreamsOf(receiverOpen', Stream', connection', sends')
        /\ OrderOf(receiverOpen', Stream', received)
        /\ ResultsOf(received, sends')
    <3>1. /\ connection'[s] = c /\ c \in Nat /\ c # None
          /\ \A t \in Senders \ {s} : connection'[t] = connection[t] /\ sends'[t] = sends[t]
          /\ \A t \in Senders : connection'[t] = c => t = s
      BY <1>10, <1>11, Zenon
    <3>2. /\ connection \in [Senders -> Nat] /\ connection' \in [Senders -> Nat]
          /\ sends \in [Senders -> Nat]
      BY <1>3, <1>11
    <3>3. Extension(receiverOpen, Stream, connection, sends, receiverOpen', Stream', connection', sends', s, m, c)
      BY <1>4, <2>1, <2>2, <2>3, <2>4, <3>1, <3>2, Zenon DEF Extension
    <3> QED
      BY <2>5, <3>3, StreamExtends, Zenon
  <2> QED
    BY <1>6, <2>6, Zenon DEF Lines
<1>16. Large' /\ Kept'
  BY <1>1, <1>6, Zenon DEF Large, Kept
<1> QED
  BY <1>9, <1>15, <1>16, Zenon DEF IInv, Lines


\* Steps that leave what is to be read as it is.
LEMMA LinesStay ==
    ASSUME IInv, Base', receiverOpen' \subseteq receiverOpen,
           \A k \in receiverOpen' : Stream'[k] = Stream[k],
           connection' = connection, received' = received,
           \A s \in Senders : sends[s] <= sends'[s]
    PROVE  Lines'
<1>1. sends \in [Senders -> Nat] /\ sends' \in [Senders -> Nat]
  <2>1. sends \in [Senders -> 0..MaxSends] /\ sends' \in [Senders -> 0..MaxSends]
    BY Zenon DEF IInv, Base, TypeOK
  <2>2. 0..MaxSends \subseteq Nat
    BY IpcAssumption
  <2> QED BY <2>1, <2>2, Zenon
<1>2. /\ StreamsOf(receiverOpen, Stream, connection, sends)
      /\ OrderOf(receiverOpen, Stream, received)
      /\ ResultsOf(received, sends)
  BY Zenon DEF IInv
<1>3. /\ StreamsOf(receiverOpen', Stream', connection, sends')
      /\ OrderOf(receiverOpen', Stream', received)
      /\ ResultsOf(received, sends')
  BY <1>1, <1>2, StreamsStay, ZenonT(40)
<1> QED
  BY <1>3, Zenon DEF Lines

LEMMA SendRefusedKeeps ==
    ASSUME IInv, NEW s \in Senders, SendRefused(s)
    PROVE  IInv'
<1>1. /\ sends[s] < MaxSends /\ sends' = [sends EXCEPT ![s] = @ + 1]
      /\ UNCHANGED <<dialed, pipe, receiverOpen, backlog, connection, unsent, sent,
                     current, buffer, received, tooLarge, failed>>
  BY Zenon DEF SendRefused, receiverVars
<1>2. Base
  BY DEF IInv
<1>3. sends \in [Senders -> 0..MaxSends] /\ MaxSends \in Nat
  BY <1>2, IpcAssumption, Zenon DEF Base, TypeOK
<1>4. sends' \in [Senders -> 0..MaxSends] /\ \A t \in Senders : sends[t] <= sends'[t]
  BY <1>1, <1>3
<1>5. Base'
  BY <1>1, <1>2, <1>4, Zenon DEF Base, TypeOK, Queue, Owners
<1>6. Stream' = Stream
  BY <1>1 DEF Stream
<1>7. Lines'
  BY <1>1, <1>4, <1>5, <1>6, LinesStay, Zenon
<1>8. Large' /\ Kept'
  BY <1>1, Zenon DEF IInv, Large, Kept
<1> QED
  BY <1>5, <1>7, <1>8, Zenon DEF IInv, Lines

\* Bytes of the owner's line go into the pipe.
LEMMA SendSomeKeeps ==
    ASSUME IInv, NEW s \in Senders, NEW n \in Nat, SendSome(s, n)
    PROVE  IInv'
<1>1. Base /\ Large /\ Kept
  BY DEF IInv
<1>2. PICK c, u, v, w : /\ c = connection[s] /\ u = unsent[s]
                        /\ v = SubSeq(u, 1, n) /\ w = SubSeq(u, n + 1, Len(u))
  BY Zenon
<1>3. /\ n \in 1..Len(u) /\ c \in receiverOpen
      /\ pipe' = [pipe EXCEPT ![c] = @ \o v]
      /\ unsent' = [unsent EXCEPT ![s] = w]
      /\ sent' = sent \cup {[message |-> Head(u).of, on |-> c]}
      /\ UNCHANGED <<dialed, senderOpen, receiverOpen, backlog, connection, sends,
                     current, buffer, received, tooLarge, failed>>
  BY <1>2, Zenon DEF SendSome, receiverVars
<1>4. /\ u \in Seq(Byte) /\ c \in Conns /\ pipe[c] \in Seq(Byte) /\ c # None
      /\ pipe \in [Conns -> Seq(Byte)] /\ unsent \in [Senders -> Seq(Byte)] /\ buffer \in Seq(Byte)
  BY <1>1, <1>2, <1>3, ConnsFacts, Zenon DEF Base, TypeOK
<1>5. v \in Seq(Byte) /\ w \in Seq(Byte) /\ v \o w = u /\ Len(v) = n /\ \A i \in 1..n : v[i] = u[i]
  <2>1. n \in 0..Len(u)
    BY <1>3
  <2> QED
    BY <1>2, <1>4, <2>1, Cut, Zenon
<1>6. Head(u).of \in Message /\ Mentions(v, Head(u).of)
  <2>1. 1 \in 1..Len(u) /\ 1 \in 1..n
    BY <1>3, <1>4, ByteFacts
  <2>2. Head(u) = u[1] /\ u[1].of \in Message
    BY <1>4, <2>1, ByteFacts
  <2> QED
    BY <1>5, <2>1, <2>2 DEF Mentions
<1>7. /\ pipe' \in [Conns -> Seq(Byte)] /\ pipe'[c] = pipe[c] \o v
      /\ \A k \in Conns \ {c} : pipe'[k] = pipe[k]
      /\ unsent' \in [Senders -> Seq(Byte)] /\ unsent'[s] = w
      /\ \A t \in Senders \ {s} : unsent'[t] = unsent[t]
  BY <1>3, <1>4, <1>5, ConcatProperties, Zenon
<1>8. Base'
  <2>1. sent' \subseteq [message : Message, on : Conns]
    BY <1>1, <1>3, <1>4, <1>6 DEF Base, TypeOK
  <2>2. TypeOK'
    BY <1>1, <1>3, <1>7, <2>1, Zenon DEF Base, TypeOK
  <2>3. Queue'
    BY <1>1, <1>3, <1>7, ZenonT(40) DEF Base, Queue
  <2>4. Owners'
    BY <1>1, <1>2, <1>3, <1>4, <1>7, ZenonT(40) DEF Base, Owners
  <2> QED
    BY <2>2, <2>3, <2>4 DEF Base
<1>9. ASSUME NEW k \in Conns
      PROVE  Stream'[k] = Stream[k]
  <2>1. PICK a : a = ArrivedOf(current, buffer, pipe, k)
    OBVIOUS
  <2>2. /\ a \in Seq(Byte) /\ Stream[k] = a \o RestOf(connection, unsent, k)
        /\ Stream'[k] = ArrivedOf(current, buffer, pipe', k) \o RestOf(connection, unsent', k)
    BY <1>1, <1>3, <1>8, <2>1, StreamIs, StreamIsPrimed, Zenon
  <2>3. CASE k # c
    <3>1. \A t \in Senders : connection[t] = k => unsent'[t] = unsent[t]
      BY <1>2, <1>7, <2>3, Zenon
    <3>2. RestOf(connection, unsent', k) = RestOf(connection, unsent, k)
      BY <3>1, RestStays
    <3>3. ArrivedOf(current, buffer, pipe', k) = a
      BY <1>7, <2>1, <2>3, Zenon DEF ArrivedOf
    <3> QED
      BY <2>2, <3>2, <3>3, Zenon
  <2>4. CASE k = c
    <3>1. connection[s] = c /\ \A t \in Senders : connection[t] = c => t = s
      BY <1>1, <1>2, <1>4, Zenon DEF Base, Owners
    <3>2. RestOf(connection, unsent, c) = u
      <4>1. RestOf(connection, unsent, c) = unsent[s]
        BY <3>1, RestOwned
      <4> QED
        BY <1>2, <4>1, Zenon
    <3>3. RestOf(connection, unsent', c) = w
      <4>1. RestOf(connection, unsent', c) = unsent'[s]
        BY <3>1, RestOwned
      <4> QED
        BY <1>7, <4>1, Zenon
    <3>4. ArrivedOf(current, buffer, pipe', c) = a \o v
      <4>1. CASE c = current
        <5>1. a = buffer \o pipe[c] /\ ArrivedOf(current, buffer, pipe', c) = buffer \o (pipe[c] \o v)
          BY <1>7, <2>1, <2>4, <4>1, Zenon DEF ArrivedOf
        <5> QED
          BY <1>4, <1>5, <5>1, Associative, ZenonT(40)
      <4>2. CASE c # current
        BY <1>7, <2>1, <2>4, <4>2 DEF ArrivedOf
      <4> QED
        BY <4>1, <4>2
    <3>5. (a \o v) \o w = a \o (v \o w)
      BY <1>5, <2>2, Associative, Zenon
    <3> QED
      BY <1>5, <2>2, <2>4, <3>2, <3>3, <3>4, <3>5, Zenon
  <2> QED
    BY <2>3, <2>4
<1>10. Lines'
  <2>1. \A t \in Senders : sends[t] <= sends'[t]
    BY <1>1, <1>3 DEF Base, TypeOK
  <2>2. receiverOpen' = receiverOpen /\ receiverOpen \subseteq Conns
    BY <1>1, <1>3, ConnsFacts, Zenon
  <2> QED
    BY <1>3, <1>8, <1>9, <2>1, <2>2, LinesStay, Zenon
<1>11. Kept'
  <2>1. ASSUME NEW k \in Conns, NEW x, Mentions(pipe[k], x)
        PROVE  Mentions(pipe'[k], x)
    BY <1>4, <1>5, <1>7, <2>1, MentionsConcat, Zenon
  <2>2. SUFFICES ASSUME NEW x \in sent'
                 PROVE  \/ x.on \in failed
                        \/ \E i \in 1..Len(received) : Got(received, i) = x.message
                        \/ Mentions(pipe'[x.on], x.message)
                        \/ x.on = current /\ Mentions(buffer, x.message)
    BY <1>3, Zenon DEF Kept
  <2>3. CASE x \in sent
    <3>1. x.on \in Conns
      BY <1>1, <2>3 DEF Base, TypeOK
    <3> QED
      BY <1>1, <2>1, <2>3, <3>1 DEF Kept
  <2>4. CASE x = [message |-> Head(u).of, on |-> c]
    <3>1. x.message = Head(u).of /\ x.on = c
      BY <2>4, Zenon
    <3>2. Mentions(pipe[c] \o v, Head(u).of)
      BY <1>4, <1>5, <1>6, MentionsConcat, Zenon
    <3> QED
      BY <1>7, <3>1, <3>2, Zenon
  <2> QED
    BY <1>3, <2>2, <2>3, <2>4, Zenon
<1>12. Large'
  BY <1>1, <1>3, Zenon DEF Large
<1> QED
  BY <1>8, <1>10, <1>11, <1>12 DEF IInv, Lines

\* A sender gives up its connection, with what is left of its line.
SenderCloses(s) ==
    /\ connection[s] # None
    /\ unsent' = [unsent EXCEPT ![s] = <<>>] /\ connection' = [connection EXCEPT ![s] = None]
    /\ sends' = sends \/ sends' = [sends EXCEPT ![s] = MaxSends]
    /\ UNCHANGED <<dialed, pipe, receiverOpen, backlog, sent, current, buffer, received,
                   tooLarge, failed>>

LEMMA SenderClosesKeeps ==
    ASSUME IInv, NEW s \in Senders, SenderCloses(s)
    PROVE  IInv'
<1>1. Base /\ Lines /\ Large /\ Kept
  BY IInvParts, Zenon
<1>2. /\ sends \in [Senders -> 0..MaxSends] /\ MaxSends \in Nat
      /\ connection \in [Senders -> 0..dialed] /\ dialed \in Nat
      /\ unsent \in [Senders -> Seq(Byte)]
  BY <1>1, IpcAssumption DEF Base, TypeOK
<1>3. /\ sends' \in [Senders -> 0..MaxSends] /\ \A t \in Senders : sends[t] <= sends'[t]
      /\ sends \in [Senders -> Nat] /\ sends' \in [Senders -> Nat]
  <2>1. CASE sends' = sends
    BY <1>2, <2>1
  <2>2. CASE sends' = [sends EXCEPT ![s] = MaxSends]
    <3>1. \A t \in Senders : sends[t] \in Nat /\ sends[t] <= MaxSends
      BY <1>2
    <3>2. \A t \in Senders : sends'[t] = IF t = s THEN MaxSends ELSE sends[t]
      BY <1>2, <2>2
    <3>3. sends' \in [Senders -> 0..MaxSends]
      BY <1>2, <2>2
    <3>4. ASSUME NEW t \in Senders
          PROVE  sends[t] <= sends'[t]
      <4>1. CASE t = s
        BY <3>1, <3>2, <4>1, Zenon
      <4>2. CASE t # s
        <5>1. sends'[t] = sends[t] /\ sends[t] \in Nat
          BY <3>1, <3>2, <4>2
        <5> QED
          BY <5>1
      <4> QED
        BY <4>1, <4>2, Zenon
    <3>5. \A h \in [Senders -> 0..MaxSends] : h \in [Senders -> Nat]
      BY <1>2
    <3>6. sends \in [Senders -> Nat] /\ sends' \in [Senders -> Nat]
      BY <1>2, <3>3, <3>5, Zenon
    <3> QED
      BY <3>3, <3>4, <3>6, Zenon
  <2> QED
    BY <2>1, <2>2 DEF SenderCloses
<1>4. /\ connection' \in [Senders -> 0..dialed] /\ connection'[s] = None
      /\ unsent' \in [Senders -> Seq(Byte)] /\ unsent'[s] = <<>>
      /\ \A t \in Senders \ {s} : connection'[t] = connection[t] /\ unsent'[t] = unsent[t]
  BY <1>2, EmptySeq DEF None, SenderCloses
<1>x. /\ connection[s] # None
      /\ UNCHANGED <<dialed, pipe, receiverOpen, backlog, sent, current, buffer, received,
                     tooLarge, failed>>
  BY DEF SenderCloses
<1>5. Base'
  <2>1. TypeOK'
    BY <1>1, <1>3, <1>4, <1>x, Zenon DEF Base, TypeOK
  <2>2. Queue'
    BY <1>1, <1>x, Zenon DEF Base, Queue
  <2>3. Owners'
    BY <1>1, <1>4, Zenon DEF Base, Owners
  <2> QED
    BY <2>1, <2>2, <2>3, Zenon DEF Base
<1>6. \A t \in Senders \ {s} : connection[t] # connection[s]
  BY <1>1, <1>x, Zenon DEF Base, Owners
<1>7. ASSUME NEW k \in Conns
      PROVE  /\ k # connection[s] => Stream'[k] = Stream[k]
             /\ \E r \in Seq(Byte) : Stream'[k] \in Seq(Byte) /\ Stream[k] = Stream'[k] \o r
  <2>1. PICK a, r : a = ArrivedOf(current, buffer, pipe, k) /\ r = RestOf(connection, unsent, k)
    OBVIOUS
  <2>2. /\ a \in Seq(Byte) /\ r \in Seq(Byte) /\ Stream[k] = a \o r /\ Stream[k] \in Seq(Byte)
        /\ Stream'[k] = a \o RestOf(connection', unsent', k)
    BY <1>1, <1>5, <1>x, <2>1, StreamIs, StreamIsPrimed, Zenon
  <2>3. k # None
    BY DEF Conns, None
  <2>4. CASE k # connection[s]
    <3>1. \A t \in Senders : (connection'[t] = k <=> connection[t] = k) /\ (connection[t] = k => unsent'[t] = unsent[t])
      BY <1>4, <2>3, <2>4
    <3>2. RestOf(connection', unsent', k) = RestOf(connection, unsent, k)
      BY <3>1, RestStays
    <3>3. Stream'[k] = Stream[k]
      BY <2>1, <2>2, <3>2, Zenon
    <3>4. <<>> \in Seq(Byte) /\ Stream[k] = Stream[k] \o <<>>
      BY <2>2, EmptySeq, ConcatEmptySeq, Zenon
    <3> QED
      BY <2>2, <3>3, <3>4, Zenon
  <2>5. CASE k = connection[s]
    <3>1. \A t \in Senders : connection'[t] # k
      BY <1>4, <1>6, <2>3, <2>5, Zenon
    <3>2. RestOf(connection', unsent', k) = <<>>
      BY <3>1, Zenon DEF RestOf
    <3>3. Stream'[k] = a
      BY <2>2, <3>2, ConcatEmptySeq, Zenon
    <3> QED
      BY <2>2, <2>5, <3>3, Zenon
  <2> QED
    BY <2>4, <2>5
<1>8. Lines'
  <2>1. receiverOpen \subseteq Conns /\ None \notin receiverOpen
    BY <1>1, ConnsFacts
  <2>2. /\ StreamsOf(receiverOpen, Stream, connection, sends)
        /\ OrderOf(receiverOpen, Stream, received)
        /\ ResultsOf(received, sends)
    BY <1>1, Zenon DEF Lines
  <2>3. \A t \in Senders \ {s} : connection'[t] = connection[t] /\
            (connection[t] \in receiverOpen => Stream'[connection[t]] = Stream[connection[t]])
    BY <1>4, <1>6, <1>7, <2>1, Zenon
  <2>4. \A k \in receiverOpen :
            Stream[k] = Stream'[k] \/ \E r \in Seq(Byte) : Stream'[k] \in Seq(Byte) /\ Stream[k] = Stream'[k] \o r
    BY <1>7, <2>1, Zenon
  <2>5. /\ StreamsOf(receiverOpen, Stream', connection', sends')
        /\ OrderOf(receiverOpen, Stream', received)
        /\ ResultsOf(received, sends')
    BY <1>3, <1>4, <2>1, <2>2, <2>3, <2>4, StreamCloses, ZenonT(40)
  <2> QED
    BY <1>x, <2>5 DEF Lines
<1>9. Large' /\ Kept'
  BY <1>1, <1>x, Zenon DEF Large, Kept
<1> QED
  BY <1>5, <1>8, <1>9 DEF IInv, Lines


-----------------------------------------------------------------------------
(* The receiver.                                                           *)

LEMMA AcceptKeeps ==
    ASSUME IInv, Accept
    PROVE  IInv'
<1>1. Base /\ Large /\ Kept
  BY DEF IInv
<1>2. /\ current = None /\ backlog # <<>> /\ current' = Head(backlog) /\ backlog' = Tail(backlog)
      /\ UNCHANGED <<dialed, pipe, receiverOpen, connection, sends, unsent, sent, buffer,
                     received, tooLarge, failed>>
  BY Zenon DEF Accept, senderVars
<1>3. /\ backlog \in Seq(Nat) /\ Len(backlog) \in Nat \ {0} /\ Head(backlog) = backlog[1]
      /\ backlog' \in Seq(Nat) /\ Len(backlog') = Len(backlog) - 1
      /\ \A i \in 1..Len(backlog') : backlog'[i] = backlog[i + 1]
  <2>1. backlog \in Seq(Nat)
    BY <1>1, Zenon DEF Base, TypeOK
  <2> QED
    BY <1>2, <2>1, HeadTailProperties, EmptySeq
<1>4. buffer = <<>> /\ buffer' = <<>> /\ receiverOpen \subseteq Conns /\ None \notin receiverOpen
  BY <1>1, <1>2, ConnsFacts, Zenon DEF Base, Queue
<1>5. current' \in receiverOpen /\ current' # None /\ current' = backlog[1]
  <2>1. 1 \in 1..Len(backlog)
    BY <1>3
  <2> QED
    BY <1>1, <1>2, <1>3, <1>4, <2>1, ZenonT(40) DEF Base, Queue
<1>6. Base'
  <2>1. TypeOK'
    BY <1>1, <1>2, <1>3, Zenon DEF Base, TypeOK
  <2>2. Owners'
    BY <1>1, <1>2, Zenon DEF Base, Owners
  <2>3. Queue'
    <3>1. ASSUME NEW i \in 1..Len(backlog')
          PROVE  1 \in 1..Len(backlog) /\ 1 < i + 1 /\ i + 1 \in 1..Len(backlog)
      BY <1>3
    <3>2. \A i \in 1..Len(backlog') : backlog'[i] \in receiverOpen' /\ current' < backlog'[i]
      BY <1>1, <1>2, <1>3, <1>5, <3>1, ZenonT(40) DEF Base, Queue
    <3>3. ASSUME NEW i \in 1..Len(backlog'), NEW j \in 1..Len(backlog'), i < j
          PROVE  backlog'[i] < backlog'[j]
      <4>1. i + 1 < j + 1
        BY <1>3, <3>3
      <4> QED
        BY <1>1, <1>3, <3>1, <4>1, Zenon DEF Base, Queue
    <3>4. ASSUME NEW k \in receiverOpen'
          PROVE  k = current' \/ \E i \in 1..Len(backlog') : backlog'[i] = k
      <4>1. PICK i \in 1..Len(backlog) : backlog[i] = k
        BY <1>1, <1>2, <1>4, Zenon DEF Base, Queue
      <4>2. CASE i = 1
        BY <1>5, <4>1, <4>2, Zenon
      <4>3. CASE i # 1
        <5>1. PICK j : j = i - 1
          OBVIOUS
        <5>2. j \in 1..Len(backlog') /\ j + 1 = i
          BY <1>3, <4>3, <5>1, SMTT(30)
        <5> QED
          BY <1>3, <4>1, <5>2, Zenon
      <4> QED
        BY <4>2, <4>3
    <3>5. \A k \in Conns \ receiverOpen' : pipe'[k] = <<>>
      BY <1>1, <1>2, Zenon DEF Base, Queue
    <3> QED
      BY <1>2, <1>4, <1>5, <3>2, <3>3, <3>4, <3>5 DEF Queue
  <2> QED
    BY <2>1, <2>2, <2>3, Zenon DEF Base
<1>7. ASSUME NEW k \in Conns
      PROVE  Stream'[k] = Stream[k]
  <2>1. pipe[k] \in Seq(Byte) /\ k # None
    BY <1>1, ConnsFacts DEF Base, TypeOK, None
  <2>2. <<>> \o pipe[k] = pipe[k]
    BY <2>1, ConcatEmptySeq, Zenon
  <2>3. ArrivedOf(current', buffer', pipe', k) = ArrivedOf(current, buffer, pipe, k)
    BY <1>2, <1>4, <2>1, <2>2, Zenon DEF ArrivedOf
  <2> QED
    BY <1>1, <1>2, <1>6, <2>3, StreamIs, StreamIsPrimed, Zenon
<1>8. Lines'
  <2>1. \A t \in Senders : sends[t] <= sends'[t]
    BY <1>1, <1>2 DEF Base, TypeOK
  <2> QED
    BY <1>2, <1>4, <1>6, <1>7, <2>1, LinesStay, Zenon
<1>9. Large'
  BY <1>1, <1>2, Zenon DEF Large
<1>10. Kept'
  <2>1. \A x : ~Mentions(buffer, x)
    BY <1>4, EmptyStream
  <2> QED
    BY <1>1, <1>2, <2>1, Zenon DEF Kept
<1> QED
  BY <1>6, <1>8, <1>9, <1>10, Zenon DEF IInv, Lines

LEMMA RecvKeeps ==
    ASSUME IInv, Recv
    PROVE  IInv'
<1>1. Base /\ Large /\ Kept
  BY DEF IInv
<1>2. PICK c, p, n, v, w : /\ c = current /\ p = pipe[c]
                           /\ n = (IF Len(p) < RecvMax THEN Len(p) ELSE RecvMax)
                           /\ v = SubSeq(p, 1, n) /\ w = SubSeq(p, n + 1, Len(p))
  BY Zenon
<1>3. /\ current # None /\ buffer' = buffer \o v /\ pipe' = [pipe EXCEPT ![c] = w]
      /\ UNCHANGED <<dialed, receiverOpen, backlog, connection, sends, unsent, sent, current,
                     received, tooLarge, failed>>
  BY <1>2, Zenon DEF Recv, senderVars
<1>4. /\ c \in receiverOpen /\ receiverOpen \subseteq Conns /\ c # None /\ c \in Conns
      /\ pipe \in [Conns -> Seq(Byte)] /\ p \in Seq(Byte) /\ buffer \in Seq(Byte)
  BY <1>1, <1>2, <1>3, ConnsFacts, Zenon DEF Base, Queue, TypeOK
<1>5. v \in Seq(Byte) /\ w \in Seq(Byte) /\ v \o w = p
  <2>1. n \in 0..Len(p)
    BY <1>2, <1>4, ByteFacts, IpcAssumption
  <2> QED
    BY <1>2, <1>4, <2>1, Cut, Zenon
<1>6. /\ buffer' \in Seq(Byte) /\ pipe' \in [Conns -> Seq(Byte)] /\ pipe'[c] = w
      /\ \A k \in Conns \ {c} : pipe'[k] = pipe[k]
  BY <1>3, <1>4, <1>5, ConcatProperties, Zenon
<1>7. Base'
  <2>1. TypeOK'
    BY <1>1, <1>3, <1>6, Zenon DEF Base, TypeOK
  <2>2. Queue'
    BY <1>1, <1>3, <1>4, <1>6, Zenon DEF Base, Queue
  <2>3. Owners'
    BY <1>1, <1>3 DEF Base, Owners
  <2> QED
    BY <2>1, <2>2, <2>3, Zenon DEF Base
<1>8. ASSUME NEW k \in Conns
      PROVE  Stream'[k] = Stream[k]
  <2>1. ArrivedOf(current', buffer', pipe', k) = ArrivedOf(current, buffer, pipe, k)
    <3>1. CASE k # c
      BY <1>2, <1>3, <1>6, <3>1, Zenon DEF ArrivedOf
    <3>2. CASE k = c
      <4>1. (buffer \o v) \o w = buffer \o (v \o w)
        BY <1>4, <1>5, Associative, Zenon
      <4>2. ArrivedOf(current', buffer', pipe', k) = (buffer \o v) \o w
        BY <1>2, <1>3, <1>6, <3>2, Zenon DEF ArrivedOf
      <4>3. ArrivedOf(current, buffer, pipe, k) = buffer \o p
        BY <1>2, <3>2, SMTT(30) DEF ArrivedOf
      <4> QED
        BY <1>5, <4>1, <4>2, <4>3
    <3> QED
      BY <3>1, <3>2, Zenon
  <2> QED
    BY <1>1, <1>3, <1>7, <2>1, StreamIs, StreamIsPrimed, Zenon
<1>9. Lines'
  <2>1. \A t \in Senders : sends[t] <= sends'[t]
    BY <1>1, <1>3 DEF Base, TypeOK
  <2> QED
    BY <1>3, <1>4, <1>7, <1>8, <2>1, LinesStay, Zenon
<1>10. Large'
  BY <1>1, <1>3, ZenonT(40) DEF Large
<1>11. Kept'
  <2>1. \A x : Mentions(buffer, x) \/ Mentions(v, x) => Mentions(buffer \o v, x)
    BY <1>4, <1>5, MentionsConcat
  <2>2. \A x : Mentions(buffer, x) \/ Mentions(v, x) => Mentions(buffer', x)
    BY <1>3, <2>1, Zenon
  <2>3. \A x : Mentions(p, x) => Mentions(v, x) \/ Mentions(w, x)
    BY <1>5, MentionsConcat, Zenon
  <2>4. SUFFICES ASSUME NEW x \in sent
                 PROVE  \/ x.on \in failed
                        \/ \E i \in 1..Len(received) : Got(received, i) = x.message
                        \/ Mentions(pipe'[x.on], x.message)
                        \/ x.on = current /\ Mentions(buffer', x.message)
    BY <1>3, Zenon DEF Kept
  <2>5. x.on \in Conns
    BY <1>1 DEF Base, TypeOK
  <2>6. \/ x.on \in failed
        \/ \E i \in 1..Len(received) : Got(received, i) = x.message
        \/ Mentions(pipe[x.on], x.message)
        \/ x.on = current /\ Mentions(buffer, x.message)
    BY <1>1 DEF Kept
  <2>7. CASE Mentions(pipe[x.on], x.message)
    <3>1. CASE x.on # c
      BY <1>6, <2>5, <2>7, <3>1, Zenon
    <3>2. CASE x.on = c
      BY <1>2, <1>6, <2>2, <2>3, <2>7, <3>2, Zenon
    <3> QED
      BY <3>1, <3>2, Zenon
  <2> QED
    BY <2>2, <2>6, <2>7, Zenon
<1> QED
  BY <1>7, <1>9, <1>10, <1>11 DEF IInv, Lines

\* The receiver closes its connection: at the end of the stream, or by an error
\* that it reports.
Disconnects ==
    /\ current # None /\ Disconnect
    /\ UNCHANGED <<dialed, backlog, connection, sends, unsent, sent, received>>
    /\ \/ failed' = failed \cup {current}
       \/ failed' = failed /\ buffer = <<>> /\ pipe[current] = <<>>

LEMMA DisconnectKeeps ==
    ASSUME IInv, Disconnects
    PROVE  Base' /\ Lines' /\ Kept'
<1>1. Base /\ Kept
  BY DEF IInv
<1>2. /\ current # None /\ receiverOpen' = receiverOpen \ {current}
      /\ pipe' = [k \in Conns |-> IF k = current THEN <<>> ELSE pipe[k]]
      /\ current' = None /\ buffer' = <<>>
      /\ UNCHANGED <<dialed, backlog, connection, sends, unsent, sent, received>>
  BY DEF Disconnects, Disconnect
<1>3. /\ current \in receiverOpen /\ receiverOpen \subseteq Conns /\ Conns \subseteq Nat \ {0}
      /\ None \notin receiverOpen /\ pipe \in [Conns -> Seq(Byte)] /\ current \in Nat
  BY <1>1, <1>2, ConnsFacts, Zenon DEF Base, Queue, TypeOK
<1>4. /\ pipe' \in [Conns -> Seq(Byte)] /\ pipe'[current] = <<>>
      /\ \A k \in Conns \ {current} : pipe'[k] = pipe[k]
  BY <1>2, <1>3, EmptySeq
<1>5. Base'
  <2>1. TypeOK'
    BY <1>1, <1>2, <1>4, EmptySeq, Zenon DEF Base, TypeOK
  <2>2. Queue'
    <3>1. \A i \in 1..Len(backlog) : backlog[i] \in receiverOpen /\ current < backlog[i]
      BY <1>1, <1>2, Zenon DEF Base, Queue
    <3>2. \A i \in 1..Len(backlog) : backlog[i] \in receiverOpen'
      <4>1. \A k \in Nat : ~(k < k)
        OBVIOUS
      <4> QED
        BY <1>2, <1>3, <3>1, <4>1
    <3>3. \A k \in receiverOpen' : \E i \in 1..Len(backlog) : backlog[i] = k
      BY <1>1, <1>2, Zenon DEF Base, Queue
    <3>4. \A k \in Conns \ receiverOpen' : pipe'[k] = <<>>
      BY <1>1, <1>2, <1>4, Zenon DEF Base, Queue
    <3>5. \A i, j \in 1..Len(backlog) : i < j => backlog[i] < backlog[j]
      BY <1>1, Zenon DEF Base, Queue
    <3> QED
      BY <1>2, <3>2, <3>3, <3>4, <3>5, Zenon DEF Queue
  <2>3. Owners'
    BY <1>1, <1>2, Zenon DEF Base, Owners
  <2> QED
    BY <2>1, <2>2, <2>3, Zenon DEF Base
<1>6. ASSUME NEW k \in receiverOpen'
      PROVE  Stream'[k] = Stream[k]
  <2>1. k \in Conns /\ k # current /\ k # None
    BY <1>2, <1>3, Zenon
  <2>2. ArrivedOf(current', buffer', pipe', k) = ArrivedOf(current, buffer, pipe, k)
    BY <1>2, <1>4, <2>1, SMTT(30) DEF ArrivedOf
  <2> QED
    BY <1>1, <1>2, <1>5, <2>1, <2>2, StreamIs, StreamIsPrimed, Zenon
<1>7. Lines'
  <2>1. \A t \in Senders : sends[t] <= sends'[t]
    BY <1>1, <1>2 DEF Base, TypeOK
  <2>2. receiverOpen' \subseteq receiverOpen
    BY <1>2, Zenon
  <2> QED
    BY <1>2, <1>5, <1>6, <2>1, <2>2, LinesStay, Zenon
<1>8. Kept'
  <2>1. SUFFICES ASSUME NEW x \in sent
                 PROVE  \/ x.on \in failed'
                        \/ \E i \in 1..Len(received) : Got(received, i) = x.message
                        \/ Mentions(pipe'[x.on], x.message)
    BY <1>2 DEF Kept
  <2>2. x.on \in Conns
    BY <1>1, Zenon DEF Base, TypeOK
  <2>3. \/ x.on \in failed
        \/ \E i \in 1..Len(received) : Got(received, i) = x.message
        \/ Mentions(pipe[x.on], x.message)
        \/ x.on = current /\ Mentions(buffer, x.message)
    BY <1>1, Zenon DEF Kept
  <2>4. /\ failed \subseteq failed'
        /\ current \in failed' \/ (buffer = <<>> /\ pipe[current] = <<>>)
    BY Zenon DEF Disconnects
  <2>5. CASE x.on # current
    BY <1>4, <2>2, <2>3, <2>4, <2>5, Zenon
  <2>6. CASE x.on = current
    BY <2>3, <2>4, <2>6, EmptyStream, Zenon
  <2> QED
    BY <2>5, <2>6, Zenon
<1> QED
  BY <1>5, <1>7, <1>8


\* The stream of the current connection begins with the buffer.
LEMMA CurrentStream ==
    ASSUME Base, current # None
    PROVE  LET u == pipe[current] \o RestOf(connection, unsent, current)
           IN  /\ current \in receiverOpen /\ current \in Conns
               /\ buffer \in Seq(Byte) /\ u \in Seq(Byte) /\ Stream[current] = buffer \o u
<1>1. current \in receiverOpen /\ current \in Conns
  BY ConnsFacts, Zenon DEF Base, Queue
<1>2. PICK c, p, r : c = current /\ p = pipe[c] /\ r = RestOf(connection, unsent, c)
  BY Zenon
<1>3. buffer \in Seq(Byte) /\ p \in Seq(Byte) /\ r \in Seq(Byte) /\ Stream[c] = ArrivedOf(c, buffer, pipe, c) \o r
  BY <1>1, <1>2, StreamIs, Zenon DEF Base, TypeOK
<1>4. Stream[c] = (buffer \o p) \o r
  BY <1>2, <1>3, Zenon DEF ArrivedOf
<1>5. (buffer \o p) \o r = buffer \o (p \o r)
  BY <1>3, Associative, Zenon
<1>6. p \o r \in Seq(Byte)
  BY <1>3, ConcatProperties, Zenon
<1> QED
  BY <1>1, <1>2, <1>3, <1>4, <1>5, <1>6, Zenon

\* The first newline of the buffer.
End == CHOOSE i \in Newlines : \A j \in Newlines : i <= j

LEMMA EndIs ==
    ASSUME IInv, Newlines # {}
    PROVE  /\ current # None /\ buffer \in Seq(Byte)
           /\ End \in 1..Len(buffer) /\ buffer[End].newline
           /\ \A i \in 1..Len(buffer) : buffer[i].newline => End <= i
<1>1. Base
  BY Zenon DEF IInv
<1>2. buffer \in Seq(Byte) /\ DOMAIN buffer = 1..Len(buffer)
  BY <1>1, ByteFacts DEF Base, TypeOK
<1>3. \A i : i \in Newlines <=> i \in 1..Len(buffer) /\ buffer[i].newline
  BY <1>2 DEF Newlines
<1>4. PICK i \in 1..Len(buffer) : buffer[i].newline
  BY <1>3, Zenon
<1>5. current # None
  <2>1. buffer # <<>>
    BY <1>2, <1>4, ByteFacts
  <2> QED
    BY <1>1, <2>1, Zenon DEF Base, Queue
<1>6. PICK u : u = pipe[current] \o RestOf(connection, unsent, current)
  BY Zenon
<1>7. u \in Seq(Byte) /\ Framed(buffer \o u)
  BY <1>1, <1>5, <1>6, CurrentStream, Zenon DEF IInv, StreamsOf
<1>8. \E e \in 1..Len(buffer) : buffer[e].newline /\ \A j \in 1..Len(buffer) : buffer[j].newline => e <= j
  BY <1>2, <1>4, <1>7, FirstNewline, Zenon
<1>9. \E e \in Newlines : \A j \in Newlines : e <= j
  BY <1>3, <1>8, Zenon
<1>10. End \in Newlines /\ \A j \in Newlines : End <= j
  BY <1>9 DEF End
<1> QED
  BY <1>2, <1>3, <1>5, <1>10

\* The line before it is one whole message.
LEMMA LineIs ==
    ASSUME IInv, Newlines # {}
    PROVE  LET line == SubSeq(buffer, 1, End - 1)
               m == Head(line).of
               rest == SubSeq(buffer, End + 1, Len(buffer))
               u == pipe[current] \o RestOf(connection, unsent, current)
           IN  /\ m \in Message /\ Mentions(buffer, m) /\ Mentions(Stream[current], m)
               /\ line \in Seq(Byte) /\ line # <<>> /\ line = Front(Line(m))
               /\ Len(line) = End - 1 /\ m.size = End - 1
               /\ rest \in Seq(Byte)
               /\ Framed(rest \o u) /\ Ordered(rest \o u)
               /\ Closed(Stream[current]) => Closed(rest \o u)
               /\ \A x : Mentions(rest \o u, x) => Mentions(Stream[current], x) /\ x.from = m.from /\ m.n < x.n
               /\ \A x : Mentions(buffer, x) => x = m \/ Mentions(rest, x)
<1>1. PICK e, u, line, rest, m :
        /\ e = End /\ u = pipe[current] \o RestOf(connection, unsent, current)
        /\ line = SubSeq(buffer, 1, e - 1) /\ rest = SubSeq(buffer, e + 1, Len(buffer))
        /\ m = buffer[1].of
  BY Zenon
<1>2. /\ current # None /\ buffer \in Seq(Byte) /\ e \in 1..Len(buffer) /\ buffer[e].newline
      /\ \A i \in 1..Len(buffer) : buffer[i].newline => e <= i
  BY <1>1, EndIs, Zenon
<1>3. /\ u \in Seq(Byte) /\ Stream[current] = buffer \o u
      /\ Framed(buffer \o u) /\ Ordered(buffer \o u)
  BY <1>1, <1>2, CurrentStream, Zenon DEF IInv, StreamsOf
<1>4. /\ m \in Message /\ Mentions(buffer, m)
      /\ line = Front(Line(m)) /\ Len(line) = m.size /\ Head(line).of = m
      /\ e = m.size + 1
      /\ rest \in Seq(Byte)
      /\ Framed(rest \o u) /\ Ordered(rest \o u) /\ (Closed(buffer \o u) => Closed(rest \o u))
      /\ \A x : Mentions(rest \o u, x) => Mentions(buffer \o u, x) /\ x.from = m.from /\ m.n < x.n
      /\ \A x : Mentions(buffer, x) => x = m \/ Mentions(rest, x)
  <2>1. LET k == buffer[1].of
            C == SubSeq(buffer, e + 1, Len(buffer))
        IN  /\ k \in Message /\ Mentions(buffer, k)
            /\ SubSeq(buffer, 1, e - 1) = Front(Line(k))
            /\ Len(SubSeq(buffer, 1, e - 1)) = k.size
            /\ Head(SubSeq(buffer, 1, e - 1)).of = k
            /\ e = k.size + 1
            /\ C \in Seq(Byte)
            /\ Framed(C \o u) /\ Ordered(C \o u) /\ (Closed(buffer \o u) => Closed(C \o u))
            /\ \A x : Mentions(C \o u, x) => Mentions(buffer \o u, x) /\ x.from = k.from /\ k.n < x.n
            /\ \A x : Mentions(buffer, x) => x = k \/ Mentions(C, x)
    BY <1>2, <1>3, FirstLine, Zenon
  <2> QED
    BY <1>1, <2>1, Zenon
<1>5. Mentions(Stream[current], m)
  BY <1>2, <1>3, <1>4, MentionsConcat
<1>6. line \in Seq(Byte) /\ line # <<>> /\ m.size = e - 1
  <2>1. m.size \in Nat \ {0}
    BY <1>4, IpcAssumption, Zenon DEF Message
  <2>2. e - 1 \in 0..Len(buffer) /\ m.size = e - 1
    <3>1. e = m.size + 1 /\ e \in 1..Len(buffer) /\ Len(buffer) \in Nat
      BY <1>2, <1>4, ByteFacts, Zenon
    <3> QED BY <2>1, <3>1
  <2>3. line \in Seq(Byte)
    BY <1>1, <1>2, <2>2, Cut
  <2>4. line # <<>>
    BY <1>4, <2>1, <2>3, ByteFacts, Zenon
  <2> QED
    BY <2>2, <2>3, <2>4
<1>7. /\ Closed(Stream[current]) => Closed(rest \o u)
      /\ \A x : Mentions(rest \o u, x) => Mentions(Stream[current], x) /\ x.from = m.from /\ m.n < x.n
  BY <1>3, <1>4, Zenon
<1>8. /\ m \in Message /\ Mentions(buffer, m) /\ Mentions(Stream[current], m)
      /\ line \in Seq(Byte) /\ line # <<>> /\ line = Front(Line(m))
      /\ Len(line) = e - 1 /\ m.size = e - 1
      /\ rest \in Seq(Byte)
      /\ Framed(rest \o u) /\ Ordered(rest \o u)
      /\ \A x : Mentions(buffer, x) => x = m \/ Mentions(rest, x)
  BY <1>4, <1>5, <1>6, Zenon
<1>9. m = Head(SubSeq(buffer, 1, e - 1)).of
  BY <1>1, <1>4, Zenon
<1> QED
  BY <1>1, <1>7, <1>8, <1>9, Zenon


\* A line is received.
TakesLine ==
    /\ Newlines # {} /\ End - 1 <= MaxMessage
    /\ MayAccept(SubSeq(buffer, 1, End - 1))
    /\ received' = Append(received, SubSeq(buffer, 1, End - 1))
    /\ buffer' = SubSeq(buffer, End + 1, Len(buffer))
    /\ UNCHANGED <<dialed, pipe, receiverOpen, backlog, connection, sends, unsent, sent, current,
                   tooLarge, failed>>

LEMMA TakesLineKeeps ==
    ASSUME IInv, TakesLine
    PROVE  IInv'
<1>1. Base /\ Lines /\ Large /\ Kept
  BY IInvParts
<1>2. PICK c, u, line, rest, m :
        /\ c = current /\ u = pipe[c] \o RestOf(connection, unsent, c)
        /\ line = SubSeq(buffer, 1, End - 1) /\ rest = SubSeq(buffer, End + 1, Len(buffer))
        /\ m = Head(line).of
  BY Zenon
<1>3. /\ m \in Message /\ Mentions(buffer, m) /\ Mentions(Stream[c], m)
      /\ line \in Seq(Byte) /\ line # <<>> /\ line = Front(Line(m)) /\ Len(line) = End - 1
      /\ rest \in Seq(Byte)
      /\ Framed(rest \o u) /\ Ordered(rest \o u)
      /\ Closed(Stream[c]) => Closed(rest \o u)
      /\ \A x : Mentions(rest \o u, x) => Mentions(Stream[c], x) /\ x.from = m.from /\ m.n < x.n
      /\ \A x : Mentions(buffer, x) => x = m \/ Mentions(rest, x)
  <2>1. Newlines # {}
    BY DEF TakesLine
  <2>2. LET l == SubSeq(buffer, 1, End - 1)
            k == Head(l).of
            r == SubSeq(buffer, End + 1, Len(buffer))
            v == pipe[current] \o RestOf(connection, unsent, current)
        IN  /\ k \in Message /\ Mentions(buffer, k) /\ Mentions(Stream[current], k)
            /\ l \in Seq(Byte) /\ l # <<>> /\ l = Front(Line(k))
            /\ Len(l) = End - 1 /\ k.size = End - 1
            /\ r \in Seq(Byte)
            /\ Framed(r \o v) /\ Ordered(r \o v)
            /\ Closed(Stream[current]) => Closed(r \o v)
            /\ \A x : Mentions(r \o v, x) => Mentions(Stream[current], x) /\ x.from = k.from /\ k.n < x.n
            /\ \A x : Mentions(buffer, x) => x = k \/ Mentions(r, x)
    BY <2>1, LineIs, Zenon
  <2> QED
    BY <1>2, <2>2, Zenon
<1>4. /\ received' = Append(received, line) /\ buffer' = rest /\ Len(line) <= MaxMessage
      /\ MayAccept(line)
      /\ UNCHANGED <<dialed, pipe, receiverOpen, backlog, connection, sends, unsent, sent, current,
                     tooLarge, failed>>
  <2>1. End - 1 <= MaxMessage
    BY DEF TakesLine
  <2>2. Len(line) <= MaxMessage
    BY <1>3, <2>1
  <2> QED
    BY <1>2, <2>2, Zenon DEF TakesLine
<1>5. m.valid
  BY <1>2, <1>3, <1>4, Zenon DEF MayAccept
<1>6. /\ current # None /\ c \in receiverOpen /\ c \in Conns /\ u \in Seq(Byte)
      /\ receiverOpen \subseteq Conns /\ Conns \subseteq Nat \ {0}
  <2>1. current # None
    BY EndIs DEF TakesLine
  <2>2. /\ current \in receiverOpen /\ current \in Conns
        /\ pipe[current] \o RestOf(connection, unsent, current) \in Seq(Byte)
    BY <1>1, <2>1, CurrentStream
  <2>3. receiverOpen \subseteq Conns /\ Conns \subseteq Nat \ {0}
    BY <1>1, ConnsFacts
  <2> QED
    BY <1>2, <2>1, <2>2, <2>3, Zenon
<1>7. received \in Seq(Seq(Byte)) /\ received' \in Seq(Seq(Byte))
  BY <1>1, <1>3, <1>4, AppendProperties, Zenon DEF Base, TypeOK
<1>8. Base'
  <2>1. TypeOK'
    BY <1>1, <1>3, <1>4, <1>7, Zenon DEF Base, TypeOK
  <2>2. Queue'
    BY <1>1, <1>4, <1>6, Zenon DEF Base, Queue
  <2>3. Owners'
    BY <1>1, <1>4, Zenon DEF Base, Owners
  <2> QED
    BY <2>1, <2>2, <2>3 DEF Base
<1>9. Stream'[c] = rest \o u
  <2>1. /\ Stream'[c] = (rest \o pipe[c]) \o RestOf(connection, unsent, c)
        /\ pipe[c] \in Seq(Byte) /\ RestOf(connection, unsent, c) \in Seq(Byte)
    <3>1. /\ Stream'[c] = ArrivedOf(current', buffer', pipe', c) \o RestOf(connection', unsent', c)
          /\ RestOf(connection', unsent', c) \in Seq(Byte)
      BY <1>6, <1>8, StreamIsPrimed
    <3>2. ArrivedOf(current', buffer', pipe', c) = rest \o pipe[c]
      BY <1>2, <1>4, Zenon DEF ArrivedOf
    <3>3. RestOf(connection', unsent', c) = RestOf(connection, unsent, c)
      BY <1>4
    <3>4. pipe[c] \in Seq(Byte)
      BY <1>1, <1>6, Zenon DEF Base, TypeOK
    <3> QED
      BY <3>1, <3>2, <3>3, <3>4, Zenon
  <2>2. rest \in Seq(Byte) /\ u = pipe[c] \o RestOf(connection, unsent, c)
    BY <1>2, <1>3, Zenon
  <2>3. (rest \o pipe[c]) \o RestOf(connection, unsent, c) = rest \o (pipe[c] \o RestOf(connection, unsent, c))
    BY <2>1, <2>2, Associative, Zenon
  <2> QED
    BY <2>1, <2>2, <2>3, Zenon
<1>10. \A k \in receiverOpen \ {c} : Stream'[k] = Stream[k]
  <2>1. SUFFICES ASSUME NEW k \in receiverOpen \ {c}
                 PROVE  Stream'[k] = Stream[k]
    BY Zenon
  <2>2. ArrivedOf(current', buffer', pipe', k) = ArrivedOf(current, buffer, pipe, k)
    BY <1>2, <1>4 DEF ArrivedOf
  <2> QED
    BY <1>1, <1>4, <1>6, <1>8, <2>2, StreamIs, StreamIsPrimed, Zenon
<1>11. Lines'
  <2>1. \A k \in receiverOpen : k = c \/ c < k
    BY <1>1, <1>2, <1>6 DEF Base, Queue
  <2>2. Taking(receiverOpen, Stream, Stream', c, m)
    <3>1. /\ Framed(Stream'[c]) /\ Ordered(Stream'[c]) /\ (Closed(Stream[c]) => Closed(Stream'[c]))
          /\ \A x : Mentions(Stream'[c], x) => Mentions(Stream[c], x) /\ x.from = m.from /\ m.n < x.n
      BY <1>3, <1>9, Zenon
    <3> QED
      BY <1>3, <1>5, <1>6, <1>10, <2>1, <3>1, Zenon DEF Taking
  <2>3. /\ StreamsOf(receiverOpen, Stream, connection, sends)
        /\ OrderOf(receiverOpen, Stream, received)
        /\ ResultsOf(received, sends)
    BY <1>1 DEF Lines
  <2>4. Head(line).of = m /\ line = Front(Line(m)) /\ line \in Seq(Byte) /\ Len(line) <= MaxMessage
    BY <1>2, <1>3, <1>4, Zenon
  <2>5. /\ StreamsOf(receiverOpen, Stream', connection, sends)
        /\ OrderOf(receiverOpen, Stream', Append(received, line))
        /\ ResultsOf(Append(received, line), sends)
    BY <1>7, <2>2, <2>3, <2>4, StreamTaken, Zenon
  <2> QED
    BY <1>4, <2>5, Zenon DEF Lines
<1>12. Large'
  BY <1>1, <1>4 DEF Large
<1>13. Kept'
  <2>1. /\ Len(received) \in Nat /\ Len(received') = Len(received) + 1
        /\ \A i \in 1..Len(received) : received'[i] = received[i]
        /\ received'[Len(received) + 1] = line
    <3>1. received \in Seq(Seq(Byte)) /\ line \in Seq(Byte) /\ received' = Append(received, line)
      BY <1>3, <1>4, <1>7, Zenon
    <3> QED BY <3>1, Appended
  <2>2. \A i \in 1..Len(received) : i \in 1..Len(received') /\ Got(received', i) = Got(received, i)
    BY <2>1 DEF Got
  <2>3. \E i \in 1..Len(received') : Got(received', i) = m
    <3>1. Len(received) + 1 \in 1..Len(received')
      BY <2>1, SMTT(30)
    <3> QED
      BY <1>2, <2>1, <3>1, Zenon DEF Got
  <2>4. SUFFICES ASSUME NEW x \in sent
                 PROVE  \/ x.on \in failed
                        \/ \E i \in 1..Len(received') : Got(received', i) = x.message
                        \/ Mentions(pipe[x.on], x.message)
                        \/ x.on = current /\ Mentions(rest, x.message)
    BY <1>4, Zenon DEF Kept
  <2>5. \/ x.on \in failed
        \/ \E i \in 1..Len(received) : Got(received, i) = x.message
        \/ Mentions(pipe[x.on], x.message)
        \/ x.on = current /\ Mentions(buffer, x.message)
    BY <1>1, Zenon DEF Kept
  <2> QED
    BY <1>3, <2>2, <2>3, <2>5, ZenonT(40)
<1> QED
  BY <1>8, <1>11, <1>12, <1>13 DEF IInv, Lines

LEMMA TakeLinePreserves ==
    ASSUME IInv, TakeLine
    PROVE  IInv'
<1>1. Newlines # {} /\ current # None /\ End \in Nat /\ MaxMessage \in Nat
  BY EndIs, IpcAssumption, ByteFacts DEF TakeLine
<1>2. UNCHANGED <<dialed, backlog, connection, sends, unsent, sent>>
  BY DEF TakeLine, senderVars
<1>3. PICK line : line = SubSeq(buffer, 1, End - 1)
  BY Zenon
<1>4. \/ TakesLine
      \/ Throws /\ received' = received /\ tooLarge' = tooLarge
      \/ End - 1 > MaxMessage /\ Throws /\ received' = received /\ tooLarge' = tooLarge \cup {Head(line).of}
  BY <1>2, <1>3, Zenon DEF TakeLine, TakesLine, End
<1>5. ASSUME Throws, received' = received
      PROVE  Base' /\ Lines' /\ Kept'
  BY <1>1, <1>2, <1>5, DisconnectKeeps DEF Disconnects, Throws
<1>6. CASE TakesLine
  BY <1>6, TakesLineKeeps
<1>7. CASE Throws /\ received' = received /\ tooLarge' = tooLarge
  BY <1>5, <1>7, IInvParts, Zenon DEF IInv, Lines, Large
<1>8. CASE End - 1 > MaxMessage /\ Throws /\ received' = received /\ tooLarge' = tooLarge \cup {Head(line).of}
  <2>1. Head(line).of.size = End - 1
    BY <1>1, <1>3, LineIs, Zenon
  <2>2. Large'
    BY <1>8, <2>1, Zenon DEF IInv, Large
  <2> QED
    BY <1>5, <1>8, <2>2, Zenon DEF IInv, Lines
<1> QED
  BY <1>4, <1>6, <1>7, <1>8, Zenon

LEMMA GiveUpKeeps ==
    ASSUME IInv, GiveUp
    PROVE  IInv'
<1>1. /\ Newlines = {} /\ Len(buffer) > MaxMessage /\ Throws
      /\ tooLarge' = tooLarge \cup {Head(buffer).of}
      /\ UNCHANGED <<dialed, backlog, connection, sends, unsent, sent, received>>
  BY DEF GiveUp, senderVars
<1>2. Base
  BY DEF IInv
<1>3. /\ buffer \in Seq(Byte) /\ buffer # <<>> /\ MaxMessage \in Nat /\ Len(buffer) \in Nat
      /\ \A i \in 1..Len(buffer) : ~buffer[i].newline
  <2>1. buffer \in Seq(Byte)
    BY <1>2, Zenon DEF Base, TypeOK
  <2>2. MaxMessage \in Nat /\ Len(buffer) \in Nat /\ DOMAIN buffer = 1..Len(buffer)
    BY <2>1, IpcAssumption, ByteFacts, Zenon
  <2>3. buffer # <<>>
    BY <1>1, <2>1, <2>2, ByteFacts
  <2>4. \A i \in 1..Len(buffer) : ~buffer[i].newline
    BY <1>1, <2>2, Zenon DEF Newlines
  <2> QED
    BY <2>1, <2>2, <2>3, <2>4
<1>4. current # None
  BY <1>2, <1>3 DEF Base, Queue
<1>5. Base' /\ Lines' /\ Kept'
  BY <1>1, <1>4, DisconnectKeeps, Zenon DEF Disconnects, Throws
<1>6. PICK u : u = pipe[current] \o RestOf(connection, unsent, current)
  BY Zenon
<1>7. u \in Seq(Byte) /\ Framed(buffer \o u)
  BY <1>2, <1>4, <1>6, CurrentStream, Zenon DEF IInv, StreamsOf
<1>8. Head(buffer).of.size > MaxMessage
  <2>1. buffer[1].of.size >= Len(buffer) /\ Head(buffer).of = buffer[1].of
    BY <1>3, <1>7, NoLine, Zenon
  <2>2. buffer[1].of.size \in Nat
    BY <1>3, ByteFacts
  <2>3. Len(buffer) > MaxMessage /\ MaxMessage \in Nat /\ Len(buffer) \in Nat
    BY <1>1, <1>3, Zenon
  <2> QED
    BY <2>1, <2>2, <2>3
<1>9. Large'
  BY <1>1, <1>8, Zenon DEF IInv, Large
<1> QED
  BY <1>5, <1>9, Zenon DEF IInv, Lines

LEMMA RecvEndsKeep ==
    ASSUME IInv, RecvEnd \/ RecvTimeout
    PROVE  IInv'
<1>1. Disconnects /\ tooLarge' = tooLarge
  BY DEF RecvEnd, RecvTimeout, Throws, Disconnects, senderVars
<1>2. Base' /\ Lines' /\ Kept'
  BY <1>1, DisconnectKeeps
<1> QED
  BY <1>1, <1>2, Zenon DEF IInv, Lines, Large


-----------------------------------------------------------------------------
LEMMA InitIInv == Init => IInv
<1>1. SUFFICES ASSUME Init
               PROVE  IInv
  BY Zenon
<1>2. TypeOK
  <2>1. /\ pipe = [k \in Conns |-> <<>>] /\ unsent = [s \in Senders |-> <<>>]
        /\ connection = [s \in Senders |-> None] /\ sends = [s \in Senders |-> 0]
        /\ dialed = 0 /\ receiverOpen = {} /\ sent = {}
        /\ backlog = <<>> /\ buffer = <<>> /\ received = <<>>
    BY <1>1, Zenon DEF Init
  <2>2. 0 \in 0..MaxConns /\ 0 \in 0..MaxSends /\ None \in 0..0
    BY IpcAssumption DEF None
  <2>3. \A S : <<>> \in Seq(S)
    BY EmptySeq, Zenon
  <2> QED BY <2>1, <2>2, <2>3, Zenon DEF TypeOK
<1>3. Queue
  BY <1>1, EmptySeq DEF Init, Queue
<1>4. Owners
  BY <1>1, Zenon DEF Init, Owners
<1>5. receiverOpen = {} /\ Len(received) = 0 /\ tooLarge = {} /\ sent = {}
  BY <1>1, Zenon DEF Init
<1>6. Large /\ Kept
  BY <1>5, Zenon DEF Large, Kept
<1>7. ResultsOf(received, sends) /\ OrderOf(receiverOpen, Stream, received)
  <2>1. \A i \in 1..Len(received) : FALSE
    BY <1>5
  <2> QED BY <1>5, <2>1, Zenon DEF ResultsOf, OrderOf
<1>8. StreamsOf(receiverOpen, Stream, connection, sends)
  BY <1>5, Zenon DEF StreamsOf
<1> QED
  BY <1>2, <1>3, <1>4, <1>6, <1>7, <1>8 DEF IInv, Base

LEMMA NextIInv == IInv /\ [Next]_vars => IInv'
<1>1. SUFFICES ASSUME IInv, [Next]_vars
               PROVE  IInv'
  BY Zenon
<1>2. ASSUME NEW s \in Senders, Send(s)
      PROVE  IInv'
  <2>1. CASE \E size \in Sizes, valid \in BOOLEAN : SendBegins(s, size, valid)
    BY <1>1, <2>1, SendBeginsKeeps
  <2>2. CASE SendRefused(s)
    BY <1>1, <2>2, SendRefusedKeeps, Zenon
  <2>3. CASE \E n \in 1..Capacity : SendSome(s, n)
    BY <1>1, <2>3, IpcAssumption, SendSomeKeeps
  <2>4. CASE SendFails(s)
    <3>1. SenderCloses(s)
      <4>1. connection[s] # None
        BY <1>1, <2>4, Zenon DEF SendFails, IInv, Base, Owners
      <4> QED
        BY <2>4, <4>1, Zenon DEF SendFails, SenderCloses, receiverVars
    <3> QED
      BY <1>1, <3>1, SenderClosesKeeps, Zenon
  <2> QED
    BY <1>2, <2>1, <2>2, <2>3, <2>4 DEF Send
<1>3. ASSUME NEW s \in Senders, SenderExits(s)
      PROVE  IInv'
  <2>1. SenderCloses(s)
    BY <1>3 DEF SenderExits, SenderCloses, receiverVars
  <2> QED
    BY <1>1, <2>1, SenderClosesKeeps
<1>4. CASE Receive
  BY <1>1, <1>4, TakeLinePreserves, GiveUpKeeps, AcceptKeeps, RecvKeeps, RecvEndsKeep, Zenon DEF Receive
<1>5. CASE UNCHANGED vars
  <2>1. UNCHANGED <<dialed, pipe, receiverOpen, backlog, connection, sends, unsent, sent,
                    current, buffer, received, tooLarge, failed>>
    BY <1>5 DEF vars, senderVars, receiverVars
  <2>2. Stream' = Stream
    BY <2>1, Zenon DEF Stream
  <2>3. Base'
    BY <1>1, <2>1, Zenon DEF IInv, Base, TypeOK, Queue, Owners
  <2>4. Large' /\ Kept'
    BY <1>1, <2>1, Zenon DEF IInv, Large, Kept
  <2> QED
    BY <1>1, <2>1, <2>2, <2>3, <2>4, Zenon DEF IInv
<1> QED
  BY <1>1, <1>2, <1>3, <1>4, <1>5 DEF Next

LEMMA IInvImplies == IInv => ReceivedIsSent /\ NothingVanishes
<1>1. SUFFICES ASSUME IInv
               PROVE  ReceivedIsSent /\ NothingVanishes
  BY Zenon
<1>2. /\ DOMAIN received = 1..Len(received) /\ buffer \in Seq(Byte) /\ pipe \in [Conns -> Seq(Byte)]
      /\ sent \subseteq [message : Message, on : Conns]
  BY <1>1, LenProperties, ZenonT(40) DEF IInv, Base, TypeOK
<1>3. ReceivedIsSent
  <2>1. ResultsOf(received, sends) /\ Large
    BY <1>1 DEF IInv
  <2> QED
    BY <1>2, <2>1, Zenon DEF ReceivedIsSent, ResultsOf, Got, Large
<1>4. NothingVanishes
  <2>1. SUFFICES ASSUME NEW x \in sent
                 PROVE  \/ x.on \in failed
                        \/ \E i \in DOMAIN received : Head(received[i]).of = x.message
                        \/ \E i \in DOMAIN pipe[x.on] : pipe[x.on][i].of = x.message
                        \/ x.on = current /\ \E i \in DOMAIN buffer : buffer[i].of = x.message
    BY Zenon DEF NothingVanishes
  <2>2. pipe[x.on] \in Seq(Byte)
    BY <1>2, ZenonT(40)
  <2>3. DOMAIN pipe[x.on] = 1..Len(pipe[x.on]) /\ DOMAIN buffer = 1..Len(buffer)
    BY <1>2, <2>2, ByteFacts, Zenon
  <2>4. \/ x.on \in failed
        \/ \E i \in 1..Len(received) : Got(received, i) = x.message
        \/ Mentions(pipe[x.on], x.message)
        \/ x.on = current /\ Mentions(buffer, x.message)
    BY <1>1, Zenon DEF IInv, Kept
  <2> QED
    BY <1>2, <2>3, <2>4, Zenon DEF Got, Mentions
<1> QED
  BY <1>3, <1>4

\* The invariant of ipc_send and ipc_receive: whatever pieces send and recv move,
\* every open connection carries whole lines of one sender in the order of its
\* calls, the last one perhaps cut short, and the connections are read in the
\* order they were made.
THEOREM Invariance == Spec => []IInv
<1>1. Init => IInv
  BY InitIInv
<1>2. IInv /\ [Next]_vars => IInv'
  BY NextIInv
<1> QED
  BY <1>1, <1>2, PTL DEF Spec

\* For any number of senders, connections and messages, any sizes, any limits
\* and any way the bytes are cut into pieces: what ipc_receive returns are whole
\* valid messages, those of one sender in the order of its ipc_send calls and
\* none twice, and only a message above max_message_size is given up for it.
THEOREM ReceivedIsSentHolds == Spec => []ReceivedIsSent
<1>1. IInv => ReceivedIsSent
  BY IInvImplies
<1> QED
  BY <1>1, Invariance, PTL

\* A message for which ipc_send returned 0 is received or still on its way, or
\* ipc_receive threw on its connection: disconnect never drops one in silence.
THEOREM NothingVanishesHolds == Spec => []NothingVanishes
<1>1. IInv => NothingVanishes
  BY IInvImplies
<1> QED
  BY <1>1, Invariance, PTL

====
