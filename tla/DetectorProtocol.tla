-------------------------- MODULE DetectorProtocol --------------------------
(***************************************************************************)
(* The lines between the C++ Runtime and the marker detector: what         *)
(* prototypes/marker-detect/ipc/protocol.go accepts and produces, and what *)
(* runtime/src/camera_detector_client.cpp accepts.  A line is a sequence   *)
(* of JSON tokens, punctuation by its name; a floating-point number is an  *)
(* integer, or one of the three values that compare or print in a special  *)
(* way.                                                                    *)
(***************************************************************************)
EXTENDS Integers, Sequences, Functions

CONSTANTS NaN, Inf, NegZero

ASSUME FloatAssumption ==
    /\ NaN \notin Int /\ Inf \notin Int
    /\ Inf # NaN /\ NegZero \notin {NaN, Inf}

Strings == {"command", "DETECT", "other"}

-----------------------------------------------------------------------------
\* json.Decoder: the position in the line and what may come next.
Opened == [at |-> 1, state |-> "top"]

Peek(line, d) == IF d.at <= Len(line) THEN line[d.at] ELSE "eof"

\* A colon or a comma that is due belongs to the token after it.
Skipped(line, d) ==
    CASE Peek(line, d) = "colon" /\ d.state = "colon" -> [at |-> d.at + 1, state |-> "value"]
      [] Peek(line, d) = "comma" /\ d.state = "comma" -> [at |-> d.at + 1, state |-> "key"]
      [] OTHER -> d

\* What follows a token, by the state it was read in.
AfterToken(t, state) ==
    CASE t = "lbrace" /\ state \in {"top", "value"} -> "start"
      [] t = "rbrace" /\ state \in {"start", "comma"} -> "top"
      [] t \in Strings /\ state \in {"start", "key"} -> "colon"
      [] t \notin {"lbrace", "rbrace", "colon", "comma", "eof"} /\ state = "value" -> "comma"
      [] t \notin {"lbrace", "rbrace", "colon", "comma", "eof"} /\ state = "top" -> "top"
      [] OTHER -> "error"

\* The token t that is met at s.
Met(s, t) ==
    LET next == AfterToken(t, s.state) IN
    IF t = "eof" THEN [token |-> "eof", rest |-> s]
    ELSE IF next = "error" THEN [token |-> "error", rest |-> s]
    ELSE [token |-> t, rest |-> [at |-> s.at + 1, state |-> next]]

Token(line, d) == LET s == Skipped(line, d) IN Met(s, Peek(line, s))

More(line, d) == Peek(line, d) \notin {"rbrace", "eof"}

-----------------------------------------------------------------------------
\* The last of two "command" fields counts.
parseRequestLastWins(line) ==
    LET open == Token(line, Opened)
        first == Token(line, open.rest)
        value == Token(line, first.rest)
        second == Token(line, value.rest)
        key == IF second.token = "command" THEN second ELSE first
        last == Token(line, key.rest)
        close == Token(line, last.rest)
    IN  /\ open.token = "lbrace" /\ first.token = "command" /\ value.token \in Strings
        /\ last.token = "DETECT" /\ close.token = "rbrace"
        /\ Token(line, close.rest).token = "eof"

\* One field only: a second turn of the loop meets an unknown field, a second
\* "command" or an error.
parseRequest(line) ==
    LET open == Token(line, Opened)
        key == Token(line, open.rest)
        value == Token(line, key.rest)
        close == Token(line, value.rest)
    IN  /\ open.token = "lbrace" /\ More(line, open.rest)
        /\ key.token = "command" /\ value.token = "DETECT"
        /\ ~More(line, value.rest)
        /\ close.token \notin {"eof", "error"}
        /\ Token(line, close.rest).token = "eof"

\* The line that send_detect writes.
DetectLine == <<"lbrace", "command", "colon", "DETECT", "rbrace">>

-----------------------------------------------------------------------------
\* A detection is [id, angle, distance].
Count == 72

IsValid(id) == 0 <= id /\ id < Count

Finite(x) == x \notin {NaN, Inf}
Less(x, y) == x \notin {NaN, Inf} /\ y # NaN /\ (y = Inf \/ x < y)
Positive(x) == Less(0, x)

\* One turn of Normalize's first loop: nearest is a map from ids.
Nearer(nearest, d) ==
    IF d.id \in DOMAIN nearest /\ ~Less(d.distance, nearest[d.id].distance) THEN nearest
    ELSE [id \in DOMAIN nearest \cup {d.id} |-> IF id = d.id THEN d ELSE nearest[id]]

\* sort.Slice by id, which may leave the detections of one id in any order.
Sorted(found) ==
    {[i \in DOMAIN found |-> found[p[i]]] :
        p \in {q \in Bijection(DOMAIN found, DOMAIN found) :
                 \A i, j \in DOMAIN found : i < j => found[q[i]].id <= found[q[j]].id}}

\* The copies of a marker stay.
NormalizeKeepsCopies(found) == Sorted(found)

\* The values of a map of at most so many keys, which range returns in any
\* order, sorted.
Arranged(map, most) ==
    UNION {Sorted([i \in DOMAIN order |-> map[order[i]]]) :
              order \in UNION {Bijection(1..n, DOMAIN map) : n \in 0..most}}

\* Normalize: the nearest detection of each id, by id.
Normalize(found) ==
    LET nearest[i \in 0..Len(found)] == IF i = 0 THEN <<>> ELSE Nearer(nearest[i - 1], found[i])
    IN  Arranged(nearest[Len(found)], Len(found))

\* A distance of zero is let through.
validateLax(found) ==
    \A i \in DOMAIN found :
        /\ IsValid(found[i].id)
        /\ Finite(found[i].angle) /\ Finite(found[i].distance)
        /\ i > 1 => found[i - 1].id < found[i].id

validate(found) ==
    \A i \in DOMAIN found :
        /\ IsValid(found[i].id)
        /\ Finite(found[i].angle)
        /\ Finite(found[i].distance) /\ Positive(found[i].distance)
        /\ i > 1 => found[i - 1].id < found[i].id

encodeSuccess(found) ==
    [ok |-> TRUE, error |-> "",
     detections |-> [i \in DOMAIN found |-> IF found[i].angle = NegZero THEN [found[i] EXCEPT !.angle = 0]
                                            ELSE found[i]]]

encodeFailure(code) == [ok |-> FALSE, error |-> code, detections |-> <<>>]

\* decode_response of the Runtime.
Decodes(response) ==
    IF response.ok
    THEN \A i \in DOMAIN response.detections : LET d == response.detections[i] IN
            /\ d.id \in 0..71
            /\ Finite(d.angle) /\ Finite(d.distance) /\ Positive(d.distance)
            /\ i > 1 => response.detections[i - 1].id < d.id
    ELSE response.error \in {"CAMERA_UNAVAILABLE", "DETECTION_FAILED", "BAD_REQUEST"}

====
