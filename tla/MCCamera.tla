------------------------------ MODULE MCCamera ------------------------------
(***************************************************************************)
(* Camera for TLC: one other client with one request, and two calls.       *)
(***************************************************************************)
EXTENDS Camera, SequencesExt

Sighting(id, corners, angle, distance) ==
    [id |-> id, corners |-> corners, pose |-> TRUE, angle |-> angle, distance |-> distance]

Near == Sighting(17, 4, 5, 2)
Far == Sighting(17, 4, NegZero, 3)
Second == Sighting(23, 4, 5, 2)

\* Copies of a marker in either order, two markers out of order, a nearer copy
\* that has no pose, only markers that are not the game's, a distance of zero
\* and one that is too large.
MCFrames ==
    {<<Sighting(23, 4, 5, Inf), Second, Far, Near>>,
     <<[Sighting(17, 4, 5, 1) EXCEPT !.pose = FALSE], Near, Far>>,
     <<Sighting(72, 4, 5, 1), Sighting(23, 3, 5, 1)>>,
     <<Sighting(17, 4, 5, 0)>>}

Tokens == {"lbrace", "rbrace", "colon", "comma", "command", "DETECT", "other", "7"}

MCLines ==
    {DetectLine, DetectLine \o DetectLine, <<"lbrace", "command", "colon", "other", "rbrace">>,
     <<"lbrace", "command", "colon", "other", "comma", "command", "colon", "DETECT", "rbrace">>}

\* The request with one token left out, changed or put in.
ASSUME ParsesExactly ==
    \A line \in {RemoveAt(DetectLine, i) : i \in 1..5} \cup {ReplaceAt(DetectLine, i, t) : i \in 1..5, t \in Tokens}
                \cup {InsertAt(DetectLine, i, t) : i \in 1..6, t \in Tokens} :
        parseRequest(line) <=> line = DetectLine

====
