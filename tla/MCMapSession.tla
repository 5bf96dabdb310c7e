---------------------------- MODULE MCMapSession ----------------------------
(***************************************************************************)
(* An instance of MapSession: a Target on the south-east corner of the     *)
(* map, one outside of it, and a line that Map must skip.                  *)
(***************************************************************************)
EXTENDS MapSession

McBounds == [latMin |-> 50, latMax |-> 54, lonMin |-> 30, lonMax |-> 36]

Target(id, lat, lon, p) ==
    [targetId |-> id, latitude |-> lat, longitude |-> lon, probability |-> p]

Names == <<"targetId", "latitude", "longitude", "probability", "lastSeenAt">>

Payload(t) ==
    [shape |-> "object", names |-> Names, nulls |-> {}, typed |-> TRUE, value |-> t]

Line(t) == [prefix |-> TRUE, payload |-> Payload(t)]

Corner == Target("a", 50, 36, 100)
Far == Target("a", 10, 33, 0)
TooSure == Target("a", 52, 33, 101)

McLines == {Line(Corner), Line(Far), Line(TooSure)}

McDemo == <<Corner>>

====
