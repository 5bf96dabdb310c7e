---------------------------- MODULE MCDbExchange ----------------------------
(* An instance of DbExchange for TLC: two callers that share a client.  A    *)
(* failed exchange and the next one use two connections at the same time.   *)
EXTENDS DbExchange, TLC

CONSTANTS c1, c2, d1

Shared == c1 :> d1 @@ c2 :> d1

====
