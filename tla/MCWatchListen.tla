--------------------------- MODULE MCWatchListen ----------------------------
(* A listener and a get of one query: what is delicate happens to one        *)
(* target, when a get takes over the view of the listener or watches again   *)
(* what the listener has just left.                                          *)
EXTENDS WatchListen

CONSTANTS l1, g1, q1

MCQueryOf == [l \in Listener |-> q1]
=============================================================================
