---------------------------- MODULE MC_CveQuery ----------------------------
(* Instances of CveQuery for TLC. *)
EXTENDS CveQuery

CONSTANTS c1, c2, c3

MCScore == {0, 98}
(* A critical record, one scored 0.0, and one without metrics. *)
MCScoreOf == (c1 :> 98) @@ (c2 :> 0) @@ (c3 :> NoScore)
NoOddReplies == {}
BothTransports == {"live", "http"}
MayEncode == BOOLEAN
====
