--------------------------- MODULE MC_TableScan ---------------------------
(* Instances of TableScan for TLC. *)
EXTENDS TableScan

CONSTANTS c1, c2

MCScore == {0, 98}
BothTransports == {"live", "http"}
OnlyHTTP == {"http"}
MayEncode == BOOLEAN
NeverEncode == {FALSE}
====
