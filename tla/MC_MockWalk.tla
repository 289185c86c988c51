---------------------------- MODULE MC_MockWalk ----------------------------
(* Instances of MockWalk for TLC. *)
EXTENDS MockWalk
====
