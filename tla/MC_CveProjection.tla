-------------------------- MODULE MC_CveProjection --------------------------
(* Instances of CveProjection for TLC. *)
EXTENDS CveProjection, MC_Records
====
