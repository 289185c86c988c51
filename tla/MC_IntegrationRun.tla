------------------------- MODULE MC_IntegrationRun -------------------------
(* Instances of IntegrationRun for TLC. *)
EXTENDS IntegrationRun

CONSTANTS offline, api

MCTransports == {"subprocess", "http", "unix", "pipe"}
====
