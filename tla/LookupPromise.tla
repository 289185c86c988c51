--------------------------- MODULE LookupPromise ---------------------------
(***************************************************************************)
(* What the table functions cve, cve_search and cpe_cves promise to SQL,   *)
(* without client, cursor, token or transport: a lookup is answered once,  *)
(* with at most MaxResults records or an error, and the scan delivers that *)
(* answer in order, at most RowsPerTick rows at a time, each record once,  *)
(* unless it is cut off.  (README.md "Behavior & robustness",              *)
(* functions.go:32-57.)                                                    *)
(***************************************************************************)
EXTENDS Integers, Sequences

CONSTANTS CVE, MaxResults, RowsPerTick

VARIABLES
    status,     \* "pending", "streaming", "finished", "error", "aborted"
    answer,     \* the records of the answer
    delivered   \* those SQL has received

vars == <<status, answer, delivered>>

Init == status = "pending" /\ answer = <<>> /\ delivered = <<>>

Respond ==
    /\ status = "pending" /\ status' = "streaming"
    /\ answer' \in Seq(CVE) /\ Len(answer') <= MaxResults
    /\ UNCHANGED delivered

Error ==
    /\ status = "pending" /\ status' = "error"
    /\ UNCHANGED <<answer, delivered>>

Deliver ==
    /\ status = "streaming"
    /\ \E n \in 1 .. RowsPerTick :
          /\ Len(delivered) + n <= Len(answer)
          /\ delivered' = SubSeq(answer, 1, Len(delivered) + n)
    /\ UNCHANGED <<status, answer>>

Finish ==
    /\ status = "streaming" /\ delivered = answer
    /\ status' = "finished"
    /\ UNCHANGED <<answer, delivered>>

Abort ==
    /\ status \in {"pending", "streaming"} /\ status' = "aborted"
    /\ UNCHANGED <<answer, delivered>>

Next == Respond \/ Error \/ Deliver \/ Finish \/ Abort

Spec == Init /\ [][Next]_vars
====
