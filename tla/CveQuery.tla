------------------------------ MODULE CveQuery ------------------------------
(***************************************************************************)
(* One SQL call of cve, cve_search or cpe_cves, end to end: the argument   *)
(* test and the eager fetch of NewState (NvdClient) feed the scan          *)
(* (TableScan).  NewState fetches with context.Background(): a statement   *)
(* that is cancelled meanwhile leaves the fetch running (functions.go:310).*)
(***************************************************************************)
EXTENDS Integers, Sequences, SequencesExt

CONSTANTS CVE, Ops, MaxResults, ResultsPerPage, OddReplies, MaxCorpus, MaxChanges,
          Score, NoScore, RowsPerTick, Transports, Handovers, MaxFaults,
          ScoreOf   \* the score projectCVE finds in each record, or NoScore

ASSUME QueryAssumption ==
    /\ Ops \subseteq {"FetchCVE", "SearchKeyword", "CVEsForCPE"}
    /\ MaxResults \in Nat \ {0} /\ ResultsPerPage \in Nat \ {0}
    /\ OddReplies \subseteq [page : Seq(CVE), total : Int]
    /\ MaxCorpus \in Nat \ {0} /\ MaxChanges \in Nat
    /\ Score \subseteq Nat /\ 0 \in Score /\ NoScore \notin Score
    /\ RowsPerTick \in Nat \ {0}
    /\ Transports \subseteq {"live", "http"} /\ Handovers \subseteq BOOLEAN
    /\ MaxFaults \in Nat
    /\ ScoreOf \in [CVE -> Score \cup {NoScore}]

VARIABLES op, pc, rows, startIndex, reply, err, corpus, changes, requests, disturbed,
          transport, worker, phase, cursor, holder, response, fetched, delivered, faults,
          arg,      \* the shape of the positional argument
          running   \* the call of NewState exists in some process

Client == INSTANCE NvdClient
Scan   == INSTANCE TableScan

netVars  == <<op, pc, rows, startIndex, reply, err, corpus, changes, requests, disturbed>>
scanVars == <<transport, worker, phase, cursor, holder, response, fetched, delivered,
              faults, arg, running>>
vars     == <<netVars, scanVars>>

(* isNullArg: nil args, an empty column or a NULL value; an argument that  *)
(* is missing altogether is not NULL.                                      *)
Arg == {"nil", "missing", "empty", "null", "value"}
IsNullArg(a) == a \in {"nil", "empty", "null"}

Init == Client!Init /\ Scan!Init /\ arg \in Arg /\ running = TRUE

Untouched == pc = "request" /\ requests = 0

(* BindArgs rejects the arguments before anything else is looked at. *)
BindError == Untouched /\ Scan!NewStateError /\ running' = FALSE /\ UNCHANGED <<netVars, arg>>

NewStateNull ==
    /\ Untouched /\ IsNullArg(arg) /\ Scan!NewState(<<>>)
    /\ running' = FALSE /\ UNCHANGED <<netVars, arg>>

(* (A slip: the NULL test forgotten.) *)
FetchAnyArg == running /\ pc # "done" /\ Client!Client /\ UNCHANGED scanVars

(* The client works while the call exists, cancelled or not. *)
Fetch ==
    /\ running /\ ~IsNullArg(arg) /\ pc # "done"
    /\ Client!Client /\ UNCHANGED scanVars

Serve == Client!Service /\ UNCHANGED scanVars

Projected(rs) == [i \in DOMAIN rs |-> [cve |-> rs[i], score |-> ScoreOf[rs[i]]]]

(* (A slip: the error of the client ignored.) *)
NewStateAnyway ==
    /\ running /\ pc = "done" /\ Scan!NewState(Projected(rows))
    /\ running' = FALSE /\ UNCHANGED <<netVars, arg>>
NewStateRows ==
    /\ running /\ pc = "done" /\ err = "none" /\ Scan!NewState(Projected(rows))
    /\ running' = FALSE /\ UNCHANGED <<netVars, arg>>

NewStateFails ==
    /\ running /\ pc = "done" /\ err # "none" /\ Scan!NewStateError
    /\ running' = FALSE /\ UNCHANGED <<netVars, arg>>

(* A worker that goes down takes the call of NewState with it. *)
Crash == Scan!Crash /\ running' = FALSE /\ UNCHANGED <<netVars, arg>>

Stream ==
    /\ Scan!ProcessLive \/ Scan!ProcessHTTP \/ Scan!Receive
    /\ UNCHANGED <<netVars, arg, running>>

Disturb ==
    /\ Scan!Lose \/ Scan!Restart \/ Scan!GiveUp
    /\ UNCHANGED <<netVars, arg, running>>

Done == Scan!Ended /\ (running => pc = "done" \/ IsNullArg(arg)) /\ UNCHANGED vars

NewState == NewStateNull \/ NewStateRows \/ NewStateFails

Next == BindError \/ NewState \/ Fetch \/ Serve \/ Crash \/ Stream \/ Disturb \/ Done

(* As in the two parts: the client with its timeout runs, DuckDB pulls, a  *)
(* worker behind HTTP is restarted.                                        *)
Fairness ==
    /\ WF_vars(Fetch) /\ WF_vars(NewState) /\ WF_vars(Stream)
    /\ WF_vars(Scan!Restart /\ UNCHANGED <<netVars, arg, running>>)

Spec == Init /\ [][Next]_vars /\ Fairness

-----------------------------------------------------------------------------
(* What SQL has when the scan finished is what the service had: the first  *)
(* records of the corpus in order, all of them up to MaxResults, unless    *)
(* the walked part changed during the walk.                                *)
EndToEnd ==
    (phase = "finished" /\ ~IsNullArg(arg) /\ ~disturbed) =>
        /\ Scan!Ids(delivered) = SubSeq(corpus, 1, Len(delivered))
        /\ Len(delivered) = Client!Least(MaxResults, reply.total)

(* A fetch that fails, on whatever page, shows no row of the earlier pages *)
(* and never looks like an empty result.                                   *)
AllOrNothing ==
    err # "none" => delivered = <<>> /\ phase \in {"newState", "failed", "aborted"}

(* A NULL argument makes no request and yields no rows (README.md "NULL /  *)
(* absent input -> no rows").                                              *)
NullAsksNothing == IsNullArg(arg) => requests = 0 /\ fetched = <<>> /\ delivered = <<>>

(* The inductive invariant of the last two: the scan waits for as long as  *)
(* the fetch runs, or is given up meanwhile; a NULL argument leaves client *)
(* and scan as they were but for the phase.                                *)
NullInv ==
    /\ pc = "request" /\ requests = 0 /\ fetched = <<>> /\ delivered = <<>>
    /\ cursor = Scan!Cursor(<<>>, 0)
    /\ response.batch = <<>> /\ response.token = Scan!Cursor(<<>>, 0)
CallInv ==
    /\ running => phase \in {"newState", "aborted"}
    /\ running \/ phase = "newState" => delivered = <<>>
    /\ pc # "done" => err = "none"
    /\ AllOrNothing
    /\ IsNullArg(arg) => NullInv

(* The inductive invariant of EndToEnd and of the promise: each part keeps *)
(* its own, and from NewState on the scan holds the rows of the walk, which *)
(* nothing changes any more.                                               *)
Handed ==
    phase \in {"streaming", "finished"} /\ ~IsNullArg(arg) =>
        pc = "done" /\ err = "none" /\ fetched = Projected(rows)
QueryInv ==
    /\ CallInv /\ Handed
    /\ Client!TypeOK /\ Client!WalkInv /\ Scan!TypeOK /\ Scan!ScanInv

(* Every statement gets its end of stream, or an error, or is cut off. *)
Terminates == <>Scan!Ended

(* A fetch nobody waits for any more stops by itself. *)
AbandonedFetchStops == (phase = "aborted" /\ running /\ ~IsNullArg(arg)) ~> (pc = "done")

(* The whole call keeps the abstract promise. *)
KeepsPromise == Scan!KeepsPromise
====
