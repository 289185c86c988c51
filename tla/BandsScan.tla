----------------------------- MODULE BandsScan -----------------------------
(***************************************************************************)
(* The scan of cvss_severity_bands() (functions.go).  Its state is one int: *)
(* the rows are rebuilt from SeverityBands by every tick, and a single      *)
(* batch holds them all.  Transports, tokens and faults are those of        *)
(* TableScan, and as external here as there.                               *)
(***************************************************************************)
EXTENDS Cvss, SequencesExt

CONSTANTS
    Transports,   \* SUBSET {"live", "http"}
    MaxFaults     \* bound: lost responses and worker crashes

VARIABLES
    transport,  \* how DuckDB talks to the worker
    worker,     \* "up" or "down"
    scan,       \* "newState", "streaming", "finished", "aborted"
    offset,     \* bandsState.Offset, as the next tick finds it, or NoState
    holder,     \* who holds it: "worker" (memory) or "client" (token)
    response,   \* HTTP: the response in flight, or NoResponse
    delivered,  \* the bands DuckDB has received
    faults      \* lost responses and crashes so far

bandsVars == <<transport, worker, scan, offset, holder, response, delivered, faults>>

NoState    == -1
NoResponse == [batch |-> <<>>, done |-> FALSE, token |-> 0, sent |-> FALSE]

Init ==
    /\ transport \in Transports
    /\ worker = "up" /\ scan = "newState" /\ offset = NoState /\ holder = "worker"
    /\ response = NoResponse /\ delivered = <<>> /\ faults = 0

-----------------------------------------------------------------------------
NewState ==
    /\ scan = "newState" /\ worker = "up" /\ scan' = "streaming" /\ offset' = 0
    /\ UNCHANGED <<transport, worker, holder, response, delivered, faults>>

(* One tick of Process: what it emits, whether it finishes the stream, and  *)
(* the offset after it.                                                    *)
BandsDone(o)   == o >= Len(SeverityBands)
BandsBatch(o)  == IF BandsDone(o) THEN <<>> ELSE SeverityBands
BandsOffset(o) == IF BandsDone(o) THEN o ELSE Len(SeverityBands)

ProcessLive ==
    /\ scan = "streaming" /\ worker = "up" /\ transport = "live"
    /\ delivered' = delivered \o BandsBatch(offset) /\ offset' = BandsOffset(offset)
    /\ scan' = IF BandsDone(offset) THEN "finished" ELSE scan
    /\ UNCHANGED <<transport, worker, holder, response, faults>>

(* (Slips: the token taken before Process moved the offset; a tick that     *)
(* emits nothing where it should finish.)                                  *)
ExchangeStale(o) ==
    [batch |-> BandsBatch(o), done |-> BandsDone(o), token |-> o, sent |-> TRUE]
ExchangeEndless(o) ==
    [batch |-> BandsBatch(o), done |-> FALSE, token |-> BandsOffset(o), sent |-> TRUE]
Exchange(o) ==
    [batch |-> BandsBatch(o), done |-> BandsDone(o), token |-> BandsOffset(o), sent |-> TRUE]

ProcessHTTP ==
    /\ scan = "streaming" /\ worker = "up" /\ transport = "http"
    /\ response = NoResponse /\ response' = Exchange(offset)
    /\ UNCHANGED <<transport, worker, scan, offset, holder, delivered, faults>>

Receive ==
    /\ scan = "streaming" /\ response # NoResponse
    /\ response' = NoResponse /\ offset' = response.token /\ holder' = "client"
    /\ delivered' = delivered \o response.batch
    /\ scan' = IF response.done THEN "finished" ELSE scan
    /\ UNCHANGED <<transport, worker, faults>>

-----------------------------------------------------------------------------
(* Faults, and DuckDB stopping the scan, as in TableScan.                  *)

ScanWithoutWorker == IF holder = "worker" THEN "aborted" ELSE scan

Lose ==
    /\ scan = "streaming" /\ response # NoResponse /\ faults < MaxFaults
    /\ response' = NoResponse /\ faults' = faults + 1 /\ scan' = ScanWithoutWorker
    /\ UNCHANGED <<transport, worker, offset, holder, delivered>>

Crash ==
    /\ scan \in {"newState", "streaming"} /\ worker = "up" /\ faults < MaxFaults
    /\ worker' = "down" /\ faults' = faults + 1
    /\ scan' = IF response = NoResponse THEN ScanWithoutWorker ELSE scan
    /\ UNCHANGED <<transport, offset, holder, response, delivered>>

Restart ==
    /\ worker = "down" /\ transport = "http" /\ worker' = "up"
    /\ UNCHANGED <<transport, scan, offset, holder, response, delivered, faults>>

GiveUp ==
    /\ scan \in {"newState", "streaming"} /\ scan' = "aborted"
    /\ UNCHANGED <<transport, worker, offset, holder, response, delivered, faults>>

-----------------------------------------------------------------------------
Ended == scan \in {"finished", "aborted"}
Tick  == NewState \/ ProcessLive \/ ProcessHTTP \/ Receive
Fault == Lose \/ Crash \/ Restart \/ GiveUp
Done  == Ended /\ UNCHANGED bandsVars
Next  == Tick \/ Fault \/ Done

(* As TableScan's: DuckDB pulls, and a supervisor restarts the worker.     *)
Fairness == WF_bandsVars(Tick) /\ WF_bandsVars(Restart)

Spec == Init /\ [][Next]_bandsVars /\ Fairness

-----------------------------------------------------------------------------
TypeOK ==
    /\ transport \in {"live", "http"} /\ worker \in {"up", "down"}
    /\ scan \in {"newState", "streaming", "finished", "aborted"}
    /\ offset \in Nat \cup {NoState} /\ holder \in {"worker", "client"} /\ faults \in Nat
    /\ delivered \in {<<>>, SeverityBands}
    /\ response \in {NoResponse, Exchange(0), Exchange(Len(SeverityBands))}

(* The inductive invariant: the offset the next tick starts from, wherever *)
(* it is held, is the number of bands delivered.                           *)
BandsInv ==
    /\ TypeOK
    /\ offset # NoState => offset = Len(delivered)
    /\ response \in {NoResponse, Exchange(offset)}
    /\ scan = "newState" => offset = NoState
    /\ scan \in {"streaming", "finished"} => offset # NoState
    /\ offset = NoState => delivered = <<>> /\ response = NoResponse
    /\ transport = "live" => response = NoResponse
    /\ scan = "finished" => delivered = SeverityBands

(* The scan ends: no tick meets a state from before its own emit for ever  *)
(* ("the scan never terminates", functions.go:46).                         *)
Terminates == <>Ended

Promise == INSTANCE LookupPromise WITH
    CVE         <- ToSet(SeverityBands),
    MaxResults  <- Len(SeverityBands),
    RowsPerTick <- Len(SeverityBands),
    status      <- IF scan = "newState" THEN "pending" ELSE scan,
    answer      <- IF offset = NoState THEN <<>> ELSE SeverityBands

(* The scan of the bands keeps the promise of the other table functions,   *)
(* as if the five bands were the answer of a lookup.                       *)
KeepsPromise == Promise!Spec
====
