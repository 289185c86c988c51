----------------------------- MODULE TableScan -----------------------------
(***************************************************************************)
(* The scan of a table function (functions.go): NewState fetches all rows, *)
(* then every Process tick emits the slice after the cursor and advances   *)
(* it (nextSlice).  Over stdio and Unix sockets the worker keeps the live  *)
(* state between ticks; over HTTP it is stateless: the state travels       *)
(* gob-encoded in a continuation token that the client hands back, one     *)
(* batch per response (functions.go:32-51).  The SDK's side of both        *)
(* transports is external and modelled from that comment.                  *)
(***************************************************************************)
EXTENDS Integers, Sequences, SequencesExt

CONSTANTS
    CVE,          \* the CVE ids
    Score,        \* the scores, in tenths; 0 is one of them
    NoScore,      \* the nil Score of a CVE without metrics
    MaxResults,   \* client.go:24
    RowsPerTick,  \* functions.go:57
    Transports,   \* SUBSET {"live", "http"}
    Handovers,    \* SUBSET BOOLEAN: may the state be gob-encoded between
                  \* NewState and the first Process ("may cross a process
                  \* boundary", functions.go:25-27)
    MaxFaults     \* bound: lost responses and worker crashes

Row == [cve : CVE, score : Score \cup {NoScore}]

ASSUME ScanAssumption ==
    /\ Score \subseteq Nat /\ 0 \in Score /\ NoScore \notin Score
    /\ MaxResults \in Nat /\ RowsPerTick \in Nat \ {0}
    /\ Transports \subseteq {"live", "http"} /\ Handovers \subseteq BOOLEAN
    /\ MaxFaults \in Nat

VARIABLES
    transport,  \* how DuckDB talks to the worker
    worker,     \* "up" or "down"
    phase,      \* "newState", "streaming", "finished", "failed", "aborted"
    cursor,     \* the CursorState the next tick starts from
    holder,     \* who holds it: "worker" (memory) or "client" (token)
    response,   \* HTTP: the response in flight, or NoResponse
    fetched,    \* history: the rows NewState fetched
    delivered,  \* the rows DuckDB has received
    faults      \* lost responses and crashes so far

scanVars == <<transport, worker, phase, cursor, holder, response, fetched,
              delivered, faults>>

Cursor(rs, offset) == [Rows |-> rs, Offset |-> offset]
NoResponse == [batch |-> <<>>, done |-> FALSE, token |-> Cursor(<<>>, 0), sent |-> FALSE]

Init ==
    /\ transport \in Transports
    /\ worker = "up" /\ phase = "newState" /\ cursor = Cursor(<<>>, 0)
    /\ holder = "worker" /\ response = NoResponse
    /\ fetched = <<>> /\ delivered = <<>> /\ faults = 0

-----------------------------------------------------------------------------
(* gob leaves out a struct field that is zero, and a pointer counts as what *)
(* it points to: a Score that points to 0.0 is decoded as nil.             *)
(* (Slips: a plain field whose nil comes back as 0; a sentinel for nil.)   *)
GobRowPlain(r)    == [r EXCEPT !.score = IF @ = NoScore THEN 0 ELSE @]
GobRowSentinel(r) == [r EXCEPT !.score = IF @ = NoScore THEN -1 ELSE @]
GobRow(r) == [r EXCEPT !.score = IF @ = 0 THEN NoScore ELSE @]
Gob(c)    == [c EXCEPT !.Rows = [i \in DOMAIN @ |-> GobRow(@[i])]]

(* nextSlice: done, the slice, and the cursor advanced past it. *)
(* (Slips: done when the last slice is due; a slice one row too long; an    *)
(* offset that is not cut to the rows.)                                    *)
SliceDoneEarly(c) == c.Offset + RowsPerTick >= Len(c.Rows)
SliceDone(c) == c.Offset >= Len(c.Rows)
SliceEndLong(c) == IF c.Offset + RowsPerTick + 1 > Len(c.Rows) THEN Len(c.Rows)
                   ELSE c.Offset + RowsPerTick + 1
SliceEnd(c)  == IF c.Offset + RowsPerTick > Len(c.Rows) THEN Len(c.Rows)
                ELSE c.Offset + RowsPerTick
Slice(c)     == SubSeq(c.Rows, c.Offset + 1, SliceEnd(c))
AdvanceUncut(c) == [c EXCEPT !.Offset = @ + RowsPerTick]
Advance(c)   == [c EXCEPT !.Offset = SliceEnd(c)]

-----------------------------------------------------------------------------
(* NewState returns the rows rs: none for a NULL argument or no match.     *)
NewState(rs) ==
    /\ phase = "newState" /\ worker = "up"
    /\ phase' = "streaming" /\ fetched' = rs
    /\ \E encoded \in Handovers :
          cursor' = IF encoded THEN Gob(Cursor(rs, 0)) ELSE Cursor(rs, 0)
    /\ UNCHANGED <<transport, worker, holder, response, delivered, faults>>

(* BindArgs or the client fails: the SQL statement fails with it. *)
NewStateError ==
    /\ phase = "newState" /\ worker = "up" /\ phase' = "failed"
    /\ UNCHANGED <<transport, worker, cursor, holder, response, fetched,
                   delivered, faults>>

(* A tick of Process in a worker that keeps the state in memory. *)
ProcessLive ==
    /\ phase = "streaming" /\ worker = "up" /\ transport = "live"
    /\ IF SliceDone(cursor)
       THEN phase' = "finished" /\ UNCHANGED <<cursor, delivered>>
       ELSE /\ delivered' = delivered \o Slice(cursor)
            /\ cursor' = Advance(cursor) /\ UNCHANGED phase
    /\ UNCHANGED <<transport, worker, holder, response, fetched, faults>>

(* (Slips: the token taken before the cursor advances, as with the bool     *)
(* Done of functions.go:43-47; a stream that is never finished.)           *)
ExchangeStale(c) ==
    IF SliceDone(c)
    THEN [batch |-> <<>>, done |-> TRUE, token |-> Gob(c), sent |-> TRUE]
    ELSE [batch |-> Slice(c), done |-> FALSE, token |-> Gob(c), sent |-> TRUE]
ExchangeEndless(c) ==
    [batch |-> IF SliceDone(c) THEN <<>> ELSE Slice(c), done |-> FALSE,
     token |-> IF SliceDone(c) THEN Gob(c) ELSE Gob(Advance(c)), sent |-> TRUE]

(* What one HTTP exchange answers for the cursor c: a tick of Process, and  *)
(* the state after it encoded into the token.                              *)
Exchange(c) ==
    IF SliceDone(c)
    THEN [batch |-> <<>>, done |-> TRUE, token |-> Gob(c), sent |-> TRUE]
    ELSE [batch |-> Slice(c), done |-> FALSE, token |-> Gob(Advance(c)), sent |-> TRUE]

ProcessHTTP ==
    /\ phase = "streaming" /\ worker = "up" /\ transport = "http"
    /\ response = NoResponse /\ response' = Exchange(cursor)
    /\ UNCHANGED <<transport, worker, phase, cursor, holder, fetched,
                   delivered, faults>>

Receive ==
    /\ phase = "streaming" /\ response # NoResponse
    /\ response' = NoResponse /\ cursor' = response.token /\ holder' = "client"
    /\ delivered' = delivered \o response.batch
    /\ phase' = IF response.done THEN "finished" ELSE phase
    /\ UNCHANGED <<transport, worker, fetched, faults>>

-----------------------------------------------------------------------------
(* Faults.  A state only the worker holds is gone with it; a token is good *)
(* for another attempt.                                                    *)

PhaseWithoutWorker == IF holder = "worker" THEN "aborted" ELSE phase

Lose ==
    /\ phase = "streaming" /\ response # NoResponse /\ faults < MaxFaults
    /\ response' = NoResponse /\ faults' = faults + 1
    /\ phase' = PhaseWithoutWorker
    /\ UNCHANGED <<transport, worker, cursor, holder, fetched, delivered>>

(* A response already on its way may still arrive. *)
Crash ==
    /\ phase \in {"newState", "streaming"} /\ worker = "up" /\ faults < MaxFaults
    /\ worker' = "down" /\ faults' = faults + 1
    /\ phase' = IF response = NoResponse THEN PhaseWithoutWorker ELSE phase
    /\ UNCHANGED <<transport, cursor, holder, response, fetched, delivered>>

Restart ==
    /\ worker = "down" /\ transport = "http" /\ worker' = "up"
    /\ UNCHANGED <<transport, phase, cursor, holder, response, fetched,
                   delivered, faults>>

(* DuckDB stops the scan: a LIMIT is satisfied, the statement is cancelled,*)
(* a request has failed once too often.                                    *)
GiveUp ==
    /\ phase \in {"newState", "streaming"} /\ phase' = "aborted"
    /\ UNCHANGED <<transport, worker, cursor, holder, response, fetched,
                   delivered, faults>>

-----------------------------------------------------------------------------
Results == BoundedSeq(Row, MaxResults)
Ended   == phase \in {"finished", "failed", "aborted"}
Done    == Ended /\ UNCHANGED scanVars

Tick  == ProcessLive \/ ProcessHTTP \/ Receive
Start == (\E rs \in Results : NewState(rs)) \/ NewStateError
Next  == Start \/ Tick \/ Lose \/ Crash \/ Restart \/ GiveUp \/ Done

(* DuckDB pulls until the end of the stream; a worker behind HTTP is run   *)
(* by a supervisor (docker) that restarts it.                              *)
Fairness ==
    /\ WF_scanVars(Start) /\ WF_scanVars(Tick) /\ WF_scanVars(Restart)

Spec == Init /\ [][Next]_scanVars /\ Fairness

-----------------------------------------------------------------------------
CursorState == [Rows : Seq(Row), Offset : Nat]

TypeOK ==
    /\ transport \in {"live", "http"} /\ worker \in {"up", "down"}
    /\ phase \in {"newState", "streaming", "finished", "failed", "aborted"}
    /\ cursor \in CursorState /\ holder \in {"worker", "client"}
    /\ response \in [batch : Seq(Row), done : BOOLEAN, token : CursorState, sent : BOOLEAN]
    /\ fetched \in Seq(Row) /\ delivered \in Seq(Row) /\ faults \in Nat

Ids(rs) == [i \in DOMAIN rs |-> rs[i].cve]

(* What a delivered row may have lost against the fetched one: a score of  *)
(* zero may have become NULL, and nothing else has happened to it.  In     *)
(* particular a CVE without metrics is never given a score ("rather than a *)
(* misleading 0", README.md).                                              *)
RowFidelity ==
    /\ Len(delivered) <= Len(fetched)
    /\ \A i \in DOMAIN delivered :
          /\ delivered[i].cve = fetched[i].cve
          /\ delivered[i].score # fetched[i].score =>
                fetched[i].score = 0 /\ delivered[i].score = NoScore

(* A scan that finished delivered every fetched row, whatever was lost,    *)
(* crashed or asked for twice on the way (functions.go:43-51).             *)
FinishedIsComplete == phase = "finished" => Ids(delivered) = Ids(fetched)

(* The cursor the next tick starts from stands where delivery stands,      *)
(* whether the worker or the token holds it: a tick repeated after a lost  *)
(* response answers with the rows that are due, none twice, none skipped.  *)
CursorIsDelivery ==
    /\ cursor.Offset = Len(delivered)
    /\ Ids(cursor.Rows) = Ids(fetched)

(* A NULL cvss_score means the CVE has no metrics (functions.go:285,       *)
(* README.md "No CVSS metrics -> NULL score").                             *)
NullMeansNoMetrics ==
    \A i \in DOMAIN delivered : delivered[i].score = NoScore => fetched[i].score = NoScore

-----------------------------------------------------------------------------
(* The inductive strengthening of RowFidelity, CursorIsDelivery and        *)
(* FinishedIsComplete.                                                     *)

(* rs holds the first rows of ss, as they are or through gob. *)
Carries(rs, ss) ==
    /\ Len(rs) <= Len(ss)
    /\ \A i \in 1 .. Len(rs) : rs[i] \in {ss[i], GobRow(ss[i])}

ScanInv ==
    /\ Carries(cursor.Rows, fetched) /\ Len(cursor.Rows) = Len(fetched)
    /\ Carries(delivered, fetched) /\ cursor.Offset = Len(delivered)
    /\ response \in {NoResponse, Exchange(cursor)}
    /\ phase = "newState" => fetched = <<>> /\ response = NoResponse
    /\ transport = "live" => response = NoResponse
    /\ phase = "finished" => Len(delivered) = Len(fetched)
    /\ Len(fetched) <= MaxResults

(* Every scan ends: no tick sees a state from before its own emit for ever.*)
Terminates == <>Ended

Promise == INSTANCE LookupPromise WITH
    status    <- CASE phase = "newState" -> "pending" [] phase = "failed" -> "error"
                   [] OTHER -> phase,
    answer    <- Ids(fetched),
    delivered <- Ids(delivered)

(* The scan keeps the abstract promise, step by step. *)
KeepsPromise == Promise!Spec
====
