--------------------------- MODULE CveQueryProofs ---------------------------
(* Theorems about CveQuery: what a SQL call never shows when its fetch     *)
(* fails or its argument is NULL, for any records, answers and faults.     *)
EXTENDS CveQuery, TLAPS

(* A state without rows is the same before and after gob. *)
LEMMA GobOfNothing == Scan!Gob(Scan!Cursor(<<>>, 0)) = Scan!Cursor(<<>>, 0)
<1>1. [i \in DOMAIN <<>> |-> Scan!GobRow(<<>>[i])] = <<>>
  OBVIOUS
<1> QED
  BY <1>1 DEF Scan!Gob, Scan!Cursor

LEMMA NothingIsDone ==
    /\ Scan!SliceDone(Scan!Cursor(<<>>, 0))
    /\ Scan!Exchange(Scan!Cursor(<<>>, 0)).batch = <<>>
    /\ Scan!Exchange(Scan!Cursor(<<>>, 0)).token = Scan!Cursor(<<>>, 0)
<1>1. Scan!SliceDone(Scan!Cursor(<<>>, 0))
  BY DEF Scan!SliceDone, Scan!Cursor
<1> QED
  BY <1>1, GobOfNothing DEF Scan!Exchange

LEMMA InitCall == Init => CallInv
BY DEF Init, Client!Init, Scan!Init, Scan!NoResponse, Scan!Cursor, CallInv, NullInv, AllOrNothing

(* The client's steps, which leave the scan alone. *)
LEMMA FetchStep == CallInv /\ Fetch => CallInv'
<1> SUFFICES ASSUME CallInv, Fetch PROVE CallInv'
  OBVIOUS
<1>1. running /\ running' /\ ~IsNullArg(arg) /\ ~IsNullArg(arg)' /\ UNCHANGED scanVars
  BY DEF Fetch, scanVars, IsNullArg
<1>2. pc' # "done" => err' = "none"
  <2>1. Client!Client /\ pc # "done" /\ err = "none"
    BY DEF Fetch, CallInv
  <2> QED
    BY <2>1 DEF Client!Client, Client!Request, Client!BadURL, Client!Timeout, Client!Reject,
       Client!Fail, Client!FetchCVE, Client!PaginateFull, Client!PaginateEnd,
       Client!PaginateMore, Client!Return
<1>3. phase' \in {"newState", "aborted"} /\ delivered' = <<>>
  BY <1>1 DEF CallInv, scanVars
<1> QED
  BY <1>1, <1>2, <1>3 DEF CallInv, AllOrNothing

(* The service's steps, which cannot answer what was not asked. *)
LEMMA ServeStep == CallInv /\ Serve => CallInv'
<1> SUFFICES ASSUME CallInv, Serve PROVE CallInv'
  OBVIOUS
<1>1. UNCHANGED scanVars /\ Client!Service
  BY DEF Serve
<1>2. UNCHANGED <<err, requests>> /\ (pc' = pc \/ (pc = "waiting" /\ pc' = "answered"))
  <2>1. CASE Client!AnswerPage
    BY <2>1 DEF Client!AnswerPage, Client!Answer
  <2>2. CASE Client!AnswerUnknown
    BY <2>2 DEF Client!AnswerUnknown, Client!Answer
  <2>3. CASE Client!AnswerBroken
    BY <2>3 DEF Client!AnswerBroken, Client!Answer
  <2>4. CASE Client!AnswerOdd
    BY <2>4 DEF Client!AnswerOdd, Client!Answer
  <2>5. CASE Client!Publish
    BY <2>5 DEF Client!Publish, Client!Change, Client!clientVars
  <2>6. CASE Client!Withdraw
    BY <2>6 DEF Client!Withdraw, Client!Change, Client!clientVars
  <2> QED
    BY <1>1, <2>1, <2>2, <2>3, <2>4, <2>5, <2>6 DEF Client!Service
<1> QED
  BY <1>1, <1>2 DEF CallInv, NullInv, AllOrNothing, scanVars, IsNullArg

(* NewState hands over what the client returned. *)
LEMMA NewStateStep == CallInv /\ (BindError \/ NewState) => CallInv'
<1> SUFFICES ASSUME CallInv, BindError \/ NewState PROVE CallInv'
  OBVIOUS
<1> USE DEF CallInv, AllOrNothing, IsNullArg, netVars, NullInv
<1>1. CASE BindError
  BY <1>1 DEF BindError, Scan!NewStateError
<1>2. CASE NewStateNull
  <2>1. /\ pc = "request" /\ IsNullArg(arg) /\ Scan!NewState(<<>>) /\ ~running'
        /\ UNCHANGED <<netVars, arg>>
    BY <1>2 DEF NewStateNull, Untouched
  <2>2. cursor' = Scan!Cursor(<<>>, 0)
    BY <2>1, GobOfNothing DEF Scan!NewState
  <2>3. /\ phase' = "streaming" /\ fetched' = <<>>
        /\ UNCHANGED <<response, delivered>>
    BY <2>1 DEF Scan!NewState
  <2> QED
    BY <2>1, <2>2, <2>3
<1>3. CASE NewStateRows
  BY <1>3 DEF NewStateRows, Scan!NewState
<1>4. CASE NewStateFails
  BY <1>4 DEF NewStateFails, Scan!NewStateError
<1> QED
  BY <1>1, <1>2, <1>3, <1>4 DEF NewState

LEMMA StreamStep == CallInv /\ Stream => CallInv'
<1> SUFFICES ASSUME CallInv, Stream PROVE CallInv'
  OBVIOUS
<1> USE DEF CallInv, AllOrNothing, IsNullArg, netVars
<1>1. phase = "streaming" /\ ~running /\ ~running' /\ err = "none" /\ UNCHANGED <<netVars, arg>>
  BY DEF Stream, Scan!ProcessLive, Scan!ProcessHTTP, Scan!Receive
<1>2. phase' \in {"streaming", "finished"} /\ fetched' = fetched
  BY <1>1 DEF Stream, Scan!ProcessLive, Scan!ProcessHTTP, Scan!Receive
<1>3. ASSUME IsNullArg(arg)
      PROVE  NullInv'
  <2>1. NullInv /\ Scan!SliceDone(cursor)
    BY <1>3, NothingIsDone DEF NullInv
  <2>2. CASE Scan!ProcessLive
    BY <1>1, <2>1, <2>2 DEF Scan!ProcessLive, NullInv
  <2>3. CASE Scan!ProcessHTTP
    BY <1>1, <2>1, <2>3, NothingIsDone DEF Scan!ProcessHTTP, NullInv
  <2>4. CASE Scan!Receive
    <3>1. delivered' = <<>> /\ cursor' = Scan!Cursor(<<>>, 0) /\ response' = Scan!NoResponse
      BY <2>1, <2>4 DEF Scan!Receive, NullInv
    <3>2. response'.batch = <<>> /\ response'.token = Scan!Cursor(<<>>, 0)
      BY <3>1 DEF Scan!NoResponse
    <3> QED
      BY <1>1, <1>2, <2>1, <3>1, <3>2 DEF NullInv
  <2> QED
    BY <2>2, <2>3, <2>4 DEF Stream
<1> QED
  BY <1>1, <1>2, <1>3

LEMMA FaultStep == CallInv /\ (Crash \/ Disturb) => CallInv'
<1> SUFFICES ASSUME CallInv, Crash \/ Disturb PROVE CallInv'
  OBVIOUS
<1>1. /\ UNCHANGED <<netVars, arg, cursor, fetched, delivered>> /\ (running' => running)
      /\ phase' = phase \/ (phase \in {"newState", "streaming"} /\ phase' = "aborted")
      /\ response' = response \/ response' = Scan!NoResponse
  BY DEF Crash, Disturb, Scan!Crash, Scan!Lose, Scan!Restart, Scan!GiveUp,
     Scan!PhaseWithoutWorker
<1>2. NullInv => NullInv'
  BY <1>1 DEF NullInv, netVars, Scan!NoResponse
<1> QED
  BY <1>1, <1>2 DEF CallInv, AllOrNothing, IsNullArg, netVars

LEMMA NextCall == CallInv /\ [Next]_vars => CallInv'
<1> SUFFICES ASSUME CallInv, [Next]_vars PROVE CallInv'
  OBVIOUS
<1>1. CASE UNCHANGED vars
  BY <1>1 DEF vars, netVars, scanVars, CallInv, NullInv, AllOrNothing, IsNullArg
<1> QED
  BY <1>1, FetchStep, ServeStep, NewStateStep, StreamStep, FaultStep DEF Next, Done

(* At any moment of a call: the scan has no rows while the fetch runs, and *)
(* what a failed fetch or a NULL argument leaves behind is nothing.        *)
THEOREM CallInvariant == Spec => []CallInv
<1> QED
  BY InitCall, NextCall, PTL DEF Spec

(* A fetch that fails, at whatever page and also after the statement was   *)
(* cancelled, shows no row and never looks like an empty result.           *)
THEOREM CallsAreAllOrNothing == Spec => []AllOrNothing
<1>1. CallInv => AllOrNothing
  BY DEF CallInv
<1> QED
  BY <1>1, CallInvariant, PTL

(* A NULL argument makes no request and yields no row, whatever is lost or *)
(* crashes.                                                                *)
THEOREM NullIsSilent == Spec => []NullAsksNothing
<1>1. CallInv => NullAsksNothing
  BY DEF CallInv, NullInv, NullAsksNothing
<1> QED
  BY <1>1, CallInvariant, PTL
-----------------------------------------------------------------------------
(* The two parts.  What was proved of them alone holds of their state      *)
(* inside the call, whose steps are theirs.                                *)

ClientP == INSTANCE NvdClientProofs
ScanP   == INSTANCE TableScanProofs

LEMMA ClientConstants ==
    /\ Ops \subseteq ClientP!Operation
    /\ MaxResults \in Nat \ {0} /\ ResultsPerPage \in Nat \ {0}
    /\ OddReplies \subseteq [page : Seq(CVE), total : Int]
    /\ MaxCorpus \in Nat \ {0} /\ MaxChanges \in Nat
BY QueryAssumption DEF ClientP!Operation

LEMMA ScanConstants ==
    /\ Score \subseteq Nat /\ 0 \in Score /\ NoScore \notin Score
    /\ MaxResults \in Nat /\ RowsPerTick \in Nat \ {0}
    /\ Transports \subseteq {"live", "http"} /\ Handovers \subseteq BOOLEAN
    /\ MaxFaults \in Nat
BY QueryAssumption

LEMMA SameClientInv ==
    /\ Client!TypeOK <=> ClientP!TypeOK
    /\ Client!WalkInv <=> ClientP!WalkInv
<1>1. Client!TypeOK <=> ClientP!TypeOK
  BY DEF Client!TypeOK, ClientP!TypeOK, Client!Operation, ClientP!Operation,
     Client!Reply, ClientP!Reply, Client!Body, ClientP!Body
<1>2. Client!Position <=> ClientP!Position
  BY DEF Client!Position, ClientP!Position
<1>3. Client!Budget <=> ClientP!Budget
  BY DEF Client!Budget, ClientP!Budget
<1>4. Client!Tiled <=> ClientP!Tiled
  BY DEF Client!Tiled, ClientP!Tiled, Client!Continues, ClientP!Continues,
     Client!Agrees, ClientP!Agrees, Client!GetError, ClientP!GetError,
     Client!Least, ClientP!Least
<1> QED
  BY <1>1, <1>2, <1>3, <1>4 DEF Client!WalkInv, ClientP!WalkInv

LEMMA SameClientStep == Client!Client => ClientP!Client
<1> USE DEF Client!Fail, ClientP!Fail, Client!Accepted, ClientP!Accepted,
    Client!Return, ClientP!Return, Client!GetError, ClientP!GetError,
    Client!Room, ClientP!Room, Client!LastPage, ClientP!LastPage,
    Client!Next_startIndex, ClientP!Next_startIndex, Client!Least, ClientP!Least
<1> QED
  BY DEF Client!Client, ClientP!Client, Client!Request, ClientP!Request,
     Client!BadURL, ClientP!BadURL, Client!Timeout, ClientP!Timeout,
     Client!Reject, ClientP!Reject, Client!FetchCVE, ClientP!FetchCVE,
     Client!PaginateFull, ClientP!PaginateFull, Client!PaginateEnd, ClientP!PaginateEnd,
     Client!PaginateMore, ClientP!PaginateMore

LEMMA SameService == Client!Service => ClientP!Service
<1> USE DEF Client!Answer, ClientP!Answer, Client!Envelope, ClientP!Envelope,
    Client!Broken, ClientP!Broken, Client!GetError, ClientP!GetError,
    Client!Remaining, ClientP!Remaining, Client!Least, ClientP!Least,
    Client!Change, ClientP!Change, Client!Walked, ClientP!Walked,
    Client!Capacity, ClientP!Capacity, Client!clientVars, ClientP!clientVars
<1> QED
  BY DEF Client!Service, ClientP!Service, Client!AnswerPage, ClientP!AnswerPage,
     Client!AnswerUnknown, ClientP!AnswerUnknown, Client!AnswerBroken, ClientP!AnswerBroken,
     Client!AnswerOdd, ClientP!AnswerOdd, Client!Publish, ClientP!Publish,
     Client!Withdraw, ClientP!Withdraw, Client!InsertAt, ClientP!InsertAt,
     Client!RemoveAt, ClientP!RemoveAt, Client!ToSet, ClientP!ToSet

LEMMA SameClientInit == Client!Init => ClientP!Init
BY DEF Client!Init, ClientP!Init, Client!Envelope, ClientP!Envelope,
   Client!Corpora, ClientP!Corpora, Client!Capacity, ClientP!Capacity,
   Client!BoundedSeq, ClientP!BoundedSeq, Client!SeqOf, ClientP!SeqOf,
   Client!IsInjective, ClientP!IsInjective
(* The walk keeps its invariant in every step of the call. *)
LEMMA InitWalk == Init => Client!TypeOK /\ Client!WalkInv
<1>1. ClientP!Init => ClientP!TypeOK
  BY ClientConstants, ClientP!InitTypeOK
<1>2. ClientP!Init => ClientP!Position /\ ClientP!Budget
  BY ClientConstants, ClientP!InitBounds
<1>3. ClientP!Init => ClientP!Tiled
  BY ClientConstants, ClientP!InitTiled
<1> QED
  BY <1>1, <1>2, <1>3, SameClientInit, SameClientInv DEF Init, ClientP!WalkInv

LEMMA NextWalk ==
    ASSUME Client!TypeOK, Client!WalkInv,
           Client!Client \/ Client!Service \/ UNCHANGED netVars
    PROVE  (Client!TypeOK /\ Client!WalkInv)'
<1>1. [ClientP!Next]_(ClientP!vars)
  BY SameClientStep, SameService DEF ClientP!Next, ClientP!vars, ClientP!clientVars, netVars
<1>2. ClientP!TypeOK /\ ClientP!Position /\ ClientP!Budget /\ ClientP!Tiled
  BY SameClientInv DEF ClientP!WalkInv
<1>3. ClientP!TypeOK'
  BY <1>1, <1>2, ClientConstants, ClientP!NextTypeOK
<1>4. ClientP!Position' /\ ClientP!Budget'
  BY <1>1, <1>2, ClientConstants, ClientP!NextBounds
<1>5. ClientP!Tiled'
  BY <1>1, <1>2, ClientConstants, ClientP!NextTiled
<1>6. (Client!TypeOK <=> ClientP!TypeOK)' /\ (Client!WalkInv <=> ClientP!WalkInv)'
  BY SameClientInv, PTL
<1> QED
  BY <1>3, <1>4, <1>5, <1>6 DEF ClientP!WalkInv
-----------------------------------------------------------------------------
(* The scan. *)
LEMMA SameScanInv ==
    /\ Scan!TypeOK <=> ScanP!TypeOK
    /\ Scan!ScanInv <=> ScanP!ScanInv
<1>1. Scan!TypeOK <=> ScanP!TypeOK
  BY DEF Scan!TypeOK, ScanP!TypeOK, Scan!CursorState, ScanP!CursorState, Scan!Row, ScanP!Row
<1>2. Scan!ScanInv <=> ScanP!ScanInv
  BY DEF Scan!ScanInv, ScanP!ScanInv, Scan!Carries, ScanP!Carries, Scan!GobRow, ScanP!GobRow,
     Scan!NoResponse, ScanP!NoResponse, Scan!Exchange, ScanP!Exchange, Scan!SliceDone,
     ScanP!SliceDone, Scan!Slice, ScanP!Slice, Scan!SliceEnd, ScanP!SliceEnd, Scan!Gob,
     ScanP!Gob, Scan!Advance, ScanP!Advance, Scan!Cursor, ScanP!Cursor
<1> QED
  BY <1>1, <1>2

LEMMA SameScanInit == Scan!Init => ScanP!Init
BY DEF Scan!Init, ScanP!Init, Scan!NoResponse, ScanP!NoResponse, Scan!Cursor, ScanP!Cursor

LEMMA SameNewState ==
    ASSUME NEW rs, Scan!NewState(rs)
    PROVE  ScanP!NewState(rs)
BY DEF Scan!NewState, ScanP!NewState, Scan!Gob, ScanP!Gob, Scan!GobRow, ScanP!GobRow,
   Scan!Cursor, ScanP!Cursor

LEMMA SameScanStep ==
    ASSUME \/ Scan!NewStateError \/ Scan!ProcessLive \/ Scan!ProcessHTTP \/ Scan!Receive
           \/ Scan!Lose \/ Scan!Crash \/ Scan!Restart \/ Scan!GiveUp
    PROVE  ScanP!Next
<1> USE DEF Scan!NoResponse, ScanP!NoResponse, Scan!SliceDone, ScanP!SliceDone, Scan!Slice,
    ScanP!Slice, Scan!SliceEnd, ScanP!SliceEnd, Scan!Gob, ScanP!Gob, Scan!GobRow,
    ScanP!GobRow, Scan!Advance, ScanP!Advance, Scan!Cursor, ScanP!Cursor,
    ScanP!Next, ScanP!Start, ScanP!Tick
<1>1. CASE Scan!NewStateError
  BY <1>1 DEF Scan!NewStateError, ScanP!NewStateError
<1>2. CASE Scan!ProcessLive
  BY <1>2 DEF Scan!ProcessLive, ScanP!ProcessLive
<1>3. CASE Scan!ProcessHTTP
  BY <1>3 DEF Scan!ProcessHTTP, ScanP!ProcessHTTP, Scan!Exchange, ScanP!Exchange
<1>4. CASE Scan!Receive
  BY <1>4 DEF Scan!Receive, ScanP!Receive
<1>5. CASE Scan!Lose
  BY <1>5 DEF Scan!Lose, ScanP!Lose, Scan!PhaseWithoutWorker, ScanP!PhaseWithoutWorker
<1>6. CASE Scan!Crash
  BY <1>6 DEF Scan!Crash, ScanP!Crash, Scan!PhaseWithoutWorker, ScanP!PhaseWithoutWorker
<1>7. CASE Scan!Restart
  BY <1>7 DEF Scan!Restart, ScanP!Restart
<1>8. CASE Scan!GiveUp
  BY <1>8 DEF Scan!GiveUp, ScanP!GiveUp
<1> QED
  BY <1>1, <1>2, <1>3, <1>4, <1>5, <1>6, <1>7, <1>8

(* What NewState hands over is a result the scan was proved about. *)
LEMMA ProjectedFacts ==
    ASSUME NEW rs \in Seq(CVE)
    PROVE  /\ Projected(rs) \in Seq(ScanP!Row) /\ Len(Projected(rs)) = Len(rs)
           /\ \A i \in 1 .. Len(rs) : Projected(rs)[i].cve = rs[i]
<1>1. DOMAIN rs = 1 .. Len(rs) /\ Len(rs) \in Nat
  OBVIOUS
<1>2. \A i \in 1 .. Len(rs) : [cve |-> rs[i], score |-> ScoreOf[rs[i]]] \in ScanP!Row
  <2>1. \A i \in 1 .. Len(rs) : rs[i] \in CVE
    OBVIOUS
  <2> QED
    BY <2>1, QueryAssumption DEF ScanP!Row
<1>3. Projected(rs) = [i \in 1 .. Len(rs) |-> [cve |-> rs[i], score |-> ScoreOf[rs[i]]]]
  BY <1>1 DEF Projected
<1> QED
  BY <1>1, <1>2, <1>3

LEMMA ResultFacts ==
    ASSUME NEW rs \in Seq(ScanP!Row), Len(rs) <= MaxResults
    PROVE  rs \in ScanP!Results
BY QueryAssumption DEF ScanP!Results, ScanP!BoundedSeq, ScanP!SeqOf

(* Every step of the call is a step of the scan, or leaves it alone. *)
LEMMA ScanStep ==
    ASSUME Client!TypeOK, Client!WalkInv, [Next]_vars
    PROVE  [ScanP!Next]_(ScanP!scanVars)
<1>1. CASE BindError
  BY <1>1, SameScanStep DEF BindError
<1>2. CASE NewStateNull
  <2>1. <<>> \in ScanP!Results
    <3>1. <<>> \in Seq(ScanP!Row) /\ Len(<<>>) <= MaxResults
      BY QueryAssumption
    <3> QED
      BY <3>1, ResultFacts
  <2> QED
    BY <1>2, <2>1, SameNewState DEF NewStateNull, ScanP!Next, ScanP!Start
<1>3. CASE NewStateRows
  <2>1. rows \in Seq(CVE) /\ Len(rows) <= MaxResults
    BY DEF Client!TypeOK, Client!WalkInv, Client!Budget
  <2>2. Projected(rows) \in ScanP!Results
    BY <2>1, ProjectedFacts, ResultFacts
  <2> QED
    BY <1>3, <2>2, SameNewState DEF NewStateRows, ScanP!Next, ScanP!Start
<1>4. CASE NewStateFails
  BY <1>4, SameScanStep DEF NewStateFails
<1>5. CASE Crash
  BY <1>5, SameScanStep DEF Crash
<1>6. CASE Stream
  BY <1>6, SameScanStep DEF Stream
<1>7. CASE Disturb
  BY <1>7, SameScanStep DEF Disturb
<1>8. CASE Fetch \/ Serve \/ UNCHANGED vars
  BY <1>8 DEF Fetch, Serve, vars, scanVars, ScanP!scanVars
<1> QED
  BY <1>1, <1>2, <1>3, <1>4, <1>5, <1>6, <1>7, <1>8 DEF Next, NewState, Done
LEMMA InitScan == Init => Scan!TypeOK /\ Scan!ScanInv
<1>1. ScanP!Init => ScanP!TypeOK
  BY ScanConstants, ScanP!InitTypeOK
<1>2. ScanP!Init => ScanP!ScanInv
  BY ScanConstants, ScanP!InitScanInv
<1> QED
  BY <1>1, <1>2, SameScanInit, SameScanInv DEF Init

LEMMA NextScan ==
    ASSUME Scan!TypeOK, Scan!ScanInv, [ScanP!Next]_(ScanP!scanVars)
    PROVE  (Scan!TypeOK /\ Scan!ScanInv)'
<1>1. ScanP!TypeOK /\ ScanP!ScanInv
  BY SameScanInv
<1>2. ScanP!TypeOK'
  BY <1>1, ScanConstants, ScanP!NextTypeOK
<1>3. ScanP!ScanInv'
  BY <1>1, ScanConstants, ScanP!NextScanInv
<1>4. (Scan!TypeOK <=> ScanP!TypeOK)' /\ (Scan!ScanInv <=> ScanP!ScanInv)'
  BY SameScanInv, PTL
<1> QED
  BY <1>2, <1>3, <1>4

-----------------------------------------------------------------------------
(* What is handed over stays what the walk returned. *)
LEMMA NextHanded ==
    ASSUME CallInv, Handed, [Next]_vars
    PROVE  Handed'
<1> USE DEF Handed
<1>1. CASE BindError \/ NewStateFails
  BY <1>1 DEF BindError, NewStateFails, Scan!NewStateError
<1>2. CASE NewStateNull
  BY <1>2 DEF NewStateNull, IsNullArg
<1>3. CASE NewStateRows
  BY <1>3 DEF NewStateRows, Scan!NewState, netVars, Projected
<1>4. CASE Fetch
  <2>1. phase' \in {"newState", "aborted"}
    BY <1>4 DEF Fetch, CallInv, scanVars
  <2> QED
    BY <2>1
<1>5. CASE Serve
  <2>1. pc = "done" => UNCHANGED <<pc, err, rows>>
    BY <1>5 DEF Serve, Client!Service, Client!AnswerPage, Client!AnswerUnknown,
       Client!AnswerBroken, Client!AnswerOdd, Client!Answer, Client!Publish,
       Client!Withdraw, Client!Change
  <2> QED
    BY <1>5, <2>1 DEF Serve, scanVars, IsNullArg, Projected
<1>6. CASE Crash
  BY <1>6 DEF Crash, Scan!Crash, Scan!PhaseWithoutWorker, netVars, IsNullArg, Projected
<1>7. CASE Stream
  <2>1. phase = "streaming" /\ UNCHANGED <<netVars, arg, fetched>>
    BY <1>7 DEF Stream, Scan!ProcessLive, Scan!ProcessHTTP, Scan!Receive
  <2> QED
    BY <2>1 DEF netVars, IsNullArg, Projected
<1>8. CASE Disturb
  <2>1. UNCHANGED <<netVars, arg, fetched>> /\ phase' \in {phase, "aborted"}
    BY <1>8 DEF Disturb, Scan!Lose, Scan!Restart, Scan!GiveUp, Scan!PhaseWithoutWorker
  <2> QED
    BY <2>1 DEF netVars, IsNullArg, Projected
<1>9. CASE UNCHANGED vars
  BY <1>9 DEF vars, netVars, scanVars, IsNullArg, Projected
<1> QED
  BY <1>1, <1>2, <1>3, <1>4, <1>5, <1>6, <1>7, <1>8, <1>9 DEF Next, NewState, Done

LEMMA NextQuery == QueryInv /\ [Next]_vars => QueryInv'
<1> SUFFICES ASSUME QueryInv, [Next]_vars PROVE QueryInv'
  OBVIOUS
<1> USE DEF QueryInv
<1>1. CallInv'
  BY NextCall
<1>2. Handed'
  BY NextHanded
<1>3. (Client!TypeOK /\ Client!WalkInv)'
  <2>1. Client!Client \/ Client!Service \/ UNCHANGED netVars
    BY DEF Next, BindError, NewState, NewStateNull, NewStateRows, NewStateFails, Fetch,
       Serve, Crash, Stream, Disturb, Done, vars
  <2> QED
    BY <2>1, NextWalk
<1>4. (Scan!TypeOK /\ Scan!ScanInv)'
  BY ScanStep, NextScan
<1> QED
  BY <1>1, <1>2, <1>3, <1>4

(* The walk and the scan keep their invariants inside a call, and what the *)
(* scan streams is the projection of what the walk returned.               *)
THEOREM QueryInvariant == Spec => []QueryInv
<1>1. Init => QueryInv
  BY InitCall, InitWalk, InitScan DEF Init, Scan!Init, Handed, QueryInv
<1> QED
  BY <1>1, NextQuery, PTL DEF Spec

(* The ids of what NewState projects are the rows of the walk. *)
LEMMA ProjectedIds ==
    ASSUME NEW rs \in Seq(CVE)
    PROVE  ScanP!Ids(Projected(rs)) = rs
<1>1. /\ Projected(rs) \in Seq(ScanP!Row) /\ Len(Projected(rs)) = Len(rs)
      /\ \A i \in 1 .. Len(rs) : Projected(rs)[i].cve = rs[i]
  BY ProjectedFacts
<1>2. /\ ScanP!Ids(Projected(rs)) \in Seq(CVE)
      /\ Len(ScanP!Ids(Projected(rs))) = Len(rs)
      /\ \A i \in 1 .. Len(rs) : ScanP!Ids(Projected(rs))[i] = Projected(rs)[i].cve
  BY <1>1, ScanConstants, ScanP!IdsFacts
<1> QED
  BY <1>1, <1>2, ClientP!SeqEqual

(* What SQL has from a scan that ran to its end is what the service had:   *)
(* every record in order, up to MaxResults, unless the part already walked *)
(* was changed meanwhile; over either transport, through any number of     *)
(* lost responses, crashes and restarts.                                   *)
THEOREM QueryIsEndToEnd == Spec => []EndToEnd
<1>1. ASSUME QueryInv, phase = "finished", ~IsNullArg(arg), ~disturbed
      PROVE  /\ Scan!Ids(delivered) = SubSeq(corpus, 1, Len(delivered))
             /\ Len(delivered) = Client!Least(MaxResults, reply.total)
  <2>1. /\ pc = "done" /\ err = "none" /\ fetched = Projected(rows)
        /\ rows \in Seq(CVE) /\ corpus \in Seq(CVE)
    BY <1>1 DEF QueryInv, Handed, Client!TypeOK
  <2>2. /\ Client!Agrees(rows, corpus, 0)
        /\ Len(rows) = Client!Least(MaxResults, reply.total)
    BY <1>1, <2>1 DEF QueryInv, Client!WalkInv, Client!Tiled
  <2>3. /\ ScanP!Carries(delivered, fetched) /\ Len(delivered) = Len(fetched)
        /\ delivered \in Seq(ScanP!Row) /\ fetched \in Seq(ScanP!Row)
    BY <1>1, SameScanInv DEF QueryInv, ScanP!ScanInv, ScanP!TypeOK
  <2>4. Scan!Ids(delivered) = rows /\ Len(delivered) = Len(rows)
    <3>1. ScanP!Ids(delivered) = ScanP!Ids(fetched)
      BY <2>3, ScanConstants, ScanP!IdsSame
    <3>2. ScanP!Ids(fetched) = rows /\ Len(fetched) = Len(rows)
      BY <2>1, ProjectedIds, ProjectedFacts
    <3> QED
      BY <2>3, <3>1, <3>2 DEF Scan!Ids, ScanP!Ids
  <2>5. rows = SubSeq(corpus, 1, Len(rows))
    <3>1. /\ Len(rows) \in Nat /\ Len(rows) <= Len(corpus)
          /\ \A j \in 1 .. Len(rows) : rows[j] = corpus[j]
      BY <2>1, <2>2 DEF Client!Agrees
    <3>2. /\ SubSeq(corpus, 1, Len(rows)) \in Seq(CVE)
          /\ Len(SubSeq(corpus, 1, Len(rows))) = Len(rows)
          /\ \A j \in 1 .. Len(rows) : SubSeq(corpus, 1, Len(rows))[j] = corpus[j]
      BY <2>1, <3>1
    <3> QED
      BY <2>1, <3>1, <3>2, ClientP!SeqEqual
  <2> QED
    BY <2>2, <2>4, <2>5
<1>2. QueryInv => EndToEnd
  BY <1>1 DEF EndToEnd
<1> QED
  BY <1>2, QueryInvariant, PTL

-----------------------------------------------------------------------------
(* The promise made to SQL, kept by the whole call. *)
LEMMA InitQueryPromise == Init => Scan!Promise!Init
BY DEF Init, Scan!Init, Scan!Promise!Init, Scan!Ids

LEMMA NextQueryPromise ==
    ASSUME QueryInv, QueryInv', [Next]_vars
    PROVE  [Scan!Promise!Next]_(Scan!Promise!vars)
<1>1. /\ ScanP!TypeOK /\ ScanP!ScanInv /\ [ScanP!Next]_(ScanP!scanVars)
  BY SameScanInv, ScanStep DEF QueryInv
<1>2. ScanP!TypeOK' /\ ScanP!ScanInv'
  <2>1. (Scan!TypeOK <=> ScanP!TypeOK)' /\ (Scan!ScanInv <=> ScanP!ScanInv)'
    BY SameScanInv, PTL
  <2> QED
    BY <2>1 DEF QueryInv
<1>3. [ScanP!Promise!Next]_(ScanP!Promise!vars)
  BY <1>1, <1>2, ScanConstants, ScanP!NextPromise
<1> QED
  BY <1>3 DEF Scan!Promise!Next, ScanP!Promise!Next, Scan!Promise!vars, ScanP!Promise!vars,
     Scan!Promise!Respond, ScanP!Promise!Respond, Scan!Promise!Error, ScanP!Promise!Error,
     Scan!Promise!Deliver, ScanP!Promise!Deliver, Scan!Promise!Finish,
     ScanP!Promise!Finish, Scan!Promise!Abort, ScanP!Promise!Abort, Scan!Ids, ScanP!Ids

(* A call of cve, cve_search or cpe_cves, fetch included, keeps the        *)
(* promise of LookupPromise: one answer or one error, delivered in order,  *)
(* each record once, whatever the service answers and whatever is lost.    *)
THEOREM QueryKeepsPromise == Spec => KeepsPromise
<1>1. Init => Scan!Promise!Init
  BY InitQueryPromise
<1>2. QueryInv /\ QueryInv' /\ [Next]_vars => [Scan!Promise!Next]_(Scan!Promise!vars)
  BY NextQueryPromise
<1> QED
  BY <1>1, <1>2, QueryInvariant, PTL
  DEF Spec, KeepsPromise, Scan!KeepsPromise, Scan!Promise!Spec
====
