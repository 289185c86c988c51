-------------------------- MODULE TableScanProofs --------------------------
(* Theorems about TableScan, for every value of its constants: the rows    *)
(* per tick, the cap, the rows and scores, the transports, any number of   *)
(* lost responses and crashes.                                             *)
EXTENDS TableScan, SequenceLemmas

(* gob keeps the CVE of a row and is idempotent: a second token loses no   *)
(* more than the first.                                                    *)
LEMMA GobRowFacts ==
    ASSUME NEW r \in Row
    PROVE  GobRow(r) \in Row /\ GobRow(r).cve = r.cve /\ GobRow(GobRow(r)) = GobRow(r)
BY ScanAssumption DEF GobRow, Row

LEMMA GobFacts ==
    ASSUME NEW c \in CursorState
    PROVE  /\ Gob(c) \in CursorState /\ Gob(c).Offset = c.Offset
           /\ Len(Gob(c).Rows) = Len(c.Rows)
           /\ \A i \in 1 .. Len(c.Rows) : Gob(c).Rows[i] = GobRow(c.Rows[i])
<1>1. c.Rows \in Seq(Row) /\ c.Offset \in Nat /\ DOMAIN c.Rows = 1 .. Len(c.Rows)
  BY DEF CursorState
<1>2. Gob(c) = [Rows |-> [i \in 1 .. Len(c.Rows) |-> GobRow(c.Rows[i])], Offset |-> c.Offset]
  BY <1>1 DEF Gob, CursorState
<1>3. \A i \in 1 .. Len(c.Rows) : GobRow(c.Rows[i]) \in Row
  BY <1>1, GobRowFacts
<1>4. [i \in 1 .. Len(c.Rows) |-> GobRow(c.Rows[i])] \in Seq(Row)
  BY <1>1, <1>3
<1>5. Len([i \in 1 .. Len(c.Rows) |-> GobRow(c.Rows[i])]) = Len(c.Rows)
  BY <1>1
<1> QED
  BY <1>1, <1>2, <1>4, <1>5 DEF CursorState

(* A tick that is not done moves the cursor forward, by at most            *)
(* RowsPerTick and within the rows, and emits what it moved over.          *)
LEMMA TickFacts ==
    ASSUME NEW c \in CursorState, ~SliceDone(c)
    PROVE  /\ SliceEnd(c) \in Nat /\ c.Offset < SliceEnd(c) /\ SliceEnd(c) <= Len(c.Rows)
           /\ SliceEnd(c) <= c.Offset + RowsPerTick
           /\ Slice(c) \in Seq(Row) /\ Len(Slice(c)) = SliceEnd(c) - c.Offset
           /\ \A j \in 1 .. Len(Slice(c)) : Slice(c)[j] = c.Rows[c.Offset + j]
           /\ Advance(c) \in CursorState /\ Advance(c).Rows = c.Rows
           /\ Advance(c).Offset = SliceEnd(c)
<1>1. c.Rows \in Seq(Row) /\ c.Offset \in Nat /\ Len(c.Rows) \in Nat /\ c.Offset < Len(c.Rows)
  BY DEF CursorState, SliceDone
<1>2. /\ SliceEnd(c) \in Nat /\ c.Offset < SliceEnd(c) /\ SliceEnd(c) <= Len(c.Rows)
      /\ SliceEnd(c) <= c.Offset + RowsPerTick
  BY <1>1, ScanAssumption DEF SliceEnd
<1>3. /\ Slice(c) \in Seq(Row) /\ Len(Slice(c)) = SliceEnd(c) - c.Offset
      /\ \A j \in 1 .. SliceEnd(c) - c.Offset : Slice(c)[j] = c.Rows[c.Offset + j]
  BY <1>1, <1>2, SliceFacts DEF Slice
<1>4. Advance(c) = [Rows |-> c.Rows, Offset |-> SliceEnd(c)]
  BY DEF Advance, CursorState
<1> QED
  BY <1>1, <1>2, <1>3, <1>4 DEF CursorState

LEMMA ExchangeType ==
    ASSUME NEW c \in CursorState
    PROVE  Exchange(c) \in [batch : Seq(Row), done : BOOLEAN, token : CursorState, sent : BOOLEAN]
<1>1. CASE SliceDone(c)
  BY <1>1, GobFacts DEF Exchange
<1>2. CASE ~SliceDone(c)
  BY <1>2, GobFacts, TickFacts DEF Exchange
<1> QED
  BY <1>1, <1>2

(* A cursor at the start of fetched rows. *)
LEMMA NewCursorType ==
    ASSUME NEW rs \in Seq(Row)
    PROVE  Cursor(rs, 0) \in CursorState
BY DEF Cursor, CursorState

LEMMA NoResponseType ==
    NoResponse \in [batch : Seq(Row), done : BOOLEAN, token : CursorState, sent : BOOLEAN]
<1>1. <<>> \in Seq(Row)
  OBVIOUS
<1>2. Cursor(<<>>, 0) \in CursorState
  BY <1>1, NewCursorType
<1> QED
  BY <1>1, <1>2 DEF NoResponse

LEMMA InitTypeOK == Init => TypeOK
<1>1. <<>> \in Seq(Row)
  OBVIOUS
<1>2. Cursor(<<>>, 0) \in CursorState
  BY <1>1, NewCursorType
<1> QED
  BY <1>1, <1>2, NoResponseType, ScanAssumption DEF Init, TypeOK

LEMMA NextTypeOK == TypeOK /\ [Next]_scanVars => TypeOK'
<1> SUFFICES ASSUME TypeOK, [Next]_scanVars PROVE TypeOK'
  OBVIOUS
<1> USE DEF TypeOK
<1>1. ASSUME NEW rs \in Results, NewState(rs) PROVE TypeOK'
  <2>1. rs \in Seq(Row)
    BY DEF Results, BoundedSeq, SeqOf
  <2>2. cursor' \in CursorState
    BY <1>1, <2>1, NewCursorType, GobFacts DEF NewState
  <2> QED
    BY <1>1, <2>1, <2>2 DEF NewState
<1>2. CASE NewStateError
  BY <1>2 DEF NewStateError
<1>3. CASE ProcessLive
  <2>1. CASE SliceDone(cursor)
    BY <1>3, <2>1 DEF ProcessLive
  <2>2. CASE ~SliceDone(cursor)
    <3>1. cursor' \in CursorState /\ Slice(cursor) \in Seq(Row)
      BY <1>3, <2>2, TickFacts DEF ProcessLive
    <3>2. delivered \o Slice(cursor) \in Seq(Row)
      BY <3>1
    <3> QED
      BY <1>3, <2>2, <3>1, <3>2 DEF ProcessLive
  <2> QED
    BY <2>1, <2>2
<1>4. CASE ProcessHTTP
  BY <1>4, ExchangeType DEF ProcessHTTP
<1>5. CASE Receive
  <2>1. response.batch \in Seq(Row) /\ response.token \in CursorState
    OBVIOUS
  <2>3. delivered \o response.batch \in Seq(Row)
    BY <2>1
  <2> QED
    BY <1>5, <2>1, <2>3, NoResponseType DEF Receive
<1>6. CASE Lose
  BY <1>6, NoResponseType DEF Lose, PhaseWithoutWorker
<1>7. CASE Crash
  BY <1>7 DEF Crash, PhaseWithoutWorker
<1>8. CASE Restart
  BY <1>8 DEF Restart
<1>9. CASE GiveUp
  BY <1>9 DEF GiveUp
<1>10. CASE UNCHANGED scanVars
  BY <1>10 DEF scanVars
<1> QED
  BY <1>1, <1>2, <1>3, <1>4, <1>5, <1>6, <1>7, <1>8, <1>9, <1>10
  DEF Next, Start, Tick, Done

(* Type correctness of the scan. *)
THEOREM ScanTypeCorrect == Spec => []TypeOK
BY InitTypeOK, NextTypeOK, PTL DEF Spec

-----------------------------------------------------------------------------
(* What is carried through tokens and ticks.                               *)

LEMMA CarriesRefl ==
    ASSUME NEW rs \in Seq(Row)
    PROVE  Carries(rs, rs)
BY DEF Carries

(* Encoding a state loses nothing that is not lost already. *)
LEMMA CarriesGob ==
    ASSUME NEW c \in CursorState, NEW ss \in Seq(Row), Carries(c.Rows, ss)
    PROVE  Carries(Gob(c).Rows, ss)
<1>1. Len(Gob(c).Rows) = Len(c.Rows) /\ Len(c.Rows) \in Nat /\ Len(ss) \in Nat
  BY GobFacts DEF CursorState
<1>2. ASSUME NEW i \in 1 .. Len(c.Rows)
      PROVE  Gob(c).Rows[i] \in {ss[i], GobRow(ss[i])}
  <2>1. Gob(c).Rows[i] = GobRow(c.Rows[i])
    BY GobFacts
  <2>2. ss[i] \in Row /\ c.Rows[i] \in {ss[i], GobRow(ss[i])}
    BY <1>1 DEF Carries
  <2> QED
    BY <2>1, <2>2, GobRowFacts
<1> QED
  BY <1>1, <1>2 DEF Carries

(* A tick continues what was delivered exactly where it stopped. *)
LEMMA CarriesTick ==
    ASSUME NEW c \in CursorState, NEW d \in Seq(Row), NEW ss \in Seq(Row), ~SliceDone(c),
           Carries(c.Rows, ss), Carries(d, ss), c.Offset = Len(d)
    PROVE  /\ Carries(d \o Slice(c), ss)
           /\ Len(d \o Slice(c)) = SliceEnd(c)
<1> DEFINE e == Slice(c)
<1>1. /\ e \in Seq(Row) /\ Len(e) = SliceEnd(c) - Len(d) /\ SliceEnd(c) \in Nat
      /\ SliceEnd(c) <= Len(c.Rows) /\ Len(d) < SliceEnd(c)
      /\ \A j \in 1 .. Len(e) : e[j] = c.Rows[Len(d) + j]
  BY TickFacts
<1> HIDE DEF e
<1>2. Len(d) \in Nat /\ Len(ss) \in Nat /\ Len(c.Rows) \in Nat /\ Len(c.Rows) <= Len(ss)
  BY DEF CursorState, Carries
<1>a. /\ Len(d \o e) = Len(d) + Len(e)
      /\ \A j \in 1 .. Len(d) : (d \o e)[j] = d[j]
      /\ \A j \in 1 .. Len(e) : (d \o e)[Len(d) + j] = e[j]
  <2>1. e \in Seq(Row) /\ d \in Seq(Row)
    BY <1>1
  <2> QED
    BY <2>1, ConcatFacts
<1>3. Len(d \o e) = SliceEnd(c)
  BY <1>a, <1>1, <1>2
<1>4. ASSUME NEW i \in 1 .. SliceEnd(c)
      PROVE  (d \o e)[i] \in {ss[i], GobRow(ss[i])}
  <2>1. CASE i <= Len(d)
    BY <2>1, <1>2, <1>a DEF Carries
  <2>2. CASE i > Len(d)
    <3>1. i - Len(d) \in 1 .. Len(e) /\ Len(d) + (i - Len(d)) = i
      BY <2>2, <1>1, <1>2
    <3>2. (d \o e)[i] = c.Rows[i]
      BY <3>1, <1>1, <1>a
    <3>3. i \in 1 .. Len(c.Rows)
      BY <1>1, <1>2
    <3> QED
      BY <3>2, <3>3 DEF Carries
  <2> QED
    BY <2>1, <2>2, <1>1, <1>2
<1>5. SliceEnd(c) <= Len(ss)
  BY <1>1, <1>2
<1> QED
  BY <1>3, <1>4, <1>5 DEF Carries, e

(* The cursor and the delivered rows after the token of an exchange. *)
LEMMA ExchangeFacts ==
    ASSUME NEW c \in CursorState, NEW ss \in Seq(Row), Carries(c.Rows, ss)
    PROVE  /\ Exchange(c) # NoResponse
           /\ Exchange(c).token \in CursorState
           /\ Carries(Exchange(c).token.Rows, ss)
           /\ Len(Exchange(c).token.Rows) = Len(c.Rows)
           /\ SliceDone(c) => /\ Exchange(c).done /\ Exchange(c).batch = <<>>
                              /\ Exchange(c).token.Offset = c.Offset
           /\ ~SliceDone(c) => /\ ~Exchange(c).done /\ Exchange(c).batch = Slice(c)
                               /\ Exchange(c).token.Offset = SliceEnd(c)
<1>1. Exchange(c).sent /\ ~NoResponse.sent
  BY DEF Exchange, NoResponse
<1>2. CASE SliceDone(c)
  <2>1. /\ Exchange(c).token = Gob(c) /\ Exchange(c).done /\ Exchange(c).batch = <<>>
    BY <1>2 DEF Exchange
  <2> QED
    BY <1>1, <1>2, <2>1, GobFacts, CarriesGob
<1>3. CASE ~SliceDone(c)
  <2>1. /\ Exchange(c).token = Gob(Advance(c)) /\ ~Exchange(c).done
        /\ Exchange(c).batch = Slice(c)
    BY <1>3 DEF Exchange
  <2>2. /\ Advance(c) \in CursorState /\ Advance(c).Rows = c.Rows
        /\ Advance(c).Offset = SliceEnd(c)
    BY <1>3, TickFacts
  <2>3. /\ Gob(Advance(c)) \in CursorState /\ Gob(Advance(c)).Offset = SliceEnd(c)
        /\ Len(Gob(Advance(c)).Rows) = Len(c.Rows)
        /\ Carries(Gob(Advance(c)).Rows, ss)
    BY <2>2, GobFacts, CarriesGob
  <2> QED
    BY <1>1, <1>3, <2>1, <2>3
<1> QED
  BY <1>2, <1>3

-----------------------------------------------------------------------------
(* The inductive invariant.                                                *)

LEMMA InitScanInv == Init => ScanInv
<1> SUFFICES ASSUME Init PROVE ScanInv
  OBVIOUS
<1>1. cursor = Cursor(<<>>, 0) /\ delivered = <<>> /\ fetched = <<>> /\ response = NoResponse
      /\ phase = "newState"
  BY DEF Init
<1>2. Carries(<<>>, <<>>)
  <2>1. <<>> \in Seq(Row)
    OBVIOUS
  <2> QED
    BY <2>1, CarriesRefl
<1> QED
  BY <1>1, <1>2, ScanAssumption DEF ScanInv, Cursor

(* A tick: the same for a worker that holds its state and for an exchange. *)
LEMMA NextScanInv ==
    ASSUME TypeOK, ScanInv, [Next]_scanVars
    PROVE  ScanInv'
<1>0. /\ cursor \in CursorState /\ fetched \in Seq(Row) /\ delivered \in Seq(Row)
      /\ Len(fetched) \in Nat /\ Len(delivered) \in Nat /\ Len(cursor.Rows) \in Nat
  BY DEF TypeOK, CursorState
<1>a. /\ Carries(cursor.Rows, fetched) /\ Len(cursor.Rows) = Len(fetched)
      /\ Carries(delivered, fetched) /\ cursor.Offset = Len(delivered)
      /\ response \in {NoResponse, Exchange(cursor)}
      /\ Len(fetched) <= MaxResults
  BY DEF ScanInv
<1>1. ASSUME NEW rs \in Results, NewState(rs) PROVE ScanInv'
  <2>1. rs \in Seq(Row) /\ Len(rs) <= MaxResults
    BY ScanAssumption DEF Results, BoundedSeq, SeqOf
  <2>2. fetched = <<>> /\ response = NoResponse
    BY <1>1 DEF NewState, ScanInv
  <2>3. Len(delivered) = 0
    BY <1>0, <1>a, <2>2 DEF Carries
  <2>4. /\ Cursor(rs, 0) \in CursorState /\ Cursor(rs, 0).Rows = rs /\ Cursor(rs, 0).Offset = 0
    BY <2>1, NewCursorType DEF Cursor
  <2>5. /\ Carries(cursor'.Rows, rs) /\ Len(cursor'.Rows) = Len(rs) /\ cursor'.Offset = 0
    <3>1. CASE cursor' = Cursor(rs, 0)
      BY <3>1, <2>1, <2>4, CarriesRefl
    <3>2. CASE cursor' = Gob(Cursor(rs, 0))
      <4>1. Carries(Cursor(rs, 0).Rows, rs)
        BY <2>1, <2>4, CarriesRefl
      <4> QED
        BY <3>2, <4>1, <2>1, <2>4, GobFacts, CarriesGob
    <3> QED
      BY <1>1, <3>1, <3>2 DEF NewState
  <2>6. Carries(delivered, rs)
    BY <2>1, <2>3 DEF Carries
  <2>7. /\ fetched' = rs /\ delivered' = delivered /\ response' = NoResponse
        /\ phase' = "streaming"
    BY <1>1, <2>2 DEF NewState
  <2> QED
    BY <2>1, <2>3, <2>5, <2>6, <2>7 DEF ScanInv
<1>2. CASE ProcessLive
  <2>1. UNCHANGED <<fetched, response, transport>> /\ phase = "streaming"
    BY <1>2 DEF ProcessLive
  <2>2. CASE SliceDone(cursor)
    <3>1. Len(delivered) = Len(fetched)
      BY <2>2, <1>0, <1>a DEF SliceDone, Carries
    <3>2. UNCHANGED <<cursor, delivered>> /\ phase' = "finished"
      BY <1>2, <2>2 DEF ProcessLive
    <3> QED
      BY <1>a, <2>1, <3>1, <3>2 DEF ScanInv
  <2>3. CASE ~SliceDone(cursor)
    <3>1. delivered' = delivered \o Slice(cursor) /\ cursor' = Advance(cursor) /\ phase' = phase
      BY <1>2, <2>3 DEF ProcessLive
    <3>2. Carries(delivered', fetched) /\ Len(delivered') = SliceEnd(cursor)
      BY <1>0, <1>a, <2>3, <3>1, CarriesTick
    <3>3. cursor'.Rows = cursor.Rows /\ cursor'.Offset = SliceEnd(cursor)
      BY <1>0, <2>3, <3>1, TickFacts
    <3>4. response = NoResponse
      BY <1>2 DEF ProcessLive, ScanInv
    <3> QED
      BY <1>a, <2>1, <3>1, <3>2, <3>3, <3>4 DEF ScanInv
  <2> QED
    BY <2>2, <2>3
<1>3. CASE ProcessHTTP
  BY <1>3 DEF ProcessHTTP, ScanInv
<1>4. CASE Receive
  <2>1. /\ response = Exchange(cursor) /\ phase = "streaming" /\ response' = NoResponse
        /\ cursor' = response.token /\ delivered' = delivered \o response.batch
        /\ phase' = IF response.done THEN "finished" ELSE phase
        /\ UNCHANGED <<fetched, transport>>
    BY <1>4, <1>a DEF Receive
  <2>2. Carries(cursor'.Rows, fetched) /\ Len(cursor'.Rows) = Len(cursor.Rows)
    BY <1>0, <1>a, <2>1, ExchangeFacts
  <2>3. CASE SliceDone(cursor)
    <3>1. Len(delivered) = Len(fetched)
      BY <2>3, <1>0, <1>a DEF SliceDone, Carries
    <3>2. /\ response.batch = <<>> /\ cursor'.Offset = cursor.Offset /\ phase' = "finished"
      BY <1>0, <1>a, <2>1, <2>3, ExchangeFacts
    <3>3. delivered' = delivered
      BY <1>0, <2>1, <3>2
    <3> QED
      BY <1>a, <2>1, <2>2, <3>1, <3>2, <3>3 DEF ScanInv
  <2>4. CASE ~SliceDone(cursor)
    <3>1. /\ response.batch = Slice(cursor) /\ cursor'.Offset = SliceEnd(cursor)
          /\ phase' = "streaming"
      BY <1>0, <1>a, <2>1, <2>4, ExchangeFacts
    <3>2. Carries(delivered', fetched) /\ Len(delivered') = SliceEnd(cursor)
      BY <1>0, <1>a, <2>1, <2>4, <3>1, CarriesTick
    <3> QED
      BY <1>a, <2>1, <2>2, <3>1, <3>2 DEF ScanInv
  <2> QED
    BY <2>3, <2>4
<1>5. CASE Lose
  BY <1>5 DEF Lose, PhaseWithoutWorker, ScanInv
<1>6. CASE Crash
  BY <1>6 DEF Crash, PhaseWithoutWorker, ScanInv
<1>7. CASE NewStateError \/ Restart \/ GiveUp
  BY <1>7 DEF NewStateError, Restart, GiveUp, ScanInv
<1>8. CASE UNCHANGED scanVars
  BY <1>8 DEF scanVars, ScanInv
<1> QED
  BY <1>1, <1>2, <1>3, <1>4, <1>5, <1>6, <1>7, <1>8 DEF Next, Start, Tick, Done

(* Type correctness and the invariant together are inductive. *)
THEOREM ScanInvariant == Spec => [](TypeOK /\ ScanInv)
<1>1. Init => TypeOK /\ ScanInv
  BY InitTypeOK, InitScanInv
<1>2. (TypeOK /\ ScanInv) /\ [Next]_scanVars => (TypeOK /\ ScanInv)'
  BY NextTypeOK, NextScanInv
<1> QED
  BY <1>1, <1>2, PTL DEF Spec

-----------------------------------------------------------------------------
(* What the invariant says of the ids.                                     *)

LEMMA IdsFacts ==
    ASSUME NEW rs \in Seq(Row)
    PROVE  /\ Ids(rs) \in Seq(CVE) /\ Len(Ids(rs)) = Len(rs)
           /\ \A i \in 1 .. Len(rs) : Ids(rs)[i] = rs[i].cve
<1>1. DOMAIN rs = 1 .. Len(rs) /\ Len(rs) \in Nat
  OBVIOUS
<1>2. ASSUME NEW i \in 1 .. Len(rs) PROVE rs[i].cve \in CVE
  <2>1. rs[i] \in Row
    OBVIOUS
  <2> QED
    BY <2>1 DEF Row
<1>3. Ids(rs) = [i \in 1 .. Len(rs) |-> rs[i].cve]
  BY <1>1 DEF Ids
<1> QED
  BY <1>1, <1>2, <1>3

LEMMA IdsCarried ==
    ASSUME NEW rs \in Seq(Row), NEW ss \in Seq(Row), Carries(rs, ss)
    PROVE  Ids(rs) = SubSeq(Ids(ss), 1, Len(rs))
<1>1. Len(rs) \in Nat /\ Len(ss) \in Nat /\ Len(rs) <= Len(ss)
  BY DEF Carries
<1>2. /\ Ids(ss) \in Seq(CVE) /\ Len(Ids(ss)) = Len(ss)
      /\ \A i \in 1 .. Len(ss) : Ids(ss)[i] = ss[i].cve
  BY IdsFacts
<1>3. /\ Ids(rs) \in Seq(CVE) /\ Len(Ids(rs)) = Len(rs)
      /\ \A i \in 1 .. Len(rs) : Ids(rs)[i] = rs[i].cve
  BY IdsFacts
<1>4. /\ SubSeq(Ids(ss), 1, Len(rs)) \in Seq(CVE)
      /\ Len(SubSeq(Ids(ss), 1, Len(rs))) = Len(rs)
      /\ \A i \in 1 .. Len(rs) : SubSeq(Ids(ss), 1, Len(rs))[i] = Ids(ss)[i]
  BY <1>1, <1>2
<1>5. ASSUME NEW i \in 1 .. Len(rs) PROVE rs[i].cve = ss[i].cve
  <2>1. ss[i] \in Row /\ rs[i] \in {ss[i], GobRow(ss[i])}
    BY <1>1 DEF Carries
  <2> QED
    BY <2>1, GobRowFacts
<1>6. \A i \in 1 .. Len(rs) : Ids(rs)[i] = SubSeq(Ids(ss), 1, Len(rs))[i]
  BY <1>1, <1>2, <1>3, <1>4, <1>5
<1> QED
  BY <1>3, <1>4, <1>6, SeqEqual

LEMMA IdsSame ==
    ASSUME NEW rs \in Seq(Row), NEW ss \in Seq(Row), Carries(rs, ss), Len(rs) = Len(ss)
    PROVE  Ids(rs) = Ids(ss)
<1>1. Ids(ss) \in Seq(CVE) /\ Len(Ids(ss)) = Len(ss)
  BY IdsFacts
<1>2. SubSeq(Ids(ss), 1, Len(ss)) = Ids(ss)
  BY <1>1
<1> QED
  BY <1>2, IdsCarried

(* A delivered row is the fetched one, but for a score of zero. *)
THEOREM RowsAreFaithful == Spec => []RowFidelity
<1>1. ASSUME TypeOK, ScanInv PROVE RowFidelity
  <2>1. delivered \in Seq(Row) /\ fetched \in Seq(Row) /\ Carries(delivered, fetched)
    BY <1>1 DEF TypeOK, ScanInv
  <2>2. Len(delivered) \in Nat /\ Len(fetched) \in Nat /\ Len(delivered) <= Len(fetched)
        /\ DOMAIN delivered = 1 .. Len(delivered)
    BY <2>1 DEF Carries
  <2>3. ASSUME NEW i \in 1 .. Len(delivered)
        PROVE  /\ delivered[i].cve = fetched[i].cve
               /\ delivered[i].score # fetched[i].score =>
                     fetched[i].score = 0 /\ delivered[i].score = NoScore
    <3>1. fetched[i] \in Row /\ delivered[i] \in {fetched[i], GobRow(fetched[i])}
      BY <2>1, <2>2 DEF Carries
    <3> QED
      BY <3>1 DEF GobRow, Row
  <2> QED
    BY <2>2, <2>3 DEF RowFidelity
<1> QED
  BY <1>1, ScanInvariant, PTL

(* The cursor never runs ahead of delivery or behind it, whichever of      *)
(* worker and token holds it, after any number of lost responses and       *)
(* crashes.                                                                *)
THEOREM CursorNeverStale == Spec => []CursorIsDelivery
<1>1. TypeOK /\ ScanInv => CursorIsDelivery
  BY IdsSame DEF TypeOK, ScanInv, CursorState, CursorIsDelivery
<1> QED
  BY <1>1, ScanInvariant, PTL

(* A finished scan has delivered every fetched record, once and in order.  *)
THEOREM FinishedScanIsComplete == Spec => []FinishedIsComplete
<1>1. TypeOK /\ ScanInv => FinishedIsComplete
  BY IdsSame DEF TypeOK, ScanInv, FinishedIsComplete
<1> QED
  BY <1>1, ScanInvariant, PTL

-----------------------------------------------------------------------------
(* Refinement: the scan implements LookupPromise.                          *)

(* A tick delivers the next rows of the answer, at most RowsPerTick. *)
LEMMA TickDelivers ==
    ASSUME TypeOK, ScanInv, phase = "streaming", ~SliceDone(cursor),
           delivered' = delivered \o Slice(cursor),
           UNCHANGED <<phase, fetched>>
    PROVE  Promise!Deliver
<1>0. /\ cursor \in CursorState /\ fetched \in Seq(Row) /\ delivered \in Seq(Row)
      /\ Carries(cursor.Rows, fetched) /\ Carries(delivered, fetched)
      /\ cursor.Offset = Len(delivered) /\ Len(cursor.Rows) = Len(fetched)
      /\ Len(delivered) \in Nat
  BY DEF TypeOK, ScanInv
<1>1. /\ SliceEnd(cursor) \in Nat /\ Len(delivered) < SliceEnd(cursor)
      /\ SliceEnd(cursor) <= Len(delivered) + RowsPerTick
      /\ SliceEnd(cursor) <= Len(fetched) /\ Slice(cursor) \in Seq(Row)
  BY <1>0, TickFacts
<1>2. Carries(delivered', fetched) /\ Len(delivered') = SliceEnd(cursor)
  BY <1>0, CarriesTick
<1>3. delivered' \in Seq(Row)
  BY <1>0, <1>1, ConcatFacts
<1>4. Ids(delivered') = SubSeq(Ids(fetched), 1, SliceEnd(cursor))
  BY <1>0, <1>2, <1>3, IdsCarried
<1>5. Len(Ids(delivered)) = Len(delivered) /\ Len(Ids(fetched)) = Len(fetched)
  BY <1>0, IdsFacts
<1> DEFINE n == SliceEnd(cursor) - Len(delivered)
<1>6. n \in 1 .. RowsPerTick /\ Len(delivered) + n = SliceEnd(cursor)
  BY <1>0, <1>1, ScanAssumption
<1>7. /\ Len(Ids(delivered)) + n <= Len(Ids(fetched))
      /\ Ids(delivered') = SubSeq(Ids(fetched), 1, Len(Ids(delivered)) + n)
  BY <1>1, <1>4, <1>5, <1>6
<1>8. Ids(delivered)' = Ids(delivered') /\ Ids(fetched)' = Ids(fetched)
  BY DEF Ids
<1> HIDE DEF n
<1> QED
  BY <1>6, <1>7, <1>8 DEF Promise!Deliver

LEMMA InitPromise == Init => Promise!Init
BY DEF Init, Promise!Init, Ids

LEMMA NextPromise ==
    ASSUME TypeOK, ScanInv, TypeOK', ScanInv', [Next]_scanVars
    PROVE  [Promise!Next]_(Promise!vars)
<1>0. /\ cursor \in CursorState /\ fetched \in Seq(Row) /\ delivered \in Seq(Row)
      /\ fetched' \in Seq(Row) /\ Len(fetched') <= MaxResults
      /\ Carries(delivered, fetched) /\ cursor.Offset = Len(delivered)
      /\ Len(cursor.Rows) = Len(fetched) /\ response \in {NoResponse, Exchange(cursor)}
      /\ Carries(cursor.Rows, fetched)
  BY DEF TypeOK, ScanInv
<1>1. ASSUME NEW rs \in Results, NewState(rs) PROVE Promise!Respond
  <2>1. Ids(fetched') \in Seq(CVE) /\ Len(Ids(fetched')) <= MaxResults
    BY <1>0, IdsFacts
  <2>2. Ids(fetched)' = Ids(fetched') /\ UNCHANGED Ids(delivered)
    BY <1>1 DEF NewState, Ids
  <2> QED
    BY <1>1, <2>1, <2>2 DEF NewState, Promise!Respond
<1>2. CASE NewStateError
  BY <1>2 DEF NewStateError, Promise!Next, Promise!Error, Ids
<1>3. ASSUME SliceDone(cursor) PROVE Ids(delivered) = Ids(fetched)
  <2>1. Len(delivered) = Len(fetched)
    BY <1>0, <1>3 DEF SliceDone, Carries
  <2> QED
    BY <1>0, <2>1, IdsSame
<1>4. CASE ProcessLive
  <2>1. CASE SliceDone(cursor)
    BY <1>3, <1>4, <2>1 DEF ProcessLive, Promise!Next, Promise!Finish, Ids
  <2>2. CASE ~SliceDone(cursor)
    <3>1. Promise!Deliver
      BY <1>4, <2>2, TickDelivers DEF ProcessLive
    <3> QED
      BY <3>1 DEF Promise!Next
  <2> QED
    BY <2>1, <2>2
<1>5. CASE ProcessHTTP
  BY <1>5 DEF ProcessHTTP, Promise!vars, Ids
<1>6. CASE Receive
  <2>1. response = Exchange(cursor) /\ phase = "streaming"
    BY <1>0, <1>6 DEF Receive
  <2>2. CASE SliceDone(cursor)
    <3>1. response.done /\ response.batch = <<>>
      BY <1>0, <2>1, <2>2, ExchangeFacts
    <3>2. delivered' = delivered /\ phase' = "finished" /\ fetched' = fetched
      BY <1>0, <1>6, <3>1 DEF Receive
    <3> QED
      BY <1>3, <2>1, <2>2, <3>2 DEF Promise!Next, Promise!Finish, Ids
  <2>3. CASE ~SliceDone(cursor)
    <3>1. ~response.done /\ response.batch = Slice(cursor)
      BY <1>0, <2>1, <2>3, ExchangeFacts
    <3>2. delivered' = delivered \o Slice(cursor) /\ UNCHANGED <<phase, fetched>>
      BY <1>6, <3>1 DEF Receive
    <3>3. Promise!Deliver
      BY <2>1, <2>3, <3>2, TickDelivers
    <3> QED
      BY <3>3 DEF Promise!Next
  <2> QED
    BY <2>2, <2>3
<1>7. CASE Lose
  <2>1. phase = "streaming" /\ phase' \in {"streaming", "aborted"} /\ UNCHANGED <<fetched, delivered>>
    BY <1>7 DEF Lose, PhaseWithoutWorker
  <2> QED
    BY <2>1 DEF Promise!Next, Promise!Abort, Promise!vars, Ids
<1>8. CASE Crash
  <2>1. /\ phase \in {"newState", "streaming"} /\ phase' \in {phase, "aborted"}
        /\ UNCHANGED <<fetched, delivered>>
    BY <1>8 DEF Crash, PhaseWithoutWorker
  <2> QED
    BY <2>1 DEF Promise!Next, Promise!Abort, Promise!vars, Ids
<1>9. CASE Restart
  BY <1>9 DEF Restart, Promise!vars, Ids
<1>10. CASE GiveUp
  BY <1>10 DEF GiveUp, Promise!Next, Promise!Abort, Ids
<1>11. CASE UNCHANGED scanVars
  BY <1>11 DEF scanVars, Promise!vars, Ids
<1> QED
  BY <1>1, <1>2, <1>4, <1>5, <1>6, <1>7, <1>8, <1>9, <1>10, <1>11
  DEF Next, Start, Tick, Done, Promise!Next

(* The scan keeps the promise made to SQL: every step delivers the next    *)
(* rows of the one answer, ends the lookup, or is not seen by SQL.         *)
THEOREM ScanKeepsPromise == Spec => KeepsPromise
<1>1. Init => Promise!Init
  BY InitPromise
<1>2. (TypeOK /\ ScanInv) /\ (TypeOK /\ ScanInv)' /\ [Next]_scanVars
        => [Promise!Next]_(Promise!vars)
  BY NextPromise
<1> QED
  BY <1>1, <1>2, ScanInvariant, PTL DEF Spec, KeepsPromise, Promise!Spec
====
