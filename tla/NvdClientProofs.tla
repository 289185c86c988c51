-------------------------- MODULE NvdClientProofs --------------------------
(* Theorems about NvdClient, for every value of its constants: the page    *)
(* size, the cap, the set of CVEs, the odd replies and both bounds.        *)
EXTENDS NvdClient, SequenceLemmas

(* Every reply get can be given is one of the kinds it tests for. *)
LEMMA ErrorKinds ==
    ASSUME NEW r \in Reply
    PROVE  GetError(r) \in {"none", "readResponse", "notFound", "rateLimited",
                            "apiError", "decode"}
BY DEF GetError

(* The replies of the service are replies. *)
LEMMA EnvelopeType ==
    ASSUME NEW p \in Seq(CVE), NEW t \in Int
    PROVE  Envelope(p, t) \in Reply
BY DEF Envelope, Reply, Body

LEMMA BrokenType ==
    ASSUME NEW s \in Nat, NEW b \in Body
    PROVE  Broken(s, b) \in Reply
BY DEF Broken, Reply

(* The part of the corpus on a page. *)
LEMMA PageFacts ==
    ASSUME corpus \in Seq(CVE), startIndex \in Nat,
           NEW k \in 0 .. Least(ResultsPerPage, Remaining)
    PROVE  /\ k \in Nat /\ k <= ResultsPerPage
           /\ k = 0 \/ startIndex + k <= Len(corpus)
<1>1. Len(corpus) \in Nat /\ ResultsPerPage \in Nat
  BY ClientAssumption
<1>2. Remaining \in Nat /\ (Remaining = 0 \/ startIndex + Remaining = Len(corpus))
  BY <1>1 DEF Remaining
<1>3. k \in Nat /\ k <= ResultsPerPage /\ k <= Remaining
  BY <1>1, <1>2 DEF Least
<1> QED
  BY <1>1, <1>2, <1>3

LEMMA PageType ==
    ASSUME corpus \in Seq(CVE), startIndex \in Nat,
           NEW k \in 0 .. Least(ResultsPerPage, Remaining)
    PROVE  SubSeq(corpus, startIndex + 1, startIndex + k) \in Seq(CVE)
<1>1. CASE k = 0
  BY <1>1
<1>2. CASE startIndex + k <= Len(corpus)
  BY <1>2, PageFacts
<1> QED
  BY <1>1, <1>2, PageFacts

(* Whatever the service answers, only the reply and the history change. *)
LEMMA AnswerType ==
    ASSUME TypeOK, NEW r \in Reply, Answer(r), disturbed' \in BOOLEAN
    PROVE  TypeOK'
BY DEF TypeOK, Answer

LEMMA InitTypeOK == Init => TypeOK
<1> SUFFICES ASSUME Init PROVE TypeOK
  OBVIOUS
<1>1. op \in Operation
  BY ClientAssumption DEF Init
<1>2. corpus \in Seq(CVE)
  BY DEF Init, Corpora, BoundedSeq, SeqOf
<1>3. <<>> \in Seq(CVE)
  OBVIOUS
<1>4. reply \in Reply
  BY <1>3 DEF Init, Envelope, Reply, Body
<1> QED
  BY <1>1, <1>2, <1>3, <1>4 DEF Init, TypeOK

(* Type correctness is inductive by itself. *)
LEMMA NextTypeOK == TypeOK /\ [Next]_vars => TypeOK'
<1> SUFFICES ASSUME TypeOK, [Next]_vars PROVE TypeOK'
  OBVIOUS
<1> USE DEF TypeOK
<1>0. reply.page \in Seq(CVE) /\ reply.total \in Int
  BY DEF Reply
<1>a. Room \in Int /\ rows \o reply.page \in Seq(CVE) /\ Next_startIndex \in Nat
  BY <1>0, ClientAssumption DEF Room, Next_startIndex
<1>1. CASE Request
  BY <1>1 DEF Request
<1>2. CASE BadURL
  BY <1>2 DEF BadURL, Fail
<1>3. CASE Timeout
  BY <1>3 DEF Timeout, Fail
<1>4. CASE Reject
  <2>1. err' \in {"readResponse", "notFound", "rateLimited", "apiError", "decode"}
    BY <1>4, ErrorKinds DEF Reject, Fail
  <2> QED
    BY <1>4, <2>1 DEF Reject, Fail
<1>5. CASE FetchCVE
  <2>1. SubSeq(reply.page, 1, Least(1, Len(reply.page))) \in Seq(CVE)
    BY <1>0 DEF Least
  <2> QED
    BY <1>5, <2>1 DEF FetchCVE, Return
<1>6. CASE PaginateFull
  <2>1. Room <= Len(reply.page)
    BY <1>6, <1>0, <1>a DEF PaginateFull
  <2>2. SubSeq(reply.page, 1, Room) \in Seq(CVE)
    BY <1>0, <1>a, <2>1
  <2> QED
    BY <1>6, <2>2 DEF PaginateFull, Return
<1>7. CASE PaginateEnd
  BY <1>7, <1>a DEF PaginateEnd, Return
<1>8. CASE PaginateMore
  BY <1>8, <1>a DEF PaginateMore
<1>9. CASE AnswerPage
  <2>1. PICK k \in 0 .. Least(ResultsPerPage, Remaining) :
            Answer(Envelope(SubSeq(corpus, startIndex + 1, startIndex + k), Len(corpus)))
    BY <1>9 DEF AnswerPage
  <2>2. SubSeq(corpus, startIndex + 1, startIndex + k) \in Seq(CVE)
    BY PageType
  <2>3. Envelope(SubSeq(corpus, startIndex + 1, startIndex + k), Len(corpus)) \in Reply
    BY <2>2 DEF Envelope, Reply, Body
  <2> QED
    BY <1>9, <2>1, <2>3, AnswerType DEF AnswerPage
<1>10. CASE AnswerUnknown
  BY <1>10, BrokenType, AnswerType DEF AnswerUnknown, Body
<1>11. CASE AnswerBroken
  <2>1. PICK status \in {200, 203, 400, 404, 429, 500}, body \in {"cut", "garbage", "foreign"} :
            /\ Answer(Broken(status, body))
            /\ disturbed' = (disturbed \/ GetError(Broken(status, body)) = "none")
    BY <1>11 DEF AnswerBroken
  <2>2. Broken(status, body) \in Reply
    BY BrokenType DEF Body
  <2>3. disturbed' \in BOOLEAN
    BY <2>1
  <2> QED
    BY <2>1, <2>2, <2>3, AnswerType
<1>12. CASE AnswerOdd
  <2>1. PICK r \in OddReplies : Answer(Envelope(r.page, r.total)) /\ disturbed' = TRUE
    BY <1>12 DEF AnswerOdd
  <2>2. Envelope(r.page, r.total) \in Reply
    BY EnvelopeType, ClientAssumption
  <2> QED
    BY <2>1, <2>2, AnswerType
<1>13. CASE Publish
  <2>1. PICK i \in 1 .. Len(corpus) + 1, c \in CVE :
            corpus' = InsertAt(corpus, i, c) /\ Change(i)
    BY <1>13 DEF Publish
  <2>2. corpus' \in Seq(CVE)
    BY <2>1, InsertAtFacts
  <2> QED
    BY <2>1, <2>2 DEF Change, clientVars
<1>14. CASE Withdraw
  <2>1. PICK i \in 1 .. Len(corpus) : corpus' = RemoveAt(corpus, i) /\ Change(i)
    BY <1>14 DEF Withdraw
  <2>2. corpus' \in Seq(CVE)
    BY <2>1, RemoveAtFacts
  <2> QED
    BY <2>1, <2>2 DEF Change, clientVars
<1>15. CASE UNCHANGED vars
  BY <1>15 DEF vars, clientVars
<1> QED
  BY <1>1, <1>2, <1>3, <1>4, <1>5, <1>6, <1>7, <1>8, <1>9, <1>10, <1>11, <1>12,
     <1>13, <1>14, <1>15 DEF Next, Client, Service, Done

(* Type correctness of the client and its service. *)
THEOREM ClientTypeCorrect == Spec => []TypeOK
BY InitTypeOK, NextTypeOK, PTL DEF Spec

-----------------------------------------------------------------------------
(* Position and Budget hold of any service: nothing is assumed of a reply. *)

(* The lengths an accepted page leads to. *)
LEMMA PageLengths ==
    ASSUME TypeOK
    PROVE  /\ Len(rows) \in Nat /\ Len(reply.page) \in Nat
           /\ Len(rows \o reply.page) = Len(rows) + Len(reply.page)
           /\ reply.page # <<>> => Len(reply.page) > 0
           /\ (0 <= Room /\ Room <= Len(reply.page)) =>
                 /\ SubSeq(reply.page, 1, Room) \in Seq(CVE)
                 /\ Len(rows \o SubSeq(reply.page, 1, Room)) = MaxResults
<1>1. rows \in Seq(CVE) /\ reply.page \in Seq(CVE)
  BY DEF TypeOK, Reply
<1>2. Room \in Int /\ Len(rows) + Room = MaxResults
  BY <1>1, ClientAssumption DEF Room
<1>3. ASSUME 0 <= Room, Room <= Len(reply.page)
      PROVE  /\ SubSeq(reply.page, 1, Room) \in Seq(CVE)
             /\ Len(rows \o SubSeq(reply.page, 1, Room)) = MaxResults
  <2>1. SubSeq(reply.page, 1, Room) \in Seq(CVE) /\ Len(SubSeq(reply.page, 1, Room)) = Room
    BY <1>1, <1>2, <1>3
  <2> QED
    BY <1>1, <1>2, <2>1, ConcatFacts
<1> QED
  BY <1>1, <1>3, ConcatFacts

LEMMA InitBounds == Init => Position /\ Budget
BY ClientAssumption DEF Init, Position, Budget, Capacity

LEMMA NextBounds ==
    ASSUME TypeOK, Position, Budget, [Next]_vars
    PROVE  Position' /\ Budget'
<1> USE DEF Position, Budget
<1>0. /\ MaxResults \in Nat /\ MaxResults > 0 /\ Len(rows) \in Nat
      /\ requests \in Nat /\ corpus \in Seq(CVE) /\ Len(<<>>) = 0
  BY ClientAssumption DEF TypeOK
<1>1. CASE Request
  BY <1>1, <1>0 DEF Request
<1>2. CASE BadURL \/ Timeout \/ Reject
  BY <1>2, <1>0 DEF BadURL, Timeout, Reject, Fail
<1>3. CASE FetchCVE
  <2>1. Len(SubSeq(reply.page, 1, Least(1, Len(reply.page)))) <= 1
    BY DEF Least, TypeOK, Reply
  <2>2. pc' = "done" /\ Len(rows') <= 1 /\ UNCHANGED <<op, corpus, requests>>
    BY <1>3, <2>1 DEF FetchCVE, Return
  <2> QED
    BY <1>0, <2>2
<1>4. CASE PaginateFull
  <2>1. 0 <= Room /\ Room <= Len(reply.page)
    BY <1>4, <1>0, PageLengths DEF PaginateFull, Accepted, Room
  <2>2. Len(rows') = MaxResults
    BY <1>4, <2>1, PageLengths DEF PaginateFull, Return
  <2>3. pc' = "done" /\ UNCHANGED <<op, corpus, requests>>
    BY <1>4 DEF PaginateFull, Return
  <2> QED
    BY <1>0, <2>2, <2>3
<1>5. CASE PaginateEnd
  <2>1. Len(rows') = Len(rows) + Len(reply.page) /\ Len(reply.page) \in Nat
    BY <1>5, PageLengths DEF PaginateEnd, Return
  <2>2. Len(rows') < MaxResults
    BY <1>5, <1>0, <2>1 DEF PaginateEnd, Room
  <2> QED
    BY <1>5, <1>0, <2>1, <2>2 DEF PaginateEnd, Accepted, Return
<1>6. CASE PaginateMore
  <2>1. Len(rows') = Len(rows) + Len(reply.page) /\ Len(reply.page) \in Nat
    BY <1>6, PageLengths DEF PaginateMore
  <2>2. Len(rows') < MaxResults
    BY <1>6, <1>0, <2>1 DEF PaginateMore, Room
  <2>3. Len(rows') >= Len(rows) + 1
    BY <1>6, <1>0, <2>1, PageLengths DEF PaginateMore, LastPage
  <2>4. /\ pc = "answered" /\ pc' = "request" /\ op # "FetchCVE"
        /\ startIndex' = startIndex + Len(reply.page)
        /\ UNCHANGED <<op, corpus, requests>>
    BY <1>6 DEF PaginateMore, Accepted, Next_startIndex
  <2> QED
    BY <1>0, <2>1, <2>2, <2>3, <2>4
<1>7. CASE AnswerPage \/ AnswerUnknown \/ AnswerBroken \/ AnswerOdd
  BY <1>7, <1>0 DEF AnswerPage, AnswerUnknown, AnswerBroken, AnswerOdd, Answer
<1>8. CASE Publish
  <2>1. PICK i \in 1 .. Len(corpus) + 1, c \in CVE :
            /\ corpus' = InsertAt(corpus, i, c) /\ Change(i) /\ Len(corpus) < Capacity
    BY <1>8 DEF Publish
  <2>2. Len(corpus') = Len(corpus) + 1 /\ Len(corpus) \in Nat
    <3>1. Len(InsertAt(corpus, i, c)) = Len(corpus) + 1
      BY <1>0, InsertAtFacts
    <3> QED
      BY <3>1, <2>1, <1>0
  <2>3. op = "FetchCVE" => Len(corpus') <= 1
    BY <2>1, <2>2 DEF Capacity
  <2> QED
    BY <2>1, <2>3, <1>0 DEF Change, clientVars
<1>9. CASE Withdraw
  <2>1. PICK i \in 1 .. Len(corpus) : corpus' = RemoveAt(corpus, i) /\ Change(i)
    BY <1>9 DEF Withdraw
  <2>2. Len(corpus') = Len(corpus) - 1 /\ Len(corpus) \in Nat
    BY <2>1, <1>0, RemoveAtFacts
  <2> QED
    BY <2>1, <2>2, <1>0 DEF Change, clientVars
<1>10. CASE UNCHANGED vars
  BY <1>10 DEF vars, clientVars
<1> QED
  BY <1>1, <1>2, <1>3, <1>4, <1>5, <1>6, <1>7, <1>8, <1>9, <1>10
  DEF Next, Client, Service, Done

(* Whatever a service answers, a call returns at most MaxResults rows and  *)
(* issues at most MaxResults requests (paginate, client.go:220-247).       *)
THEOREM WorkIsBounded == Spec => []BoundedWork
<1>1. Init => TypeOK /\ Position /\ Budget
  BY InitTypeOK, InitBounds
<1>2. (TypeOK /\ Position /\ Budget) /\ [Next]_vars => (TypeOK /\ Position /\ Budget)'
  BY NextTypeOK, NextBounds
<1>3. Budget => BoundedWork
  BY DEF Budget, BoundedWork
<1> QED
  BY <1>1, <1>2, <1>3, PTL DEF Spec

-----------------------------------------------------------------------------
(* The rows against the records.                                           *)

(* Agreement survives a change further on. *)
LEMMA AgreesKept ==
    ASSUME NEW rs \in Seq(CVE), NEW s \in Seq(CVE), NEW t \in Seq(CVE), NEW n \in Nat,
           NEW i \in Nat, Agrees(rs, s, n), n + Len(rs) < i, i <= Len(t) + 1,
           \A j \in 1 .. i - 1 : t[j] = s[j]
    PROVE  Agrees(rs, t, n)
<1>1. Len(rs) \in Nat /\ Len(t) \in Nat
  OBVIOUS
<1>2. \A j \in 1 .. Len(rs) : n + j \in 1 .. i - 1
  BY <1>1
<1>3. n + Len(rs) <= Len(t)
  BY <1>1
<1> QED
  BY <1>2, <1>3 DEF Agrees

(* A page that continues the rows extends the agreement. *)
LEMMA AgreesConcat ==
    ASSUME NEW a \in Seq(CVE), NEW b \in Seq(CVE), NEW s \in Seq(CVE),
           Agrees(a, s, 0), Agrees(b, s, Len(a))
    PROVE  Agrees(a \o b, s, 0)
<1>1. /\ Len(a) \in Nat /\ Len(b) \in Nat /\ Len(a \o b) = Len(a) + Len(b)
      /\ \A j \in 1 .. Len(a) : (a \o b)[j] = a[j]
      /\ \A j \in 1 .. Len(b) : (a \o b)[Len(a) + j] = b[j]
  BY ConcatFacts
<1>2. ASSUME NEW j \in 1 .. Len(a) + Len(b)
      PROVE  (a \o b)[j] = s[j]
  <2>1. CASE j <= Len(a)
    BY <2>1, <1>1 DEF Agrees
  <2>2. CASE j > Len(a)
    <3>1. PICK k \in 1 .. Len(b) : j = Len(a) + k
      <4>1. j - Len(a) \in 1 .. Len(b) /\ j = Len(a) + (j - Len(a))
        BY <2>2, <1>1
      <4> QED
        BY <4>1
    <3> QED
      BY <3>1, <1>1 DEF Agrees
  <2> QED
    BY <2>1, <2>2, <1>1
<1> QED
  BY <1>1, <1>2 DEF Agrees

(* So does the part of it that still has room. *)
LEMMA AgreesCut ==
    ASSUME NEW b \in Seq(CVE), NEW s \in Seq(CVE), NEW n \in Nat, NEW k \in Nat,
           k <= Len(b), Agrees(b, s, n)
    PROVE  /\ SubSeq(b, 1, k) \in Seq(CVE) /\ Len(SubSeq(b, 1, k)) = k
           /\ Agrees(SubSeq(b, 1, k), s, n)
<1>1. /\ SubSeq(b, 1, k) \in Seq(CVE) /\ Len(SubSeq(b, 1, k)) = k
      /\ \A j \in 1 .. k : SubSeq(b, 1, k)[j] = b[j]
  OBVIOUS
<1>2. Len(b) \in Nat /\ Len(s) \in Nat
  OBVIOUS
<1> QED
  BY <1>1, <1>2 DEF Agrees

(* An honest page agrees with the records it was taken from. *)
LEMMA AgreesPage ==
    ASSUME NEW s \in Seq(CVE), NEW n \in Nat, NEW k \in Nat, n + k <= Len(s)
    PROVE  Agrees(SubSeq(s, n + 1, n + k), s, n) /\ Len(SubSeq(s, n + 1, n + k)) = k
BY SliceFacts DEF Agrees

LEMMA InitTiled == Init => Tiled
<1> SUFFICES ASSUME Init PROVE Tiled
  OBVIOUS
<1>1. corpus \in Seq(CVE)
  BY InitTypeOK DEF TypeOK
<1> QED
  BY <1>1 DEF Init, Tiled, Agrees

(* The three ways a page of paginate is used, and the one of FetchCVE. *)
LEMMA ReturnTiled ==
    ASSUME TypeOK, Position, Budget, Tiled,
           FetchCVE \/ PaginateFull \/ PaginateEnd \/ PaginateMore
    PROVE  Tiled'
<1>0. /\ rows \in Seq(CVE) /\ reply.page \in Seq(CVE) /\ corpus \in Seq(CVE)
      /\ reply.total \in Int /\ MaxResults \in Nat /\ MaxResults > 0
      /\ Len(rows) \in Nat /\ Len(reply.page) \in Nat
  BY ClientAssumption DEF TypeOK, Reply
<1>1. SUFFICES ASSUME ~disturbed' PROVE Tiled'
  BY DEF Tiled
<1>2. /\ pc = "answered" /\ GetError(reply) = "none"
      /\ UNCHANGED <<op, reply, err, corpus, disturbed>>
  BY DEF FetchCVE, PaginateFull, PaginateEnd, PaginateMore, Accepted, Return
<1>3. Agrees(rows, corpus, 0) /\ Continues /\ err = "none"
  BY <1>1, <1>2 DEF Tiled
<1>4. Agrees(rows \o reply.page, corpus, 0)
  BY <1>0, <1>3, AgreesConcat DEF Continues
<1>5. Len(rows \o reply.page) = Len(rows) + Len(reply.page)
  BY PageLengths
<1>6. /\ Len(rows) + Len(reply.page) <= reply.total
      /\ reply.page = <<>> => reply.total = Len(rows)
      /\ op = "FetchCVE" => reply.total <= 1
  BY <1>3 DEF Continues
<1>7. startIndex = Len(rows) /\ Len(rows) < MaxResults
  BY <1>2 DEF Position
<1>8. CASE FetchCVE
  <2>1. op = "FetchCVE" /\ pc' = "done" /\ rows = <<>> /\ Len(rows) = 0
    BY <1>8, <1>2 DEF FetchCVE, Return, Position
  <2> DEFINE k == Least(1, Len(reply.page))
  <2>2. k \in Nat /\ k <= Len(reply.page)
    BY <1>0 DEF Least
  <2>3. rows' = SubSeq(reply.page, 1, k)
    BY <1>8 DEF FetchCVE, Return
  <2>4. Agrees(reply.page, corpus, 0)
    BY <1>3, <2>1 DEF Continues
  <2>5. Len(rows') = k /\ Agrees(rows', corpus, 0)
    <3> HIDE DEF k
    <3> QED
      BY <1>0, <2>2, <2>3, <2>4, AgreesCut
  <2>6. k = Least(MaxResults, reply.total)
    <3>1. CASE reply.page = <<>>
      BY <3>1, <1>0, <1>6, <2>1 DEF Least
    <3>2. CASE reply.page # <<>>
      BY <3>2, <1>0, <1>6, <2>1, PageLengths DEF Least
    <3> QED
      BY <3>1, <3>2
  <2> QED
    BY <1>2, <2>1, <2>5, <2>6 DEF Tiled
<1>9. CASE PaginateFull
  <2>1. Room \in Nat /\ Room <= Len(reply.page) /\ pc' = "done"
    BY <1>9, <1>0, <1>7 DEF PaginateFull, Room, Return
  <2>2. /\ SubSeq(reply.page, 1, Room) \in Seq(CVE)
        /\ Agrees(SubSeq(reply.page, 1, Room), corpus, Len(rows))
    BY <1>0, <1>3, <2>1, AgreesCut DEF Continues
  <2>3. rows' = rows \o SubSeq(reply.page, 1, Room)
    BY <1>9 DEF PaginateFull, Return
  <2>4. Agrees(rows', corpus, 0)
    BY <1>0, <1>3, <2>2, <2>3, AgreesConcat
  <2>5. Len(rows') = MaxResults
    BY <2>1, <2>3, PageLengths
  <2>6. MaxResults = Least(MaxResults, reply.total)
    BY <1>0, <1>6, <2>1 DEF Room, Least
  <2> QED
    BY <1>2, <2>1, <2>4, <2>5, <2>6 DEF Tiled
<1>10. CASE PaginateEnd
  <2>1. rows' = rows \o reply.page /\ pc' = "done"
    BY <1>10 DEF PaginateEnd, Return
  <2>2. Len(rows') < MaxResults
    BY <1>0, <1>5, <1>10, <2>1 DEF PaginateEnd, Room
  <2>3. Len(rows') = reply.total
    <3>1. CASE reply.page = <<>>
      BY <3>1, <1>0, <1>5, <1>6, <2>1
    <3>2. CASE reply.page # <<>>
      <4>1. startIndex + Len(reply.page) >= reply.total
        BY <3>2, <1>10 DEF PaginateEnd, LastPage, Next_startIndex
      <4>2. Len(rows) + Len(reply.page) = reply.total
        BY <4>1, <1>0, <1>6, <1>7
      <4> QED
        BY <4>2, <1>5, <2>1
    <3> QED
      BY <3>1, <3>2
  <2>4. Len(rows') = Least(MaxResults, reply.total)
    BY <1>0, <2>2, <2>3 DEF Least
  <2> QED
    BY <1>2, <1>4, <2>1, <2>4 DEF Tiled
<1>11. CASE PaginateMore
  <2>1. rows' = rows \o reply.page /\ pc' = "request"
    BY <1>11 DEF PaginateMore
  <2> QED
    BY <1>2, <1>3, <1>4, <2>1 DEF Tiled
<1> QED
  BY <1>8, <1>9, <1>10, <1>11

(* What the service puts in flight continues the rows, is an error, or     *)
(* counts as a disturbance.                                                *)
LEMMA AnswerTiled ==
    ASSUME TypeOK, Position, Tiled,
           AnswerPage \/ AnswerUnknown \/ AnswerBroken \/ AnswerOdd
    PROVE  Tiled'
<1>0. /\ rows \in Seq(CVE) /\ corpus \in Seq(CVE) /\ Len(rows) \in Nat /\ Len(corpus) \in Nat
      /\ ResultsPerPage \in Nat /\ startIndex \in Nat
  BY ClientAssumption DEF TypeOK
<1>1. SUFFICES ASSUME ~disturbed' PROVE Tiled'
  BY DEF Tiled
<1>2. ~disturbed
  BY <1>1 DEF AnswerPage, AnswerUnknown, AnswerBroken, AnswerOdd
<1>3. pc = "waiting" /\ pc' = "answered" /\ UNCHANGED <<op, rows, startIndex, err, corpus>>
  BY DEF AnswerPage, AnswerUnknown, AnswerBroken, AnswerOdd, Answer
<1>4. Agrees(rows, corpus, 0) /\ err = "none"
  BY <1>2, <1>3 DEF Tiled
<1>5. startIndex = Len(rows) /\ Len(rows) <= Len(corpus) /\ (op = "FetchCVE" => Len(corpus) <= 1)
  BY <1>0, <1>3, <1>4 DEF Position, Agrees
<1>6. SUFFICES ASSUME GetError(reply') = "none" PROVE Continues'
  BY <1>3, <1>4 DEF Tiled
<1>7. CASE AnswerPage
  <2>1. PICK k \in 0 .. Least(ResultsPerPage, Remaining) :
            /\ k = 0 => Remaining = 0
            /\ Answer(Envelope(SubSeq(corpus, startIndex + 1, startIndex + k), Len(corpus)))
    BY <1>7 DEF AnswerPage
  <2>2. k \in Nat /\ startIndex + k <= Len(corpus)
    BY <1>0, <1>5, PageFacts
  <2> DEFINE page == SubSeq(corpus, startIndex + 1, startIndex + k)
  <2>3. Agrees(page, corpus, startIndex) /\ Len(page) = k
    BY <1>0, <2>2, AgreesPage
  <2>4. reply'.page = page /\ reply'.total = Len(corpus)
    BY <2>1 DEF Answer, Envelope
  <2> HIDE DEF page
  <2>5. page = <<>> => Len(corpus) = Len(rows)
    <3>1. SUFFICES ASSUME page = <<>> PROVE Len(corpus) = Len(rows)
      OBVIOUS
    <3>2. k = 0
      BY <2>3, <3>1
    <3>3. ~(startIndex < Len(corpus))
      BY <2>1, <3>2, <1>0 DEF Remaining
    <3> QED
      BY <3>3, <1>0, <1>5
  <2> QED
    BY <1>0, <1>3, <1>5, <2>2, <2>3, <2>4, <2>5 DEF Continues
<1>8. CASE AnswerUnknown
  BY <1>8, <1>6 DEF AnswerUnknown, Answer, Broken, GetError
<1>9. CASE AnswerBroken
  BY <1>9, <1>1, <1>6 DEF AnswerBroken, Answer
<1>10. CASE AnswerOdd
  BY <1>10, <1>1 DEF AnswerOdd
<1> QED
  BY <1>7, <1>8, <1>9, <1>10

(* A change of the records that is not counted as a disturbance lies       *)
(* beyond the rows and the page in flight.                                 *)
LEMMA ChangeTiled ==
    ASSUME TypeOK, Position, Tiled, NEW i \in Nat, Change(i),
           corpus' \in Seq(CVE), i <= Len(corpus') + 1,
           \A j \in 1 .. i - 1 : corpus'[j] = corpus[j]
    PROVE  Tiled'
<1>0. /\ rows \in Seq(CVE) /\ reply.page \in Seq(CVE) /\ corpus \in Seq(CVE)
      /\ Len(rows) \in Nat /\ Len(reply.page) \in Nat
  BY DEF TypeOK, Reply
<1>1. SUFFICES ASSUME ~disturbed' PROVE Tiled'
  BY DEF Tiled
<1>2. /\ ~disturbed /\ ~(i <= Walked) /\ pc # "done"
      /\ UNCHANGED <<op, pc, rows, startIndex, reply, err>>
  BY <1>1 DEF Change, clientVars
<1>3. startIndex = Len(rows)
  BY <1>2 DEF Position
<1>4. Len(rows) < i /\ (pc = "answered" => Len(rows) + Len(reply.page) < i)
  BY <1>0, <1>2, <1>3 DEF Walked
<1>5. Agrees(rows, corpus', 0)
  BY <1>0, <1>2, <1>4, AgreesKept DEF Tiled
<1>6. ASSUME pc = "answered", GetError(reply) = "none" PROVE Continues'
  <2>1. Continues
    BY <1>2, <1>6 DEF Tiled
  <2>2. Agrees(reply.page, corpus', Len(rows))
    BY <1>0, <1>4, <1>6, <2>1, AgreesKept DEF Continues
  <2> QED
    BY <1>2, <2>1, <2>2 DEF Continues
<1> QED
  BY <1>2, <1>5, <1>6 DEF Tiled

LEMMA NextTiled ==
    ASSUME TypeOK, Position, Budget, Tiled, [Next]_vars
    PROVE  Tiled'
<1>1. CASE Request
  BY <1>1 DEF Request, Tiled
<1>2. CASE BadURL \/ Timeout \/ Reject
  <2>1. rows' = <<>> /\ pc' = "done" /\ err' # "none" /\ UNCHANGED corpus
    BY <1>2 DEF BadURL, Timeout, Reject, Fail
  <2>2. Agrees(<<>>, corpus, 0)
    BY DEF Agrees, TypeOK
  <2> QED
    BY <2>1, <2>2 DEF Tiled
<1>3. CASE FetchCVE \/ PaginateFull \/ PaginateEnd \/ PaginateMore
  BY <1>3, ReturnTiled
<1>4. CASE AnswerPage \/ AnswerUnknown \/ AnswerBroken \/ AnswerOdd
  BY <1>4, AnswerTiled
<1>5. CASE Publish
  <2>1. PICK i \in 1 .. Len(corpus) + 1, c \in CVE :
            corpus' = InsertAt(corpus, i, c) /\ Change(i)
    BY <1>5 DEF Publish
  <2>2. corpus \in Seq(CVE) /\ Len(corpus) \in Nat
    BY DEF TypeOK
  <2>3. /\ corpus' \in Seq(CVE) /\ Len(corpus') = Len(corpus) + 1
        /\ \A j \in 1 .. i - 1 : corpus'[j] = corpus[j]
    <3>1. /\ InsertAt(corpus, i, c) \in Seq(CVE)
          /\ Len(InsertAt(corpus, i, c)) = Len(corpus) + 1
          /\ \A j \in 1 .. i - 1 : InsertAt(corpus, i, c)[j] = corpus[j]
      BY <2>2, InsertAtFacts
    <3> QED
      BY <2>1, <3>1
  <2> QED
    BY <2>1, <2>2, <2>3, ChangeTiled
<1>6. CASE Withdraw
  <2>1. PICK i \in 1 .. Len(corpus) : corpus' = RemoveAt(corpus, i) /\ Change(i)
    BY <1>6 DEF Withdraw
  <2>2. corpus \in Seq(CVE) /\ Len(corpus) \in Nat
    BY DEF TypeOK
  <2>3. /\ corpus' \in Seq(CVE) /\ Len(corpus') = Len(corpus) - 1
        /\ \A j \in 1 .. i - 1 : corpus'[j] = corpus[j]
    <3>1. /\ RemoveAt(corpus, i) \in Seq(CVE)
          /\ Len(RemoveAt(corpus, i)) = Len(corpus) - 1
          /\ \A j \in 1 .. i - 1 : RemoveAt(corpus, i)[j] = corpus[j]
      BY <2>2, RemoveAtFacts
    <3> QED
      BY <2>1, <3>1
  <2> QED
    BY <2>1, <2>2, <2>3, ChangeTiled
<1>7. CASE UNCHANGED vars
  BY <1>7 DEF vars, clientVars, Tiled, Continues, Agrees
<1> QED
  BY <1>1, <1>2, <1>3, <1>4, <1>5, <1>6, <1>7 DEF Next, Client, Service, Done

-----------------------------------------------------------------------------
(* The inductive invariant. *)
THEOREM WalkInvariant == Spec => [](TypeOK /\ WalkInv)
<1>1. Init => TypeOK /\ WalkInv
  BY InitTypeOK, InitBounds, InitTiled DEF WalkInv
<1>2. (TypeOK /\ WalkInv) /\ [Next]_vars => (TypeOK /\ WalkInv)'
  BY NextTypeOK, NextBounds, NextTiled DEF WalkInv
<1> QED
  BY <1>1, <1>2, PTL DEF Spec

(* The pages tile the records: whatever the page sizes, and whatever is    *)
(* published or withdrawn beyond startIndex, the rows are the first        *)
(* records, in order, none twice and none skipped.                         *)
THEOREM RowsArePrefix == Spec => []PagesTile
<1>1. TypeOK /\ WalkInv => PagesTile
  <2>1. SUFFICES ASSUME TypeOK, WalkInv, ~disturbed PROVE rows = SubSeq(corpus, 1, Len(rows))
    BY DEF PagesTile
  <2>2. /\ rows \in Seq(CVE) /\ corpus \in Seq(CVE) /\ Len(rows) \in Nat
        /\ Len(rows) <= Len(corpus) /\ \A j \in 1 .. Len(rows) : rows[j] = corpus[j]
    BY <2>1 DEF TypeOK, WalkInv, Tiled, Agrees
  <2>3. /\ SubSeq(corpus, 1, Len(rows)) \in Seq(CVE)
        /\ Len(SubSeq(corpus, 1, Len(rows))) = Len(rows)
        /\ \A j \in 1 .. Len(rows) : SubSeq(corpus, 1, Len(rows))[j] = corpus[j]
    BY <2>2
  <2> QED
    BY <2>2, <2>3, SeqEqual
<1> QED
  BY <1>1, WalkInvariant, PTL

(* A walk that ends without an error has every record the service counted, *)
(* up to MaxResults.                                                       *)
THEOREM WalkIsComplete == Spec => []NothingMissed
<1>1. WalkInv => NothingMissed
  BY DEF WalkInv, Tiled, NothingMissed
<1> QED
  BY <1>1, WalkInvariant, PTL
====
