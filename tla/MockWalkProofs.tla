--------------------------- MODULE MockWalkProofs ---------------------------
(* Theorems about MockWalk: the mock is a service the client's proofs are  *)
(* about, for any page size and cap of the client and any number of        *)
(* signals; who has read the PORT line is served.                          *)
EXTENDS MockWalk, TLAPS

(* What was proved of the client holds of its state in the walk.           *)
ClientP == INSTANCE NvdClientProofs WITH
    CVE <- IDs, OddReplies <- {}, MaxCorpus <- 3, MaxChanges <- 0

LEMMA ClientConstants ==
    /\ Ops \subseteq ClientP!Operation
    /\ MaxResults \in Nat \ {0} /\ ResultsPerPage \in Nat \ {0}
    /\ {} \subseteq [page : Seq(IDs), total : Int]
    /\ 3 \in Nat \ {0} /\ 0 \in Nat
BY WalkAssumption DEF ClientP!Operation

LEMMA SameClientInv ==
    /\ Client!TypeOK <=> ClientP!TypeOK
    /\ Client!WalkInv <=> ClientP!WalkInv
<1>1. Client!TypeOK <=> ClientP!TypeOK
  BY DEF Client!TypeOK, ClientP!TypeOK, Client!Operation, ClientP!Operation,
     Client!Reply, ClientP!Reply, Client!Body, ClientP!Body
<1>2. Client!Position <=> ClientP!Position
  BY DEF Client!Position, ClientP!Position
<1>3. Client!Budget <=> ClientP!Budget
  BY DEF Client!Budget, ClientP!Budget
<1>4. Client!Tiled <=> ClientP!Tiled
  BY DEF Client!Tiled, ClientP!Tiled, Client!Continues, ClientP!Continues,
     Client!Agrees, ClientP!Agrees, Client!GetError, ClientP!GetError,
     Client!Least, ClientP!Least
<1> QED
  BY <1>1, <1>2, <1>3, <1>4 DEF Client!WalkInv, ClientP!WalkInv

LEMMA SameClientStep == Client!Client => ClientP!Client
<1> USE DEF Client!Fail, ClientP!Fail, Client!Accepted, ClientP!Accepted,
    Client!Return, ClientP!Return, Client!GetError, ClientP!GetError,
    Client!Room, ClientP!Room, Client!LastPage, ClientP!LastPage,
    Client!Next_startIndex, ClientP!Next_startIndex, Client!Least, ClientP!Least
<1> QED
  BY DEF Client!Client, ClientP!Client, Client!Request, ClientP!Request,
     Client!BadURL, ClientP!BadURL, Client!Timeout, ClientP!Timeout,
     Client!Reject, ClientP!Reject, Client!FetchCVE, ClientP!FetchCVE,
     Client!PaginateFull, ClientP!PaginateFull, Client!PaginateEnd, ClientP!PaginateEnd,
     Client!PaginateMore, ClientP!PaginateMore

LEMMA SameService == Client!Service => ClientP!Service
<1> USE DEF Client!Answer, ClientP!Answer, Client!Envelope, ClientP!Envelope,
    Client!Broken, ClientP!Broken, Client!GetError, ClientP!GetError,
    Client!Remaining, ClientP!Remaining, Client!Least, ClientP!Least,
    Client!Change, ClientP!Change, Client!Walked, ClientP!Walked,
    Client!Capacity, ClientP!Capacity, Client!clientVars, ClientP!clientVars
<1> QED
  BY DEF Client!Service, ClientP!Service, Client!AnswerPage, ClientP!AnswerPage,
     Client!AnswerUnknown, ClientP!AnswerUnknown, Client!AnswerBroken, ClientP!AnswerBroken,
     Client!AnswerOdd, ClientP!AnswerOdd, Client!Publish, ClientP!Publish,
     Client!Withdraw, ClientP!Withdraw, Client!InsertAt, ClientP!InsertAt,
     Client!RemoveAt, ClientP!RemoveAt, Client!ToSet, ClientP!ToSet

LEMMA SameClientInit == Client!Init => ClientP!Init
BY DEF Client!Init, ClientP!Init, Client!Envelope, ClientP!Envelope,
   Client!Corpora, ClientP!Corpora, Client!Capacity, ClientP!Capacity,
   Client!BoundedSeq, ClientP!BoundedSeq, Client!SeqOf, ClientP!SeqOf,
   Client!IsInjective, ClientP!IsInjective

-----------------------------------------------------------------------------
(* The records.                                                            *)
LEMMA Records ==
    /\ log4Shell \in IDs /\ keywordRecords \in Seq(IDs) /\ cpeRecords \in Seq(IDs)
    /\ Len(keywordRecords) = 3 /\ Len(cpeRecords) = 3
    /\ Client!IsInjective(keywordRecords) /\ Client!IsInjective(cpeRecords)
<1>1. DOMAIN keywordRecords = 1 .. 3 /\ DOMAIN cpeRecords = 1 .. 3
  BY DEF keywordRecords, cpeRecords
<1>2. /\ keywordRecords[1] \in IDs /\ keywordRecords[2] \in IDs /\ keywordRecords[3] \in IDs
      /\ cpeRecords[1] \in IDs /\ cpeRecords[2] \in IDs /\ cpeRecords[3] \in IDs
  BY <1>1 DEF IDs
<1>3. log4Shell = keywordRecords[1]
  BY DEF keywordRecords
<1>4. keywordRecords \in Seq(IDs) /\ cpeRecords \in Seq(IDs)
  <2>1. keywordRecords = <<keywordRecords[1], keywordRecords[2], keywordRecords[3]>>
    BY DEF keywordRecords
  <2>2. cpeRecords = <<cpeRecords[1], cpeRecords[2], cpeRecords[3]>>
    BY DEF cpeRecords
  <2> QED
    <3>1. \A x, y, z \in IDs : <<x, y, z>> \in Seq(IDs)
      OBVIOUS
    <3> HIDE DEF IDs
    <3> QED
      BY <1>2, <2>1, <2>2, <3>1
<1>5. Client!IsInjective(keywordRecords) /\ Client!IsInjective(cpeRecords)
  BY <1>1 DEF Client!IsInjective, keywordRecords, cpeRecords, log4Shell
<1> QED
  BY <1>2, <1>3, <1>4, <1>5 DEF keywordRecords, cpeRecords

(* What the mock has for a query is a corpus NvdClient foresees. *)
LEMMA MatchFacts ==
    ASSUME NEW o \in Ops, NEW a \in Args(o)
    PROVE  /\ Matches(o, a) \in Seq(IDs) /\ Client!IsInjective(Matches(o, a))
           /\ Len(Matches(o, a)) <= 3 /\ (o = "FetchCVE" => Len(Matches(o, a)) <= 1)
<1>1. o \in {"FetchCVE", "SearchKeyword", "CVEsForCPE"}
  BY WalkAssumption
<1>2. Client!IsInjective(<<>>) /\ <<>> \in Seq(IDs) /\ Len(<<>>) = 0
  BY DEF Client!IsInjective
<1>3. /\ Client!IsInjective(<<log4Shell>>) /\ <<log4Shell>> \in Seq(IDs)
      /\ Len(<<log4Shell>>) = 1
  BY Records DEF Client!IsInjective
<1> DEFINE Allowed(s) == /\ s \in Seq(IDs) /\ Client!IsInjective(s) /\ Len(s) <= 3
                         /\ o = "FetchCVE" => Len(s) <= 1
<1>4. Allowed(<<>>) /\ (o = "FetchCVE" => Allowed(<<log4Shell>>))
  BY <1>2, <1>3
<1>5. o # "FetchCVE" => Allowed(keywordRecords) /\ Allowed(cpeRecords)
  BY Records
<1> HIDE DEF Allowed
<1>6. \/ Matches(o, a) = <<>>
      \/ o = "FetchCVE" /\ Matches(o, a) = <<log4Shell>>
      \/ o # "FetchCVE" /\ Matches(o, a) \in {keywordRecords, cpeRecords}
  <2>1. CASE a = ""
    BY <2>1 DEF Matches
  <2>2. CASE a # "" /\ o = "FetchCVE"
    BY <2>2 DEF Matches, byID
  <2>3. CASE a # "" /\ o = "SearchKeyword"
    BY <2>3 DEF Matches
  <2>4. CASE a # "" /\ o = "CVEsForCPE"
    BY <2>4 DEF Matches
  <2> QED
    BY <1>1, <2>1, <2>2, <2>3, <2>4
<1>7. Allowed(Matches(o, a))
  BY <1>4, <1>5, <1>6, Zenon
<1> QED
  BY <1>7 DEF Allowed

(* A page of the mock: the part from start on, at most the size asked for, *)
(* and empty only at the end.                                              *)
LEMMA PaginatedFacts ==
    ASSUME NEW m \in Seq(IDs), NEW start \in Nat, start <= Len(m)
    PROVE  \E k \in Nat :
              /\ k <= ResultsPerPage /\ start + k <= Len(m) /\ (k = 0 => start = Len(m))
              /\ ServePaginated(m, ResultsPerPage, start)
                    = Response(200, SubSeq(m, start + 1, start + k), Len(m))
<1> DEFINE n == Last(m, ResultsPerPage, start)
<1>1. First(start) = start
  BY DEF First
<1>2. Len(m) \in Nat /\ ResultsPerPage \in Nat \ {0}
  BY WalkAssumption
<1>3. n = IF start + ResultsPerPage < Len(m) THEN start + ResultsPerPage ELSE Len(m)
  BY <1>1, <1>2 DEF Last
<1>4. ServePaginated(m, ResultsPerPage, start) = Response(200, SubSeq(m, start + 1, n), Len(m))
  BY <1>1 DEF ServePaginated
<1> HIDE DEF n
<1>5. PICK k \in Nat : k = n - start
  BY <1>2, <1>3
<1>6. /\ k <= ResultsPerPage /\ start + k = n /\ start + k <= Len(m)
      /\ k = 0 => start = Len(m)
  BY <1>2, <1>3, <1>5
<1> QED
  BY <1>4, <1>6

(* The mock's answer to a query: the page at start and the whole number,   *)
(* or the error the query has.                                             *)
LEMMA ServeFacts ==
    ASSUME NEW o \in Ops, NEW a \in Args(o), NEW m, m = Matches(o, a),
           NEW start \in Nat, o = "FetchCVE" => start = 0, start <= Len(m),
           NEW r, r = Serve(o, a, ResultsPerPage, start)
    PROVE  \/ /\ Verdict(o, a) = "none"
              /\ \E k \in Nat :
                    /\ k <= ResultsPerPage /\ start + k <= Len(m) /\ (k = 0 => start = Len(m))
                    /\ r = Response(200, SubSeq(m, start + 1, start + k), Len(m))
           \/ /\ Verdict(o, a) = "notFound" /\ r = Response(404, <<>>, 0)
              /\ o = "FetchCVE" /\ m = <<>>
           \/ Verdict(o, a) = "apiError" /\ r = Response(400, <<>>, 0)
<1>0. o \in {"FetchCVE", "SearchKeyword", "CVEsForCPE"} /\ ResultsPerPage \in Nat \ {0}
  BY WalkAssumption
<1>1. CASE a = ""
  BY <1>1 DEF Serve, Verdict
<1>2. CASE a # "" /\ o = "FetchCVE" /\ a \notin byID
  <2>1. r = Response(404, <<>>, 0)
    BY <1>2 DEF Serve, ServeCVEByID
  <2>2. Verdict(o, a) = "notFound" /\ m = <<>>
    BY <1>2 DEF Verdict, Matches
  <2> QED
    BY <1>2, <2>1, <2>2
<1>3. CASE a # "" /\ o = "FetchCVE" /\ a \in byID
  <2>1. r = Response(200, <<a>>, 1) /\ Verdict(o, a) = "none"
    BY <1>3 DEF Serve, Verdict, ServeCVEByID
  <2>2. m = <<a>> /\ start = 0 /\ Len(m) = 1
    BY <1>3 DEF Matches
  <2>3. SubSeq(<<a>>, 1, 1) = <<a>>
    <3>1. <<a>> \in Seq({a}) /\ Len(<<a>>) = 1 /\ <<a>>[1] = a
      OBVIOUS
    <3>2. /\ SubSeq(<<a>>, 1, 1) \in Seq({a}) /\ Len(SubSeq(<<a>>, 1, 1)) = 1
          /\ SubSeq(<<a>>, 1, 1)[1] = a
      OBVIOUS
    <3>3. \A i \in 1 .. 1 : SubSeq(<<a>>, 1, 1)[i] = <<a>>[i]
      BY <3>1, <3>2
    <3> QED
      BY <3>1, <3>2, <3>3, ClientP!SeqEqual
  <2>4. 1 \in Nat /\ 1 <= ResultsPerPage /\ start + 1 = 1
    BY <1>0, <2>2
  <2>5. /\ start + 1 <= Len(m) /\ (1 = 0 => start = Len(m))
        /\ r = Response(200, SubSeq(m, start + 1, start + 1), Len(m))
    <3>1. start + 1 <= Len(m) /\ (1 = 0 => start = Len(m))
      BY <2>2
    <3>2. SubSeq(m, start + 1, start + 1) = <<a>>
      BY <2>2, <2>3, <2>4, Zenon
    <3> QED
      BY <2>1, <2>2, <3>1, <3>2, Zenon
  <2> QED
    BY <2>1, <2>4, <2>5
<1>4. CASE a # "" /\ o = "SearchKeyword"
  <2>1. m = keywordRecords /\ Verdict(o, a) = "none"
        /\ r = ServePaginated(keywordRecords, ResultsPerPage, start)
    BY <1>4 DEF Matches, Verdict, Serve
  <2>2. m \in Seq(IDs) /\ r = ServePaginated(m, ResultsPerPage, start)
    BY <2>1, Records, Zenon
  <2>3. \E k \in Nat :
           /\ k <= ResultsPerPage /\ start + k <= Len(m) /\ (k = 0 => start = Len(m))
           /\ ServePaginated(m, ResultsPerPage, start)
                 = Response(200, SubSeq(m, start + 1, start + k), Len(m))
    BY <2>2, PaginatedFacts
  <2> QED
    BY <2>1, <2>2, <2>3, Zenon
<1>5. CASE a # "" /\ o = "CVEsForCPE"
  <2>1. m = cpeRecords /\ Verdict(o, a) = "none"
        /\ r = ServePaginated(cpeRecords, ResultsPerPage, start)
    BY <1>5 DEF Matches, Verdict, Serve
  <2>2. m \in Seq(IDs) /\ r = ServePaginated(m, ResultsPerPage, start)
    BY <2>1, Records, Zenon
  <2>3. \E k \in Nat :
           /\ k <= ResultsPerPage /\ start + k <= Len(m) /\ (k = 0 => start = Len(m))
           /\ ServePaginated(m, ResultsPerPage, start)
                 = Response(200, SubSeq(m, start + 1, start + k), Len(m))
    BY <2>2, PaginatedFacts
  <2> QED
    BY <2>1, <2>2, <2>3, Zenon
<1> QED
  BY <1>0, <1>1, <1>2, <1>3, <1>4, <1>5

(* The client takes from it what it says. *)
LEMMA ReceivedFacts ==
    /\ \A p, t : Received(Response(200, p, t)) = Client!Envelope(p, t)
    /\ Received(Response(404, <<>>, 0)) = Client!Broken(404, "garbage")
    /\ Received(Response(400, <<>>, 0)) = Client!Broken(400, "garbage")
BY DEF Received, Response

LEMMA ErrorFacts ==
    /\ \A p, t : Client!GetError(Client!Envelope(p, t)) = "none"
    /\ Client!GetError(Client!Broken(404, "garbage")) = "notFound"
    /\ Client!GetError(Client!Broken(400, "garbage")) = "apiError"
BY DEF Client!GetError, Client!Broken, Client!Envelope

-----------------------------------------------------------------------------
(* Every step of the walk is one NvdClient foresees. *)
LEMMA InitClient == WalkInit => Client!Init
<1> SUFFICES ASSUME WalkInit PROVE Client!Init
  OBVIOUS
<1>1. op \in Ops /\ arg \in Args(op) /\ corpus = Matches(op, arg)
  BY DEF WalkInit
<1>2. /\ corpus \in Seq(IDs) /\ Client!IsInjective(corpus) /\ Len(corpus) <= 3
      /\ op = "FetchCVE" => Len(corpus) <= 1
  BY <1>1, MatchFacts, Zenon
<1>3. corpus \in Client!Corpora
  <2>1. PICK n \in Nat : n = Len(corpus)
    BY <1>2
  <2>2. n \in 0 .. 3 /\ corpus \in [1 .. n -> IDs]
    BY <1>2, <2>1
  <2> QED
    BY <1>2, <2>2 DEF Client!Corpora, Client!BoundedSeq, Client!SeqOf
<1>4. Len(corpus) <= Client!Capacity
  BY <1>2 DEF Client!Capacity
<1> QED
  BY <1>1, <1>3, <1>4 DEF WalkInit, Client!Init

(* Where the walk stands until it is done. *)
LEMMA UnderwayFacts ==
    ASSUME MockInv, pc # "done"
    PROVE  /\ op \in Ops /\ arg \in Args(op) /\ corpus = Matches(op, arg)
           /\ startIndex \in Nat /\ startIndex <= Len(corpus)
           /\ op = "FetchCVE" => startIndex = 0
<1>1. op \in Ops /\ arg \in Args(op) /\ corpus = Matches(op, arg) /\ ~disturbed
  BY DEF MockInv, Consistent
<1>2. /\ rows \in Seq(IDs) /\ corpus \in Seq(IDs) /\ startIndex = Len(rows)
      /\ op = "FetchCVE" => rows = <<>>
      /\ Client!Agrees(rows, corpus, 0)
  BY <1>1 DEF MockInv, Client!TypeOK, Client!WalkInv, Client!Position, Client!Tiled
<1>3. startIndex \in Nat /\ startIndex <= Len(corpus)
  BY <1>2 DEF Client!Agrees
<1> QED
  BY <1>1, <1>2, <1>3

LEMMA AnswerStep ==
    ASSUME MockInv, Answer
    PROVE  Client!Service
<1>1. PICK r : r = Serve(op, arg, ResultsPerPage, startIndex)
  OBVIOUS
<1>2. Client!Answer(Received(r)) /\ UNCHANGED disturbed /\ pc = "waiting"
  BY <1>1 DEF Answer, Client!Answer
<1>3. /\ op \in Ops /\ arg \in Args(op) /\ corpus = Matches(op, arg)
      /\ startIndex \in Nat /\ startIndex <= Len(corpus)
      /\ op = "FetchCVE" => startIndex = 0
  BY <1>2, UnderwayFacts
<1>4. ASSUME NEW k \in Nat, k <= ResultsPerPage, startIndex + k <= Len(corpus),
             k = 0 => startIndex = Len(corpus),
             r = Response(200, SubSeq(corpus, startIndex + 1, startIndex + k), Len(corpus))
      PROVE  Client!Service
  <2>1. Received(r) = Client!Envelope(SubSeq(corpus, startIndex + 1, startIndex + k), Len(corpus))
    BY <1>4, ReceivedFacts
  <2>2. Len(corpus) \in Nat
    BY DEF MockInv, Client!TypeOK
  <2>3. /\ k \in 0 .. Client!Least(ResultsPerPage, Client!Remaining)
        /\ k = 0 => Client!Remaining = 0
    BY <1>3, <1>4, <2>2, WalkAssumption DEF Client!Least, Client!Remaining
  <2> QED
    BY <1>2, <2>1, <2>3 DEF Client!AnswerPage, Client!Service
<1>5. CASE r = Response(404, <<>>, 0) /\ op = "FetchCVE" /\ corpus = <<>>
  BY <1>2, <1>5, ReceivedFacts DEF Client!AnswerUnknown, Client!Service
<1>6. CASE r = Response(400, <<>>, 0)
  <2>1. Received(r) = Client!Broken(400, "garbage")
    BY <1>6, ReceivedFacts
  <2>2. disturbed' = (disturbed \/ Client!GetError(Client!Broken(400, "garbage")) = "none")
    BY <1>2, ErrorFacts DEF MockInv, Client!TypeOK
  <2> QED
    BY <1>2, <2>1, <2>2 DEF Client!AnswerBroken, Client!Service
<1> QED
  BY <1>1, <1>3, <1>4, <1>5, <1>6, ServeFacts

LEMMA ClientStep ==
    ASSUME MockInv, [WalkNext]_walkVars
    PROVE  Client!Client \/ Client!Service \/ UNCHANGED clientVars
<1>1. CASE Request
  BY <1>1 DEF Request, Client!Client
<1>2. CASE Answer
  BY <1>2, AnswerStep
<1>3. CASE Lost
  BY <1>3 DEF Lost, Client!Client
<1>4. CASE Use
  BY <1>4 DEF Use, Client!Client
<1>5. CASE Mock \/ Idle \/ UNCHANGED walkVars
  BY <1>5 DEF Mock, Idle, walkVars
<1> QED
  BY <1>1, <1>2, <1>3, <1>4, <1>5 DEF WalkNext

LEMMA NextWalk ==
    ASSUME Client!TypeOK, Client!WalkInv,
           Client!Client \/ Client!Service \/ UNCHANGED clientVars
    PROVE  (Client!TypeOK /\ Client!WalkInv)'
<1>1. [ClientP!Next]_(ClientP!vars)
  BY SameClientStep, SameService DEF ClientP!Next, ClientP!vars, ClientP!clientVars, clientVars
<1>2. ClientP!TypeOK /\ ClientP!Position /\ ClientP!Budget /\ ClientP!Tiled
  BY SameClientInv DEF ClientP!WalkInv
<1>3. ClientP!TypeOK'
  BY <1>1, <1>2, ClientConstants, ClientP!NextTypeOK
<1>4. ClientP!Position' /\ ClientP!Budget'
  BY <1>1, <1>2, ClientConstants, ClientP!NextBounds
<1>5. ClientP!Tiled'
  BY <1>1, <1>2, ClientConstants, ClientP!NextTiled
<1>6. (Client!TypeOK <=> ClientP!TypeOK)' /\ (Client!WalkInv <=> ClientP!WalkInv)'
  BY SameClientInv, PTL
<1> QED
  BY <1>3, <1>4, <1>5, <1>6 DEF ClientP!WalkInv

-----------------------------------------------------------------------------
(* The inductive invariant. *)

(* The reply in hand is what the mock has for the query. *)
LEMMA ReplyFacts ==
    ASSUME MockInv, pc = "answered"
    PROVE  /\ Client!GetError(reply) = Verdict(op, arg)
           /\ Client!GetError(reply) = "none" => reply.total = Len(corpus)
<1>1. PICK r : r = Serve(op, arg, ResultsPerPage, startIndex)
  OBVIOUS
<1>2. reply = Received(r)
  BY <1>1 DEF MockInv, Consistent
<1>3. /\ op \in Ops /\ arg \in Args(op) /\ corpus = Matches(op, arg)
      /\ startIndex \in Nat /\ startIndex <= Len(corpus)
      /\ op = "FetchCVE" => startIndex = 0
  BY UnderwayFacts
<1>4. CASE Verdict(op, arg) = "none" /\ \E p : r = Response(200, p, Len(corpus))
  <2>1. PICK p : r = Response(200, p, Len(corpus))
    BY <1>4
  <2>2. reply = Client!Envelope(p, Len(corpus))
    BY <1>2, <2>1, ReceivedFacts
  <2>3. reply.total = Len(corpus)
    BY <2>2 DEF Client!Envelope
  <2> QED
    BY <1>4, <2>2, <2>3, ErrorFacts
<1>5. CASE Verdict(op, arg) = "notFound" /\ r = Response(404, <<>>, 0)
  BY <1>2, <1>5, ReceivedFacts, ErrorFacts
<1>6. CASE Verdict(op, arg) = "apiError" /\ r = Response(400, <<>>, 0)
  BY <1>2, <1>6, ReceivedFacts, ErrorFacts
<1> QED
  BY <1>1, <1>3, <1>4, <1>5, <1>6, ServeFacts

(* What the client makes of it: a further request, or the query's end. *)
LEMMA UseFacts ==
    ASSUME MockInv, Use
    PROVE  /\ pc = "answered" /\ pc' \in {"request", "done"}
           /\ UNCHANGED <<op, arg, reply, corpus, disturbed, changes, mockVars>>
           /\ pc' = "done" => err' = Verdict(op, arg)
           /\ pc' = "done" /\ err' = "none" => reply.total = Len(corpus)
<1>1. pc = "answered" => err = "none"
  BY DEF MockInv, Consistent, Client!WalkInv, Client!Tiled
<1>2. CASE Client!Reject
  BY <1>2, ReplyFacts DEF Use, Client!Reject, Client!Fail
<1>3. CASE Client!FetchCVE
  BY <1>1, <1>3, ReplyFacts DEF Use, Client!FetchCVE, Client!Accepted, Client!Return
<1>4. CASE Client!PaginateFull
  BY <1>1, <1>4, ReplyFacts DEF Use, Client!PaginateFull, Client!Accepted, Client!Return
<1>5. CASE Client!PaginateEnd
  BY <1>1, <1>5, ReplyFacts DEF Use, Client!PaginateEnd, Client!Accepted, Client!Return
<1>6. CASE Client!PaginateMore
  BY <1>6 DEF Use, Client!PaginateMore, Client!Accepted
<1> QED
  BY <1>2, <1>3, <1>4, <1>5, <1>6 DEF Use

(* Only Accept touches the connection, and only a signal counts. *)
LEMMA MockFacts ==
    ASSUME Mock
    PROVE  /\ UNCHANGED <<arg, clientVars>> /\ (announced => announced')
           /\ link' = link \/ (link = "queued" /\ link' = "handling")
           /\ signals' = signals \/ (Signal /\ signals' = signals + 1)
<1> USE DEF Main, Link
<1>1. CASE Signal
  BY <1>1 DEF Mock, Signal
<1>2. CASE ListenFails \/ Listen \/ Announce \/ Go
  BY <1>2 DEF Mock, ListenFails, Listen, Announce, Go
<1>3. CASE ServeStarts \/ ServeRefuses \/ ServeReturns
  BY <1>3 DEF Mock, ServeStarts, ServeRefuses, ServeReturns
<1>4. CASE Notify \/ Shutdown \/ Accept
  BY <1>4 DEF Mock, Notify, Shutdown, Accept
<1> QED
  BY <1>1, <1>2, <1>3, <1>4 DEF Mock, Goroutines

LEMMA InitMock == WalkInit => MockInv
<1> SUFFICES ASSUME WalkInit PROVE MockInv
  OBVIOUS
<1>1. ClientP!Init
  BY InitClient, SameClientInit
<1>2. ClientP!TypeOK
  BY <1>1, ClientConstants, ClientP!InitTypeOK
<1>3. ClientP!Position /\ ClientP!Budget
  BY <1>1, ClientConstants, ClientP!InitBounds
<1>4. ClientP!Tiled
  BY <1>1, ClientConstants, ClientP!InitTiled
<1>5. Client!TypeOK /\ Client!WalkInv
  BY <1>2, <1>3, <1>4, SameClientInv DEF ClientP!WalkInv
<1> QED
  BY <1>5 DEF WalkInit, Init, MockInv, Consistent, Ready

LEMMA NextConsistent ==
    ASSUME MockInv, [WalkNext]_walkVars
    PROVE  Consistent'
<1>0. Consistent
  BY DEF MockInv
<1> USE DEF Consistent
<1>1. CASE Request
  BY <1>0, <1>1 DEF Request, Connect, Link, Client!Request
<1>2. CASE Answer
  BY <1>0, <1>2 DEF Answer, Write, Link, Client!Answer
<1>3. CASE Lost
  <2>1. link # "none" /\ link' = "none"
    BY <1>3 DEF Lost, Cut, Link
  <2> QED
    BY <1>0, <1>3, <2>1 DEF Lost, Client!Timeout, Client!Fail
<1>4. CASE Use
  <2>1. /\ op \in Ops /\ arg \in Args(op) /\ corpus = Matches(op, arg)
        /\ ~disturbed /\ changes = 0 /\ link = "none"
    BY <1>0, <1>4, UseFacts
  <2> QED
    BY <1>4, <2>1, UseFacts DEF mockVars
<1>5. CASE Mock
  BY <1>0, <1>5, MockFacts DEF clientVars
<1>6. CASE Idle \/ UNCHANGED walkVars
  BY <1>0, <1>6 DEF Idle, walkVars, clientVars, mockVars
<1> QED
  BY <1>1, <1>2, <1>3, <1>4, <1>5, <1>6 DEF WalkNext

LEMMA NextReady ==
    ASSUME MockInv, [WalkNext]_walkVars
    PROVE  Ready' /\ signals' \in Nat
<1>0. Ready /\ signals \in Nat
  BY DEF MockInv
<1> USE DEF Ready
<1>1. CASE Request
  BY <1>0, <1>1 DEF Request, Connect, Link, Client!Request
<1>2. CASE Answer
  BY <1>0, <1>2 DEF Answer, Write, Link, Client!Answer
<1>3. CASE Lost
  <2>1. /\ link # "none" /\ link' = "none" /\ (~Open \/ ~Running)
        /\ UNCHANGED <<main, watcher, ch, signals, announced>>
    BY <1>3 DEF Lost, Cut, Link
  <2>2. signals # 0
    BY <1>0, <2>1 DEF Open, Running
  <2> QED
    BY <1>0, <2>1, <2>2
<1>4. CASE Use
  BY <1>0, <1>4, UseFacts DEF mockVars
<1>5. CASE Mock
  <2>1. link' # "none" => announced'
    BY <1>0, <1>5, MockFacts
  <2>2. signals' \in Nat /\ (signals' = 0 => signals = 0 /\ ~Signal)
    <3>1. signals' = signals \/ signals' = signals + 1
      BY <1>5, MockFacts
    <3>2. Signal => signals' = signals + 1
      BY DEF Signal
    <3> QED
      BY <1>0, <3>1, <3>2
  <2>3. UNCHANGED <<op, arg, pc, err>>
    BY <1>5, MockFacts DEF clientVars
  <2>4. ASSUME signals' = 0
        PROVE  /\ ~ch' /\ watcher' # "shutdown" /\ main' \notin {"returned", "killed"}
               /\ announced' => main' \in {"go", "serve", "serving"}
    <3>1. /\ ~ch /\ watcher # "shutdown" /\ main \notin {"returned", "killed"}
          /\ announced => main \in {"go", "serve", "serving"}
      BY <1>0, <2>2, <2>4
    <3>2. Goroutines
      BY <1>5, <2>2, <2>4 DEF Mock
    <3> USE DEF Main, Link
    <3>3. CASE ListenFails \/ Listen \/ Announce \/ Go
      BY <3>1, <3>3 DEF ListenFails, Listen, Announce, Go
    <3>4. CASE ServeStarts \/ ServeRefuses \/ ServeReturns
      BY <3>1, <3>4 DEF ServeStarts, ServeRefuses, ServeReturns
    <3>5. CASE Notify \/ Shutdown \/ Accept
      BY <3>1, <3>5 DEF Notify, Shutdown, Accept
    <3> QED
      BY <3>2, <3>3, <3>4, <3>5 DEF Goroutines
  <2> QED
    BY <1>0, <2>1, <2>2, <2>3, <2>4
<1>6. CASE Idle \/ UNCHANGED walkVars
  BY <1>0, <1>6 DEF Idle, walkVars, clientVars, mockVars
<1> QED
  BY <1>1, <1>2, <1>3, <1>4, <1>5, <1>6 DEF WalkNext

LEMMA NextMock == MockInv /\ [WalkNext]_walkVars => MockInv'
<1> SUFFICES ASSUME MockInv, [WalkNext]_walkVars PROVE MockInv'
  OBVIOUS
<1>1. (Client!TypeOK /\ Client!WalkInv)'
  BY ClientStep, NextWalk DEF MockInv
<1> QED
  BY <1>1, NextConsistent, NextReady DEF MockInv

(* The client's invariant holds against the mock, whose connection, reply  *)
(* and process state agree with where the client is.                       *)
THEOREM MockInvariant == WalkSpec => []MockInv
BY InitMock, NextMock, PTL DEF WalkSpec

(* "A client that pages correctly sees every record exactly once", against *)
(* the records the mock has, for any page size and any cap of the client:  *)
(* the rows are the first of them at every moment, also of a walk that is  *)
(* cut, and without an error it ends with the first MaxResults.            *)
THEOREM MockShowsEveryRecord == WalkSpec => []SeesEveryRecord
<1>1. ASSUME MockInv PROVE SeesEveryRecord
  <2>1. /\ rows \in Seq(IDs) /\ corpus \in Seq(IDs) /\ ~disturbed /\ corpus = Matches(op, arg)
        /\ pc = "done" /\ err = "none" => reply.total = Len(corpus)
    BY <1>1 DEF MockInv, Consistent, Client!TypeOK
  <2>2. /\ Client!Agrees(rows, corpus, 0)
        /\ pc = "done" /\ err = "none" => Len(rows) = Client!Least(MaxResults, Len(corpus))
    BY <1>1, <2>1 DEF MockInv, Client!WalkInv, Client!Tiled
  <2>3. /\ Len(rows) \in Nat /\ Len(rows) <= Len(corpus)
        /\ \A j \in 1 .. Len(rows) : rows[j] = corpus[j]
    BY <2>1, <2>2 DEF Client!Agrees
  <2>4. rows = SubSeq(corpus, 1, Len(rows))
    <3>1. /\ SubSeq(corpus, 1, Len(rows)) \in Seq(IDs)
          /\ Len(SubSeq(corpus, 1, Len(rows))) = Len(rows)
          /\ \A j \in 1 .. Len(rows) : SubSeq(corpus, 1, Len(rows))[j] = corpus[j]
      BY <2>1, <2>3
    <3> QED
      BY <2>1, <2>3, <3>1, ClientP!SeqEqual
  <2> QED
    BY <2>1, <2>2, <2>3, <2>4 DEF SeesEveryRecord
<1> QED
  BY <1>1, MockInvariant, PTL

(* Who has read the PORT line is served until a signal is sent: no call is *)
(* refused or cut, also between the PORT line and Serve.                   *)
THEOREM PortLineMeansServed == WalkSpec => []ReadyMeansServed
<1>1. MockInv => ReadyMeansServed
  BY DEF MockInv, Ready, ReadyMeansServed
<1> QED
  BY <1>1, MockInvariant, PTL

(* The mock is an NVD service: what the client's theorems assume of a      *)
(* service, the mock does in every step.                                   *)
THEOREM MockIsNVD == WalkSpec => ServesLikeNVD
<1>1. MockInv /\ [WalkNext]_walkVars => [Client!Next]_clientVars
  BY ClientStep DEF Client!Next
<1> QED
  BY <1>1, InitClient, MockInvariant, PTL DEF WalkSpec, ServesLikeNVD
====
