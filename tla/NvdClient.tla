----------------------------- MODULE NvdClient -----------------------------
(***************************************************************************)
(* The NVD client of src/internal/cveworker/client.go: FetchCVE, and the   *)
(* paginated walk behind SearchKeyword and CVEsForCPE, against a service   *)
(* whose records may change between two page requests, whose answers may   *)
(* be lost or broken, and which may be a mirror that keeps no promise at   *)
(* all (base_url is an argument of the SQL function).                      *)
(*                                                                         *)
(* One behaviour is one call.  The service is external: "corpus" is the    *)
(* sequence of the records that match the query, in the order served.      *)
(***************************************************************************)
EXTENDS Integers, Sequences, SequencesExt

CONSTANTS
    CVE,             \* the CVE ids
    Ops,             \* which of the client's operations are called
    MaxResults,      \* client.go:24
    ResultsPerPage,  \* client.go:28
    OddReplies,      \* (page, total) pairs a mirror may return regardless of
                     \* the request; {} for a service that behaves like NVD
    MaxCorpus,       \* bound: length of the corpus
    MaxChanges       \* bound: changes of the corpus during one call

Operation == {"FetchCVE", "SearchKeyword", "CVEsForCPE"}

ASSUME ClientAssumption ==
    /\ Ops \subseteq Operation
    /\ MaxResults \in Nat \ {0}
    /\ ResultsPerPage \in Nat \ {0}
    /\ OddReplies \subseteq [page : Seq(CVE), total : Int]
    /\ MaxCorpus \in Nat \ {0}
    /\ MaxChanges \in Nat

VARIABLES
    op,          \* the operation called
    pc,          \* "request", "waiting" (in Do), "answered", "done"
    rows,        \* rows gathered so far; at "done", the rows returned
    startIndex,  \* paginate's startIndex
    reply,       \* the last HTTP response the service produced
    err,         \* the error returned, or "none"
    corpus,      \* the matching records, as the service holds them now
    changes,     \* how often the corpus changed
    requests,    \* history: HTTP requests issued
    disturbed    \* history: the walked part of the corpus changed, or the
                 \* service answered with something else than its records

clientVars == <<op, pc, rows, startIndex, reply, err>>
vars == <<clientVars, corpus, changes, requests, disturbed>>

Body  == {"cut", "garbage", "foreign", "envelope"}
Reply == [status : Nat, body : Body, page : Seq(CVE), total : Int]
Envelope(page, total) ==
    [status |-> 200, body |-> "envelope", page |-> page, total |-> total]
Broken(status, body) ==
    [status |-> status, body |-> body, page |-> <<>>, total |-> 0]

Least(a, b) == IF a <= b THEN a ELSE b

(* At most one record has a given id; a search matches any number. *)
Capacity == IF op = "FetchCVE" THEN 1 ELSE MaxCorpus
Corpora  == {s \in BoundedSeq(CVE, MaxCorpus) : IsInjective(s)}

Init ==
    /\ op \in Ops
    /\ corpus \in {s \in Corpora : Len(s) <= Capacity}
    /\ pc = "request" /\ rows = <<>> /\ startIndex = 0 /\ err = "none"
    /\ reply = Envelope(<<>>, 0)
    /\ changes = 0 /\ requests = 0 /\ disturbed = FALSE

-----------------------------------------------------------------------------
(* get: the outcome of one HTTP exchange, in the order get tests for it.    *)

GetError(r) ==
    CASE r.body = "cut"     -> "readResponse"
      [] r.body # "cut" /\ r.status = 404 -> "notFound"
      [] r.body # "cut" /\ r.status = 429 -> "rateLimited"
      [] r.body # "cut" /\ r.status >= 400 /\ r.status \notin {404, 429} -> "apiError"
      [] r.body = "garbage" /\ r.status < 400 -> "decode"
      [] OTHER -> "none"

(* Both callers hand the error on and drop what they gathered. *)
Fail(e) ==
    /\ pc' = "done" /\ err' = e /\ rows' = <<>>
    /\ UNCHANGED <<op, startIndex, reply, corpus, changes, requests, disturbed>>

(* get builds the request and gives it to http.Client.Do. *)
Request ==
    /\ pc = "request"
    /\ pc' = "waiting" /\ requests' = requests + 1
    /\ UNCHANGED <<op, rows, startIndex, reply, err, corpus, changes, disturbed>>

(* A base_url that does not parse: no request is ever issued. *)
BadURL == pc = "request" /\ requests = 0 /\ Fail("buildRequest")

(* Do fails: unreachable, or the 30 s timeout, which may also fire when    *)
(* the service has already answered.                                       *)
(* (A slip: a client that sets no Timeout only notices a broken connection.)*)
TimeoutUnset == pc = "answered" /\ Fail("requestFailed")
Timeout == pc \in {"waiting", "answered"} /\ Fail("requestFailed")

Reject == pc = "answered" /\ GetError(reply) # "none" /\ Fail(GetError(reply))

-----------------------------------------------------------------------------
(* What FetchCVE and paginate do with a decoded page.                       *)

Accepted == pc = "answered" /\ GetError(reply) = "none"

Return(rs, next) ==
    /\ pc' = "done" /\ rows' = rs /\ startIndex' = next
    /\ UNCHANGED <<op, reply, err, corpus, changes, requests, disturbed>>

FetchCVE ==
    /\ Accepted /\ op = "FetchCVE"
    /\ Return(SubSeq(reply.page, 1, Least(1, Len(reply.page))), startIndex)

Room == MaxResults - Len(rows)

(* (Slips: advancing by the page size asked for, by the server's number,   *)
(* or by one page.)                                                        *)
Next_startIndexAsked == startIndex + ResultsPerPage
Next_startIndexTotal == startIndex + reply.total
Next_startIndexOne   == startIndex + 1
Next_startIndex == startIndex + Len(reply.page)

(* (Slips: trusting the total alone; stopping one record early.) *)
LastPageByTotal == Next_startIndex >= reply.total
LastPageEarly   == reply.page = <<>> \/ Next_startIndex + 1 >= reply.total
LastPage == reply.page = <<>> \/ Next_startIndex >= reply.total

(* The row loop reaches MaxResults and returns from inside the page. *)
PaginateFull ==
    /\ Accepted /\ op # "FetchCVE" /\ Len(reply.page) >= Room
    /\ Return(rows \o SubSeq(reply.page, 1, Room), startIndex)

PaginateEnd ==
    /\ Accepted /\ op # "FetchCVE" /\ Len(reply.page) < Room /\ LastPage
    /\ Return(rows \o reply.page, Next_startIndex)

PaginateMore ==
    /\ Accepted /\ op # "FetchCVE" /\ Len(reply.page) < Room /\ ~LastPage
    /\ pc' = "request"
    /\ rows' = rows \o reply.page /\ startIndex' = Next_startIndex
    /\ UNCHANGED <<op, reply, err, corpus, changes, requests, disturbed>>

-----------------------------------------------------------------------------
(* The service and its records.                                            *)

Answer(r) ==
    /\ pc = "waiting" /\ pc' = "answered" /\ reply' = r
    /\ UNCHANGED <<op, rows, startIndex, err, corpus, changes, requests>>

Remaining == IF startIndex < Len(corpus) THEN Len(corpus) - startIndex ELSE 0

(* The page at startIndex: never more than was asked for, possibly less,   *)
(* but empty only past the end.                                            *)
AnswerPage ==
    /\ UNCHANGED disturbed
    /\ \E k \in 0 .. Least(ResultsPerPage, Remaining) :
          /\ k = 0 => Remaining = 0
          /\ Answer(Envelope(SubSeq(corpus, startIndex + 1, startIndex + k), Len(corpus)))

(* An unknown id is answered with 404 by NVD, with an empty 200 by others  *)
(* (AnswerPage).                                                           *)
AnswerUnknown ==
    /\ op = "FetchCVE" /\ corpus = <<>>
    /\ Answer(Broken(404, "garbage")) /\ UNCHANGED disturbed

(* Rate limiting, server errors, bodies cut short or not JSON; and bodies  *)
(* that are JSON but no envelope, or a non-error status other than 200:    *)
(* those decode to the empty envelope.                                     *)
AnswerBroken ==
    \E status \in {200, 203, 400, 404, 429, 500}, body \in {"cut", "garbage", "foreign"} :
        /\ Answer(Broken(status, body))
        /\ disturbed' = (disturbed \/ GetError(Broken(status, body)) = "none")

AnswerOdd ==
    \E r \in OddReplies : Answer(Envelope(r.page, r.total)) /\ disturbed' = TRUE

(* A change at position i disturbs the call when i is in the part of the   *)
(* corpus already walked, the page in flight included.                     *)
Walked == startIndex + IF pc = "answered" THEN Len(reply.page) ELSE 0

Change(i) ==
    /\ pc # "done" /\ changes < MaxChanges
    /\ changes' = changes + 1
    /\ disturbed' = (disturbed \/ i <= Walked)
    /\ UNCHANGED <<clientVars, requests>>

Publish ==
    \E i \in 1 .. Len(corpus) + 1, c \in CVE \ ToSet(corpus) :
        /\ Len(corpus) < Capacity
        /\ corpus' = InsertAt(corpus, i, c) /\ Change(i)

Withdraw ==
    \E i \in 1 .. Len(corpus) : corpus' = RemoveAt(corpus, i) /\ Change(i)

-----------------------------------------------------------------------------
Client ==
    \/ Request \/ BadURL \/ Timeout \/ Reject \/ FetchCVE
    \/ PaginateFull \/ PaginateEnd \/ PaginateMore
Service ==
    \/ AnswerPage \/ AnswerUnknown \/ AnswerBroken \/ AnswerOdd
    \/ Publish \/ Withdraw
Done == pc = "done" /\ UNCHANGED vars

Next == Client \/ Service \/ Done

(* The client runs, and its 30 s timeout ends a request nobody answers.    *)
(* Nothing is assumed of the service.                                      *)
Fairness == WF_vars(Client)

Spec == Init /\ [][Next]_vars /\ Fairness

-----------------------------------------------------------------------------
TypeOK ==
    /\ op \in Operation
    /\ pc \in {"request", "waiting", "answered", "done"}
    /\ rows \in Seq(CVE) /\ startIndex \in Nat /\ reply \in Reply
    /\ err \in {"none", "buildRequest", "requestFailed", "readResponse",
                "notFound", "rateLimited", "apiError", "decode"}
    /\ corpus \in Seq(CVE) /\ changes \in Nat
    /\ requests \in Nat /\ disturbed \in BOOLEAN

(* Whatever the service answers, a call returns at most MaxResults rows    *)
(* and issues at most MaxResults requests: "an over-broad query cannot run *)
(* forever" (client.go:22-23), even with one-row pages and lying totals.   *)
BoundedWork == Len(rows) <= MaxResults /\ requests <= MaxResults

(* The pages paginate concatenates tile the corpus: unless the part it has *)
(* walked changed under it, its rows are the first rows of the corpus, in  *)
(* order, whatever the page sizes, and whatever changed further on.        *)
PagesTile == ~disturbed => rows = SubSeq(corpus, 1, Len(rows))

(* A walk that ends without an error missed nothing: it has every record   *)
(* the service counted when it gave its last answer, up to MaxResults.     *)
NothingMissed ==
    (pc = "done" /\ err = "none" /\ ~disturbed) =>
        Len(rows) = Least(MaxResults, reply.total)

-----------------------------------------------------------------------------
(* The inductive strengthening of the three invariants above.              *)

(* Between two requests startIndex counts the rows, there is room for at   *)
(* least one, and FetchCVE has none.                                       *)
Position ==
    /\ pc # "done" => /\ startIndex = Len(rows) /\ Len(rows) < MaxResults
                      /\ op = "FetchCVE" => rows = <<>>
    /\ op = "FetchCVE" => Len(corpus) <= 1

(* Every request but the last has brought at least one row. *)
Budget ==
    /\ Len(rows) <= MaxResults /\ requests <= MaxResults
    /\ pc = "request" => requests <= Len(rows)
    /\ pc \in {"waiting", "answered"} => requests <= Len(rows) + 1

(* The sequence rs is found in s behind the first offset elements. *)
Agrees(rs, s, offset) ==
    /\ offset + Len(rs) <= Len(s)
    /\ \A j \in 1 .. Len(rs) : rs[j] = s[offset + j]

(* The page in flight continues the rows, and its total is honest. *)
Continues ==
    /\ Agrees(reply.page, corpus, Len(rows))
    /\ Len(rows) + Len(reply.page) <= reply.total
    /\ reply.page = <<>> => reply.total = Len(rows)
    /\ op = "FetchCVE" => reply.total <= 1

(* The walk so far, the page in flight and the end of the walk agree with  *)
(* the records, as long as nothing below startIndex was changed.           *)
Tiled ==
    ~disturbed =>
        /\ Agrees(rows, corpus, 0)
        /\ pc = "answered" /\ GetError(reply) = "none" => Continues
        /\ pc = "done" /\ err = "none" => Len(rows) = Least(MaxResults, reply.total)
        /\ pc # "done" => err = "none"

WalkInv == Position /\ Budget /\ Tiled

(* Every call returns: with rows or an error, if only by the timeout.      *)
Returns == <>(pc = "done")

====
