------------------------------ MODULE MockWalk ------------------------------
(***************************************************************************)
(* The client of NvdClient against the mock NVD server, as in the Go tests *)
(* and under make test-sql: a caller that has read the PORT line makes one *)
(* call, while the server may be stopped at any moment.                    *)
(***************************************************************************)
EXTENDS MockServer

CONSTANTS Ops, MaxResults, ResultsPerPage   \* of the client

ASSUME WalkAssumption ==
    /\ Ops \subseteq {"FetchCVE", "SearchKeyword", "CVEsForCPE"}
    /\ MaxResults \in Nat \ {0} /\ ResultsPerPage \in Nat \ {0}

VARIABLES
    arg,   \* the argument of the call
    op, pc, rows, startIndex, reply, err, corpus, changes, requests, disturbed

clientVars == <<op, pc, rows, startIndex, reply, err, corpus, changes, requests, disturbed>>
walkVars   == <<mockVars, arg, clientVars>>

IDs == {keywordRecords[i] : i \in DOMAIN keywordRecords}
           \cup {cpeRecords[i] : i \in DOMAIN cpeRecords}

(* The mock's records do not change, and it keeps to the envelope.         *)
Client == INSTANCE NvdClient WITH
    CVE <- IDs, OddReplies <- {}, MaxCorpus <- 3, MaxChanges <- 0

Args(o) == IF o = "FetchCVE" THEN {log4Shell, "CVE-2099-00000", ""} ELSE {"log4j", ""}

(* The records the mock has for a query, and the error it has otherwise.   *)
Matches(o, a) ==
    CASE a = "" -> <<>>
      [] a # "" /\ o = "FetchCVE" -> IF a \in byID THEN <<a>> ELSE <<>>
      [] a # "" /\ o = "SearchKeyword" -> keywordRecords
      [] a # "" /\ o = "CVEsForCPE" -> cpeRecords
Verdict(o, a) ==
    CASE a = "" -> "apiError"
      [] a # "" /\ o = "FetchCVE" /\ a \notin byID -> "notFound"
      [] OTHER -> "none"

WalkInit ==
    /\ Init
    /\ op \in Ops /\ arg \in Args(op) /\ corpus = Matches(op, arg)
    /\ pc = "request" /\ rows = <<>> /\ startIndex = 0 /\ err = "none"
    /\ reply = Client!Envelope(<<>>, 0)
    /\ changes = 0 /\ requests = 0 /\ disturbed = FALSE

-----------------------------------------------------------------------------
Request == announced /\ Connect /\ Client!Request /\ UNCHANGED arg

(* What the client makes of a response: an error status comes with a text. *)
Received(r) ==
    IF r.status = 200 THEN Client!Envelope(r.page, r.total)
    ELSE Client!Broken(r.status, "garbage")

Answer ==
    /\ Write /\ UNCHANGED <<arg, disturbed>>
    /\ Client!Answer(Received(Serve(op, arg, ResultsPerPage, startIndex)))

(* Do fails: the connection is gone. *)
Lost == Cut /\ Client!Timeout /\ UNCHANGED arg

Use ==
    /\ Client!Reject \/ Client!FetchCVE
          \/ Client!PaginateFull \/ Client!PaginateEnd \/ Client!PaginateMore
    /\ UNCHANGED <<mockVars, arg>>

Mock == (Goroutines \/ Signal) /\ UNCHANGED <<arg, clientVars>>

(* The caller may never come, and the server may never be stopped.         *)
Idle == (~Running \/ main = "serving") /\ UNCHANGED walkVars

WalkNext == Request \/ Answer \/ Lost \/ Use \/ Mock \/ Idle

(* Goroutines are scheduled; signals and calls come as they like.          *)
Fairness ==
    /\ WF_walkVars((Goroutines /\ UNCHANGED <<arg, clientVars>>))
    /\ WF_walkVars(Answer \/ Lost \/ Use)

WalkSpec == WalkInit /\ [][WalkNext]_walkVars /\ Fairness

-----------------------------------------------------------------------------
(* "A client that pages correctly sees every record exactly once"          *)
(* (server.go:61-62), however the pages fall: at every moment the rows are *)
(* the first of the records the mock has for this query, each once, and a  *)
(* walk that ends without an error has all of them, up to MaxResults.      *)
SeesEveryRecord ==
    LET all == Matches(op, arg)
    IN  /\ Len(rows) <= Len(all) /\ rows = SubSeq(all, 1, Len(rows))
        /\ (pc = "done" /\ err = "none") => Len(rows) = Client!Least(MaxResults, Len(all))

(* Who has read the PORT line is served: until a signal is sent no call is *)
(* refused or cut, also between the PORT line and Serve, and each ends as  *)
(* its query says.                                                         *)
ReadyMeansServed ==
    (pc = "done" /\ signals = 0) => err = Verdict(op, arg)

(* The inductive invariant of these two, beside the client's own.          *)

(* The call is for the mock's records, a connection exists while the       *)
(* client waits, and what it gets is what Serve says of its query.         *)
Consistent ==
    /\ op \in Ops /\ arg \in Args(op) /\ corpus = Matches(op, arg)
    /\ ~disturbed /\ changes = 0
    /\ pc = "waiting" <=> link # "none"
    /\ pc = "answered" => reply = Received(Serve(op, arg, ResultsPerPage, startIndex))
    /\ pc = "done" /\ err = "none" => reply.total = Len(corpus)

(* Until a signal is sent, a server that has printed its PORT line is      *)
(* open, and a call can only come to the end its query has.                *)
Ready ==
    /\ link # "none" => announced
    /\ signals = 0 =>
          /\ ~ch /\ watcher # "shutdown" /\ main \notin {"returned", "killed"}
          /\ announced => main \in {"go", "serve", "serving"}
          /\ pc = "done" => err = Verdict(op, arg)
MockInv == Consistent /\ Ready /\ Client!TypeOK /\ Client!WalkInv /\ signals \in Nat

(* The mock is an NVD service: every step of a call against it is one that *)
(* NvdClient foresees of a service that keeps its promises.                *)
ServesLikeNVD == Client!Init /\ [][Client!Next]_clientVars

(* A signal at any moment ends the server: before Notify, before Serve,    *)
(* while a request is in hand ("so the Makefile's `kill` is clean",        *)
(* main.go:46; the Makefile waits for it).                                 *)
StopsOnSignal == (signals > 0) ~> ~Running

(* The shutdown is graceful (main.go:46): main never returns over a        *)
(* request in hand.                                                        *)
ShutdownIsGraceful == main = "returned" => link # "handling"
====
