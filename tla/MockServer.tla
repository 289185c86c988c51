----------------------------- MODULE MockServer -----------------------------
(***************************************************************************)
(* The mock NVD server: the handler of internal/mocknvd and the process of *)
(* cmd/mockserver, with its two goroutines (main, and the one that waits   *)
(* for a signal) and one connection.                                       *)
(*                                                                         *)
(* The life of a connection follows net/http: it waits in the backlog of   *)
(* the listener until Serve accepts it, and is then handled.               *)
(***************************************************************************)
EXTENDS Integers, Sequences

CONSTANT MaxSignals   \* bound: SIGINT and SIGTERM sent

VARIABLES
    main,      \* "listen", "announce", "go", "serve" (about to call Serve),
               \* "serving"; "returned", "killed" and "fatal" are its ends
    watcher,   \* "none", "started", "waiting" (notified), "shutdown"
    ch,        \* the signal channel holds a signal
    signals,   \* history: signals sent
    announced, \* the PORT line is out
    link       \* the connection: "none", "queued", "handling"

mockVars == <<main, watcher, ch, signals, announced, link>>

-----------------------------------------------------------------------------
(* The canned records (data.go), by id. *)

log4Shell      == "CVE-2021-44228"
keywordRecords == <<log4Shell, "CVE-2022-22965", "CVE-2014-0160">>
cpeRecords     == <<log4Shell, "CVE-2021-45046", "CVE-2099-00000">>
byID           == {log4Shell}

(* A query names an operation of the client by the parameter it sets, and  *)
(* has an argument, which may be empty.                                    *)
Response(status, page, total) == [status |-> status, page |-> page, total |-> total]

ServeCVEByID(id) ==
    IF id \in byID THEN Response(200, <<id>>, 1) ELSE Response(404, <<>>, 0)

(* Both parameters read 0 when they are missing or no numbers.             *)
(* (Slips: a misspelt parameter, so that every walk starts again; the       *)
(* number of records left as the total.)                                   *)
FirstIgnored(start)  == 0
First(start)         == IF start < 0 THEN 0 ELSE start
Last(rs, perPage, start) ==
    LET size == IF perPage <= 0 THEN Len(rs) ELSE perPage
    IN  IF First(start) + size < Len(rs) THEN First(start) + size ELSE Len(rs)
ServePaginatedRest(rs, perPage, start) ==
    Response(200, SubSeq(rs, First(start) + 1, Last(rs, perPage, start)), Len(rs) - First(start))
ServePaginated(rs, perPage, start) ==
    Response(200, SubSeq(rs, First(start) + 1, Last(rs, perPage, start)), Len(rs))

Serve(op, arg, perPage, start) ==
    CASE arg = "" -> Response(400, <<>>, 0)
      [] arg # "" /\ op = "FetchCVE" -> ServeCVEByID(arg)
      [] arg # "" /\ op = "SearchKeyword" -> ServePaginated(keywordRecords, perPage, start)
      [] arg # "" /\ op = "CVEsForCPE" -> ServePaginated(cpeRecords, perPage, start)

-----------------------------------------------------------------------------
Init ==
    /\ main = "listen" /\ watcher = "none" /\ ch = FALSE
    /\ signals = 0 /\ announced = FALSE /\ link = "none"

Running == main \notin {"returned", "killed", "fatal"}

(* The listener takes connections from Listen until Shutdown closes it,    *)
(* which it can once Serve has registered it, or until the process ends.   *)
(* (A slip: ListenAndServe, which opens it only now.)                      *)
OpenLate == main = "serving" /\ watcher # "shutdown"
Open ==
    \/ main \in {"announce", "go", "serve"}
    \/ main = "serving" /\ watcher # "shutdown"

Main(from, to) ==
    /\ main = from /\ main' = to /\ UNCHANGED <<watcher, ch, signals, link>>

ListenFails == Main("listen", "fatal") /\ UNCHANGED announced
Listen   == Main("listen", "announce") /\ UNCHANGED announced
Announce == Main("announce", "go") /\ announced' = TRUE

Go ==
    /\ main = "go" /\ main' = "serve" /\ watcher' = "started"
    /\ UNCHANGED <<ch, signals, announced, link>>

(* Serve returns at once when Shutdown has begun before it.                *)
ServeStarts  == watcher # "shutdown" /\ Main("serve", "serving") /\ UNCHANGED announced
ServeRefuses == watcher = "shutdown" /\ Main("serve", "returned") /\ UNCHANGED announced

(* Serve returns when Shutdown has closed the listener, and main with it:  *)
(* nobody waits for Shutdown.                                              *)
ServeReturns == watcher = "shutdown" /\ Main("serving", "returned") /\ UNCHANGED announced

-----------------------------------------------------------------------------
Notify ==
    /\ Running /\ watcher = "started" /\ watcher' = "waiting"
    /\ UNCHANGED <<main, ch, signals, announced, link>>

(* Before signal.Notify a signal kills the process; afterwards it goes to  *)
(* the channel, which holds one.                                           *)
Signal ==
    /\ Running /\ signals < MaxSignals /\ signals' = signals + 1
    /\ IF watcher \in {"none", "started"}
       THEN main' = "killed" /\ UNCHANGED ch
       ELSE ch' = TRUE /\ UNCHANGED main
    /\ UNCHANGED <<watcher, announced, link>>

(* (A slip: the signal is taken and the server goes on.) *)
ShutdownForgotten ==
    /\ Running /\ watcher = "waiting" /\ ch /\ ch' = FALSE
    /\ UNCHANGED <<main, watcher, signals, announced, link>>
Shutdown ==
    /\ Running /\ watcher = "waiting" /\ ch /\ ch' = FALSE
    /\ watcher' = "shutdown"
    /\ UNCHANGED <<main, signals, announced, link>>

-----------------------------------------------------------------------------
(* The connection. *)

Link(from, to) ==
    /\ link = from /\ link' = to
    /\ UNCHANGED <<main, watcher, ch, signals, announced>>

Connect == Link("none", "queued")
Accept  == main = "serving" /\ Open /\ Link("queued", "handling")
Write   == Running /\ Link("handling", "none")

(* Refused, reset, or closed without an answer. *)
Cut ==
    \/ ~Open /\ Link("queued", "none")
    \/ ~Running /\ Link("handling", "none")

Goroutines ==
    \/ ListenFails \/ Listen \/ Announce \/ Go \/ ServeStarts \/ ServeRefuses \/ ServeReturns
    \/ Notify \/ Shutdown \/ Accept
====
