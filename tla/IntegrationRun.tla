--------------------------- MODULE IntegrationRun ---------------------------
(***************************************************************************)
(* ci/run-integration.sh: one run of the SQL suite over one transport.     *)
(* The script starts the mock NVD server and, for http and unix, a worker, *)
(* waits until each has reported, stages and runs the suite, and must not  *)
(* mistake a suite that was skipped for one that passed.  On every exit it *)
(* kills what it started.                                                  *)
(***************************************************************************)
EXTENDS Integers, Sequences, FiniteSets

CONSTANTS
    Files,      \* the .test files
    Online,     \* those that need the mock NVD server
    Transports, \* what TRANSPORT may be
    MaxPolls    \* how often the script looks for a report (30 and 50)

ASSUME RunAssumption == Online \subseteq Files /\ Files # {} /\ MaxPolls \in Nat

Server == {"mock", "worker"}

VARIABLES
    transport, \* TRANSPORT
    needed,    \* the servers this run starts
    todo,      \* those not started yet, in order
    stage,     \* where the script is
    server,    \* the processes: "none", "starting", "listening", "dead"
    pid,       \* MOCK_PID and WORKER_PID are set
    reported,  \* servers that printed PORT: or UNIX: into their file
    sock,      \* the socket file exists
    polls,     \* looks for the report of the server just started
    results,   \* what the runner says of each file
    rc,        \* the exit status
    reap       \* what the EXIT trap is at: "none", a server, "socket", "done"

vars == <<transport, needed, todo, stage, server, pid, reported, sock, polls, results, rc, reap>>

(* SKIP_MOCK leaves out the mock, a URL as VGI_CVE_WORKER the HTTP worker. *)
MayStart(t) ==
    IF t = "unix" THEN {{"worker"}, Server}
    ELSE IF t = "http" THEN {{}, {"mock"}, {"worker"}, Server} ELSE {{}, {"mock"}}
InOrder(S) ==
    IF S = Server THEN <<"mock", "worker">> ELSE IF S = {} THEN <<>> ELSE <<CHOOSE s \in S : TRUE>>

Init ==
    /\ transport \in Transports /\ needed \in MayStart(transport)
    /\ todo = InOrder(needed) /\ stage = "validate"
    /\ server = [s \in Server |-> "none"] /\ pid = [s \in Server |-> FALSE]
    /\ reported = {} /\ sock = FALSE /\ polls = 0
    /\ results = [f \in Files |-> "none"] /\ rc = 0 /\ reap = "none"

(* Leaving the script, by exit, set -e or a signal, runs the EXIT trap.    *)
Exit(status) ==
    /\ stage' = "trap" /\ reap' = "worker" /\ rc' = status
    /\ UNCHANGED <<transport, needed, todo, server, pid, reported, sock, polls, results>>
Goto(next) ==
    /\ stage' = next
    /\ UNCHANGED <<transport, needed, server, pid, reported, sock, results, rc, reap>>

-----------------------------------------------------------------------------
Known == transport \in {"subprocess", "http", "unix"}
Validate == stage = "validate" /\ Known /\ Goto("start") /\ UNCHANGED <<todo, polls>>
(* The trap is not set yet, and nothing is started. *)
Reject ==
    /\ stage = "validate" /\ ~Known /\ stage' = "exited" /\ rc' = 2
    /\ UNCHANGED <<transport, needed, todo, server, pid, reported, sock, polls, results, reap>>

BuildFails == stage = "start" /\ todo # <<>> /\ Head(todo) = "mock" /\ Exit(1)

(* "server &", and then "PID=$!" as the next command. *)
Launch ==
    /\ stage = "start" /\ todo # <<>>
    /\ stage' = "record" /\ server' = [server EXCEPT ![Head(todo)] = "starting"]
    /\ UNCHANGED <<transport, needed, todo, pid, reported, sock, polls, results, rc, reap>>
(* (A slip: the PID of a server kept only once it has reported.)           *)
RecordLate == stage = "record" /\ Goto("poll") /\ polls' = 0 /\ UNCHANGED todo
Record ==
    /\ stage = "record" /\ stage' = "poll" /\ polls' = 0
    /\ pid' = [pid EXCEPT ![Head(todo)] = TRUE]
    /\ UNCHANGED <<transport, needed, todo, server, reported, sock, results, rc, reap>>

Seen == Head(todo) \in reported

PollReady ==
    /\ stage = "poll" /\ Seen /\ polls < MaxPolls
    /\ todo' = Tail(todo) /\ Goto("start") /\ UNCHANGED polls
(* (A slip: no bound on the wait.) *)
PollForEver == stage = "poll" /\ ~Seen /\ Goto("poll") /\ UNCHANGED <<todo, polls>>
PollAgain ==
    /\ stage = "poll" /\ ~Seen /\ polls < MaxPolls
    /\ Head(todo) = "worker" => server["worker"] # "dead"
    /\ polls' = polls + 1 /\ Goto("poll") /\ UNCHANGED todo
(* The look comes first, so a worker may have reported and died since.     *)
PollDead ==
    /\ stage = "poll" /\ polls < MaxPolls
    /\ Head(todo) = "worker" /\ server["worker"] = "dead" /\ Exit(1)
(* (A slip: the missing report not noticed.)                               *)
PollGoesOn ==
    /\ stage = "poll" /\ polls = MaxPolls
    /\ todo' = Tail(todo) /\ Goto("start") /\ UNCHANGED polls
PollGivesUp == stage = "poll" /\ polls = MaxPolls /\ Exit(1)

Stage == stage = "start" /\ todo = <<>> /\ Goto("suite") /\ UNCHANGED <<todo, polls>>
StageFails == stage = "start" /\ todo = <<>> /\ Exit(1)

-----------------------------------------------------------------------------
(* The runner.  A file that needs a server that is gone cannot pass, and   *)
(* an error that mentions HTTP counts as skipped, not as failed.           *)
Up(s) == s \in needed => server[s] = "listening"
CanPass(f) == Up("worker") /\ (f \in Online => "mock" \in needed /\ Up("mock"))

RunSuite ==
    /\ stage = "suite" /\ stage' = "guard"
    /\ \E r \in [Files -> {"passed", "failed", "skipped"}] :
          /\ \A f \in Files : r[f] = "passed" => CanPass(f)
          /\ results' = r
    /\ UNCHANGED <<transport, needed, todo, server, pid, reported, sock, polls, rc, reap>>

SomeFailed == \E f \in Files : results[f] = "failed"
(* (A slip: no guard.) *)
AllSkippedIgnored == FALSE
AllSkipped == \A f \in Files : results[f] = "skipped"

SuiteFailed  == stage = "guard" /\ SomeFailed /\ Exit(1)
SuiteSkipped == stage = "guard" /\ ~SomeFailed /\ AllSkipped /\ Exit(1)
SuitePassed  == stage = "guard" /\ ~SomeFailed /\ ~AllSkipped /\ Exit(0)

(* SIGINT or SIGTERM, between any two commands once the trap is set. *)
Interrupt == stage \in {"start", "record", "poll", "suite", "guard"} /\ Exit(130)

(* The EXIT trap, one command at a time: kill the worker if its PID is     *)
(* set, wait until it is gone, the same for the mock, remove the socket,   *)
(* and keep the status.  (Slips: the last test of the trap, false without  *)
(* a socket, becomes the status; a kill without a wait; no "rm -f".)       *)
Live(s) == server[s] \in {"starting", "listening"}
StatusOfLastTest == IF transport = "unix" THEN rc ELSE 1
Status == rc

Advance ==
    /\ stage' = "trap" /\ reap' = IF reap = "worker" THEN "mock" ELSE "socket"
    /\ UNCHANGED <<transport, needed, todo, server, pid, reported, sock, polls, results, rc>>
NoPid == stage = "trap" /\ reap \in Server /\ ~pid[reap] /\ Advance
KillOnly == stage = "trap" /\ reap \in Server /\ pid[reap] /\ Advance
Kill ==
    /\ stage = "trap" /\ reap \in Server /\ pid[reap] /\ stage' = "wait"
    /\ UNCHANGED <<transport, needed, todo, server, pid, reported, sock, polls, results, rc, reap>>
Wait == stage = "wait" /\ ~Live(reap) /\ Advance

LeaveSocket ==
    /\ stage = "trap" /\ reap = "socket"
    /\ stage' = "exited" /\ reap' = "done" /\ rc' = Status
    /\ UNCHANGED <<transport, needed, todo, server, pid, reported, sock, polls, results>>
RemoveSocket ==
    /\ stage = "trap" /\ reap = "socket"
    /\ stage' = "exited" /\ reap' = "done" /\ rc' = Status /\ sock' = FALSE
    /\ UNCHANGED <<transport, needed, todo, server, pid, reported, polls, results>>

(* A signal inside the trap: bash does not run a trap that is in progress  *)
(* again, so the script ends and leaves what it has not come to.           *)
InterruptTrap ==
    /\ stage \in {"trap", "wait"} /\ stage' = "exited" /\ rc' = 130
    /\ UNCHANGED <<transport, needed, todo, server, pid, reported, sock, polls, results, reap>>

-----------------------------------------------------------------------------
(* The servers. *)
Report(s) ==
    /\ server[s] = "starting" /\ server' = [server EXCEPT ![s] = "listening"]
    /\ reported' = reported \cup {s}
    /\ sock' = (sock \/ (s = "worker" /\ transport = "unix"))
    /\ UNCHANGED <<transport, needed, todo, stage, pid, polls, results, rc, reap>>
Die(s) ==
    /\ Live(s) /\ server' = [server EXCEPT ![s] = "dead"]
    /\ UNCHANGED <<transport, needed, todo, stage, pid, reported, sock, polls, results, rc, reap>>

Script ==
    \/ Validate \/ Reject \/ BuildFails \/ Launch \/ Record
    \/ PollReady \/ PollAgain \/ PollDead \/ PollGivesUp \/ Stage \/ StageFails
    \/ RunSuite \/ SuiteFailed \/ SuiteSkipped \/ SuitePassed
    \/ NoPid \/ Kill \/ Wait \/ RemoveSocket
Done == stage = "exited" /\ UNCHANGED vars
Next == Script \/ Interrupt \/ InterruptTrap \/ (\E s \in Server : Report(s) \/ Die(s)) \/ Done

(* The script runs, and the runner ends.  Of the servers only this is      *)
(* assumed: one the trap has killed and waits for goes, as the worker does *)
(* by the default action of SIGTERM and the mock by StopsOnSignal.         *)
Perish == stage = "wait" /\ Die(reap)
Spec == Init /\ [][Next]_vars /\ WF_vars(Script) /\ WF_vars(Perish)

-----------------------------------------------------------------------------
TypeOK ==
    /\ transport \in Transports /\ needed \subseteq Server /\ todo \in Seq(Server)
    /\ stage \in {"validate", "start", "record", "poll", "suite", "guard", "trap", "wait", "exited"}
    /\ server \in [Server -> {"none", "starting", "listening", "dead"}]
    /\ pid \in [Server -> BOOLEAN] /\ reported \subseteq Server /\ sock \in BOOLEAN
    /\ polls \in 0 .. MaxPolls
    /\ results \in [Files -> {"none", "passed", "failed", "skipped"}]
    /\ rc \in {0, 1, 2, 130}
    /\ reap \in Server \cup {"none", "socket", "done"}

(* Servers still to be reported, of those a list names.                    *)
Waiting(list) == {list[i] : i \in DOMAIN list}

(* What the trap has not come to yet, or never will when it was cut short. *)
ToReap == IF reap = "worker" THEN Server ELSE IF reap = "mock" THEN {"mock"} ELSE {}
(* The server a signal hit between its "&" and the "PID=$!" after it.      *)
Unrecorded(s) == ~pid[s] /\ rc = 130 /\ todo # <<>> /\ s = Head(todo)

(* The inductive invariant: a server of this run has reported or is in      *)
(* todo; a live process is recorded, except between "&" and "PID=$!" or     *)
(* when a signal fell there; what the trap has passed is gone; results are *)
(* those of a suite that ran, and a status is the verdict on them.         *)
RunInv ==
    /\ TypeOK
    /\ todo \in {<<>>, <<"mock">>, <<"worker">>, <<"mock", "worker">>}
    /\ needed \subseteq reported \cup Waiting(todo)
    /\ stage = "validate" \/ (stage = "exited" /\ reap = "none") =>
           ~sock /\ \A s \in Server : ~pid[s] /\ server[s] = "none"
    /\ stage \in {"validate", "start", "record", "poll", "suite"} =>
           \A f \in Files : results[f] = "none"
    /\ stage \in {"record", "poll"} => todo # <<>>
    /\ stage \in {"suite", "guard"} => todo = <<>>
    /\ stage = "guard" => \A f \in Files : results[f] # "none"
    /\ (\E f \in Files : results[f] # "none") => todo = <<>>
    /\ \A s \in Server : Live(s) /\ ~pid[s] =>
           /\ todo # <<>> /\ s = Head(todo)
           /\ stage = "record" \/ (stage \in {"trap", "wait", "exited"} /\ rc = 130)
    /\ stage \notin {"trap", "wait", "exited"} => reap = "none"
    /\ stage = "trap" => reap \in Server \cup {"socket"}
    /\ stage = "wait" => reap \in Server /\ pid[reap]
    /\ stage = "exited" => (reap \in {"none", "done"} \/ rc = 130)
    /\ stage \in {"trap", "wait", "exited"} =>
           /\ \A s \in Server \ ToReap : pid[s] => ~Live(s)
           /\ sock /\ reap = "done" => Unrecorded("worker")
           /\ rc = 0 => (\E f \in Files : results[f] = "passed") /\ ~SomeFailed
           /\ (\A f \in Files : results[f] = "passed") => rc \in {0, 130}

(* A run leaves neither a process nor a socket behind, however it ended    *)
(* ("All started processes are trap-killed on exit", run-integration.sh:25,*)
(* and the trap's "rm -f"), with two exceptions, both a signal's: one that *)
(* fell before the PID of the server just started was kept, which leaves   *)
(* that server and a socket it makes later, and one inside the trap, which *)
(* leaves what the trap had not come to and the socket.                    *)
NothingLeftBehind ==
    stage = "exited" =>
        /\ \A s \in Server : Live(s) => Unrecorded(s) \/ (rc = 130 /\ s \in ToReap)
        /\ sock => Unrecorded("worker") \/ (rc = 130 /\ reap \in Server \cup {"socket"})

(* The suite runs only after every server it needs has reported. *)
SuiteWaits ==
    (\E f \in Files : results[f] # "none") => needed \subseteq reported

(* A run is green exactly when the runner ended, no file failed and at     *)
(* least one passed: neither a suite that was skipped because a server was *)
(* gone nor the trap's own commands decide (run-integration.sh:72-75 and   *)
(* 244-249).                                                               *)
GreenMeansRun ==
    stage = "exited" =>
        /\ rc = 0 => /\ \E f \in Files : results[f] = "passed"
                     /\ \A f \in Files : results[f] # "failed"
        /\ (\A f \in Files : results[f] = "passed") => rc \in {0, 130}

(* Every run ends, also when a server hangs or never starts. *)
Ends == <>(stage = "exited")
====
