------------------------ MODULE IntegrationRunProofs ------------------------
(* Theorems about IntegrationRun, for any files, transports and number of  *)
(* looks, and servers that report, hang and die at any moment.             *)
EXTENDS IntegrationRun, TLAPS

Lists == {<<>>, <<"mock">>, <<"worker">>, <<"mock", "worker">>}

(* The servers still to start, in order: the first and the others.         *)
LEMMA WaitingFacts ==
    ASSUME NEW t \in Lists, t # <<>>
    PROVE  /\ Head(t) \in Server /\ Tail(t) \in Lists
           /\ Waiting(t) = {Head(t)} \cup Waiting(Tail(t))
<1>1. CASE t = <<"mock">>
  <2>1. Head(t) = "mock" /\ Tail(t) = <<>>
    BY <1>1
  <2>2. Waiting(t) = {"mock"} /\ Waiting(<<>>) = {}
    BY <1>1 DEF Waiting
  <2> QED
    BY <2>1, <2>2 DEF Lists, Server
<1>2. CASE t = <<"worker">>
  <2>1. Head(t) = "worker" /\ Tail(t) = <<>>
    BY <1>2
  <2>2. Waiting(t) = {"worker"} /\ Waiting(<<>>) = {}
    BY <1>2 DEF Waiting
  <2> QED
    BY <2>1, <2>2 DEF Lists, Server
<1>3. CASE t = <<"mock", "worker">>
  <2>1. Head(t) = "mock" /\ Tail(t) = <<"worker">>
    BY <1>3
  <2>2. Waiting(t) = {"mock", "worker"} /\ Waiting(<<"worker">>) = {"worker"}
    BY <1>3 DEF Waiting
  <2> QED
    BY <2>1, <2>2 DEF Lists, Server
<1> QED
  BY <1>1, <1>2, <1>3 DEF Lists

LEMMA InOrderFacts ==
    ASSUME NEW S \in SUBSET Server
    PROVE  InOrder(S) \in Lists /\ Waiting(InOrder(S)) = S
<1>1. CASE S = {}
  <2>1. InOrder(S) = <<>>
    BY <1>1 DEF InOrder, Server
  <2> QED
    BY <1>1, <2>1 DEF Lists, Waiting
<1>2. CASE S = {"mock"}
  <2>1. InOrder(S) = <<"mock">>
    BY <1>2 DEF InOrder, Server
  <2> QED
    BY <1>2, <2>1 DEF Lists, Waiting
<1>3. CASE S = {"worker"}
  <2>1. InOrder(S) = <<"worker">>
    BY <1>3 DEF InOrder, Server
  <2> QED
    BY <1>3, <2>1 DEF Lists, Waiting
<1>4. CASE S = {"mock", "worker"}
  <2>1. InOrder(S) = <<"mock", "worker">>
    BY <1>4 DEF InOrder, Server
  <2> QED
    BY <1>4, <2>1 DEF Lists, Waiting
<1> QED
  BY <1>1, <1>2, <1>3, <1>4 DEF Server

LEMMA InitRun == Init => RunInv
<1> SUFFICES ASSUME Init PROVE RunInv
  OBVIOUS
<1>1. needed \subseteq Server
  BY DEF Init, MayStart, Server
<1>2. todo \in Lists /\ Waiting(todo) = needed
  BY <1>1, InOrderFacts DEF Init
<1>3. TypeOK
  <2>1. todo \in Seq(Server)
    <3>1. /\ <<>> \in Seq(Server) /\ <<"mock">> \in Seq(Server)
          /\ <<"worker">> \in Seq(Server) /\ <<"mock", "worker">> \in Seq(Server)
      BY DEF Server
    <3> QED
      BY <1>2, <3>1 DEF Lists
  <2>2. polls \in 0 .. MaxPolls
    BY RunAssumption DEF Init
  <2>3. /\ server \in [Server -> {"none", "starting", "listening", "dead"}]
        /\ pid \in [Server -> BOOLEAN]
        /\ results \in [Files -> {"none", "passed", "failed", "skipped"}]
    BY DEF Init
  <2> QED
    BY <1>1, <2>1, <2>2, <2>3 DEF Init, TypeOK
<1>4. \A s \in Server : server[s] = "none" /\ ~pid[s]
  BY DEF Init
<1>5. stage = "validate" /\ ~sock /\ \A f \in Files : results[f] = "none"
  BY DEF Init
<1>6. reap = "none"
  BY DEF Init
<1> QED
  BY <1>2, <1>3, <1>4, <1>5, <1>6, RunAssumption DEF RunInv, Lists, Live

(* Leaving with a failure, before a suite has results or after it failed.  *)
LEMMA ExitRun ==
    ASSUME RunInv, NEW status \in {0, 1, 130}, Exit(status),
           stage \in {"start", "record", "poll", "suite", "guard"},
           stage = "record" => status = 130,
           status = 0 => (\E f \in Files : results[f] = "passed") /\ ~SomeFailed,
           (\A f \in Files : results[f] = "passed") => status \in {0, 130}
    PROVE  RunInv'
<1>1. TypeOK'
  BY DEF RunInv, TypeOK, Exit, Server
<1>2. ToReap' = Server /\ reap' = "worker" /\ stage' = "trap"
  BY DEF Exit, ToReap
<1> QED
  BY <1>1, <1>2 DEF RunInv, Exit, Live, Waiting, SomeFailed, Server

LEMMA NextRun == RunInv /\ [Next]_vars => RunInv'
<1> SUFFICES ASSUME RunInv, [Next]_vars PROVE RunInv'
  OBVIOUS
<1>0. /\ TypeOK /\ todo \in Lists
      /\ todo # <<>> => /\ Head(todo) \in Server /\ Tail(todo) \in Lists
                        /\ Waiting(todo) = {Head(todo)} \cup Waiting(Tail(todo))
  BY WaitingFacts DEF RunInv, Lists
<1>a. Lists \subseteq Seq(Server)
  BY DEF Lists, Server
<1>b. stage \in {"start", "record", "poll", "suite"} => ~(\A f \in Files : results[f] = "passed")
  BY RunAssumption DEF RunInv
<1>1. CASE Validate
  BY <1>0, <1>1 DEF Validate, Goto, RunInv, TypeOK, Live, Waiting
<1>2. CASE Reject
  <2>1. TypeOK'
    BY <1>2 DEF Reject, RunInv, TypeOK
  <2>2. \A f \in Files : results'[f] = "none"
    BY <1>2 DEF Reject, RunInv
  <2>3. reap' \in {"none", "done"} \/ rc' = 130
    BY <1>2 DEF Reject, RunInv
  <2> QED
    BY <1>2, <2>1, <2>2, <2>3, RunAssumption DEF Reject, RunInv, Live, Waiting, SomeFailed
<1>3. CASE BuildFails
  BY <1>3, <1>b, ExitRun DEF BuildFails
<1>4. CASE Launch
  <2>1. TypeOK'
    BY <1>0, <1>4 DEF Launch, TypeOK
  <2>2. \A s \in Server : s # Head(todo) => server'[s] = server[s]
    BY <1>0, <1>4 DEF Launch, TypeOK
  <2>3. \A s \in Server : Live(s) => pid[s]
    BY <1>4 DEF Launch, RunInv
  <2>4. \A s \in Server : Live(s)' /\ ~pid'[s] => s = Head(todo)
    BY <1>4, <2>2, <2>3 DEF Launch, Live
  <2> QED
    BY <1>4, <2>1, <2>4 DEF Launch, RunInv, Waiting
<1>5. CASE Record
  <2>0. /\ polls' \in 0 .. MaxPolls /\ pid' \in [Server -> BOOLEAN]
        /\ Head(todo) \in Server /\ todo # <<>>
    BY <1>0, <1>5, RunAssumption DEF Record, TypeOK, RunInv
  <2>1. TypeOK'
    BY <1>0, <1>5, <2>0 DEF Record, TypeOK
  <2>2. \A s \in Server : Live(s)' => pid'[s]
    BY <1>0, <1>5 DEF Record, RunInv, TypeOK, Live
  <2> QED
    BY <1>5, <2>1, <2>2 DEF Record, RunInv, Waiting
<1>6. CASE PollReady
  <2>0. todo # <<>> /\ todo' \in Lists /\ todo' \in Seq(Server)
    BY <1>0, <1>6, <1>a DEF PollReady, RunInv
  <2>1. TypeOK'
    BY <1>0, <1>6, <2>0 DEF PollReady, Goto, TypeOK
  <2>2. needed' \subseteq reported' \cup Waiting(todo')
    BY <1>0, <1>6, <2>0 DEF PollReady, Goto, Seen, RunInv
  <2>3. \A s \in Server : Live(s)' => pid'[s]
    BY <1>6 DEF PollReady, Goto, RunInv, Live
  <2>4. stage' = "start" /\ reap' = "none" /\ \A f \in Files : results'[f] = "none"
    BY <1>6 DEF PollReady, Goto, RunInv
  <2> QED
    BY <2>0, <2>1, <2>2, <2>3, <2>4 DEF RunInv, Lists
<1>7. CASE PollAgain
  <2>1. TypeOK'
    BY <1>7, <1>0, RunAssumption DEF PollAgain, Goto, TypeOK
  <2> QED
    BY <1>7, <2>1 DEF PollAgain, Goto, RunInv, Live, Waiting
<1>8. CASE PollDead
  BY <1>8, <1>b, ExitRun DEF PollDead
<1>9. CASE PollGivesUp
  BY <1>9, <1>b, ExitRun DEF PollGivesUp
<1>10. CASE Stage
  BY <1>0, <1>10 DEF Stage, Goto, RunInv, TypeOK, Live, Waiting
<1>11. CASE StageFails
  BY <1>11, <1>b, ExitRun DEF StageFails
<1>12. CASE RunSuite
  <2>1. TypeOK' /\ \A f \in Files : results'[f] # "none"
    BY <1>12 DEF RunSuite, RunInv, TypeOK
  <2> QED
    BY <1>12, <2>1 DEF RunSuite, RunInv, Live, Waiting
<1>13. CASE SuiteFailed
  <2>1. ~(\A f \in Files : results[f] = "passed")
    BY <1>13 DEF SuiteFailed, SomeFailed
  <2> QED
    BY <1>13, <2>1, ExitRun DEF SuiteFailed
<1>14. CASE SuiteSkipped
  <2>1. ~(\A f \in Files : results[f] = "passed")
    BY <1>14, RunAssumption DEF SuiteSkipped, AllSkipped
  <2> QED
    BY <1>14, <2>1, ExitRun DEF SuiteSkipped
<1>15. CASE SuitePassed
  <2>1. \A f \in Files : results[f] \in {"passed", "skipped"}
    BY <1>0, <1>15 DEF SuitePassed, SomeFailed, RunInv, TypeOK
  <2>2. \E f \in Files : results[f] = "passed"
    BY <1>15, <2>1 DEF SuitePassed, AllSkipped
  <2> QED
    BY <1>15, <2>2, ExitRun DEF SuitePassed
<1>16. CASE NoPid \/ Wait
  <2>1. /\ reap \in Server /\ (pid[reap] => ~Live(reap)) /\ Advance
        /\ stage \in {"trap", "wait"}
    BY <1>16 DEF NoPid, Wait, RunInv
  <2>2. TypeOK'
    BY <1>0, <2>1 DEF Advance, TypeOK, Server
  <2>3. stage' = "trap" /\ reap' \in Server \cup {"socket"} /\ reap' # "done"
    BY <2>1 DEF Advance, Server
  <2>4. \A s \in Server \ ToReap' : s = reap \/ s \in Server \ ToReap
    BY <2>1 DEF Advance, ToReap, Server
  <2>5. \A s \in Server \ ToReap' : pid'[s] => ~Live(s)'
    BY <2>1, <2>4 DEF Advance, Live, RunInv
  <2> QED
    BY <2>1, <2>2, <2>3, <2>5 DEF Advance, RunInv, Live, Waiting, SomeFailed
<1>16a. CASE Kill
  <2>1. TypeOK' /\ stage' = "wait" /\ reap' = reap /\ reap \in Server /\ pid[reap]
    BY <1>0, <1>16a DEF Kill, TypeOK
  <2> QED
    BY <1>16a, <2>1 DEF Kill, RunInv, Live, Waiting, SomeFailed, ToReap, Unrecorded
<1>16b. CASE RemoveSocket
  <2>1. TypeOK'
    BY <1>0, <1>16b DEF RemoveSocket, Status, TypeOK
  <2>2. ToReap = {} /\ ToReap' = {}
    BY <1>16b DEF RemoveSocket, ToReap
  <2> QED
    BY <1>16b, <2>1, <2>2 DEF RemoveSocket, Status, RunInv, Live, Waiting, SomeFailed
<1>16c. CASE InterruptTrap
  <2>1. TypeOK' /\ reap' = reap /\ reap # "done" /\ reap # "none"
    BY <1>0, <1>16c DEF InterruptTrap, RunInv, TypeOK, Server
  <2> QED
    BY <1>16c, <2>1 DEF InterruptTrap, RunInv, Live, Waiting, SomeFailed, ToReap
<1>17. CASE Interrupt
  BY <1>17, <1>0, ExitRun DEF Interrupt
<1>18. ASSUME NEW s \in Server, Report(s) PROVE RunInv'
  <2>1. TypeOK' /\ \A u \in Server : Live(u)' <=> Live(u)
    BY <1>0, <1>18 DEF Report, TypeOK, Live
  <2>2. server[s] = "starting" /\ reported' = reported \cup {s} /\ Live(s)
    BY <1>18 DEF Report, Live
  <2>3. ToReap' = ToReap /\ (Unrecorded("worker") <=> Unrecorded("worker")')
    BY <1>18 DEF Report, ToReap, Unrecorded
  <2>4. ASSUME sock', reap' = "done", stage' \in {"trap", "wait", "exited"}
        PROVE  Unrecorded("worker")'
    <3>1. CASE sock
      BY <1>18, <2>3, <2>4, <3>1 DEF Report, RunInv
    <3>2. CASE ~sock
      <4>1. s = "worker" /\ ToReap = {} /\ stage \in {"trap", "wait", "exited"} /\ reap = "done"
        BY <1>18, <2>4, <3>2 DEF Report, ToReap
      <4>2. ~pid[s]
        BY <2>2, <4>1 DEF RunInv
      <4>3. Unrecorded(s)
        BY <2>2, <4>1, <4>2 DEF RunInv, Unrecorded
      <4> QED
        BY <2>3, <4>1, <4>3
    <3> QED
      BY <3>1, <3>2
  <2>5. stage' = "validate" \/ (stage' = "exited" /\ reap' = "none") => FALSE
    BY <1>18, <2>2 DEF Report, RunInv
  <2>6. \A u \in Server \ ToReap' : stage' \in {"trap", "wait", "exited"} /\ pid'[u] => ~Live(u)'
    BY <1>18, <2>1, <2>3 DEF Report, RunInv
  <2> QED
    BY <1>18, <2>1, <2>2, <2>4, <2>5, <2>6 DEF Report, RunInv, Waiting, SomeFailed
<1>19. ASSUME NEW s \in Server, Die(s) PROVE RunInv'
  <2>1. TypeOK' /\ \A u \in Server : Live(u)' => Live(u)
    BY <1>0, <1>19 DEF Die, TypeOK, Live
  <2>2. ~(stage = "validate" \/ (stage = "exited" /\ reap = "none"))
    BY <1>19 DEF Die, RunInv, Live
  <2>3. ToReap' = ToReap /\ (Unrecorded("worker") <=> Unrecorded("worker")')
    BY <1>19 DEF Die, ToReap, Unrecorded
  <2> QED
    BY <1>19, <2>1, <2>2, <2>3 DEF Die, RunInv, Waiting, SomeFailed
<1>20. CASE UNCHANGED vars
  BY <1>20 DEF vars, RunInv, TypeOK, Live, Waiting, SomeFailed, ToReap, Unrecorded
<1> QED
  BY <1>1, <1>2, <1>3, <1>4, <1>5, <1>6, <1>7, <1>8, <1>9, <1>10, <1>11, <1>12, <1>13,
     <1>14, <1>15, <1>16, <1>16a, <1>16b, <1>16c, <1>17, <1>18, <1>19, <1>20 DEF Next, Script, Done

(* What is known of the script, its servers and its verdict at any moment  *)
(* of a run.                                                               *)
THEOREM RunInvariant == Spec => []RunInv
<1> QED
  BY InitRun, NextRun, PTL DEF Spec

(* However a run ends, a server still alive or a socket still there is     *)
(* owed to a signal: one before the PID of that server was kept, or one    *)
(* inside the trap before it came to that server or to the socket.         *)
THEOREM RunsLeaveNothing == Spec => []NothingLeftBehind
<1>1. RunInv => NothingLeftBehind
  <2> SUFFICES ASSUME RunInv, stage = "exited"
               PROVE  /\ \A s \in Server : Live(s) => Unrecorded(s) \/ (rc = 130 /\ s \in ToReap)
                      /\ sock => Unrecorded("worker") \/ (rc = 130 /\ reap \in Server \cup {"socket"})
    BY DEF NothingLeftBehind
  <2>1. \A s \in ToReap : rc = 130
    BY DEF RunInv, ToReap
  <2>2. \A s \in Server : Live(s) /\ ~pid[s] => Unrecorded(s)
    BY DEF RunInv, Unrecorded
  <2>3. sock => reap # "none"
    BY DEF RunInv
  <2>4. reap \in Server \cup {"none", "socket", "done"}
    BY DEF RunInv, TypeOK
  <2> QED
    BY <2>1, <2>2, <2>3, <2>4 DEF RunInv, Server
<1> QED
  BY <1>1, RunInvariant, PTL

(* No file is run before all servers have reported, in whatever order they *)
(* start, hang and die.                                                    *)
THEOREM SuiteWaitsForServers == Spec => []SuiteWaits
<1>1. RunInv => SuiteWaits
  BY DEF RunInv, SuiteWaits, Waiting
<1> QED
  BY <1>1, RunInvariant, PTL

(* The exit status is the verdict of a suite that ran: neither an early    *)
(* exit, a skipped suite nor the trap can turn a run green, and only a     *)
(* signal can turn a passed suite red.                                     *)
THEOREM GreenIsEarned == Spec => []GreenMeansRun
<1>1. RunInv => GreenMeansRun
  BY DEF RunInv, GreenMeansRun, SomeFailed
<1> QED
  BY <1>1, RunInvariant, PTL
====
