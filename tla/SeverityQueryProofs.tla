------------------------ MODULE SeverityQueryProofs ------------------------
(* Theorems about SeverityQuery: the scan of the bands keeps its promise   *)
(* for any number of faults; what it delivers agrees with Severity and     *)
(* with the rows, for any doubles and records; every batch of vectors is   *)
(* scored row by row, whatever tokens they are made of; and the scores are *)
(* those of the equations, which never fall when a metric gets worse.      *)
EXTENDS SeverityQuery, SequenceLemmas, FiniteSetTheorems

-----------------------------------------------------------------------------
(* The scan of the bands. *)

LEMMA BandsFacts ==
    /\ Bands!SeverityBands = SeverityBands
    /\ Len(SeverityBands) = 5 /\ <<>> # SeverityBands
    /\ <<>> \o SeverityBands = SeverityBands
    /\ SeverityBands \o <<>> = SeverityBands /\ <<>> \o <<>> = <<>>
<1> DEFINE B == [severity : {"NONE", "LOW", "MEDIUM", "HIGH", "CRITICAL"}, min : Int, max : Int]
<1>0. Bands!SeverityBands = SeverityBands
  BY DEF SeverityBands, Band, Bands!SeverityBands, Bands!Band
<1>1. SeverityBands \in Seq(B) /\ Len(SeverityBands) = 5
  <2>1. /\ Band("NONE", 0, 0) \in B /\ Band("LOW", 1, 39) \in B /\ Band("MEDIUM", 40, 69) \in B
        /\ Band("HIGH", 70, 89) \in B /\ Band("CRITICAL", 90, 100) \in B
    BY DEF Band
  <2> HIDE DEF B
  <2> QED
    BY <2>1 DEF SeverityBands
<1> HIDE DEF B
<1>2. <<>> \in Seq(B) /\ Len(<<>>) = 0
  OBVIOUS
<1>3. SeverityBands # <<>>
  BY <1>1, <1>2
<1> QED
  BY <1>0, <1>1, <1>2, <1>3, EmptySeq, ConcatFacts, SeqEqual

(* A tick from an offset that is the number of bands delivered emits the   *)
(* rest of them, and says that it is done only when none is left.          *)
LEMMA TickFacts ==
    /\ Bands!BandsDone(0) = FALSE /\ Bands!BandsBatch(0) = SeverityBands
    /\ Bands!BandsOffset(0) = 5
    /\ Bands!BandsDone(5) = TRUE /\ Bands!BandsBatch(5) = <<>> /\ Bands!BandsOffset(5) = 5
    /\ Bands!Exchange(0) # Bands!NoResponse /\ Bands!Exchange(5) # Bands!NoResponse
<1>1. /\ Bands!BandsDone(0) = FALSE /\ Bands!BandsDone(5) = TRUE
  BY BandsFacts DEF Bands!BandsDone
<1> QED
  BY <1>1, BandsFacts
  DEF Bands!BandsBatch, Bands!BandsOffset, Bands!Exchange, Bands!NoResponse

LEMMA OffsetFacts ==
    ASSUME Bands!BandsInv
    PROVE  /\ offset \in {-1, 0, 5} /\ (offset = 0 <=> offset # -1 /\ delivered = <<>>)
           /\ offset = 5 <=> delivered = SeverityBands
<1> USE BandsFacts DEF Bands!NoState
<1>1. offset = -1 \/ offset = Len(delivered)
  BY DEF Bands!BandsInv
<1>2. delivered \in {<<>>, SeverityBands} /\ Len(<<>>) = 0
  BY DEF Bands!BandsInv, Bands!TypeOK
<1>3. offset = -1 => delivered = <<>>
  BY DEF Bands!BandsInv
<1>4. CASE delivered = <<>>
  BY <1>1, <1>2, <1>4
<1>5. CASE delivered = SeverityBands
  <2>1. delivered # <<>> /\ Len(delivered) = 5
    BY <1>5
  <2>2. offset = 5
    BY <1>1, <1>3, <2>1
  <2> QED
    BY <1>5, <2>1, <2>2
<1> QED
  BY <1>2, <1>4, <1>5

LEMMA InitBands == Bands!Init => Bands!BandsInv
<1>1. Transports \subseteq {"live", "http"} /\ MaxFaults \in Nat
  BY QueryAssumption
<1> QED
  BY <1>1 DEF Bands!Init, Bands!BandsInv, Bands!TypeOK, Bands!NoState

LEMMA NextBands == Bands!BandsInv /\ [Bands!Next]_scanVars => Bands!BandsInv'
<1> SUFFICES ASSUME Bands!BandsInv, [Bands!Next]_scanVars PROVE Bands!BandsInv'
  OBVIOUS
<1> USE BandsFacts, TickFacts DEF Bands!NoState
<1>0. /\ Bands!TypeOK
      /\ offset \in {-1, 0, 5} /\ (offset = 0 <=> offset # -1 /\ delivered = <<>>)
      /\ offset = 5 <=> delivered = SeverityBands
  BY OffsetFacts DEF Bands!BandsInv
<1>1. CASE Bands!NewState
  BY <1>0, <1>1 DEF Bands!NewState, Bands!BandsInv, Bands!TypeOK
<1>2. CASE Bands!ProcessLive
  <2>1. /\ scan = "streaming" /\ offset \in {0, 5} /\ offset' = 5 /\ delivered' = SeverityBands
        /\ scan' = IF offset = 5 THEN "finished" ELSE "streaming"
        /\ UNCHANGED <<transport, worker, holder, response, faults>> /\ response = Bands!NoResponse
    BY <1>0, <1>2 DEF Bands!ProcessLive, Bands!BandsInv
  <2> QED
    BY <1>0, <2>1 DEF Bands!BandsInv, Bands!TypeOK
<1>3. CASE Bands!ProcessHTTP
  BY <1>0, <1>3 DEF Bands!ProcessHTTP, Bands!BandsInv, Bands!TypeOK
<1>4. CASE Bands!Receive
  <2>1. response = Bands!Exchange(offset) /\ offset \in {0, 5} /\ transport = "http"
    BY <1>0, <1>4 DEF Bands!Receive, Bands!BandsInv, Bands!TypeOK
  <2>2. /\ response.batch = Bands!BandsBatch(offset) /\ response.done = Bands!BandsDone(offset)
        /\ response.token = Bands!BandsOffset(offset)
    BY <2>1 DEF Bands!Exchange
  <2>3. /\ scan = "streaming" /\ offset' = 5 /\ delivered' = SeverityBands /\ holder' = "client"
        /\ scan' = IF offset = 5 THEN "finished" ELSE "streaming"
        /\ UNCHANGED <<transport, worker, faults>> /\ response' = Bands!NoResponse
    BY <1>0, <1>4, <2>1, <2>2 DEF Bands!Receive
  <2> QED
    BY <1>0, <2>3 DEF Bands!BandsInv, Bands!TypeOK
<1>5. CASE Bands!Lose
  BY <1>0, <1>5 DEF Bands!Lose, Bands!ScanWithoutWorker, Bands!BandsInv, Bands!TypeOK
<1>6. CASE Bands!Crash
  BY <1>0, <1>6 DEF Bands!Crash, Bands!ScanWithoutWorker, Bands!BandsInv, Bands!TypeOK
<1>7. CASE Bands!Restart
  BY <1>0, <1>7 DEF Bands!Restart, Bands!BandsInv, Bands!TypeOK
<1>8. CASE Bands!GiveUp
  BY <1>0, <1>8 DEF Bands!GiveUp, Bands!BandsInv, Bands!TypeOK
<1>9. CASE UNCHANGED scanVars
  BY <1>9 DEF scanVars, Bands!BandsInv, Bands!TypeOK
<1> QED
  BY <1>1, <1>2, <1>3, <1>4, <1>5, <1>6, <1>7, <1>8, <1>9
  DEF Bands!Next, Bands!Tick, Bands!Fault, Bands!Done, Bands!bandsVars, scanVars

(* A statement's step is a step of the scan, or leaves it alone. *)
LEMMA QueryScans == [QueryNext]_queryVars => [Bands!Next]_scanVars
BY DEF QueryNext, ReadBands, Recover, RateGiven, FetchRows, RateRows, QueryDone, queryVars,
       Bands!Next, Bands!Fault

(* The scan's offset, token and answer in flight agree with the bands      *)
(* delivered, whatever is lost, crashes or is repeated.                    *)
THEOREM BandsInvariant == QuerySpec => []Bands!BandsInv
<1>1. QueryInit => Bands!BandsInv
  BY InitBands DEF QueryInit
<1>2. Bands!BandsInv /\ [QueryNext]_queryVars => Bands!BandsInv'
  BY QueryScans, NextBands
<1> QED
  BY <1>1, <1>2, PTL DEF QuerySpec

LEMMA AllBands ==
    /\ SeverityBands \in Seq(Bands!ToSet(SeverityBands))
    /\ SubSeq(SeverityBands, 1, 5) = SeverityBands
<1>1. SeverityBands \in Seq(Bands!ToSet(SeverityBands)) /\ Len(SeverityBands) = 5
  <2> DEFINE T == Bands!ToSet(SeverityBands)
  <2>1. /\ Band("NONE", 0, 0) \in T /\ Band("LOW", 1, 39) \in T /\ Band("MEDIUM", 40, 69) \in T
        /\ Band("HIGH", 70, 89) \in T /\ Band("CRITICAL", 90, 100) \in T
    BY DEF Bands!ToSet, SeverityBands
  <2> HIDE DEF T
  <2>2. SeverityBands \in Seq(T)
    BY <2>1 DEF SeverityBands
  <2> QED
    BY <2>2, BandsFacts DEF T
<1> QED
  BY <1>1, SubSeqFull

(* The bands keep the promise of a lookup: answered once, delivered whole  *)
(* and once, finished only then.                                           *)
LEMMA NextBandsPromise ==
    ASSUME Bands!BandsInv, Bands!BandsInv', [Bands!Next]_scanVars
    PROVE  [Bands!Promise!Next]_(Bands!Promise!vars)
<1> USE BandsFacts, TickFacts DEF Bands!NoState
<1> DEFINE answer == IF offset = Bands!NoState THEN <<>> ELSE Bands!SeverityBands
<1>a. offset' # -1 => answer' = SeverityBands
  BY DEF SeverityBands, Band, Bands!SeverityBands, Bands!Band
<1>0. /\ offset \in {-1, 0, 5} /\ (offset = 0 <=> offset # -1 /\ delivered = <<>>)
      /\ offset = 5 <=> delivered = SeverityBands
      /\ scan = "newState" => offset = -1
      /\ scan \in {"streaming", "finished"} => offset # -1
      /\ offset = -1 => delivered = <<>>
  BY OffsetFacts DEF Bands!BandsInv
<1>1. CASE Bands!NewState
  <2>1. /\ scan = "newState" /\ scan' = "streaming" /\ offset = -1 /\ offset' = 0
        /\ delivered' = delivered
    BY <1>0, <1>1 DEF Bands!NewState
  <2>2. answer' = SeverityBands
    BY <1>a, <2>1
  <2> DEFINE all == Bands!SeverityBands
  <2>a. all = SeverityBands
    OBVIOUS
  <2> HIDE DEF answer, all
  <2>b. all \in Seq(Bands!ToSet(all)) /\ Len(all) <= Len(all)
    BY <2>a, AllBands
  <2>3. answer' \in Seq(Bands!ToSet(all)) /\ Len(answer') <= Len(all)
    BY <2>2, <2>a, <2>b
  <2>4. Bands!Promise!Respond
    BY <2>1, <2>3 DEF Bands!Promise!Respond, answer, all
  <2> QED
    BY <2>4 DEF Bands!Promise!Next
<1>2. ASSUME scan = "streaming", offset = 0, offset' = 5, scan' = "streaming",
             delivered' = SeverityBands
      PROVE  Bands!Promise!Deliver
  <2>1. /\ delivered = <<>> /\ Len(delivered) = 0
        /\ answer = SeverityBands /\ answer' = SeverityBands
    BY <1>0, <1>2, <1>a
  <2>2. 5 \in 1 .. Len(SeverityBands) /\ Len(delivered) + 5 = 5
    BY <2>1
  <2>3. Len(delivered) + 5 <= Len(answer)
    BY <2>1, <2>2
  <2>4. delivered' = SubSeq(answer, 1, Len(delivered) + 5)
    BY <1>2, <2>1, <2>2, AllBands
  <2> QED
    BY <1>2, <2>1, <2>2, <2>3, <2>4 DEF Bands!Promise!Deliver
<1>3. ASSUME scan = "streaming", offset = 5, offset' = 5, scan' = "finished",
             delivered' = delivered
      PROVE  Bands!Promise!Finish
  BY <1>0, <1>3 DEF Bands!Promise!Finish
<1>4. CASE Bands!ProcessLive
  <2>1. /\ scan = "streaming" /\ offset \in {0, 5} /\ offset' = 5 /\ delivered' = SeverityBands
        /\ scan' = IF offset = 5 THEN "finished" ELSE "streaming"
    BY <1>0, <1>4 DEF Bands!ProcessLive
  <2> QED
    BY <1>0, <1>2, <1>3, <2>1 DEF Bands!Promise!Next
<1>5. CASE Bands!ProcessHTTP
  BY <1>5 DEF Bands!ProcessHTTP, Bands!Promise!vars
<1>6. CASE Bands!Receive
  <2>1. response = Bands!Exchange(offset) /\ offset \in {0, 5} /\ scan = "streaming"
    BY <1>0, <1>6 DEF Bands!Receive, Bands!BandsInv
  <2>2. /\ response.batch = Bands!BandsBatch(offset) /\ response.done = Bands!BandsDone(offset)
        /\ response.token = Bands!BandsOffset(offset)
    BY <2>1 DEF Bands!Exchange
  <2>3. /\ offset' = 5 /\ delivered' = SeverityBands
        /\ scan' = IF offset = 5 THEN "finished" ELSE "streaming"
    BY <1>0, <1>6, <2>1, <2>2 DEF Bands!Receive
  <2> QED
    BY <1>0, <1>2, <1>3, <2>1, <2>3 DEF Bands!Promise!Next
<1>7. CASE Bands!Lose
  BY <1>7 DEF Bands!Lose, Bands!ScanWithoutWorker, Bands!Promise!Next, Bands!Promise!Abort,
              Bands!Promise!vars
<1>8. CASE Bands!Crash
  BY <1>8 DEF Bands!Crash, Bands!ScanWithoutWorker, Bands!Promise!Next, Bands!Promise!Abort,
              Bands!Promise!vars
<1>9. CASE Bands!Restart
  BY <1>9 DEF Bands!Restart, Bands!Promise!vars
<1>10. CASE Bands!GiveUp
  BY <1>10 DEF Bands!GiveUp, Bands!Promise!Next, Bands!Promise!Abort
<1>11. CASE UNCHANGED scanVars
  BY <1>11 DEF scanVars, Bands!Promise!vars
<1> QED
  BY <1>1, <1>4, <1>5, <1>6, <1>7, <1>8, <1>9, <1>10, <1>11
  DEF Bands!Next, Bands!Tick, Bands!Fault, Bands!Done, Bands!bandsVars, scanVars

THEOREM BandsKeepPromise == QuerySpec => KeepsPromise
<1>1. QueryInit => Bands!Promise!Init
  BY DEF QueryInit, Bands!Init, Bands!Promise!Init, Bands!NoState
<1>2. Bands!BandsInv /\ Bands!BandsInv' /\ [QueryNext]_queryVars
        => [Bands!Promise!Next]_(Bands!Promise!vars)
  BY QueryScans, NextBandsPromise
<1> QED
  BY <1>1, <1>2, BandsInvariant, PTL
  DEF QuerySpec, KeepsPromise, Bands!KeepsPromise, Bands!Promise!Spec

-----------------------------------------------------------------------------
(* Scores. *)

LEMMA Fixed ==
    ASSUME NEW x \in Int, NEW y \in Int
    PROVE  Percent(x, y) \in Int /\ Times(x, y) \in Int
<1> DEFINE h(z) == z \div 10000   l(z) == z % 10000
<1>1. h(x) \in Int /\ l(x) \in Int /\ h(y) \in Int /\ l(y) \in Int
  OBVIOUS
<1>2. Times(x, y) = h(x) * h(y) + (h(x) * l(y)) \div 10000 + (l(x) * h(y)) \div 10000
  BY DEF Times
<1>3. x \div 100 \in Int /\ x % 100 \in Int
  OBVIOUS
<1>4. Percent(x, y) \in Int
  BY <1>3 DEF Percent
<1> HIDE DEF h, l
<1> QED
  BY <1>1, <1>2, <1>4

LEMMA PercentOfNat ==
    ASSUME NEW x \in Nat, NEW w \in Nat
    PROVE  Percent(x, w) \in Nat
<1>1. x \div 100 \in Nat /\ x % 100 \in Nat
  OBVIOUS
<1>2. (x \div 100) * w \in Nat /\ (x % 100) * w \in Nat
  BY <1>1
<1>3. \A z \in Nat : z \div 100 \in Nat
  OBVIOUS
<1> QED
  BY <1>2, <1>3 DEF Percent

LEMMA Div1000 ==
    ASSUME NEW x \in Nat
    PROVE  /\ x \div 1000 \in Nat /\ 1000 * (x \div 1000) <= x
           /\ x < 1000 * (x \div 1000) + 1000
BY SMT

LEMMA Div10000 ==
    ASSUME NEW x \in Nat, NEW q \in Int, q = x \div 10000, NEW r, r = x % 10000
    PROVE  q \in Nat /\ r \in 0 .. 9999 /\ x = 10000 * q + r
BY SMT

(* Roundup: the least tenth that is not below x, once x has been rounded   *)
(* to its fifth decimal, so never more than 10.0 (cvss.go:247-249).        *)
THEOREM RoundUpIsLeast ==
    ASSUME NEW x \in Nat, x <= 10 * One
    PROVE  /\ RoundUp1(x) \in 0 .. 100
           /\ RoundUp1(x) * 10000000 > x - 500
           /\ RoundUp1(x) > 0 => (RoundUp1(x) - 1) * 10000000 <= x - 500
<1> DEFINE n == (x + 500) \div 1000
           q == n \div 10000
           r == n % 10000
<1>1. n \in Nat /\ 1000 * n <= x + 500 /\ x + 500 < 1000 * n + 1000
  BY Div1000, SMT
<1>2. RoundUp1(x) = IF r = 0 THEN q ELSE q + 1
  BY SMT DEF RoundUp1
<1> HIDE DEF n
<1>3. n <= 1000000
  BY <1>1, SMT DEF One
<1>4. q \in Nat /\ r \in 0 .. 9999 /\ n = 10000 * q + r
  <2>1. q \in Int
    BY <1>1, SMT
  <2> QED
    BY <1>1, <2>1, Div10000, SMT
<1> HIDE DEF q, r
<1>5. RoundUp1(x) \in 0 .. 100
  BY <1>1, <1>2, <1>3, <1>4, SMT
<1>6. RoundUp1(x) * 10000000 > x - 500
  <2>1. RoundUp1(x) * 10000 >= n
    <3>1. ASSUME NEW S \in Int, S = IF r = 0 THEN q ELSE q + 1 PROVE S * 10000 >= n
      <4>1. CASE r = 0
        BY <1>4, <3>1, <4>1, SMT
      <4>2. CASE r # 0
        BY <1>4, <3>1, <4>2, SMT
      <4> QED
        BY <4>1, <4>2
    <3> QED
      BY <1>2, <1>5, <3>1
  <2> QED
    BY <1>1, <1>5, <2>1, SMT
<1>7. RoundUp1(x) > 0 => (RoundUp1(x) - 1) * 10000000 <= x - 500
  BY <1>1, <1>2, <1>4, SMT
<1> QED
  BY <1>5, <1>6, <1>7, SMT

(* The metrics BaseScore needs, with the values it knows. *)
Complete(m) ==
    /\ m["AV"] \in Values["AV"] /\ m["AC"] \in Values["AC"] /\ m["UI"] \in Values["UI"]
    /\ m["C"] \in Values["C"] /\ m["I"] \in Values["I"] /\ m["A"] \in Values["A"]
    /\ m["S"] \in Values["S"] /\ m["PR"] \in Values["PR"]

LEMMA ScoreParts ==
    ASSUME NEW m, Complete(m)
    PROVE  /\ Impact(m) \in Int /\ Exploitability(m) \in Nat
           /\ Impact(m) > 0 => Raw(m) \in Nat /\ Raw(m) <= 10 * One
<1>1. CIA[m.C] \in {0, 22, 56} /\ CIA[m.I] \in {0, 22, 56} /\ CIA[m.A] \in {0, 22, 56}
  BY DEF Complete, Values, CIA
<1>2. /\ AttackVector[m.AV] \in Nat /\ AttackComplexity[m.AC] \in Nat
      /\ UserInteraction[m.UI] \in Nat /\ PrivilegesRequired[m.S][m.PR] \in Nat
  BY DEF Complete, Values, AttackVector, AttackComplexity, UserInteraction, PrivilegesRequired
<1>3. IscBase(m) \in Int
  BY <1>1, SMT DEF IscBase, One
<1>4. ASSUME NEW x \in Int PROVE Power15(x) \in Int
  BY Fixed DEF Power15
<1>5. Impact(m) \in Int
  <2>0. 752 \in Int /\ 325 \in Int /\ 642 \in Int
    OBVIOUS
  <2>1. IscBase(m) - 2900000 \in Int /\ IscBase(m) - 2000000 \in Int
    BY <1>3, SMT
  <2>2. Power15(IscBase(m) - 2000000) \in Int
    BY <1>4, <2>1, SMT
  <2> DEFINE a == IscBase(m) - 2900000   b == Power15(IscBase(m) - 2000000)
  <2>3. Impact(m) = IF Changed(m) THEN Percent(a, 752) - Percent(b, 325)
                    ELSE Percent(IscBase(m), 642)
    BY SMT DEF Impact
  <2>4. a \in Int /\ b \in Int
    BY <2>1, <2>2, SMT
  <2> HIDE DEF a, b
  <2>5. Percent(a, 752) \in Int
    BY <2>0, <2>4, Fixed
  <2>6. Percent(b, 325) \in Int
    BY <2>0, <2>4, Fixed
  <2>7. Percent(IscBase(m), 642) \in Int
    BY <1>3, <2>0, Fixed
  <2> QED
    BY <2>3, <2>5, <2>6, <2>7
<1>6. Exploitability(m) \in Nat
  <2>2. ASSUME NEW x \in Nat, NEW a \in Nat, NEW b \in Nat, NEW c \in Nat, NEW d \in Nat
        PROVE  Percent(Percent(Percent(Percent(x, a), b), c), d) \in Nat
    BY PercentOfNat
  <2> DEFINE av == AttackVector[m.AV]            ac == AttackComplexity[m.AC]
             pr == PrivilegesRequired[m.S][m.PR]  ui == UserInteraction[m.UI]
  <2> DEFINE k == 822000000
  <2>3. Exploitability(m) =
            Percent(Percent(Percent(Percent(k, av), ac), pr), ui)
    BY SMT DEF Exploitability
  <2>4. k \in Nat
    BY SMT
  <2>5. av \in Nat /\ ac \in Nat /\ pr \in Nat /\ ui \in Nat
    BY <1>2
  <2> HIDE DEF k, av, ac, pr, ui
  <2> QED
    BY <2>2, <2>3, <2>4, <2>5
<1>7. ASSUME Impact(m) > 0 PROVE Raw(m) \in Nat /\ Raw(m) <= 10 * One
  <2> DEFINE sum == Percent(Impact(m) + Exploitability(m), IF Changed(m) THEN 108 ELSE 100)
  <2>1. sum \in Nat
    <3>1. Impact(m) + Exploitability(m) \in Nat /\ 108 \in Nat /\ 100 \in Nat
      BY <1>5, <1>6, <1>7
    <3> QED
      BY <3>1, PercentOfNat
  <2>2. Raw(m) = IF sum > 10 * One THEN 10 * One ELSE sum
    BY DEF Raw
  <2> HIDE DEF sum
  <2> QED
    BY <2>1, <2>2, SMT DEF One
<1> QED
  BY <1>5, <1>6, <1>7

LEMMA ScoreRange ==
    ASSUME NEW m, Complete(m)
    PROVE  Score(m) \in 0 .. 100
BY ScoreParts, RoundUpIsLeast DEF Score

LEMMA BaseScoreRange ==
    ASSUME NEW vector
    PROVE  BaseScore(vector).score \in 0 .. 100
<1> DEFINE p == ParseVector(vector)
<1>1. ASSUME Faulty(p.metrics) = {} PROVE Complete(p.metrics)
  <2>1. \A i \in 1 .. 8 : Lookup(p.metrics, Required[i]) = NoProblem
    BY <1>1 DEF Faulty, Required
  <2>2. ASSUME NEW key, Lookup(p.metrics, key) = NoProblem
        PROVE  p.metrics[key] \in Values[key]
    BY <2>2 DEF Lookup, NoProblem, Problem
  <2>3. \A i \in 1 .. 8 : p.metrics[Required[i]] \in Values[Required[i]]
    BY <2>1, <2>2
  <2>4. /\ Required[1] = "AV" /\ Required[2] = "AC" /\ Required[3] = "UI" /\ Required[4] = "C"
        /\ Required[5] = "I" /\ Required[6] = "A" /\ Required[7] = "S" /\ Required[8] = "PR"
    BY DEF Required
  <2> HIDE DEF p
  <2> QED
    BY <2>3, <2>4 DEF Complete
<1>2. \/ BaseScore(vector).score = 0
      \/ Faulty(p.metrics) = {} /\ BaseScore(vector).score = Score(p.metrics)
  BY DEF BaseScore
<1> QED
  BY <1>1, <1>2, ScoreRange

-----------------------------------------------------------------------------
(* The equations: what each part of a score takes as values, and that it   *)
(* grows with the weights it is made of.                                   *)

(* The power, from its intermediate products. *)
LEMMA PowerSteps ==
    ASSUME NEW x, NEW x2, NEW x4, NEW x8, NEW x12, NEW x14, NEW x15,
           x2 = Times(x, x), x4 = Times(x2, x2), x8 = Times(x4, x4), x12 = Times(x8, x4),
           x14 = Times(x12, x2), x15 = Times(x14, x)
    PROVE  Power15(x) = x15
BY DEF Power15

LEMMA PowerTable ==
    /\ Power15(20000000) = 0
    /\ Power15(37160000) = 35
    /\ Power15(50544800) = 3588
    /\ Power15(54000000) = 9680
    /\ Power15(63680000) = 114826
    /\ Power15(71230400) = 616564
    /\ Power15(78640000) = 2720521
    /\ Power15(82899200) = 6001429
    /\ Power15(89481600) = 18880171
<1>1. Power15(20000000) = 0
  <2>1. /\ Times(20000000, 20000000) = 4000000 /\ Times(4000000, 4000000) = 160000
        /\ Times(160000, 160000) = 256 /\ Times(256, 160000) = 0
        /\ Times(0, 4000000) = 0 /\ Times(0, 20000000) = 0
    BY SMT DEF Times
  <2> QED
    BY <2>1, PowerSteps, SMT
<1>2. Power15(37160000) = 35
  <2>1. /\ Times(37160000, 37160000) = 13808656 /\ Times(13808656, 13808656) = 1906788
        /\ Times(1906788, 1906788) = 36356 /\ Times(36356, 1906788) = 692
        /\ Times(692, 13808656) = 95 /\ Times(95, 37160000) = 35
    BY SMT DEF Times
  <2> QED
    BY <2>1, PowerSteps, SMT
<1>3. Power15(50544800) = 3588
  <2>1. /\ Times(50544800, 50544800) = 25547766 /\ Times(25547766, 25547766) = 6526882
        /\ Times(6526882, 6526882) = 426000 /\ Times(426000, 6526882) = 27803
        /\ Times(27803, 25547766) = 7101 /\ Times(7101, 50544800) = 3588
    BY SMT DEF Times
  <2> QED
    BY <2>1, PowerSteps, SMT
<1>4. Power15(54000000) = 9680
  <2>1. /\ Times(54000000, 54000000) = 29160000 /\ Times(29160000, 29160000) = 8503056
        /\ Times(8503056, 8503056) = 723018 /\ Times(723018, 8503056) = 61478
        /\ Times(61478, 29160000) = 17926 /\ Times(17926, 54000000) = 9680
    BY SMT DEF Times
  <2> QED
    BY <2>1, PowerSteps, SMT
<1>5. Power15(63680000) = 114826
  <2>1. /\ Times(63680000, 63680000) = 40551424 /\ Times(40551424, 40551424) = 16444179
        /\ Times(16444179, 16444179) = 2704110 /\ Times(2704110, 16444179) = 444667
        /\ Times(444667, 40551424) = 180318 /\ Times(180318, 63680000) = 114826
    BY SMT DEF Times
  <2> QED
    BY <2>1, PowerSteps, SMT
<1>6. Power15(71230400) = 616564
  <2>1. /\ Times(71230400, 71230400) = 50737697 /\ Times(50737697, 50737697) = 25743137
        /\ Times(25743137, 25743137) = 6627090 /\ Times(6627090, 25743137) = 1706019
        /\ Times(1706019, 50737697) = 865593 /\ Times(865593, 71230400) = 616564
    BY SMT DEF Times
  <2> QED
    BY <2>1, PowerSteps, SMT
<1>7. Power15(78640000) = 2720521
  <2>1. /\ Times(78640000, 78640000) = 61842496 /\ Times(61842496, 61842496) = 38244942
        /\ Times(38244942, 38244942) = 14626754 /\ Times(14626754, 38244942) = 5593992
        /\ Times(5593992, 61842496) = 3459463 /\ Times(3459463, 78640000) = 2720521
    BY SMT DEF Times
  <2> QED
    BY <2>1, PowerSteps, SMT
<1>8. Power15(82899200) = 6001429
  <2>1. /\ Times(82899200, 82899200) = 68722771 /\ Times(68722771, 68722771) = 47228192
        /\ Times(47228192, 47228192) = 22305020 /\ Times(22305020, 47228192) = 10534256
        /\ Times(10534256, 68722771) = 7239431 /\ Times(7239431, 82899200) = 6001429
    BY SMT DEF Times
  <2> QED
    BY <2>1, PowerSteps, SMT
<1>9. Power15(89481600) = 18880171
  <2>1. /\ Times(89481600, 89481600) = 80069566 /\ Times(80069566, 80069566) = 64111352
        /\ Times(64111352, 64111352) = 41102653 /\ Times(41102653, 64111352) = 26351465
        /\ Times(26351465, 80069566) = 21099502 /\ Times(21099502, 89481600) = 18880171
    BY SMT DEF Times
  <2> QED
    BY <2>1, PowerSteps, SMT
<1> QED
  BY <1>1, <1>2, <1>3, <1>4, <1>5, <1>6, <1>7, <1>8, <1>9, SMT

(* The impact sub-score takes ten values in each scope. *)
Bases == {0, 22000000, 39160000, 52544800, 56000000, 65680000, 73230400, 80640000, 84899200,
          91481600}
ImpactU(isc) == Percent(isc, 642)
ImpactC(isc) == Percent(isc - 2900000, 752) - Percent(Power15(isc - 2000000), 325)

LEMMA ImpactOf ==
    ASSUME NEW m
    PROVE  Impact(m) = IF Changed(m) THEN ImpactC(IscBase(m)) ELSE ImpactU(IscBase(m))
BY DEF Impact, ImpactU, ImpactC

LEMMA BaseOf ==
    ASSUME NEW c \in {0, 22, 56}, NEW i \in {0, 22, 56}, NEW a \in {0, 22, 56},
           NEW isc, isc = One - 100 * (100 - c) * (100 - i) * (100 - a)
    PROVE  isc \in Bases /\ (isc = 0 <=> c = 0 /\ i = 0 /\ a = 0)
BY SMT DEF Bases, One

LEMMA ImpactTable ==
    /\ ImpactU(0) = 0 /\ ImpactC(0) = -21808000
    /\ ImpactU(22000000) = 141240000 /\ ImpactC(22000000) = 143632000
    /\ ImpactU(39160000) = 251407200 /\ ImpactC(39160000) = 272675087
    /\ ImpactU(52544800) = 337337616 /\ ImpactC(52544800) = 373317235
    /\ ImpactU(56000000) = 359520000 /\ ImpactC(56000000) = 399280540
    /\ ImpactU(65680000) = 421665600 /\ ImpactC(65680000) = 471732416
    /\ ImpactU(73230400) = 470139168 /\ ImpactC(73230400) = 526880775
    /\ ImpactU(80640000) = 517708800 /\ ImpactC(80640000) = 575763107
    /\ ImpactU(84899200) = 545052864 /\ ImpactC(84899200) = 597129340
    /\ ImpactU(91481600) = 587311872 /\ ImpactC(91481600) = 604773077
<1>1. ImpactU(0) = 0 /\ ImpactC(0) = -21808000
  <2>1. Power15(-2000000) = 0
    <3>1. /\ Times(-2000000, -2000000) = 40000 /\ Times(40000, 40000) = 16
          /\ Times(16, 16) = 0 /\ Times(0, 16) = 0 /\ Times(0, 40000) = 0
          /\ Times(0, -2000000) = 0
      BY SMT DEF Times
    <3> QED
      BY <3>1, PowerSteps, SMT
  <2> QED
    BY <2>1, SMT DEF ImpactU, ImpactC, Percent
<1>2. ImpactU(22000000) = 141240000 /\ ImpactC(22000000) = 143632000
  <2>1. 22000000 - 2000000 = 20000000 /\ Power15(20000000) = 0
    BY PowerTable, SMT
  <2> QED
    BY <2>1, SMT DEF ImpactU, ImpactC, Percent
<1>3. ImpactU(39160000) = 251407200 /\ ImpactC(39160000) = 272675087
  <2>1. 39160000 - 2000000 = 37160000 /\ Power15(37160000) = 35
    BY PowerTable, SMT
  <2> QED
    BY <2>1, SMT DEF ImpactU, ImpactC, Percent
<1>4. ImpactU(52544800) = 337337616 /\ ImpactC(52544800) = 373317235
  <2>1. 52544800 - 2000000 = 50544800 /\ Power15(50544800) = 3588
    BY PowerTable, SMT
  <2> QED
    BY <2>1, SMT DEF ImpactU, ImpactC, Percent
<1>5. ImpactU(56000000) = 359520000 /\ ImpactC(56000000) = 399280540
  <2>1. 56000000 - 2000000 = 54000000 /\ Power15(54000000) = 9680
    BY PowerTable, SMT
  <2> QED
    BY <2>1, SMT DEF ImpactU, ImpactC, Percent
<1>6. ImpactU(65680000) = 421665600 /\ ImpactC(65680000) = 471732416
  <2>1. 65680000 - 2000000 = 63680000 /\ Power15(63680000) = 114826
    BY PowerTable, SMT
  <2> QED
    BY <2>1, SMT DEF ImpactU, ImpactC, Percent
<1>7. ImpactU(73230400) = 470139168 /\ ImpactC(73230400) = 526880775
  <2>1. 73230400 - 2000000 = 71230400 /\ Power15(71230400) = 616564
    BY PowerTable, SMT
  <2> QED
    BY <2>1, SMT DEF ImpactU, ImpactC, Percent
<1>8. ImpactU(80640000) = 517708800 /\ ImpactC(80640000) = 575763107
  <2>1. 80640000 - 2000000 = 78640000 /\ Power15(78640000) = 2720521
    BY PowerTable, SMT
  <2> QED
    BY <2>1, SMT DEF ImpactU, ImpactC, Percent
<1>9. ImpactU(84899200) = 545052864 /\ ImpactC(84899200) = 597129340
  <2>1. 84899200 - 2000000 = 82899200 /\ Power15(82899200) = 6001429
    BY PowerTable, SMT
  <2> QED
    BY <2>1, SMT DEF ImpactU, ImpactC, Percent
<1>10. ImpactU(91481600) = 587311872 /\ ImpactC(91481600) = 604773077
  <2>1. 91481600 - 2000000 = 89481600 /\ Power15(89481600) = 18880171
    BY PowerTable, SMT
  <2> QED
    BY <2>1, SMT DEF ImpactU, ImpactC, Percent
<1> QED
  BY <1>1, <1>2, <1>3, <1>4, <1>5, <1>6, <1>7, <1>8, <1>9, <1>10, SMT

LEMMA PercentMonotone ==
    ASSUME NEW x \in Nat, NEW y \in Nat, x <= y, NEW w \in Nat, NEW v \in Nat, w <= v
    PROVE  Percent(x, w) <= Percent(y, v)
<1>1. ASSUME NEW z \in Nat, NEW u \in Nat PROVE Percent(z, u) = (z * u) \div 100
  <2> DEFINE h == z \div 100   l == z % 100
  <2>1. h \in Nat /\ l \in Nat /\ z = 100 * h + l
    BY <1>1, SMT
  <2>2. Percent(z, u) = h * u + (l * u) \div 100
    BY SMT DEF Percent
  <2> HIDE DEF h, l
  <2>3. h * u \in Nat /\ l * u \in Nat /\ z * u = 100 * (h * u) + l * u
    BY <1>1, <2>1, SMT
  <2>4. ASSUME NEW p \in Nat, NEW q \in Nat PROVE (100 * p + q) \div 100 = p + q \div 100
    BY SMT
  <2> QED
    BY <2>2, <2>3, <2>4, SMT
<1>2. x * w <= y * w /\ y * w <= y * v
  BY SMT
<1>3. x * w \in Nat /\ y * v \in Nat /\ x * w <= y * v
  BY <1>2, SMT
<1>4. ASSUME NEW p \in Nat, NEW q \in Nat, p <= q PROVE p \div 100 <= q \div 100
  BY <1>4, SMT
<1> QED
  BY <1>1, <1>3, <1>4, SMT

LEMMA RoundUpMonotone ==
    ASSUME NEW x \in Nat, NEW y \in Nat, x <= y, y <= 10 * One
    PROVE  RoundUp1(x) <= RoundUp1(y)
<1>1. x <= 10 * One
  BY SMT DEF One
<1>2. /\ RoundUp1(x) \in 0 .. 100 /\ RoundUp1(y) \in 0 .. 100
      /\ RoundUp1(y) * 10000000 > y - 500
      /\ RoundUp1(x) > 0 => (RoundUp1(x) - 1) * 10000000 <= x - 500
  BY <1>1, RoundUpIsLeast
<1> QED
  BY <1>2, SMT

LEMMA ImpactMonotone ==
    ASSUME NEW a \in Bases, NEW b \in Bases, a <= b
    PROVE  /\ ImpactU(a) > 0 <=> a # 0
           /\ ImpactC(a) > 0 <=> a # 0
           /\ a # 0 => ImpactU(a) <= ImpactU(b) /\ ImpactC(a) <= ImpactC(b)
                       /\ ImpactU(a) <= ImpactC(b)
<1>1. ASSUME NEW x \in Bases, NEW u, u = ImpactU(x), NEW c, c = ImpactC(x)
      PROVE  \/ x = 0 /\ u = 0 /\ c = -21808000
             \/ x = 22000000 /\ u = 141240000 /\ c = 143632000
             \/ x = 39160000 /\ u = 251407200 /\ c = 272675087
             \/ x = 52544800 /\ u = 337337616 /\ c = 373317235
             \/ x = 56000000 /\ u = 359520000 /\ c = 399280540
             \/ x = 65680000 /\ u = 421665600 /\ c = 471732416
             \/ x = 73230400 /\ u = 470139168 /\ c = 526880775
             \/ x = 80640000 /\ u = 517708800 /\ c = 575763107
             \/ x = 84899200 /\ u = 545052864 /\ c = 597129340
             \/ x = 91481600 /\ u = 587311872 /\ c = 604773077
  BY <1>1, ImpactTable, SMT DEF Bases
<1> DEFINE u == ImpactU(a)   c == ImpactC(a)   v == ImpactU(b)   d == ImpactC(b)
<1> HIDE DEF u, c, v, d
<1>2. /\ u > 0 <=> a # 0
      /\ c > 0 <=> a # 0
      /\ a # 0 => u <= v /\ c <= d /\ u <= d
  BY <1>1, SMT DEF u, c, v, d
<1> QED
  BY <1>2 DEF u, c, v, d

(* The weights of a reading are not above those of another. *)
NotWorse(m, n) ==
    /\ CIA[m.C] <= CIA[n.C] /\ CIA[m.I] <= CIA[n.I] /\ CIA[m.A] <= CIA[n.A]
    /\ AttackVector[m.AV] <= AttackVector[n.AV]
    /\ AttackComplexity[m.AC] <= AttackComplexity[n.AC]
    /\ UserInteraction[m.UI] <= UserInteraction[n.UI]
    /\ PrivilegesRequired[m.S][m.PR] <= PrivilegesRequired[n.S][n.PR]
    /\ Changed(m) => Changed(n)

LEMMA Weights ==
    ASSUME NEW m, Complete(m)
    PROVE  /\ CIA[m.C] \in {0, 22, 56} /\ CIA[m.I] \in {0, 22, 56} /\ CIA[m.A] \in {0, 22, 56}
           /\ AttackVector[m.AV] \in 20 .. 85 /\ AttackComplexity[m.AC] \in 44 .. 77
           /\ UserInteraction[m.UI] \in 62 .. 85 /\ PrivilegesRequired[m.S][m.PR] \in 27 .. 85
<1>1. CIA[m.C] \in {0, 22, 56} /\ CIA[m.I] \in {0, 22, 56} /\ CIA[m.A] \in {0, 22, 56}
  BY DEF Complete, Values, CIA
<1>2. AttackVector[m.AV] \in 20 .. 85
  BY DEF Complete, Values, AttackVector
<1>3. AttackComplexity[m.AC] \in 44 .. 77 /\ UserInteraction[m.UI] \in 62 .. 85
  BY DEF Complete, Values, AttackComplexity, UserInteraction
<1>4. PrivilegesRequired[m.S][m.PR] \in 27 .. 85
  BY DEF Complete, Values, PrivilegesRequired
<1> QED
  BY <1>1, <1>2, <1>3, <1>4

LEMMA NotWorseSelf ==
    ASSUME NEW m, Complete(m)
    PROVE  NotWorse(m, m)
<1>1. \A x \in Int : x <= x
  OBVIOUS
<1>2. /\ CIA[m.C] \in Int /\ CIA[m.I] \in Int /\ CIA[m.A] \in Int
      /\ AttackVector[m.AV] \in Int /\ AttackComplexity[m.AC] \in Int
      /\ UserInteraction[m.UI] \in Int /\ PrivilegesRequired[m.S][m.PR] \in Int
  BY Weights
<1> QED
  BY <1>1, <1>2 DEF NotWorse

LEMMA BaseMonotone ==
    ASSUME NEW m, NEW n, Complete(m), Complete(n), NotWorse(m, n)
    PROVE  /\ IscBase(m) \in Bases /\ IscBase(n) \in Bases /\ IscBase(m) <= IscBase(n)
           /\ IscBase(m) = 0 <=> CIA[m.C] = 0 /\ CIA[m.I] = 0 /\ CIA[m.A] = 0
<1>1. /\ IscBase(m) \in Bases /\ IscBase(n) \in Bases
      /\ IscBase(m) = 0 <=> CIA[m.C] = 0 /\ CIA[m.I] = 0 /\ CIA[m.A] = 0
  BY Weights, BaseOf DEF IscBase
<1>2. ASSUME NEW c \in 0 .. 100, NEW i \in 0 .. 100, NEW a \in 0 .. 100,
             NEW d \in 0 .. 100, NEW j \in 0 .. 100, NEW b \in 0 .. 100, c >= d, i >= j, a >= b
      PROVE  100 * c * i * a >= 100 * d * j * b
  <2>1. c * i >= d * i /\ d * i >= d * j
    BY <1>2, SMT
  <2> DEFINE p == c * i   q == d * j
  <2>2. p \in Nat /\ q \in Nat /\ p >= q
    BY <2>1, SMT
  <2> HIDE DEF p, q
  <2>3. p * a >= q * a /\ q * a >= q * b
    BY <1>2, <2>2, SMT
  <2>4. 100 * c * i * a = 100 * (p * a) /\ 100 * d * j * b = 100 * (q * b)
    BY SMT DEF p, q
  <2>5. p * a \in Nat /\ q * a \in Nat /\ q * b \in Nat
    BY <2>2, SMT
  <2> QED
    BY <2>3, <2>4, <2>5, SMT
<1>3. IscBase(m) <= IscBase(n)
  <2> DEFINE c == CIA[m.C]   i == CIA[m.I]   a == CIA[m.A]
             d == CIA[n.C]   j == CIA[n.I]   b == CIA[n.A]
             x == 100 * (100 - c) * (100 - i) * (100 - a)
             y == 100 * (100 - d) * (100 - j) * (100 - b)
  <2>1. /\ c \in 0 .. 56 /\ i \in 0 .. 56 /\ a \in 0 .. 56
        /\ d \in 0 .. 56 /\ j \in 0 .. 56 /\ b \in 0 .. 56
        /\ c <= d /\ i <= j /\ a <= b
    BY Weights DEF NotWorse
  <2>2. IscBase(m) = One - x /\ IscBase(n) = One - y
    BY DEF IscBase
  <2> HIDE DEF c, i, a, d, j, b
  <2>3. /\ 100 - c \in 0 .. 100 /\ 100 - i \in 0 .. 100 /\ 100 - a \in 0 .. 100
        /\ 100 - d \in 0 .. 100 /\ 100 - j \in 0 .. 100 /\ 100 - b \in 0 .. 100
        /\ 100 - c >= 100 - d /\ 100 - i >= 100 - j /\ 100 - a >= 100 - b
    BY <2>1, SMT
  <2>4. x >= y
    BY <1>2, <2>3
  <2>5. x \in Int /\ y \in Int
    BY <2>1, SMT
  <2> HIDE DEF x, y
  <2> QED
    BY <2>2, <2>4, <2>5, SMT DEF One
<1> QED
  BY <1>1, <1>3

LEMMA ExploitabilityMonotone ==
    ASSUME NEW m, NEW n, Complete(m), Complete(n), NotWorse(m, n)
    PROVE  /\ Exploitability(m) \in Nat /\ Exploitability(n) \in Nat
           /\ Exploitability(m) <= Exploitability(n) /\ Exploitability(m) > 1000
<1> DEFINE k == 822000000
           F(a, b, c, d) == Percent(Percent(Percent(Percent(k, a), b), c), d)
<1>1. /\ Exploitability(m) = F(AttackVector[m.AV], AttackComplexity[m.AC],
                               PrivilegesRequired[m.S][m.PR], UserInteraction[m.UI])
      /\ Exploitability(n) = F(AttackVector[n.AV], AttackComplexity[n.AC],
                               PrivilegesRequired[n.S][n.PR], UserInteraction[n.UI])
  BY SMT DEF Exploitability
<1>2. k \in Nat
  BY SMT
<1>3. F(20, 44, 27, 62) > 1000
  BY SMT DEF Percent
<1> HIDE DEF k
<1>4. ASSUME NEW a \in Nat, NEW b \in Nat, NEW c \in Nat, NEW d \in Nat,
             NEW e \in Nat, NEW f \in Nat, NEW g \in Nat, NEW h \in Nat,
             a <= e, b <= f, c <= g, d <= h
      PROVE  F(a, b, c, d) \in Nat /\ F(e, f, g, h) \in Nat /\ F(a, b, c, d) <= F(e, f, g, h)
  <2>1. Percent(k, a) \in Nat /\ Percent(k, e) \in Nat /\ Percent(k, a) <= Percent(k, e)
    BY <1>2, <1>4, PercentOfNat, PercentMonotone
  <2> DEFINE p == Percent(k, a)   q == Percent(k, e)
  <2> HIDE DEF p, q
  <2>2. Percent(p, b) \in Nat /\ Percent(q, f) \in Nat /\ Percent(p, b) <= Percent(q, f)
    BY <1>4, <2>1, PercentOfNat, PercentMonotone DEF p, q
  <2> DEFINE r == Percent(p, b)   s == Percent(q, f)
  <2> HIDE DEF r, s
  <2>3. Percent(r, c) \in Nat /\ Percent(s, g) \in Nat /\ Percent(r, c) <= Percent(s, g)
    BY <1>4, <2>2, PercentOfNat, PercentMonotone DEF r, s
  <2> DEFINE u == Percent(r, c)   v == Percent(s, g)
  <2> HIDE DEF u, v
  <2>4. Percent(u, d) \in Nat /\ Percent(v, h) \in Nat /\ Percent(u, d) <= Percent(v, h)
    BY <1>4, <2>3, PercentOfNat, PercentMonotone DEF u, v
  <2> QED
    BY <2>4 DEF p, q, r, s, u, v
<1>5. ASSUME NEW l, Complete(l)
      PROVE  /\ AttackVector[l.AV] \in Nat /\ AttackVector[l.AV] >= 20
             /\ AttackComplexity[l.AC] \in Nat /\ AttackComplexity[l.AC] >= 44
             /\ UserInteraction[l.UI] \in Nat /\ UserInteraction[l.UI] >= 62
             /\ PrivilegesRequired[l.S][l.PR] \in Nat /\ PrivilegesRequired[l.S][l.PR] >= 27
  BY <1>5, Weights
<1> DEFINE a == AttackVector[m.AV]            e == AttackVector[n.AV]
           b == AttackComplexity[m.AC]        f == AttackComplexity[n.AC]
           c == PrivilegesRequired[m.S][m.PR]  g == PrivilegesRequired[n.S][n.PR]
           d == UserInteraction[m.UI]         h == UserInteraction[n.UI]
<1>6. /\ a \in Nat /\ b \in Nat /\ c \in Nat /\ d \in Nat
      /\ e \in Nat /\ f \in Nat /\ g \in Nat /\ h \in Nat
      /\ 20 <= a /\ 44 <= b /\ 27 <= c /\ 62 <= d
      /\ a <= e /\ b <= f /\ c <= g /\ d <= h
  BY <1>5 DEF NotWorse
<1> HIDE DEF F, a, b, c, d, e, f, g, h
<1>7. F(a, b, c, d) \in Nat /\ F(e, f, g, h) \in Nat /\ F(a, b, c, d) <= F(e, f, g, h)
  BY <1>4, <1>6
<1>8. F(20, 44, 27, 62) <= F(a, b, c, d) /\ F(20, 44, 27, 62) \in Nat
  BY <1>4, <1>6
<1>9. Exploitability(m) = F(a, b, c, d) /\ Exploitability(n) = F(e, f, g, h)
  BY <1>1 DEF a, b, c, d, e, f, g, h
<1> QED
  BY <1>3, <1>7, <1>8, <1>9, SMT

LEMMA ScoreMonotone ==
    ASSUME NEW m, NEW n, Complete(m), Complete(n), NotWorse(m, n)
    PROVE  Score(m) <= Score(n)
<1>1. Score(m) \in 0 .. 100 /\ Score(n) \in 0 .. 100
  BY ScoreRange
<1>2. CASE Impact(m) <= 0
  <2>1. Score(m) = 0
    BY <1>2 DEF Score
  <2> QED
    BY <1>1, <2>1
<1>3. CASE Impact(m) > 0
  <2>0. Impact(m) \in Int /\ Impact(n) \in Int
    BY ScoreParts
  <2>1. Impact(m) <= Impact(n)
    <3>1. IscBase(m) \in Bases /\ IscBase(n) \in Bases /\ IscBase(m) <= IscBase(n)
      BY BaseMonotone
    <3>2. IscBase(m) # 0
      BY <1>3, <3>1, ImpactOf, ImpactMonotone
    <3>3. /\ ImpactU(IscBase(m)) <= ImpactU(IscBase(n))
          /\ ImpactC(IscBase(m)) <= ImpactC(IscBase(n))
          /\ ImpactU(IscBase(m)) <= ImpactC(IscBase(n))
      BY <3>1, <3>2, ImpactMonotone
    <3> QED
      BY <3>3, ImpactOf DEF NotWorse
  <2>2. /\ Exploitability(m) \in Nat /\ Exploitability(n) \in Nat
        /\ Exploitability(m) <= Exploitability(n)
    BY ExploitabilityMonotone
  <2> DEFINE x == Impact(m) + Exploitability(m)
             y == Impact(n) + Exploitability(n)
             w == IF Changed(m) THEN 108 ELSE 100
             v == IF Changed(n) THEN 108 ELSE 100
  <2>3. x \in Nat /\ y \in Nat /\ x <= y
    BY <1>3, <2>0, <2>1, <2>2
  <2>4. w \in Nat /\ v \in Nat /\ w <= v
    BY DEF NotWorse
  <2>5. /\ Raw(m) = IF Percent(x, w) > 10 * One THEN 10 * One ELSE Percent(x, w)
        /\ Raw(n) = IF Percent(y, v) > 10 * One THEN 10 * One ELSE Percent(y, v)
    BY DEF Raw
  <2>6. Impact(n) > 0
    BY <1>3, <2>0, <2>1
  <2>7. /\ Raw(m) \in Nat /\ Raw(n) \in Nat /\ Raw(n) <= 10 * One
    BY <1>3, <2>6, ScoreParts
  <2> HIDE DEF x, y, w, v
  <2>8. /\ Percent(x, w) \in Nat /\ Percent(y, v) \in Nat /\ Percent(x, w) <= Percent(y, v)
    BY <2>3, <2>4, PercentOfNat, PercentMonotone
  <2>9. Raw(m) <= Raw(n)
    BY <2>5, <2>8, SMT DEF One
  <2>10. RoundUp1(Raw(m)) <= RoundUp1(Raw(n))
    BY <2>7, <2>9, RoundUpMonotone
  <2>11. Score(m) = RoundUp1(Raw(m)) /\ Score(n) = RoundUp1(Raw(n))
    BY <1>3, <2>0, <2>6 DEF Score
  <2> QED
    BY <2>10, <2>11
<1> QED
  BY <1>2, <1>3, ScoreParts

LEMMA ZeroScore ==
    ASSUME NEW m, Complete(m)
    PROVE  Score(m) = 0 <=> CIA[m.C] = 0 /\ CIA[m.I] = 0 /\ CIA[m.A] = 0
<1>0. NotWorse(m, m)
  BY NotWorseSelf
<1>1. /\ IscBase(m) \in Bases
      /\ IscBase(m) = 0 <=> CIA[m.C] = 0 /\ CIA[m.I] = 0 /\ CIA[m.A] = 0
  BY <1>0, BaseMonotone
<1>2. Impact(m) > 0 <=> IscBase(m) # 0
  <2>1. \A a \in Bases : a <= a
    BY SMT DEF Bases
  <2> QED
    BY <1>1, <2>1, ImpactOf, ImpactMonotone
<1>3. Impact(m) \in Int /\ Exploitability(m) \in Nat /\ Exploitability(m) > 1000
  BY <1>0, ScoreParts, ExploitabilityMonotone
<1>4. CASE Impact(m) <= 0
  BY <1>1, <1>2, <1>3, <1>4 DEF Score
<1>5. CASE Impact(m) > 0
  <2> DEFINE x == Impact(m) + Exploitability(m)
             w == IF Changed(m) THEN 108 ELSE 100
  <2>1. x \in Nat /\ x > 1000 /\ w \in Nat /\ w >= 100
    BY <1>3, <1>5
  <2>2. Raw(m) = IF Percent(x, w) > 10 * One THEN 10 * One ELSE Percent(x, w)
    BY DEF Raw
  <2> HIDE DEF x, w
  <2>3. Percent(x, w) \in Nat /\ Percent(x, w) >= Percent(1000, 100)
    BY <2>1, PercentOfNat, PercentMonotone
  <2>4. Percent(1000, 100) = 1000
    BY SMT DEF Percent
  <2>5. Raw(m) \in Nat /\ Raw(m) <= 10 * One /\ Raw(m) >= 1000
    BY <2>2, <2>3, <2>4, SMT DEF One
  <2>6. RoundUp1(Raw(m)) \in 0 .. 100 /\ RoundUp1(Raw(m)) * 10000000 > Raw(m) - 500
    BY <2>5, RoundUpIsLeast
  <2>7. RoundUp1(Raw(m)) # 0
    BY <2>5, <2>6, SMT
  <2>8. Score(m) # 0
    BY <1>3, <1>5, <2>7 DEF Score
  <2> QED
    BY <1>1, <1>2, <1>5, <2>8
<1> QED
  BY <1>3, <1>4, <1>5

-----------------------------------------------------------------------------
(* Bands and severities. *)

(* A tenth lies in one band, and that is the one Severity names.           *)
LEMMA OneBand ==
    ASSUME NEW t \in 0 .. 100
    PROVE  \E j \in 1 .. 5 :
               /\ SeverityBands[j].severity = Severity(10 * t)
               /\ \A k \in 1 .. 5 :
                     (10 * t >= 10 * SeverityBands[k].min /\ 10 * t <= 10 * SeverityBands[k].max)
                         <=> k = j
<1> DEFINE in(k) == 10 * t >= 10 * SeverityBands[k].min /\ 10 * t <= 10 * SeverityBands[k].max
<1>0. \A k \in 1 .. 5 : k = 1 \/ k = 2 \/ k = 3 \/ k = 4 \/ k = 5
  OBVIOUS
<1>1. /\ in(1) <=> t = 0
      /\ in(2) <=> t >= 1 /\ t <= 39
      /\ in(3) <=> t >= 40 /\ t <= 69
      /\ in(4) <=> t >= 70 /\ t <= 89
      /\ in(5) <=> t >= 90
  BY DEF SeverityBands, Band
<1>2. /\ t = 0 => Severity(10 * t) = "NONE"
      /\ t >= 1 /\ t <= 39 => Severity(10 * t) = "LOW"
      /\ t >= 40 /\ t <= 69 => Severity(10 * t) = "MEDIUM"
      /\ t >= 70 /\ t <= 89 => Severity(10 * t) = "HIGH"
      /\ t >= 90 => Severity(10 * t) = "CRITICAL"
  BY DEF Severity
<1>3. /\ SeverityBands[1].severity = "NONE" /\ SeverityBands[2].severity = "LOW"
      /\ SeverityBands[3].severity = "MEDIUM" /\ SeverityBands[4].severity = "HIGH"
      /\ SeverityBands[5].severity = "CRITICAL"
  BY DEF SeverityBands, Band
<1>4. \/ t = 0
      \/ t >= 1 /\ t <= 39
      \/ t >= 40 /\ t <= 69
      \/ t >= 70 /\ t <= 89
      \/ t >= 90
  OBVIOUS
<1> HIDE DEF in
<1> DEFINE is(j) == \A k \in 1 .. 5 : in(k) <=> k = j
<1>5. ASSUME t = 0 PROVE SeverityBands[1].severity = Severity(10 * t) /\ is(1)
  <2>1. in(1) /\ ~in(2) /\ ~in(3) /\ ~in(4) /\ ~in(5)
    BY <1>1, <1>5
  <2>2. is(1)
    BY <2>1, <1>0
  <2> QED
    BY <1>2, <1>3, <1>5, <2>2
<1>6. ASSUME t >= 1 /\ t <= 39 PROVE SeverityBands[2].severity = Severity(10 * t) /\ is(2)
  <2>1. ~in(1) /\ in(2) /\ ~in(3) /\ ~in(4) /\ ~in(5)
    BY <1>1, <1>6
  <2>2. is(2)
    BY <2>1, <1>0
  <2> QED
    BY <1>2, <1>3, <1>6, <2>2
<1>7. ASSUME t >= 40 /\ t <= 69 PROVE SeverityBands[3].severity = Severity(10 * t) /\ is(3)
  <2>1. ~in(1) /\ ~in(2) /\ in(3) /\ ~in(4) /\ ~in(5)
    BY <1>1, <1>7
  <2>2. is(3)
    BY <2>1, <1>0
  <2> QED
    BY <1>2, <1>3, <1>7, <2>2
<1>8. ASSUME t >= 70 /\ t <= 89 PROVE SeverityBands[4].severity = Severity(10 * t) /\ is(4)
  <2>1. ~in(1) /\ ~in(2) /\ ~in(3) /\ in(4) /\ ~in(5)
    BY <1>1, <1>8
  <2>2. is(4)
    BY <2>1, <1>0
  <2> QED
    BY <1>2, <1>3, <1>8, <2>2
<1>9. ASSUME t >= 90 PROVE SeverityBands[5].severity = Severity(10 * t) /\ is(5)
  <2>1. ~in(1) /\ ~in(2) /\ ~in(3) /\ ~in(4) /\ in(5)
    BY <1>1, <1>9
  <2>2. is(5)
    BY <2>1, <1>0
  <2> QED
    BY <1>2, <1>3, <1>9, <2>2
<1>10. PICK j \in 1 .. 5 : SeverityBands[j].severity = Severity(10 * t) /\ is(j)
  BY <1>4, <1>5, <1>6, <1>7, <1>8, <1>9
<1> QED
  BY <1>10 DEF in

(* Any double lies in no band or in the one Severity names.                *)
LEMMA NoOtherBand ==
    ASSUME NEW s \in Int, NEW j \in 1 .. 5,
           s >= 10 * SeverityBands[j].min, s <= 10 * SeverityBands[j].max
    PROVE  SeverityBands[j].severity = Severity(s)
BY DEF SeverityBands, Band, Severity

LEMMA FirstOfThree ==
    ASSUME NEW S, NEW a \in Seq(S), NEW b \in Seq(S), NEW d \in Seq(S),
           NEW all, all = (a \o b) \o d
    PROVE  /\ a # <<>> => all[1] = a[1]
           /\ a = <<>> /\ b # <<>> => all[1] = b[1]
           /\ a = <<>> /\ b = <<>> /\ d # <<>> => all[1] = d[1]
           /\ all = <<>> <=> a = <<>> /\ b = <<>> /\ d = <<>>
           /\ all # <<>> => 1 \in DOMAIN all /\ all[1] \in S
<1> DEFINE ab == a \o b
<1>1. /\ ab \in Seq(S) /\ Len(ab) = Len(a) + Len(b)
      /\ \A j \in 1 .. Len(a) : ab[j] = a[j]
      /\ \A j \in 1 .. Len(b) : ab[Len(a) + j] = b[j]
  BY ConcatFacts
<1> HIDE DEF ab
<1>2. /\ ab \o d \in Seq(S) /\ Len(ab \o d) = Len(ab) + Len(d)
      /\ \A j \in 1 .. Len(ab) : (ab \o d)[j] = ab[j]
      /\ \A j \in 1 .. Len(d) : (ab \o d)[Len(ab) + j] = d[j]
  <2>1. ab \in Seq(S)
    BY <1>1
  <2> QED
    BY <2>1, ConcatFacts
<1>3. all = ab \o d
  BY DEF ab
<1>4. ASSUME NEW s \in Seq(S)
      PROVE  /\ Len(s) \in Nat /\ (s = <<>> <=> Len(s) = 0) /\ (s # <<>> <=> 1 \in 1 .. Len(s))
             /\ s # <<>> => 1 \in DOMAIN s /\ s[1] \in S
  BY EmptySeq
<1>5. /\ a # <<>> => 1 \in 1 .. Len(a) /\ 1 \in 1 .. Len(ab)
      /\ a = <<>> => Len(a) + 1 = 1 /\ Len(ab) = Len(b)
      /\ a = <<>> /\ b = <<>> => Len(ab) + 1 = 1
  BY <1>1, <1>4
<1>6. a # <<>> => all[1] = a[1]
  BY <1>1, <1>2, <1>3, <1>5
<1>7. a = <<>> /\ b # <<>> => all[1] = b[1]
  <2> SUFFICES ASSUME a = <<>>, b # <<>> PROVE all[1] = b[1]
    OBVIOUS
  <2>1. 1 \in 1 .. Len(b) /\ 1 \in 1 .. Len(ab) /\ Len(a) + 1 = 1
    BY <1>4, <1>5
  <2> QED
    BY <1>1, <1>2, <1>3, <2>1
<1>8. a = <<>> /\ b = <<>> /\ d # <<>> => all[1] = d[1]
  <2> SUFFICES ASSUME a = <<>>, b = <<>>, d # <<>> PROVE all[1] = d[1]
    OBVIOUS
  <2>1. 1 \in 1 .. Len(d) /\ Len(ab) + 1 = 1
    BY <1>4, <1>5
  <2> QED
    BY <1>2, <1>3, <2>1
<1>9. all \in Seq(S) /\ Len(all) = Len(a) + Len(b) + Len(d)
  BY <1>1, <1>2, <1>3
<1>10. all = <<>> <=> a = <<>> /\ b = <<>> /\ d = <<>>
  BY <1>4, <1>9
<1> QED
  BY <1>4, <1>6, <1>7, <1>8, <1>9, <1>10

(* The row of a record shows its first metric, or that there is none.      *)
LEMMA FirstMetric ==
    ASSUME NEW c \in Records
    PROVE  LET all == Projection!AllMetrics(c)
               row == Projection!ProjectCVE(c)
           IN  \/ /\ all = <<>>
                  /\ row.Score = NoScore /\ row.SeverityStr = "" /\ row.Vector = ""
               \/ /\ all # <<>> /\ all[1] \in Projection!CVSSData /\ 1 \in DOMAIN all
                  /\ row.Score = all[1].baseScore /\ row.Vector = all[1].vectorString
                  /\ row.SeverityStr = IF all[1].baseSeverity # "" THEN all[1].baseSeverity
                                       ELSE Severity(10 * all[1].baseScore)
<1> DEFINE D == Projection!CVSSData
           v2 == [i \in DOMAIN c.v2 |-> c.v2[i].cvssData]
           row == Projection!ProjectCVE(c)
           all == Projection!AllMetrics(c)
<1>1. c.v31 \in Seq(D) /\ c.v30 \in Seq(D) /\ c.v2 \in Seq(Projection!CVSSDataV2)
  BY QueryAssumption
<1>2. v2 \in Seq(D) /\ Len(v2) = Len(c.v2)
  <2>1. DOMAIN c.v2 = 1 .. Len(c.v2) /\ Len(c.v2) \in Nat
    BY <1>1
  <2>2. \A i \in 1 .. Len(c.v2) : c.v2[i] \in Projection!CVSSDataV2
    BY <1>1
  <2>3. \A i \in 1 .. Len(c.v2) : c.v2[i].cvssData \in D
    BY <2>2 DEF Projection!CVSSDataV2
  <2> HIDE DEF D
  <2> QED
    BY <2>1, <2>3
<1>3. all = (c.v31 \o c.v30) \o v2
  BY DEF Projection!AllMetrics
<1> HIDE DEF all, v2, D
<1>4. /\ c.v31 # <<>> => all[1] = c.v31[1]
      /\ c.v31 = <<>> /\ c.v30 # <<>> => all[1] = c.v30[1]
      /\ c.v31 = <<>> /\ c.v30 = <<>> /\ v2 # <<>> => all[1] = v2[1]
      /\ all = <<>> <=> c.v31 = <<>> /\ c.v30 = <<>> /\ v2 = <<>>
      /\ all # <<>> => 1 \in DOMAIN all /\ all[1] \in D
  <2> DEFINE a == c.v31   b == c.v30
  <2>1. a \in Seq(D) /\ b \in Seq(D) /\ v2 \in Seq(D) /\ all = (a \o b) \o v2
    BY <1>1, <1>2, <1>3
  <2> HIDE DEF a, b
  <2>2. /\ a # <<>> => all[1] = a[1]
        /\ a = <<>> /\ b # <<>> => all[1] = b[1]
        /\ a = <<>> /\ b = <<>> /\ v2 # <<>> => all[1] = v2[1]
        /\ all = <<>> <=> a = <<>> /\ b = <<>> /\ v2 = <<>>
        /\ all # <<>> => 1 \in DOMAIN all /\ all[1] \in D
    BY <2>1, FirstOfThree
  <2> QED
    BY <2>2 DEF a, b
<1>6. \A x : Projection!Severity(x) = Severity(x)
  BY DEF Projection!Severity, Severity
<1>7. \A x : Severity(x) # ""
  BY DEF Severity
<1> DEFINE shows(d) ==
        /\ row.Score = d.baseScore /\ row.Vector = d.vectorString
        /\ row.SeverityStr = IF d.baseSeverity # "" THEN d.baseSeverity
                              ELSE Severity(10 * d.baseScore)
<1>8. CASE c.v31 # <<>>
  <2>1. shows(c.v31[1])
    BY <1>6, <1>8
    DEF Projection!ProjectCVE, Projection!ApplyMetrics, Projection!ApplyCVSS, Projection!NoMetricRow
  <2>2. all[1] = c.v31[1] /\ all # <<>> /\ 1 \in DOMAIN all /\ all[1] \in D
    BY <1>4, <1>8
  <2> QED
    BY <2>1, <2>2 DEF all, D
<1>9. CASE c.v31 = <<>> /\ c.v30 # <<>>
  <2>1. shows(c.v30[1])
    BY <1>6, <1>9
    DEF Projection!ProjectCVE, Projection!ApplyMetrics, Projection!ApplyCVSS, Projection!NoMetricRow
  <2>2. all[1] = c.v30[1] /\ all # <<>> /\ 1 \in DOMAIN all /\ all[1] \in D
    BY <1>4, <1>9
  <2> QED
    BY <2>1, <2>2 DEF all, D
<1>10. CASE c.v31 = <<>> /\ c.v30 = <<>> /\ c.v2 # <<>>
  <2>1. shows(c.v2[1].cvssData)
    BY <1>6, <1>7, <1>10
    DEF Projection!ProjectCVE, Projection!ApplyMetrics, Projection!ApplyV2, Projection!ApplyCVSS,
        Projection!NoMetricRow
  <2>2. v2 # <<>> /\ v2[1] = c.v2[1].cvssData
    BY <1>1, <1>10 DEF v2
  <2>3. all[1] = v2[1] /\ all # <<>> /\ 1 \in DOMAIN all /\ all[1] \in D
    BY <1>4, <1>10, <2>2
  <2> QED
    BY <2>1, <2>2, <2>3 DEF all, D
<1>11. CASE c.v31 = <<>> /\ c.v30 = <<>> /\ c.v2 = <<>>
  <2>1. row.Score = NoScore /\ row.SeverityStr = "" /\ row.Vector = ""
    BY <1>11 DEF Projection!ProjectCVE, Projection!ApplyMetrics, Projection!NoMetricRow
  <2>2. all = <<>>
    BY <1>2, <1>4, <1>11, EmptySeq
  <2> QED
    BY <2>1, <2>2 DEF all
<1> QED
  BY <1>8, <1>9, <1>10, <1>11

(* The texts of a row are picked by englishOr and firstCWE, and no metric  *)
(* changes them.                                                           *)
LEMMA RowTexts ==
    ASSUME NEW c
    PROVE  /\ Projection!ProjectCVE(c).Description = Projection!EnglishOr(c.descriptions)
           /\ Projection!ProjectCVE(c).CWE = Projection!FirstCWE(c.weaknesses)
<1> DEFINE d == Projection!EnglishOr(c.descriptions)
           w == Projection!FirstCWE(c.weaknesses)
           r == Projection!NoMetricRow(d, w)
           shows(x) == x.Description = d /\ x.CWE = w
<1>1. shows(r) /\ DOMAIN r = {"Description", "CWE", "Score", "SeverityStr", "Vector"}
  BY DEF Projection!NoMetricRow
<1>2. Projection!ProjectCVE(c) = Projection!ApplyMetrics(r, c)
  BY DEF Projection!ProjectCVE
<1> HIDE DEF d, w, r
<1>3. ASSUME NEW m
      PROVE  /\ shows(Projection!ApplyCVSS(r, m))
             /\ DOMAIN Projection!ApplyCVSS(r, m) = DOMAIN r
  BY <1>1 DEF Projection!ApplyCVSS
<1>4. ASSUME NEW m PROVE shows(Projection!ApplyV2(r, m))
  BY <1>1, <1>3 DEF Projection!ApplyV2
<1>5. shows(Projection!ApplyMetrics(r, c))
  <2>1. CASE c.v31 # <<>>
    BY <1>3, <2>1 DEF Projection!ApplyMetrics
  <2>2. CASE c.v31 = <<>> /\ c.v30 # <<>>
    BY <1>3, <2>2 DEF Projection!ApplyMetrics
  <2>3. CASE c.v31 = <<>> /\ c.v30 = <<>> /\ c.v2 # <<>>
    BY <1>4, <2>3 DEF Projection!ApplyMetrics
  <2>4. CASE c.v31 = <<>> /\ c.v30 = <<>> /\ c.v2 = <<>>
    BY <1>1, <2>4 DEF Projection!ApplyMetrics
  <2> QED
    BY <2>1, <2>2, <2>3, <2>4
<1> QED
  BY <1>2, <1>5 DEF d, w

LEMMA FirstOf ==
    ASSUME NEW I, I \subseteq Nat, I # {}
    PROVE  Projection!Min(I) \in I
<1>1. PICK i \in I : \A j \in I : i <= j
  BY LeastElement
<1> QED
  BY <1>1 DEF Projection!Min

LEMMA DescriptionKept ==
    ASSUME NEW S, NEW ds \in Seq(S),
           NEW d, d = Projection!EnglishOr(ds)
    PROVE  /\ ds # <<>> => \E j \in DOMAIN ds : d = ds[j].value
           /\ (\E j \in DOMAIN ds : Projection!English(ds[j])) =>
                 \E j \in DOMAIN ds : Projection!English(ds[j]) /\ d = ds[j].value
<1> DEFINE I == {i \in 1 .. Len(ds) : Projection!English(ds[i])}
           en == Projection!SelectInSeq(ds, Projection!English)
<1>0. Len(ds) \in Nat /\ DOMAIN ds = 1 .. Len(ds) /\ (ds # <<>> <=> Len(ds) > 0)
  BY EmptySeq
<1>1. en = IF I # {} THEN Projection!Min(I) ELSE 0
  BY DEF Projection!SelectInSeq
<1>2. d = CASE en > 0 -> ds[en].value
            [] en = 0 /\ ds # <<>> -> ds[1].value
            [] OTHER -> ""
  BY DEF Projection!EnglishOr
<1> HIDE DEF en
<1>3. CASE I # {}
  <2>0. Projection!Min(I) \in I
    <3>1. I \subseteq Nat
      OBVIOUS
    <3> HIDE DEF I
    <3> QED
      BY <1>3, <3>1, FirstOf
  <2>1. en \in I
    BY <1>1, <1>3, <2>0
  <2>2. en > 0 /\ en # 0 /\ en \in DOMAIN ds /\ Projection!English(ds[en])
    BY <1>0, <2>1
  <2>3. d = ds[en].value
    BY <1>2, <2>2
  <2> QED
    BY <2>2, <2>3
<1>4. CASE I = {}
  <2>1. en = 0 /\ ~(en > 0)
    BY <1>1, <1>4
  <2>2. ds # <<>> => d = ds[1].value /\ 1 \in DOMAIN ds
    BY <1>0, <1>2, <2>1
  <2>3. ~ \E j \in DOMAIN ds : Projection!English(ds[j])
    BY <1>0, <1>4
  <2> QED
    BY <2>2, <2>3
<1> QED
  BY <1>3, <1>4

LEMMA CWEKept ==
    ASSUME NEW S, NEW ws \in Seq(Seq(S)), NEW w, w = Projection!FirstCWE(ws),
           NEW texts, texts = Projection!FlattenSeq(ws)
    PROVE  LET named == CWEs \cap UNION {Projection!ToSet(ws[k]) : k \in DOMAIN ws}
           IN  IF named = {} THEN w = "" ELSE w \in named
<1> DEFINE I == {i \in 1 .. Len(texts) : texts[i] \in CWEs}
           first == IF I # {} THEN Projection!Min(I) ELSE 0
           named == CWEs \cap UNION {Projection!ToSet(ws[k]) : k \in DOMAIN ws}
<1>1. texts \in Seq(S) /\ ToSet(texts) = UNION {ToSet(ws[k]) : k \in DOMAIN ws}
  <2>1. texts = FlattenSeq(ws)
    BY DEF FlattenSeq, Projection!FlattenSeq
  <2> QED
    BY <2>1, FlattenFacts
<1>2. w = IF first = 0 THEN "" ELSE texts[first]
  BY DEF Projection!FirstCWE, Projection!SelectInSeq
<1>3. named = CWEs \cap ToSet(texts)
  <2>1. \A s : Projection!ToSet(s) = ToSet(s)
    BY DEF ToSet, Projection!ToSet
  <2> QED
    BY <1>1, <2>1
<1>4. ASSUME NEW x
      PROVE  x \in named <=> x \in CWEs /\ \E i \in 1 .. Len(texts) : texts[i] = x
  <2>1. DOMAIN texts = 1 .. Len(texts)
    BY <1>1
  <2> QED
    BY <1>3, <2>1 DEF ToSet
<1> HIDE DEF named
<1>5. CASE I # {}
  <2>0. Projection!Min(I) \in I
    <3>1. I \subseteq Nat
      OBVIOUS
    <3> HIDE DEF I
    <3> QED
      BY <1>5, <3>1, FirstOf
  <2>1. first \in I
    BY <1>5, <2>0
  <2>2. first # 0 /\ texts[first] \in CWEs /\ first \in 1 .. Len(texts)
    BY <2>1
  <2>3. w = texts[first] /\ w \in named
    BY <1>2, <1>4, <2>2
  <2> QED
    BY <2>3 DEF named
<1>6. CASE I = {}
  <2>1. w = "" /\ named = {}
    BY <1>2, <1>4, <1>6
  <2> QED
    BY <2>1 DEF named
<1> QED
  BY <1>5, <1>6

-----------------------------------------------------------------------------
(* The statement. *)

(* What a row shows as its score is NULL or a score from 0.0 to 10.0.      *)
LEMMA RowScore ==
    ASSUME NEW c \in Records
    PROVE  Projection!ProjectCVE(c).Score = NoScore \/ Projection!ProjectCVE(c).Score \in 0 .. 100
BY FirstMetric DEF Projection!CVSSData

LEMMA RateFacts ==
    ASSUME NEW ss, \A i \in DOMAIN ss : ss[i] \in Int, Rate(ss)
    PROVE  \A i \in DOMAIN severities' :
              i \in DOMAIN args' /\ args'[i] \in Int /\ severities'[i] = Severity(args'[i])
BY DEF Rate

LEMMA NextQuery == QueryInv /\ [QueryNext]_queryVars => QueryInv'
<1> SUFFICES ASSUME QueryInv, [QueryNext]_queryVars PROVE QueryInv'
  OBVIOUS
<1> DEFINE Rated == \A i \in DOMAIN severities :
                        i \in DOMAIN args /\ args[i] \in Int /\ severities[i] = Severity(args[i])
           Shown == /\ records \in Seq(Records)
                    /\ rows = [i \in 1 .. Len(records) |-> Projection!ProjectCVE(records[i])]
<1>0. Bands!BandsInv'
  BY QueryScans, NextBands DEF QueryInv
<1>1. CASE ReadBands \/ Recover
  <2>1. UNCHANGED <<scalarVars, records, rows>>
    BY <1>1 DEF ReadBands, Recover
  <2>2. scan' # "finished" => scan # "finished"
    BY <1>1 DEF ReadBands, Recover, Bands!Restart
  <2> QED
    BY <1>0, <2>1, <2>2 DEF QueryInv, scalarVars
<1>2. ASSUME scan = "finished", UNCHANGED scanVars, out' \in Seq(0 .. 100), Rated', Shown'
      PROVE  QueryInv'
  <2>1. scan' = "finished"
    BY <1>2 DEF scanVars
  <2> QED
    BY <1>0, <1>2, <2>1 DEF QueryInv
<1>3. CASE RateGiven
  <2>1. scan = "finished" /\ UNCHANGED scanVars /\ Shown'
    BY <1>3 DEF RateGiven, Ready, QueryInv
  <2>2. CASE Call \/ Fail \/ Scored
    BY <1>2, <2>1, <2>2 DEF Call, Fail, Scored, QueryInv
  <2>3. CASE Row
    <3>1. out \in Seq(0 .. 100) /\ out' = Append(out, BaseScore(batch[Len(out) + 1]).score)
      BY <2>3 DEF Row, QueryInv
    <3>2. out' \in Seq(0 .. 100)
      BY <3>1, BaseScoreRange
    <3> QED
      BY <1>2, <2>1, <2>3, <3>2 DEF Row, QueryInv
  <2>4. CASE RateScores
    <3>1. \A i \in DOMAIN out : out[i] \in 0 .. 100
      <4>1. out \in Seq(0 .. 100)
        BY DEF QueryInv
      <4>2. ASSUME NEW S, NEW s \in Seq(S) PROVE \A i \in DOMAIN s : s[i] \in S
        OBVIOUS
      <4> QED
        BY <4>1, <4>2, Zenon
    <3>2. Rated'
      BY <2>4, <3>1, RateFacts DEF RateScores
    <3> QED
      BY <1>2, <2>1, <2>4, <3>2 DEF RateScores, Rate, QueryInv
  <2>5. CASE RateDoubles
    <3>1. PICK ss \in Columns : Rate(ss)
      BY <2>5 DEF RateDoubles
    <3>2. \A i \in DOMAIN ss : ss[i] \in Int
      BY <3>1, ScalarAssumption
    <3>3. Rated'
      BY <3>1, <3>2, RateFacts
    <3> QED
      BY <1>2, <2>1, <3>1, <3>3 DEF Rate, QueryInv
  <2> QED
    BY <1>3, <2>2, <2>3, <2>4, <2>5 DEF RateGiven, Step
<1>4. CASE FetchRows
  <2>1. /\ scan = "finished" /\ UNCHANGED <<scanVars, scalarVars>>
        /\ Projection!Project
    BY <1>4 DEF FetchRows, Ready
  <2>2. PICK c \in Records :
           records' = Append(records, c) /\ rows' = Append(rows, Projection!ProjectCVE(c))
    BY <2>1 DEF Projection!Project
  <2> DEFINE RowOf(r) == Projection!ProjectCVE(r)
  <2> HIDE DEF RowOf
  <2>3. records \in Seq(Records) /\ rows = [i \in 1 .. Len(records) |-> RowOf(records[i])]
    BY DEF QueryInv, RowOf
  <2>4. records' \in Seq(Records) /\ rows' = [i \in 1 .. Len(records') |-> RowOf(records'[i])]
    <3>1. \A i \in 1 .. Len(records) : records[i] \in Records
      BY <2>3
    <3>2. rows \in Seq({RowOf(r) : r \in Records}) /\ Len(rows) = Len(records)
      BY <2>3, <3>1
    <3>3. /\ records' \in Seq(Records) /\ Len(records') = Len(records) + 1
          /\ records'[Len(records) + 1] = c
          /\ \A i \in 1 .. Len(records) : records'[i] = records[i]
      BY <2>2, <2>3
    <3>4. /\ rows' \in Seq({RowOf(r) : r \in Records}) /\ Len(rows') = Len(records')
          /\ rows'[Len(records) + 1] = RowOf(c)
          /\ \A i \in 1 .. Len(records) : rows'[i] = rows[i]
      BY <2>2, <3>2, <3>3 DEF RowOf
    <3>5. \A i \in 1 .. Len(records') : rows'[i] = RowOf(records'[i])
      BY <2>3, <3>3, <3>4
    <3> QED
      BY <3>3, <3>4, <3>5
  <2>5. Rated' /\ out' \in Seq(0 .. 100)
    BY <2>1 DEF QueryInv, scalarVars
  <2> QED
    BY <1>2, <2>1, <2>4, <2>5 DEF RowOf
<1>5. CASE RateRows
  <2> DEFINE scored == {i \in DOMAIN rows : rows[i].Score # NoScore}
             ss == [i \in scored |-> 10 * rows[i].Score]
  <2>1. scan = "finished" /\ Rate(ss) /\ UNCHANGED <<scanVars, records, rows>>
    BY <1>5 DEF RateRows, Ready
  <2>2. \A i \in DOMAIN ss : ss[i] \in Int
    <3>1. ASSUME NEW i \in scored PROVE rows[i].Score \in 0 .. 100
      <4>1. i \in 1 .. Len(records) /\ records[i] \in Records
        BY DEF QueryInv
      <4>2. rows[i] = Projection!ProjectCVE(records[i])
        BY <4>1 DEF QueryInv
      <4> QED
        BY <4>1, <4>2, RowScore
    <3> QED
      BY <3>1
  <2>3. Rated'
    BY <2>1, <2>2, RateFacts
  <2> QED
    BY <1>2, <2>1, <2>3 DEF Rate, QueryInv
<1>6. CASE QueryDone \/ UNCHANGED queryVars
  <2>1. UNCHANGED <<scalarVars, scanVars, records, rows>>
    BY <1>6 DEF QueryDone, queryVars
  <2> QED
    BY <1>0, <2>1 DEF QueryInv, scalarVars, scanVars
<1> QED
  BY <1>1, <1>3, <1>4, <1>5, <1>6 DEF QueryNext

(* At any moment of a statement: the bands are whole before anything is    *)
(* rated, severities are those of numbers, and rows those of records.      *)
THEOREM QueryInvariant == QuerySpec => []QueryInv
<1>1. QueryInit => QueryInv
  <2> SUFFICES ASSUME QueryInit PROVE QueryInv
    OBVIOUS
  <2>1. records = <<>> /\ rows = <<>> /\ Len(<<>>) = 0
    BY DEF QueryInit, Projection!Init
  <2>2. rows = [i \in 1 .. Len(records) |-> Projection!ProjectCVE(records[i])]
    BY <2>1
  <2> QED
    BY <2>1, <2>2, InitBands DEF QueryInit, QueryInv, Init
<1> QED
  BY <1>1, NextQuery, PTL DEF QuerySpec

(* Function, bands and rows agree, over the bands as the scan delivered    *)
(* them: a base score joins with exactly one band, the one that            *)
(* cvss_severity names; any double with that one or none.                  *)
THEOREM SeverityAgrees == QuerySpec => []SeverityIsItsBand
<1>1. QueryInv => SeverityIsItsBand
  <2> SUFFICES ASSUME QueryInv PROVE SeverityIsItsBand
    OBVIOUS
  <2>1. ASSUME scan = "finished" PROVE delivered = SeverityBands /\ DOMAIN delivered = 1 .. 5
    <3>1. delivered = SeverityBands
      BY <2>1, BandsFacts DEF QueryInv, Bands!BandsInv
    <3>2. DOMAIN SeverityBands = 1 .. 5
      BY DEF SeverityBands
    <3> QED
      BY <3>1, <3>2
  <2>2. ASSUME scan = "finished", NEW t \in 0 .. 100
        PROVE  \E j \in 1 .. 5 : Joined(10 * t) = {j} /\ delivered[j].severity = Severity(10 * t)
    <3>1. PICK j \in 1 .. 5 :
             /\ SeverityBands[j].severity = Severity(10 * t)
             /\ \A k \in 1 .. 5 :
                   (10 * t >= 10 * SeverityBands[k].min /\ 10 * t <= 10 * SeverityBands[k].max)
                       <=> k = j
      BY OneBand
    <3>2. Joined(10 * t) = {j}
      BY <2>1, <2>2, <3>1 DEF Joined
    <3> QED
      BY <2>1, <2>2, <3>1, <3>2
  <2>3. ASSUME NEW i \in DOMAIN severities
        PROVE  /\ args[i] \in BaseScores => Cardinality(Joined(args[i])) = 1
               /\ \A j \in Joined(args[i]) : delivered[j].severity = severities[i]
    <3>1. scan = "finished"
      BY <2>3 DEF QueryInv
    <3>2. args[i] \in Int /\ severities[i] = Severity(args[i])
      BY <2>3 DEF QueryInv
    <3>3. ASSUME args[i] \in BaseScores PROVE Cardinality(Joined(args[i])) = 1
      <4>1. PICK t \in 0 .. 100 : args[i] = 10 * t
        BY <3>3 DEF BaseScores
      <4>2. PICK j : Joined(args[i]) = {j}
        BY <2>2, <3>1, <4>1
      <4> QED
        BY <4>2, FS_Singleton
    <3>4. ASSUME NEW j \in Joined(args[i]) PROVE delivered[j].severity = severities[i]
      BY <2>1, <3>1, <3>2, NoOtherBand DEF Joined
    <3> QED
      BY <3>3, <3>4
  <2>4. ASSUME NEW i \in DOMAIN rows, rows[i].Score # NoScore, Unstated(records[i])
        PROVE  {delivered[j].severity : j \in Joined(10 * rows[i].Score)} = {rows[i].SeverityStr}
    <3> DEFINE all == Projection!AllMetrics(records[i])
    <3>1. scan = "finished"
      BY <2>4 DEF QueryInv
    <3>2. records[i] \in Records /\ rows[i] = Projection!ProjectCVE(records[i])
      BY <2>4 DEF QueryInv
    <3>3. /\ 1 \in DOMAIN all /\ all[1] \in Projection!CVSSData
          /\ rows[i].Score = all[1].baseScore
          /\ rows[i].SeverityStr = IF all[1].baseSeverity # "" THEN all[1].baseSeverity
                                   ELSE Severity(10 * all[1].baseScore)
      BY <2>4, <3>2, FirstMetric
    <3>4. all[1].baseSeverity = ""
      BY <2>4 DEF Unstated
    <3>5. rows[i].Score \in 0 .. 100 /\ rows[i].SeverityStr = Severity(10 * rows[i].Score)
      BY <3>3, <3>4 DEF Projection!CVSSData
    <3>6. PICK j \in 1 .. 5 : /\ Joined(10 * rows[i].Score) = {j}
                              /\ delivered[j].severity = Severity(10 * rows[i].Score)
      BY <2>2, <3>1, <3>5
    <3> QED
      BY <3>5, <3>6
  <2> QED
    BY <2>3, <2>4 DEF SeverityIsItsBand
<1> QED
  BY <1>1, QueryInvariant, PTL

(* Score, vector and severity of a row are those of one metric, the first  *)
(* of the newest version: the severity stated with the score, and the band *)
(* only of a metric that does not state it there.  A row without metrics   *)
(* has none of them.                                                       *)
THEOREM RowsShowOneMetric == QuerySpec => []OneMetric
<1>1. QueryInv => OneMetric
  <2> SUFFICES ASSUME QueryInv, NEW i \in DOMAIN rows
               PROVE  LET all   == Projection!AllMetrics(records[i])
                          row   == rows[i]
                          outer == Projection!OuterSeverity(records[i])
                          band  == Projection!Severity(10 * row.Score)
                      IN  IF all = <<>>
                          THEN row.Score = NoScore /\ row.SeverityStr = "" /\ row.Vector = ""
                          ELSE /\ row.Score = all[1].baseScore /\ row.Vector = all[1].vectorString
                               /\ all[1].baseSeverity # "" => row.SeverityStr = all[1].baseSeverity
                               /\ all[1].baseSeverity = "" /\ outer = "" => row.SeverityStr = band
                               /\ all[1].baseSeverity = "" /\ outer # ""
                                     => row.SeverityStr \in {outer, band}
    BY DEF OneMetric, Projection!OneMetric
  <2>1. records[i] \in Records /\ rows[i] = Projection!ProjectCVE(records[i])
    BY DEF QueryInv
  <2>2. \A x : Projection!Severity(x) = Severity(x)
    BY DEF Projection!Severity, Severity
  <2> QED
    BY <2>1, <2>2, FirstMetric
<1> QED
  BY <1>1, QueryInvariant, PTL

(* No row loses a description or a CWE that its record has, or shows       *)
(* another language when there is English.                                 *)
THEOREM RowsKeepTexts == QuerySpec => []TextsAreKept
<1>1. QueryInv => TextsAreKept
  <2> SUFFICES ASSUME QueryInv, NEW i \in DOMAIN rows
               PROVE
        LET ds == records[i].descriptions
            ws == records[i].weaknesses
            shown(j) == rows[i].Description = ds[j].value
            named == CWEs \cap UNION {Projection!ToSet(ws[k]) : k \in DOMAIN ws}
        IN  /\ ds # <<>> => \E j \in DOMAIN ds : shown(j)
            /\ (\E j \in DOMAIN ds : Projection!English(ds[j])) =>
                  \E j \in DOMAIN ds : Projection!English(ds[j]) /\ shown(j)
            /\ IF named = {} THEN rows[i].CWE = "" ELSE rows[i].CWE \in named
    BY DEF TextsAreKept, Projection!TextsAreKept
  <2> DEFINE c == records[i]
  <2>1. c \in Records /\ rows[i] = Projection!ProjectCVE(c)
    BY DEF QueryInv
  <2> HIDE DEF c
  <2>2. /\ rows[i].Description = Projection!EnglishOr(c.descriptions)
        /\ rows[i].CWE = Projection!FirstCWE(c.weaknesses)
    BY <2>1, RowTexts
  <2>3. /\ c.descriptions \in Seq(ToSet(c.descriptions))
        /\ \E S : c.weaknesses \in Seq(Seq(S))
    BY <2>1, QueryAssumption
  <2> DEFINE ds == c.descriptions   d == rows[i].Description
             named == CWEs \cap UNION {Projection!ToSet(c.weaknesses[k]) : k \in DOMAIN c.weaknesses}
  <2>5. /\ ds # <<>> => \E j \in DOMAIN ds : d = ds[j].value
        /\ (\E j \in DOMAIN ds : Projection!English(ds[j])) =>
              \E j \in DOMAIN ds : Projection!English(ds[j]) /\ d = ds[j].value
    <3>1. PICK S : ds \in Seq(S)
      BY <2>3
    <3>2. d = Projection!EnglishOr(ds)
      BY <2>2
    <3> HIDE DEF ds, d
    <3> QED
      BY <3>1, <3>2, DescriptionKept
  <2>6. IF named = {} THEN rows[i].CWE = "" ELSE rows[i].CWE \in named
    BY <2>2, <2>3, CWEKept
  <2> QED
    BY <2>5, <2>6 DEF c
<1> QED
  BY <1>1, QueryInvariant, PTL

-----------------------------------------------------------------------------
(* Vectors: the loop over the tokens, by induction over them, and what it  *)
(* makes of a vector as a whole.                                           *)

Start == [metrics |-> NoMetrics, problem |-> NoProblem]

(* The recursion over the tokens has a solution, and so computes what its  *)
(* definition says.                                                        *)
LEMMA TokensParsed ==
    ASSUME NEW vector, Len(vector) \in Nat,
           NEW p, p = ParseTokens(vector)
    PROVE  /\ p[0] = Start
           /\ \A n \in 1 .. Len(vector) : p[n] = ParseToken(p[n - 1], vector[n])
<1> DEFINE body(g, m) ==
              [n \in 0 .. m |-> IF n = 0 THEN Start ELSE ParseToken(g[n - 1], vector[n])]
           T == {m \in Nat : \E g : g = body(g, m)}
<1>1. 0 \in T
  <2> DEFINE g == [n \in 0 .. 0 |-> Start]
  <2>1. g = body(g, 0)
    OBVIOUS
  <2> QED
    BY <2>1
<1>2. ASSUME NEW m \in Nat, m \in T PROVE m + 1 \in T
  <2>1. PICK g : g = body(g, m)
    BY <1>2
  <2> DEFINE h == [n \in 0 .. m + 1 |->
                      IF n = m + 1 THEN ParseToken(g[m], vector[m + 1]) ELSE g[n]]
  <2>2. ASSUME NEW n \in 0 .. m + 1
        PROVE  h[n] = IF n = 0 THEN Start ELSE ParseToken(h[n - 1], vector[n])
    <3>1. CASE n = 0
      BY <2>1, <3>1
    <3>2. CASE n = m + 1
      BY <3>2
    <3>3. CASE n \in 1 .. m
      <4>1. h[n] = g[n] /\ h[n - 1] = g[n - 1]
        BY <3>3
      <4>2. g[n] = ParseToken(g[n - 1], vector[n])
        BY <2>1, <3>3
      <4> QED
        BY <3>3, <4>1, <4>2
    <3> QED
      BY <3>1, <3>2, <3>3
  <2>3. h = body(h, m + 1)
    BY <2>2
  <2> HIDE DEF h
  <2> QED
    BY <2>3
<1>3. \E g : g = body(g, Len(vector))
  <2> HIDE DEF T
  <2>1. Len(vector) \in T
    BY <1>1, <1>2, NatSteps
  <2> QED
    BY <2>1 DEF T
<1>4. p = body(p, Len(vector))
  BY <1>3 DEF ParseTokens, Start
<1> QED
  BY <1>4

(* What a prefix of the tokens says. *)
Problems ==
    [what : {"none", "malformed", "version", "empty", "missing", "invalid"},
     key : DOMAIN Values \cup {""}]

LEMMA Keys ==
    /\ DOMAIN Values = {"AV", "AC", "UI", "C", "I", "A", "S", "PR"}
    /\ \A key \in DOMAIN Values :
          key \notin {"", "?", "CVSS"} /\ "nothing" \notin Values[key]
    /\ \A what \in {"none", "malformed", "version", "empty"} : Problem(what, "") \in Problems
    /\ \A key \in DOMAIN Values, what \in {"missing", "invalid"} : Problem(what, key) \in Problems
    /\ NoProblem \in Problems
<1>1. DOMAIN Values = {"AV", "AC", "UI", "C", "I", "A", "S", "PR"}
  BY DEF Values
<1>2. /\ Values["AV"] = {"N", "A", "L", "P"} /\ Values["AC"] = {"L", "H"}
      /\ Values["UI"] = {"N", "R"} /\ Values["C"] = {"H", "L", "N"}
      /\ Values["I"] = {"H", "L", "N"} /\ Values["A"] = {"H", "L", "N"}
      /\ Values["S"] = {"U", "C"} /\ Values["PR"] = {"N", "L", "H"}
  BY DEF Values, AttackVector, AttackComplexity, UserInteraction, CIA, PrivilegesRequired
<1>3. \A key \in DOMAIN Values :
         key \notin {"", "?", "CVSS"} /\ "nothing" \notin Values[key]
  <2>1. /\ "nothing" \notin Values["AV"] /\ "nothing" \notin Values["AC"]
        /\ "nothing" \notin Values["UI"] /\ "nothing" \notin Values["C"]
        /\ "nothing" \notin Values["I"] /\ "nothing" \notin Values["A"]
        /\ "nothing" \notin Values["S"] /\ "nothing" \notin Values["PR"]
    BY <1>2
  <2> QED
    BY <1>1, <2>1
<1>4. /\ \A what \in {"none", "malformed", "version", "empty"} : Problem(what, "") \in Problems
      /\ \A key \in DOMAIN Values, what \in {"missing", "invalid"} : Problem(what, key) \in Problems
  BY DEF Problem, Problems
<1> QED
  BY <1>1, <1>3, <1>4 DEF NoProblem

Read(vector, n, p) ==
    /\ p = [metrics |-> p.metrics, problem |-> p.problem]
    /\ p.problem \in Problems
    /\ p.problem = NoProblem <=> \A i \in 1 .. n : ~Offends(vector[i])
    /\ p.problem = NoProblem => \A key \in DOMAIN Values :
          /\ key \in DOMAIN p.metrics <=> \E i \in 1 .. n : vector[i].key = key
          /\ \A i \in 1 .. n :
                (vector[i].key = key /\ \A j \in i + 1 .. n : vector[j].key # key) =>
                    p.metrics[key] = vector[i].val

LEMMA OneToken ==
    ASSUME NEW vector, NEW n \in Nat, NEW p, Read(vector, n, p),
           NEW q, q = ParseToken(p, vector[n + 1])
    PROVE  Read(vector, n + 1, q)
<1> DEFINE t == vector[n + 1]
<1>1. \A i \in 1 .. n + 1 : i \in 1 .. n \/ i = n + 1
  OBVIOUS
<1>a. n + 1 \in 1 .. n + 1 /\ \A i \in 1 .. n : i \in 1 .. n + 1
  OBVIOUS
<1>b. Problem("malformed", "") # NoProblem /\ Problem("version", "") # NoProblem
  BY DEF Problem, NoProblem
<1>c. /\ t = Blank => t.key = "" /\ ~Offends(t)
      /\ t = Malformed => t.key = "?" /\ t # Blank
  <2>1. /\ Blank.key = "" /\ Malformed.key = "?" /\ Blank # Malformed
    BY DEF Blank, Malformed, Metric
  <2> QED
    BY <2>1 DEF Offends
<1>2. CASE p.problem # NoProblem
  <2>1. q = p
    BY <1>2 DEF ParseToken
  <2>2. \E i \in 1 .. n + 1 : Offends(vector[i])
    BY <1>2, <1>a DEF Read
  <2> QED
    BY <1>2, <2>1, <2>2 DEF Read
<1>3. ASSUME p.problem = NoProblem, Offends(t), q.problem \in Problems, q.problem # NoProblem,
             q = [metrics |-> q.metrics, problem |-> q.problem]
      PROVE  Read(vector, n + 1, q)
  BY <1>3, <1>a DEF Read
<1>4. ASSUME p.problem = NoProblem, ~Offends(t), q = p, t.key \notin DOMAIN Values
      PROVE  Read(vector, n + 1, q)
  <2>1. \A i \in 1 .. n + 1 : ~Offends(vector[i])
    BY <1>1, <1>4 DEF Read
  <2>2. ASSUME NEW key \in DOMAIN Values
        PROVE  /\ key \in DOMAIN q.metrics <=> \E i \in 1 .. n + 1 : vector[i].key = key
               /\ \A i \in 1 .. n + 1 :
                    (vector[i].key = key /\ \A j \in i + 1 .. n + 1 : vector[j].key # key) =>
                        q.metrics[key] = vector[i].val
    <3>1. t.key # key
      BY <1>4, <2>2
    <3>2. key \in DOMAIN q.metrics <=> \E i \in 1 .. n + 1 : vector[i].key = key
      BY <1>1, <1>a, <1>4, <3>1 DEF Read
    <3>3. ASSUME NEW i \in 1 .. n + 1,
                 vector[i].key = key, \A j \in i + 1 .. n + 1 : vector[j].key # key
          PROVE  q.metrics[key] = vector[i].val
      <4>1. i \in 1 .. n
        BY <1>1, <3>1, <3>3
      <4>2. \A j \in i + 1 .. n : vector[j].key # key
        BY <3>3
      <4> QED
        BY <1>4, <3>3, <4>1, <4>2 DEF Read
    <3> QED
      BY <3>2, <3>3
  <2> QED
    BY <1>4, <2>1, <2>2 DEF Read
<1>5. ASSUME p.problem = NoProblem, ~Offends(t), q = [p EXCEPT !.metrics = Put(@, t)]
      PROVE  Read(vector, n + 1, q)
  <2>0. /\ q = [metrics |-> q.metrics, problem |-> q.problem]
        /\ q.metrics = Put(p.metrics, t) /\ q.problem = NoProblem
    <3>1. p = [metrics |-> p.metrics, problem |-> p.problem]
      BY DEF Read
    <3> HIDE DEF t
    <3> QED
      BY <1>5, <3>1
  <2>1. \A i \in 1 .. n + 1 : ~Offends(vector[i])
    BY <1>1, <1>5 DEF Read
  <2>2. ASSUME NEW key \in DOMAIN Values
        PROVE  /\ key \in DOMAIN q.metrics <=> \E i \in 1 .. n + 1 : vector[i].key = key
               /\ \A i \in 1 .. n + 1 :
                    (vector[i].key = key /\ \A j \in i + 1 .. n + 1 : vector[j].key # key) =>
                        q.metrics[key] = vector[i].val
    <3>0. /\ DOMAIN q.metrics = DOMAIN p.metrics \cup {t.key}
          /\ \A k \in DOMAIN q.metrics :
                q.metrics[k] = IF k = t.key THEN t.val ELSE p.metrics[k]
      BY <2>0 DEF Put
    <3>1. key \in DOMAIN p.metrics <=> \E i \in 1 .. n : vector[i].key = key
      BY <1>5 DEF Read
    <3>2. key \in DOMAIN q.metrics <=> \E i \in 1 .. n + 1 : vector[i].key = key
      BY <1>1, <1>a, <3>0, <3>1
    <3>3. ASSUME NEW i \in 1 .. n + 1,
                 vector[i].key = key, \A j \in i + 1 .. n + 1 : vector[j].key # key
          PROVE  q.metrics[key] = vector[i].val
      <4>0. key \in DOMAIN q.metrics
        BY <3>2, <3>3
      <4>1. CASE i = n + 1
        BY <3>0, <3>3, <4>0, <4>1
      <4>2. CASE i \in 1 .. n
        <5>1. t.key # key
          BY <3>3, <4>2
        <5>2. \A j \in i + 1 .. n : vector[j].key # key
          BY <3>3
        <5>3. p.metrics[key] = vector[i].val
          BY <1>5, <3>3, <4>2, <5>2 DEF Read
        <5> QED
          BY <3>0, <4>0, <5>1, <5>3
      <4> QED
        BY <1>1, <4>1, <4>2
    <3> QED
      BY <3>2, <3>3
  <2> QED
    BY <2>0, <2>1, <2>2, Keys DEF Read
<1>6. ASSUME NEW b, b \in {Problem("malformed", ""), Problem("version", "")},
             p.problem = NoProblem, Offends(t), q = [p EXCEPT !.problem = b]
      PROVE  Read(vector, n + 1, q)
  <2>1. p = [metrics |-> p.metrics, problem |-> p.problem]
    BY DEF Read
  <2>2. q = [metrics |-> q.metrics, problem |-> q.problem] /\ q.problem = b
    BY <1>6, <2>1
  <2>3. b \in Problems /\ b # NoProblem
    BY <1>6, <1>b, Keys
  <2> QED
    BY <1>3, <1>6, <2>2, <2>3
<1>7. CASE p.problem = NoProblem /\ t = Blank
  <2>1. q = p
    BY <1>7 DEF ParseToken
  <2> QED
    BY <1>4, <1>7, <1>c, <2>1, Keys
<1>8. CASE p.problem = NoProblem /\ t # Blank /\ t = Malformed
  <2>1. q = [p EXCEPT !.problem = Problem("malformed", "")]
    BY <1>8, <1>c DEF ParseToken
  <2> QED
    BY <1>6, <1>8, <2>1 DEF Offends
<1>9. CASE p.problem = NoProblem /\ t # Blank /\ t # Malformed /\ t.key = "CVSS"
  <2>1. CASE t.val \in {"3.0", "3.1"}
    <3>1. q = p /\ ~Offends(t)
      BY <1>9, <2>1 DEF ParseToken, Offends
    <3> QED
      BY <1>4, <1>9, <3>1, Keys
  <2>2. CASE t.val \notin {"3.0", "3.1"}
    <3>1. q = [p EXCEPT !.problem = Problem("version", "")] /\ Offends(t)
      BY <1>9, <2>2 DEF ParseToken, Offends
    <3> QED
      BY <1>6, <1>9, <3>1
  <2> QED
    BY <2>1, <2>2
<1>10. CASE p.problem = NoProblem /\ t # Blank /\ t # Malformed /\ t.key # "CVSS"
  <2>1. q = [p EXCEPT !.metrics = Put(@, t)]
    BY <1>10 DEF ParseToken
  <2>2. ~Offends(t)
    BY <1>10 DEF Offends
  <2> QED
    BY <1>5, <1>10, <2>1, <2>2
<1> QED
  BY <1>2, <1>7, <1>8, <1>9, <1>10

LEMMA AllTokens ==
    ASSUME NEW vector, Len(vector) \in Nat
    PROVE  Read(vector, Len(vector), ParseTokens(vector)[Len(vector)])
<1> DEFINE p == ParseTokens(vector)
           T == {n \in Nat : n <= Len(vector) => Read(vector, n, p[n])}
<1>0. p[0] = Start /\ \A n \in 1 .. Len(vector) : p[n] = ParseToken(p[n - 1], vector[n])
  BY TokensParsed
<1> HIDE DEF p
<1>1. 0 \in T
  <2>1. /\ Start = [metrics |-> Start.metrics, problem |-> Start.problem]
        /\ Start.problem = NoProblem /\ DOMAIN Start.metrics = {}
    BY DEF Start, NoMetrics
  <2>2. Read(vector, 0, Start)
    <3>1. \A i : i \notin 1 .. 0
      OBVIOUS
    <3>2. Start.problem \in Problems
      BY <2>1, Keys
    <3>3. \A key \in DOMAIN Values :
             key \in DOMAIN Start.metrics <=> \E i \in 1 .. 0 : vector[i].key = key
      BY <2>1, <3>1
    <3> HIDE DEF Start
    <3> QED
      BY <2>1, <3>1, <3>2, <3>3 DEF Read
  <2> QED
    BY <1>0, <2>2
<1>2. ASSUME NEW n \in Nat, n \in T PROVE n + 1 \in T
  <2>1. ASSUME n + 1 <= Len(vector) PROVE Read(vector, n + 1, p[n + 1])
    <3>1. Read(vector, n, p[n])
      BY <1>2, <2>1
    <3>2. p[n + 1] = ParseToken(p[n], vector[n + 1])
      BY <1>0, <2>1
    <3> QED
      BY <3>1, <3>2, OneToken
  <2> QED
    BY <2>1
<1>3. Len(vector) \in T
  <2> HIDE DEF T
  <2> QED
    BY <1>1, <1>2, NatSteps
<1> QED
  BY <1>3 DEF p

(* What a whole vector says. *)
LEMMA LastSays ==
    ASSUME NEW vector, Len(vector) \in Nat, DOMAIN vector = 1 .. Len(vector), NEW key
    PROVE  \/ /\ Says(vector, key) = "nothing"
              /\ \A i \in 1 .. Len(vector) : vector[i].key # key
           \/ \E i \in 1 .. Len(vector) :
                 /\ vector[i].key = key /\ \A j \in i + 1 .. Len(vector) : vector[j].key # key
                 /\ Says(vector, key) = vector[i].val
<1> DEFINE at == {i \in DOMAIN vector : vector[i].key = key}
           last(i) == i \in at /\ \A j \in at : j <= i
<1>1. CASE at = {}
  BY <1>1 DEF Says
<1>2. CASE at # {}
  <2> DEFINE T == {n \in Nat : \E i \in at : n = Len(vector) - i}
  <2>1. T # {}
    <3>1. PICK i \in at : TRUE
      BY <1>2
    <3>2. Len(vector) - i \in T
      BY <3>1
    <3> QED
      BY <3>2
  <2>2. PICK n \in T : \A m \in T : n <= m
    <3>1. T \subseteq Nat
      OBVIOUS
    <3> HIDE DEF T
    <3> QED
      BY <2>1, <3>1, LeastElement
  <2>3. \E i : last(i)
    <3>1. PICK i \in at : n = Len(vector) - i
      BY <2>2
    <3>2. ASSUME NEW j \in at PROVE j <= i
      <4>1. Len(vector) - j \in T
        OBVIOUS
      <4> HIDE DEF T
      <4>2. Len(vector) - i <= Len(vector) - j
        BY <2>2, <3>1, <4>1
      <4> QED
        BY <4>2
    <3> QED
      BY <3>1, <3>2
  <2> DEFINE i == CHOOSE i \in at : \A j \in at : j <= i
  <2>4. last(i)
    BY <2>3
  <2>5. Says(vector, key) = vector[i].val
    BY <1>2 DEF Says
  <2> HIDE DEF i
  <2>6. \A j \in i + 1 .. Len(vector) : vector[j].key # key
    BY <2>4
  <2>7. i \in 1 .. Len(vector) /\ vector[i].key = key
    BY <2>4
  <2> QED
    BY <2>5, <2>6, <2>7
<1> QED
  BY <1>1, <1>2

LEMMA SameScore ==
    ASSUME NEW m, NEW n, \A key \in DOMAIN Values : m[key] = n[key]
    PROVE  Score(m) = Score(n)
<1>1. /\ m.AV = n.AV /\ m.AC = n.AC /\ m.UI = n.UI /\ m.C = n.C /\ m.I = n.I /\ m.A = n.A
      /\ m.S = n.S /\ m.PR = n.PR
  BY Keys
<1>2. IscBase(m) = IscBase(n) /\ Changed(m) = Changed(n)
  BY <1>1 DEF IscBase, Changed
<1>3. Exploitability(m) = Exploitability(n)
  BY <1>1 DEF Exploitability
<1>4. Impact(m) = Impact(n)
  BY <1>2 DEF Impact
<1>5. Raw(m) = Raw(n)
  BY <1>2, <1>3, <1>4 DEF Raw
<1> QED
  BY <1>4, <1>5 DEF Score

LEMMA WhatIsFaulty ==
    ASSUME NEW metrics
    PROVE  /\ Faulty(metrics) = {} <=>
                 \A key \in DOMAIN Values : Lookup(metrics, key) = NoProblem
           /\ Faulty(metrics) # {} => 
                 LET b == Lookup(metrics, Required[Min(Faulty(metrics))])
                 IN  b \in Problems /\ b # NoProblem
<1>1. /\ DOMAIN Required = 1 .. 8
      /\ Required[1] = "AV" /\ Required[2] = "AC" /\ Required[3] = "UI" /\ Required[4] = "C"
      /\ Required[5] = "I" /\ Required[6] = "A" /\ Required[7] = "S" /\ Required[8] = "PR"
  BY DEF Required
<1>2. /\ \A i \in 1 .. 8 : Required[i] \in DOMAIN Values
      /\ \A key \in DOMAIN Values : \E i \in 1 .. 8 : Required[i] = key
  <2>1. ASSUME NEW i \in 1 .. 8 PROVE Required[i] \in DOMAIN Values
    <3>1. i = 1 \/ i = 2 \/ i = 3 \/ i = 4 \/ i = 5 \/ i = 6 \/ i = 7 \/ i = 8
      OBVIOUS
    <3> QED
      BY <1>1, <3>1, Keys
  <2>2. ASSUME NEW key \in DOMAIN Values PROVE \E i \in 1 .. 8 : Required[i] = key
    <3>1. \A i \in {1, 2, 3, 4, 5, 6, 7, 8} : i \in 1 .. 8
      OBVIOUS
    <3> QED
      BY <1>1, <3>1, Keys
  <2> QED
    BY <2>1, <2>2
<1>3. Faulty(metrics) = {} <=> \A key \in DOMAIN Values : Lookup(metrics, key) = NoProblem
  BY <1>1, <1>2 DEF Faulty
<1>4. ASSUME Faulty(metrics) # {}
      PROVE  LET b == Lookup(metrics, Required[Min(Faulty(metrics))])
             IN  b \in Problems /\ b # NoProblem
  <2> DEFINE F == Faulty(metrics)
  <2>1. F \subseteq 1 .. 8
    BY <1>1 DEF Faulty
  <2>2. \E i \in F : \A j \in F : i <= j
    <3>1. F \subseteq Nat
      BY <2>1
    <3> HIDE DEF F
    <3> QED
      BY <1>4, <3>1, LeastElement DEF F
  <2>3. Min(F) \in F
    <3> HIDE DEF F
    <3> QED
      BY <2>2 DEF Min
  <2>4. Required[Min(F)] \in DOMAIN Values /\ Lookup(metrics, Required[Min(F)]) # NoProblem
    BY <1>1, <1>2, <2>3 DEF Faulty
  <2>5. ASSUME NEW key \in DOMAIN Values PROVE Lookup(metrics, key) \in Problems
    BY Keys DEF Lookup
  <2> QED
    BY <2>4, <2>5
<1> QED
  BY <1>3, <1>4

LEMMA ScoreOfVector ==
    ASSUME NEW vector, Len(vector) \in Nat, DOMAIN vector = 1 .. Len(vector)
    PROVE  /\ BaseScore(vector).problem \in Problems
           /\ BaseScore(vector).problem = NoProblem <=> WellFormed(vector)
           /\ WellFormed(vector) => BaseScore(vector).score = Score(Reading(vector))
<1> DEFINE p == ParseTokens(vector)[Len(vector)]
           q == ParseVector(vector)
           ok == \A i \in DOMAIN vector : ~Offends(vector[i])
<1>1. Read(vector, Len(vector), p)
  BY AllTokens
<1>2. q = IF p.problem = NoProblem /\ DOMAIN p.metrics = {}
          THEN [p EXCEPT !.problem = Problem("empty", "")] ELSE p
  BY DEF ParseVector
<1> HIDE DEF p, q
<1>3. ok <=> p.problem = NoProblem
  BY <1>1 DEF Read
<1>4. ASSUME NEW key \in DOMAIN Values, p.problem = NoProblem
      PROVE  /\ Lookup(p.metrics, key) = NoProblem <=> Says(vector, key) \in Values[key]
             /\ Lookup(p.metrics, key) = NoProblem => p.metrics[key] = Says(vector, key)
  <2>1. /\ key \in DOMAIN p.metrics <=> \E i \in 1 .. Len(vector) : vector[i].key = key
        /\ \A i \in 1 .. Len(vector) :
              (vector[i].key = key /\ \A j \in i + 1 .. Len(vector) : vector[j].key # key) =>
                  p.metrics[key] = vector[i].val
    BY <1>1, <1>4 DEF Read
  <2>2. CASE key \notin DOMAIN p.metrics
    <3>1. Lookup(p.metrics, key) = Problem("missing", key)
      BY <2>2 DEF Lookup
    <3>2. Lookup(p.metrics, key) # NoProblem
      <4>1. Problem("missing", key).what = "missing" /\ NoProblem.what = "none"
        BY DEF Problem, NoProblem
      <4> QED
        BY <3>1, <4>1
    <3>3. Says(vector, key) = "nothing"
      BY <2>1, <2>2, LastSays
    <3> QED
      BY <3>2, <3>3, Keys
  <2>3. CASE key \in DOMAIN p.metrics
    <3>1. p.metrics[key] = Says(vector, key)
      <4>1. PICK i \in 1 .. Len(vector) :
               /\ vector[i].key = key /\ \A j \in i + 1 .. Len(vector) : vector[j].key # key
               /\ Says(vector, key) = vector[i].val
        <5>1. ~ \A i \in 1 .. Len(vector) : vector[i].key # key
          BY <2>1, <2>3
        <5> QED
          BY <5>1, LastSays
      <4> QED
        BY <2>1, <4>1
    <3>2. Lookup(p.metrics, key) =
              IF p.metrics[key] \in Values[key] THEN NoProblem ELSE Problem("invalid", key)
      BY <2>3 DEF Lookup
    <3>3. Problem("invalid", key) # NoProblem
      BY DEF Problem, NoProblem
    <3> QED
      BY <3>1, <3>2, <3>3
  <2> QED
    BY <2>2, <2>3
<1>5. CASE p.problem # NoProblem
  <2>1. q = p /\ BaseScore(vector).problem = p.problem
    BY <1>2, <1>5 DEF BaseScore, q
  <2> QED
    BY <1>1, <1>3, <1>5, <2>1 DEF Read, WellFormed
<1>6. CASE p.problem = NoProblem /\ DOMAIN p.metrics = {}
  <2>1. q.problem = Problem("empty", "")
    BY <1>1, <1>2, <1>6 DEF Read
  <2>2. Problem("empty", "") # NoProblem
    BY DEF Problem, NoProblem
  <2>3. BaseScore(vector).problem = Problem("empty", "")
    BY <2>1, <2>2 DEF BaseScore, q
  <2>4. Lookup(p.metrics, "AV") # NoProblem
    BY <1>6 DEF Lookup, Problem, NoProblem
  <2>5. ~WellFormed(vector)
    BY <1>4, <1>6, <2>4, Keys DEF WellFormed
  <2> QED
    BY <2>2, <2>3, <2>5, Keys
<1>7. CASE p.problem = NoProblem /\ DOMAIN p.metrics # {} /\ Faulty(p.metrics) # {}
  <2> DEFINE b == Lookup(p.metrics, Required[Min(Faulty(p.metrics))])
  <2>1. q = p
    BY <1>2, <1>7
  <2>2. BaseScore(vector).problem = b
    BY <1>7, <2>1 DEF BaseScore, q
  <2>3. b \in Problems /\ b # NoProblem
    BY <1>7, WhatIsFaulty
  <2>4. ~WellFormed(vector)
    BY <1>4, <1>7, WhatIsFaulty DEF WellFormed
  <2> QED
    BY <2>2, <2>3, <2>4
<1>8. CASE p.problem = NoProblem /\ DOMAIN p.metrics # {} /\ Faulty(p.metrics) = {}
  <2>1. q = p
    BY <1>2, <1>8
  <2>2. BaseScore(vector) = [score |-> Score(p.metrics), problem |-> NoProblem]
    BY <1>8, <2>1 DEF BaseScore, q
  <2>3. \A key \in DOMAIN Values : Lookup(p.metrics, key) = NoProblem
    BY <1>8, WhatIsFaulty
  <2>4. WellFormed(vector)
    BY <1>3, <1>4, <1>8, <2>3 DEF WellFormed
  <2>5. \A key \in DOMAIN Values : p.metrics[key] = Reading(vector)[key]
    BY <1>4, <1>8, <2>3 DEF Reading
  <2>6. Score(p.metrics) = Score(Reading(vector))
    BY <2>5, SameScore
  <2>7. BaseScore(vector).score = Score(p.metrics) /\ BaseScore(vector).problem = NoProblem
    BY <2>2
  <2> QED
    BY <2>4, <2>6, <2>7, Keys
<1> QED
  BY <1>5, <1>6, <1>7, <1>8

-----------------------------------------------------------------------------
(* The rows of a batch. *)

LEMMA BatchVector ==
    ASSUME batch \in Seq(Seq([key : STRING, val : STRING])), NEW i \in 1 .. Len(batch)
    PROVE  Len(batch[i]) \in Nat /\ DOMAIN batch[i] = 1 .. Len(batch[i])
OBVIOUS

LEMMA NextRow ==
    ASSUME RowsInv, Row
    PROVE  RowsInv'
<1> DEFINE n == Len(out)
           v == batch[n + 1]
           r == BaseScore(v)
<1>1. /\ phase = "scoring" /\ n < Len(batch) /\ out' = Append(out, r.score)
      /\ firstErr' = IF firstErr = NoProblem THEN r.problem ELSE firstErr
      /\ UNCHANGED <<phase, batch, args, severities>>
  BY DEF Row, Keep
<1>2. n \in Nat /\ n + 1 \in 1 .. Len(batch) /\ Len(batch) \in Nat
  BY <1>1 DEF RowsInv
<1>3. /\ r.problem = NoProblem <=> WellFormed(v)
      /\ WellFormed(v) => r.score = Score(Reading(v))
  BY <1>2, BatchVector, ScoreOfVector DEF RowsInv
<1>4. r.score \in 0 .. 100
  BY BaseScoreRange
<1> HIDE DEF r, v
<1>5. /\ out' \in Seq(0 .. 100) /\ Len(out') = n + 1 /\ out'[n + 1] = r.score
      /\ \A i \in 1 .. n : out'[i] = out[i]
  BY <1>1, <1>4 DEF RowsInv
<1>6. \A i \in 1 .. n + 1 : i \in 1 .. n \/ i = n + 1
  BY <1>2
<1>a. v = batch[n + 1] /\ n + 1 \in 1 .. n + 1 /\ \A i \in 1 .. n : i \in 1 .. n + 1
  BY <1>2 DEF v
<1> HIDE DEF n
<1>7. RowByRow'
  <2>1. CASE firstErr = NoProblem /\ r.problem = NoProblem
    <3>1. \A i \in 1 .. n : WellFormed(batch[i]) /\ out[i] = Score(Reading(batch[i]))
      BY <2>1 DEF RowsInv, RowByRow, n
    <3>2. firstErr' = NoProblem
      BY <1>1, <2>1
    <3>3. \A i \in 1 .. n + 1 : WellFormed(batch[i]) /\ out'[i] = Score(Reading(batch[i]))
      BY <1>3, <1>5, <1>6, <1>a, <2>1, <3>1
    <3> QED
      BY <1>1, <1>5, <3>2, <3>3 DEF RowByRow
  <2>2. CASE firstErr = NoProblem /\ r.problem # NoProblem
    <3>1. \A i \in 1 .. n : WellFormed(batch[i])
      BY <2>2 DEF RowsInv, RowByRow, n
    <3>2. firstErr' = r.problem /\ firstErr' # NoProblem
      BY <1>1, <2>2
    <3>3. ~WellFormed(batch[n + 1]) /\ firstErr' = BaseScore(batch[n + 1]).problem
      BY <1>3, <1>a, <2>2, <3>2 DEF r
    <3>4. \A j \in 1 .. (n + 1) - 1 : WellFormed(batch[j])
      BY <1>2, <3>1 DEF n
    <3> QED
      BY <1>1, <1>5, <1>a, <3>2, <3>3, <3>4 DEF RowByRow
  <2>3. CASE firstErr # NoProblem
    <3>1. PICK i \in 1 .. n :
             /\ ~WellFormed(batch[i]) /\ firstErr = BaseScore(batch[i]).problem
             /\ \A j \in 1 .. i - 1 : WellFormed(batch[j])
      BY <2>3 DEF RowsInv, RowByRow, n
    <3> QED
      BY <1>1, <1>5, <1>a, <2>3, <3>1 DEF RowByRow
  <2> QED
    BY <2>1, <2>2, <2>3
<1> QED
  BY <1>1, <1>2, <1>5, <1>7 DEF RowsInv, n

LEMMA NextRating ==
    ASSUME RowsInv, phase \in {"idle", "scored"},
           NEW ss, \A i \in DOMAIN ss : ss[i] \in Int, Rate(ss)
    PROVE  RowsInv'
<1>1. /\ phase' = "rated" /\ args' = ss /\ UNCHANGED <<batch, out, firstErr>>
      /\ DOMAIN severities' = DOMAIN ss
      /\ \A i \in DOMAIN ss : severities'[i] = Severity(ss[i])
  BY DEF Rate
<1>2. Len(out) = Len(batch) /\ firstErr = NoProblem
  <2>1. CASE phase = "idle"
    <3>1. batch = <<>> /\ Len(<<>>) = 0 /\ Len(out) \in Nat /\ Len(out) <= Len(batch)
      BY <2>1 DEF RowsInv
    <3> QED
      BY <2>1, <3>1 DEF RowsInv
  <2>2. CASE phase = "scored"
    BY <2>2 DEF RowsInv
  <2> QED
    BY <2>1, <2>2
<1> QED
  BY <1>1, <1>2 DEF RowsInv, RowByRow

LEMMA NextRows == QueryInv /\ RowsInv /\ [QueryNext]_queryVars => RowsInv'
<1> SUFFICES ASSUME QueryInv, RowsInv, [QueryNext]_queryVars PROVE RowsInv'
  OBVIOUS
<1>1. ASSUME UNCHANGED scalarVars PROVE RowsInv'
  BY <1>1 DEF RowsInv, RowByRow, scalarVars
<1>2. CASE RateGiven
  <2>1. CASE Call
    <3>1. batch' \in Seq(Seq([key : STRING, val : STRING])) /\ Len(batch') \in Nat
      BY <2>1, ScalarAssumption DEF Call
    <3>2. batch = <<>> /\ Len(out) = 0 /\ firstErr = NoProblem
      BY <2>1 DEF Call, RowsInv
    <3> QED
      BY <2>1, <3>1, <3>2 DEF Call, RowsInv, RowByRow
  <2>2. CASE Row
    BY <2>2, NextRow
  <2>3. CASE Fail \/ Scored
    BY <2>3 DEF Fail, Scored, RowsInv, RowByRow
  <2>4. CASE RateScores
    <3> DEFINE ss == [i \in DOMAIN out |-> 10 * out[i]]
    <3>1. out \in Seq(0 .. 100)
      BY DEF RowsInv
    <3>2. \A i \in DOMAIN out : out[i] \in 0 .. 100
      <4>1. ASSUME NEW S, NEW s \in Seq(S) PROVE \A i \in DOMAIN s : s[i] \in S
        OBVIOUS
      <4> QED
        BY <3>1, <4>1, Zenon
    <3>3. \A i \in DOMAIN ss : ss[i] \in Int
      BY <3>2
    <3>4. Rate(ss) /\ phase = "scored"
      BY <2>4 DEF RateScores
    <3> HIDE DEF ss
    <3> QED
      BY <3>3, <3>4, NextRating
  <2>5. CASE RateDoubles
    <3>1. PICK ss \in Columns : Rate(ss)
      BY <2>5 DEF RateDoubles
    <3>2. \A i \in DOMAIN ss : ss[i] \in Int
      BY <3>1, ScalarAssumption
    <3> QED
      BY <2>5, <3>1, <3>2, NextRating DEF RateDoubles
  <2> QED
    BY <1>2, <2>1, <2>2, <2>3, <2>4, <2>5 DEF RateGiven, Step
<1>3. CASE RateRows
  <2> DEFINE scored == {i \in DOMAIN rows : rows[i].Score # NoScore}
             ss == [i \in scored |-> 10 * rows[i].Score]
  <2>1. Rate(ss) /\ phase = "idle"
    BY <1>3 DEF RateRows
  <2>2. ASSUME NEW i \in scored PROVE rows[i].Score \in 0 .. 100
    <3>1. i \in 1 .. Len(records) /\ records[i] \in Records
      BY DEF QueryInv
    <3>2. rows[i] = Projection!ProjectCVE(records[i])
      BY <3>1 DEF QueryInv
    <3> QED
      BY <3>1, <3>2, RowScore
  <2>3. \A i \in DOMAIN ss : ss[i] \in Int
    BY <2>2
  <2> HIDE DEF ss
  <2> QED
    BY <2>1, <2>3, NextRating
<1> QED
  BY <1>1, <1>2, <1>3
  DEF QueryNext, ReadBands, Recover, FetchRows, QueryDone, queryVars

(* The loop over a batch never loses track of its first bad row.           *)
THEOREM RowsInvariant == QuerySpec => []RowsInv
<1>1. QueryInit => RowsInv
  <2> SUFFICES ASSUME QueryInit PROVE RowsInv
    OBVIOUS
  <2>1. /\ phase = "idle" /\ batch = <<>> /\ out = <<>> /\ firstErr = NoProblem
        /\ args = <<>> /\ severities = <<>> /\ Len(<<>>) = 0
    BY DEF QueryInit, Init
  <2>2. <<>> \in Seq(0 .. 100) /\ <<>> \in Seq(Seq([key : STRING, val : STRING]))
    OBVIOUS
  <2>3. \A i : i \notin 1 .. 0 /\ i \notin DOMAIN args
    BY <2>1
  <2> QED
    BY <2>1, <2>2, <2>3 DEF RowsInv, RowByRow
<1> QED
  BY <1>1, NextRows, QueryInvariant, PTL DEF QuerySpec

(* A batch succeeds exactly when all its vectors are well formed, each row *)
(* then has the score of what its vector says, and a batch that fails does *)
(* so with the error of its first bad row.                                 *)
THEOREM BatchesAreScored == QuerySpec => []RowsAreScored
<1>1. RowsInv => RowsAreScored
  <2> SUFFICES ASSUME RowsInv PROVE RowsAreScored
    OBVIOUS
  <2> DEFINE bad == {i \in DOMAIN batch : ~WellFormed(batch[i])}
  <2>0. DOMAIN batch = 1 .. Len(batch) /\ DOMAIN out = 1 .. Len(out) /\ Len(batch) \in Nat
    BY DEF RowsInv
  <2>1. ASSUME phase \in {"scored", "rated"}
        PROVE  bad = {} /\ out = [i \in DOMAIN batch |-> Score(Reading(batch[i]))]
    <3>1. Len(out) = Len(batch) /\ firstErr = NoProblem
      BY <2>1 DEF RowsInv
    <3>2. \A i \in 1 .. Len(batch) :
             WellFormed(batch[i]) /\ out[i] = Score(Reading(batch[i]))
      BY <3>1 DEF RowsInv, RowByRow
    <3>3. out = [i \in DOMAIN out |-> out[i]]
      BY DEF RowsInv
    <3> QED
      BY <2>0, <3>1, <3>2, <3>3
  <2>2. ASSUME phase = "failed"
        PROVE  \E i \in bad :
                  (\A j \in bad : i <= j) /\ firstErr = BaseScore(batch[i]).problem
    <3>1. Len(out) = Len(batch) /\ firstErr # NoProblem
      BY <2>2 DEF RowsInv
    <3>2. PICK i \in 1 .. Len(batch) :
             /\ ~WellFormed(batch[i]) /\ firstErr = BaseScore(batch[i]).problem
             /\ \A j \in 1 .. i - 1 : WellFormed(batch[j])
      BY <3>1 DEF RowsInv, RowByRow
    <3>3. i \in bad /\ \A j \in bad : i <= j
      BY <2>0, <3>2
    <3> QED
      BY <3>2, <3>3
  <2> QED
    BY <2>1, <2>2 DEF RowsAreScored
<1> QED
  BY <1>1, RowsInvariant, PTL

(* The types of the scalar functions' state, also of the error kept.       *)
THEOREM ScalarTypes == QuerySpec => []TypeOK
<1>1. RowsInv => TypeOK
  <2> SUFFICES ASSUME RowsInv PROVE TypeOK
    OBVIOUS
  <2>1. firstErr \in Problems
    <3>1. CASE firstErr = NoProblem
      BY <3>1, Keys
    <3>2. CASE firstErr # NoProblem
      <4>1. PICK i \in 1 .. Len(out) : firstErr = BaseScore(batch[i]).problem
        BY <3>2 DEF RowsInv, RowByRow
      <4>2. i \in 1 .. Len(batch)
        BY DEF RowsInv
      <4> QED
        BY <4>1, <4>2, BatchVector, ScoreOfVector DEF RowsInv
    <3> QED
      BY <3>1, <3>2
  <2>2. \A s : Severity(s) \in {"NONE", "LOW", "MEDIUM", "HIGH", "CRITICAL"}
    BY DEF Severity
  <2> QED
    BY <2>1, <2>2 DEF RowsInv, TypeOK, Problems
<1> QED
  BY <1>1, RowsInvariant, PTL

(* The readings of scored rows are complete. *)
LEMMA ReadingComplete ==
    ASSUME RowsInv, NEW m \in Readings
    PROVE  Complete(m) /\ DOMAIN m = DOMAIN Values
<1>1. PICK i \in DOMAIN batch : m = Reading(batch[i]) /\ phase = "scored"
  BY DEF Readings
<1>2. WellFormed(batch[i])
  <2>1. i \in 1 .. Len(out) /\ firstErr = NoProblem
    BY <1>1 DEF RowsInv
  <2> QED
    BY <2>1 DEF RowsInv, RowByRow
<1>3. \A key \in DOMAIN Values : m[key] \in Values[key]
  BY <1>1, <1>2 DEF WellFormed, Reading
<1> QED
  BY <1>1, <1>3, Keys DEF Complete, Reading

(* Only a vulnerability without impact scores 0.0, and no score exceeds    *)
(* 10.0.                                                                   *)
THEOREM ZeroMeansNoImpact == QuerySpec => []ScoreIsZeroWithoutImpact
<1>1. RowsInv => ScoreIsZeroWithoutImpact
  <2> SUFFICES ASSUME RowsInv, NEW m \in Readings
               PROVE  /\ Score(m) \in 0 .. 100
                      /\ Score(m) = 0 <=> \A key \in {"C", "I", "A"} : m[key] = "N"
    BY DEF ScoreIsZeroWithoutImpact
  <2>1. Complete(m)
    BY ReadingComplete
  <2>2. \A v \in {"H", "L", "N"} : CIA[v] = 0 <=> v = "N"
    BY DEF CIA
  <2>3. m.C \in {"H", "L", "N"} /\ m.I \in {"H", "L", "N"} /\ m.A \in {"H", "L", "N"}
    BY <2>1 DEF Complete, Values, CIA
  <2> QED
    BY <2>1, <2>2, <2>3, ScoreRange, ZeroScore
<1> QED
  BY <1>1, RowsInvariant, PTL

(* A score is the least tenth not below the equation's value, up to its    *)
(* fifth decimal.                                                          *)
THEOREM ScoresAreRoundedUp == QuerySpec => []RoundedUp
<1>1. RowsInv => RoundedUp
  <2> SUFFICES ASSUME RowsInv, NEW m \in Readings, Score(m) > 0
               PROVE  /\ Score(m) * 10000000 > Raw(m) - 500
                      /\ (Score(m) - 1) * 10000000 <= Raw(m) - 500
    BY DEF RoundedUp
  <2>1. Complete(m)
    BY ReadingComplete
  <2>2. Impact(m) > 0 /\ Score(m) = RoundUp1(Raw(m))
    BY <2>1, ScoreParts DEF Score
  <2> QED
    BY <2>1, <2>2, ScoreParts, RoundUpIsLeast
<1> QED
  BY <1>1, RowsInvariant, PTL

(* A vulnerability that is worse in one metric never has a lower score.    *)
THEOREM WorseScoresNoLower == QuerySpec => []WorseNeverScoresLower
<1>1. ASSUME NEW m, Complete(m), DOMAIN m = DOMAIN Values, NEW key \in DOMAIN Order,
             NEW i \in 1 .. Len(Order[key]) - 1, m[key] = Order[key][i],
             NEW n, n = [m EXCEPT ![key] = Order[key][i + 1]]
      PROVE  Complete(n) /\ NotWorse(m, n)
  <2>1. PICK w : w = Order[key][i + 1] /\ n = [m EXCEPT ![key] = w]
    BY <1>1
  <2>2. \/ key = "AV" /\ m.AV = "P" /\ w = "L"
        \/ key = "AV" /\ m.AV = "L" /\ w = "A"
        \/ key = "AV" /\ m.AV = "A" /\ w = "N"
        \/ key = "AC" /\ m.AC = "H" /\ w = "L"
        \/ key = "PR" /\ m.PR = "H" /\ w = "L"
        \/ key = "PR" /\ m.PR = "L" /\ w = "N"
        \/ key = "UI" /\ m.UI = "R" /\ w = "N"
        \/ key = "S" /\ m.S = "U" /\ w = "C"
        \/ key \in {"C", "I", "A"} /\ m[key] = "N" /\ w = "L"
        \/ key \in {"C", "I", "A"} /\ m[key] = "L" /\ w = "H"
    BY <1>1, <2>1 DEF Order
  <2>3. /\ n[key] = w /\ \A k \in DOMAIN Values : k # key => n[k] = m[k]
    BY <1>1, <2>1, Keys DEF Order
  <2>4. /\ CIA[m.C] <= CIA[m.C] /\ CIA[m.I] <= CIA[m.I] /\ CIA[m.A] <= CIA[m.A]
        /\ AttackVector[m.AV] <= AttackVector[m.AV]
        /\ AttackComplexity[m.AC] <= AttackComplexity[m.AC]
        /\ UserInteraction[m.UI] <= UserInteraction[m.UI]
        /\ PrivilegesRequired[m.S][m.PR] <= PrivilegesRequired[m.S][m.PR]
    <3>1. NotWorse(m, m)
      BY <1>1, NotWorseSelf
    <3> QED
      BY <3>1 DEF NotWorse
  <2>5. CASE key = "AV"
    <3>1. AttackVector[m.AV] <= AttackVector[w] /\ w \in Values["AV"]
      BY <2>2, <2>5 DEF AttackVector, Values
    <3> QED
      BY <1>1, <2>3, <2>4, <2>5, <3>1, Keys DEF Complete, NotWorse, Changed
  <2>6. CASE key = "AC"
    <3>1. AttackComplexity[m.AC] <= AttackComplexity[w] /\ w \in Values["AC"]
      BY <2>2, <2>6 DEF AttackComplexity, Values
    <3> QED
      BY <1>1, <2>3, <2>4, <2>6, <3>1, Keys DEF Complete, NotWorse, Changed
  <2>7. CASE key = "PR"
    <3>1. m.S \in {"U", "C"}
      BY <1>1 DEF Complete, Values, PrivilegesRequired
    <3>2. PrivilegesRequired[m.S][m.PR] <= PrivilegesRequired[m.S][w] /\ w \in Values["PR"]
      BY <2>2, <2>7, <3>1 DEF PrivilegesRequired, Values
    <3> QED
      BY <1>1, <2>3, <2>4, <2>7, <3>2, Keys DEF Complete, NotWorse, Changed
  <2>8. CASE key = "UI"
    <3>1. UserInteraction[m.UI] <= UserInteraction[w] /\ w \in Values["UI"]
      BY <2>2, <2>8 DEF UserInteraction, Values
    <3> QED
      BY <1>1, <2>3, <2>4, <2>8, <3>1, Keys DEF Complete, NotWorse, Changed
  <2>9. CASE key = "S"
    <3>1. m.PR \in {"N", "L", "H"}
      BY <1>1 DEF Complete, Values
    <3>2. /\ PrivilegesRequired[m.S][m.PR] <= PrivilegesRequired[w][m.PR]
          /\ w \in Values["S"] /\ w = "C"
      BY <2>2, <2>9, <3>1 DEF PrivilegesRequired, Values
    <3> QED
      BY <1>1, <2>3, <2>4, <2>9, <3>2, Keys DEF Complete, NotWorse, Changed
  <2>10. CASE key \in {"C", "I", "A"}
    <3>1. /\ CIA[m[key]] <= CIA[w] /\ w \in Values["C"] /\ w \in Values["I"]
          /\ w \in Values["A"]
      BY <2>2, <2>10 DEF CIA, Values
    <3> QED
      BY <1>1, <2>3, <2>4, <2>10, <3>1, Keys DEF Complete, NotWorse, Changed
  <2> QED
    BY <2>2, <2>5, <2>6, <2>7, <2>8, <2>9, <2>10
<1>2. RowsInv => WorseNeverScoresLower
  <2> SUFFICES ASSUME RowsInv, NEW m \in Readings, NEW key \in DOMAIN Order,
                      NEW i \in 1 .. Len(Order[key]) - 1, m[key] = Order[key][i]
               PROVE  Score([m EXCEPT ![key] = Order[key][i + 1]]) >= Score(m)
    BY DEF WorseNeverScoresLower
  <2> DEFINE n == [m EXCEPT ![key] = Order[key][i + 1]]
  <2>1. Complete(m) /\ DOMAIN m = DOMAIN Values
    BY ReadingComplete
  <2>2. Complete(n) /\ NotWorse(m, n)
    BY <1>1, <2>1
  <2> HIDE DEF n
  <2>3. Score(m) <= Score(n)
    BY <2>1, <2>2, ScoreMonotone
  <2>4. Score(m) \in 0 .. 100 /\ Score(n) \in 0 .. 100
    BY <2>1, <2>2, ScoreRange
  <2>5. Score(n) >= Score(m)
    BY <2>3, <2>4
  <2> QED
    BY <2>5 DEF n
<1> QED
  BY <1>2, RowsInvariant, PTL
====
