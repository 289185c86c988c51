--------------------------- MODULE SeverityQuery ---------------------------
(***************************************************************************)
(* A SQL statement that rates scores and joins them with the bands, as     *)
(* main.go:230 suggests ("Join it against a column of scores"):            *)
(*                                                                         *)
(*   SELECT s, cvss_severity(s), b.severity FROM scores                    *)
(*   JOIN cvss_severity_bands() b ON s BETWEEN b.min_score AND b.max_score *)
(*                                                                         *)
(* DuckDB reads the bands first, through a scan of the worker, and then    *)
(* rates the scores: those of vectors (cvss_base_score), of the rows of a  *)
(* table function (cvss_score), or any other doubles.                      *)
(***************************************************************************)
EXTENDS CvssScalar, FiniteSets

CONSTANTS
    Transports, MaxFaults,                     \* of the scan
    Records, Vectors, NoScore, CWEs, PageSize  \* of the rows

VARIABLES
    transport, worker, scan, offset, holder, response, delivered, faults,
    records, rows

Bands      == INSTANCE BandsScan
Projection == INSTANCE CveProjection

ASSUME QueryAssumption ==
    /\ Transports \subseteq {"live", "http"} /\ MaxFaults \in Nat /\ PageSize \in Nat
    /\ "" \notin CWEs
    /\ \A c \in Records :
          /\ c.descriptions \in Seq(ToSet(c.descriptions))
          /\ c.weaknesses \in Seq(Seq(UNION {ToSet(ws) : ws \in ToSet(c.weaknesses)}))
          /\ c.v31 \in Seq(Projection!CVSSData) /\ c.v30 \in Seq(Projection!CVSSData)
          /\ c.v2 \in Seq(Projection!CVSSDataV2)

scanVars  == <<transport, worker, scan, offset, holder, response, delivered, faults>>
queryVars == <<scalarVars, scanVars, records, rows>>

QueryInit == Init /\ Bands!Init /\ Projection!Init

ReadBands == scan # "finished" /\ Bands!Next /\ UNCHANGED <<scalarVars, records, rows>>
Recover   == scan = "finished" /\ Bands!Restart /\ UNCHANGED <<scalarVars, records, rows>>

Ready == scan = "finished" /\ worker = "up"

(* Vectors, or other doubles. *)
RateGiven == Ready /\ rows = <<>> /\ Step /\ UNCHANGED <<scanVars, records, rows>>

(* The rows of a page, and then their scores; a NULL joins with nothing.   *)
FetchRows == Ready /\ phase = "idle" /\ Projection!Project /\ UNCHANGED <<scanVars, scalarVars>>
RateRows  ==
    /\ Ready /\ phase = "idle" /\ Len(rows) = PageSize
    /\ LET scored == {i \in DOMAIN rows : rows[i].Score # NoScore}
       IN  Rate([i \in scored |-> 10 * rows[i].Score])
    /\ UNCHANGED <<scanVars, records, rows>>

QueryDone ==
    /\ scan = "aborted" \/ phase \in {"failed", "rated"}
    /\ UNCHANGED queryVars

QueryNext == ReadBands \/ Recover \/ RateGiven \/ FetchRows \/ RateRows \/ QueryDone
QuerySpec == QueryInit /\ [][QueryNext]_queryVars /\ Bands!Fairness

-----------------------------------------------------------------------------
(* The rows the join makes of a score in hundredths.                       *)
Joined(s) ==
    {j \in DOMAIN delivered : s >= 10 * delivered[j].min /\ s <= 10 * delivered[j].max}

(* What cvss_base_score can return: a tenth from 0.0 to 10.0. *)
BaseScores == {10 * t : t \in 0 .. 100}

(* The metric a row shows states no severity, neither with its score nor,  *)
(* in v2, on itself.                                                       *)
Unstated(c) ==
    LET all == Projection!AllMetrics(c)
    IN  all # <<>> /\ all[1].baseSeverity = "" /\ Projection!OuterSeverity(c) = ""

(* Table, function and column agree (cvss.go:54-57), over the bands as the  *)
(* scan delivered them: a base score joins with exactly one band, the one  *)
(* cvss_severity names, so that no row is doubled or dropped; no double    *)
(* joins with another one; and the severity of a row whose metric states   *)
(* none is its band too.                                                   *)
SeverityIsItsBand ==
    /\ \A i \in DOMAIN severities :
          /\ args[i] \in BaseScores => Cardinality(Joined(args[i])) = 1
          /\ \A j \in Joined(args[i]) : delivered[j].severity = severities[i]
    /\ \A i \in DOMAIN rows :
          (rows[i].Score # NoScore /\ Unstated(records[i])) =>
              {delivered[j].severity : j \in Joined(10 * rows[i].Score)} = {rows[i].SeverityStr}

(* The inductive invariant: nothing is rated before the bands are there,   *)
(* what is rated is a number with the severity of that number, and every   *)
(* row is the projection of its record.                                    *)
QueryInv ==
    /\ Bands!BandsInv
    /\ scan # "finished" => severities = <<>> /\ rows = <<>>
    /\ out \in Seq(0 .. 100)
    /\ \A i \in DOMAIN severities :
          i \in DOMAIN args /\ args[i] \in Int /\ severities[i] = Severity(args[i])
    /\ records \in Seq(Records)
    /\ rows = [i \in 1 .. Len(records) |-> Projection!ProjectCVE(records[i])]

(* Re-stated for the run: see CveProjection and BandsScan. *)
OneMetric    == Projection!OneMetric
TextsAreKept == Projection!TextsAreKept
KeepsPromise == Bands!KeepsPromise
Terminates   == Bands!Terminates
====
