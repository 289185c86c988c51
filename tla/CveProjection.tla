--------------------------- MODULE CveProjection ---------------------------
(***************************************************************************)
(* projectCVE of client.go: the NVD records of a page flattened into rows, *)
(* one after the other.  Scores are in tenths; texts, vectors and          *)
(* identifiers are model values, "" is the empty string, and severities    *)
(* are in upper case already.                                              *)
(***************************************************************************)
EXTENDS Cvss, NvdRecord, SequencesExt

CONSTANTS
    Records,  \* the NVD records
    Vectors,  \* the vector strings in them
    NoScore,  \* the nil Score
    CWEs,     \* the texts that begin with "CWE-"
    PageSize  \* bound: the records of a page

VARIABLES
    records,  \* the records decoded so far
    rows      \* their rows

(* The metrics of v3.x and of v2, with scores from 0.0 to 10.0.            *)
CVSSData == [vectorString : Vectors, baseScore : 0 .. 100, baseSeverity : STRING]
CVSSDataV2 == [cvssData : CVSSData, baseSeverity : STRING]

NoMetricRow(description, cwe) ==
    [Description |-> description, CWE |-> cwe, Score |-> NoScore,
     SeverityStr |-> "", Vector |-> ""]

-----------------------------------------------------------------------------
(* The first English description, or the first one, or none.               *)
(* (A slip: no fall-back to another language.)                             *)
English(d) == d.lang = "en"
EnglishOnly(ds) ==
    LET en == SelectInSeq(ds, English) IN IF en > 0 THEN ds[en].value ELSE ""
EnglishOr(ds) ==
    LET en == SelectInSeq(ds, English)
    IN  CASE en > 0 -> ds[en].value
          [] en = 0 /\ ds # <<>> -> ds[1].value
          [] OTHER -> ""

(* The first text with the prefix, in the order of the record.             *)
FirstCWE(ws) ==
    LET texts == FlattenSeq(ws)
        first == SelectInSeq(texts, LAMBDA text : text \in CWEs)
    IN  IF first = 0 THEN "" ELSE texts[first]

(* (A slip: the stated severity not looked at.) *)
ApplyBand(r, d) ==
    [r EXCEPT !.Score = d.baseScore, !.Vector = d.vectorString,
              !.SeverityStr = Severity(10 * d.baseScore)]
ApplyCVSS(r, d) ==
    [r EXCEPT !.Score = d.baseScore, !.Vector = d.vectorString,
              !.SeverityStr = IF d.baseSeverity # "" THEN d.baseSeverity
                              ELSE Severity(10 * d.baseScore)]

(* applyCVSS leaves no severity empty, so that of the v2 metric is never   *)
(* taken.                                                                  *)
ApplyV2(r, m) ==
    LET applied == ApplyCVSS(r, m.cvssData)
    IN  IF applied.SeverityStr = ""
        THEN [applied EXCEPT !.SeverityStr = m.baseSeverity] ELSE applied

(* (A slip: the oldest version preferred.) *)
ApplyOldest(r, c) ==
    CASE c.v2 # <<>> -> ApplyV2(r, c.v2[1])
      [] c.v2 = <<>> /\ c.v30 # <<>> -> ApplyCVSS(r, c.v30[1])
      [] c.v2 = <<>> /\ c.v30 = <<>> /\ c.v31 # <<>> -> ApplyCVSS(r, c.v31[1])
      [] OTHER -> r
ApplyMetrics(r, c) ==
    CASE c.v31 # <<>> -> ApplyCVSS(r, c.v31[1])
      [] c.v31 = <<>> /\ c.v30 # <<>> -> ApplyCVSS(r, c.v30[1])
      [] c.v31 = <<>> /\ c.v30 = <<>> /\ c.v2 # <<>> -> ApplyV2(r, c.v2[1])
      [] OTHER -> r

ProjectCVE(c) ==
    ApplyMetrics(NoMetricRow(EnglishOr(c.descriptions), FirstCWE(c.weaknesses)), c)

Init == records = <<>> /\ rows = <<>>

(* One turn of the loops over resp.Vulnerabilities. *)
Project ==
    /\ Len(rows) < PageSize
    /\ \E c \in Records :
          records' = Append(records, c) /\ rows' = Append(rows, ProjectCVE(c))

Done == Len(rows) = PageSize /\ UNCHANGED <<records, rows>>
Next == Project \/ Done
Spec == Init /\ [][Next]_<<records, rows>>

-----------------------------------------------------------------------------
(* The metrics of a record, the newest version first. *)
AllMetrics(c) == c.v31 \o c.v30 \o [i \in DOMAIN c.v2 |-> c.v2[i].cvssData]

(* The severity that a v2 metric states on itself, if the row is its.      *)
OuterSeverity(c) ==
    IF c.v31 = <<>> /\ c.v30 = <<>> /\ c.v2 # <<>> THEN c.v2[1].baseSeverity ELSE ""

(* Score, vector and severity of a row come from one metric, the first of  *)
(* the newest version.  A severity stated with the score is the row's,     *)
(* whatever the band of the score (client.go:155-156); only where the      *)
(* metric states none anywhere it is that band, and where a v2 metric      *)
(* states one on itself alone, that or the band (which of them is the      *)
(* matter of V2SeverityIsTheMetrics).  Without metrics the row has a NULL  *)
(* score and no severity (client.go:133-134): NULL and NONE are never      *)
(* confused.                                                               *)
OneMetric ==
    \A i \in DOMAIN rows :
        LET all   == AllMetrics(records[i])
            row   == rows[i]
            outer == OuterSeverity(records[i])
            band  == Severity(10 * row.Score)
        IN  IF all = <<>>
            THEN row.Score = NoScore /\ row.SeverityStr = "" /\ row.Vector = ""
            ELSE /\ row.Score = all[1].baseScore /\ row.Vector = all[1].vectorString
                 /\ all[1].baseSeverity # "" => row.SeverityStr = all[1].baseSeverity
                 /\ all[1].baseSeverity = "" /\ outer = "" => row.SeverityStr = band
                 /\ all[1].baseSeverity = "" /\ outer # "" => row.SeverityStr \in {outer, band}

(* A record with a description is never shown without one, nor in another  *)
(* language when there is English; and a row names a CWE exactly when the  *)
(* record does, and then one of those.                                     *)
TextsAreKept ==
    \A i \in DOMAIN rows :
        LET ds == records[i].descriptions
            ws == records[i].weaknesses
            shown(j) == rows[i].Description = ds[j].value
            named == CWEs \cap UNION {ToSet(ws[k]) : k \in DOMAIN ws}
        IN  /\ ds # <<>> => \E j \in DOMAIN ds : shown(j)
            /\ (\E j \in DOMAIN ds : English(ds[j])) =>
                  \E j \in DOMAIN ds : English(ds[j]) /\ shown(j)
            /\ IF named = {} THEN rows[i].CWE = "" ELSE rows[i].CWE \in named

(* A v2 metric has the severity it states, also when that is on the metric *)
(* ("CVSS v2 carries severity on the metric, not in cvssData",             *)
(* client.go:143).                                                         *)
V2SeverityIsTheMetrics ==
    \A i \in DOMAIN rows :
        LET c == records[i]
        IN  (c.v31 = <<>> /\ c.v30 = <<>> /\ c.v2 # <<>>) =>
                LET m == c.v2[1]
                IN  (m.cvssData.baseSeverity = "" /\ m.baseSeverity # "") =>
                        rows[i].SeverityStr = m.baseSeverity
====
