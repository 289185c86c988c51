----------------------------- MODULE MC_Records -----------------------------
(* NVD records for the instances of CveProjection and SeverityQuery. *)
EXTENDS NvdRecord, Cvss, SequencesExt

CONSTANTS t1, t2, t3, cwe1, cwe2, noinfo, vec1, vec2

MCCWEs == {cwe1, cwe2}

Descriptions ==
    BoundedSeq([lang : {"en"}, value : {t1, t2}] \cup {[lang |-> "es", value |-> t3]}, 2)
Weaknesses == BoundedSeq(BoundedSeq({cwe1, cwe2, noinfo}, 2), 2)

(* A score of zero and scores in two bands; the severity stated or not,    *)
(* and once another than the band.  CVSS v2 ends at HIGH and begins at LOW.*)
Scores == {0, 75, 95}
V2Severity(s) == IF s >= 70 THEN "HIGH" ELSE "LOW"
Datas == UNION {{Data(vec1, s, sev) : sev \in {"", Severity(10 * s)}} : s \in Scores}
             \cup {Data(vec1, 75, "CRITICAL")}
MetricsV2 ==
    UNION {{MetricV2(Data(vec1, s, inner), outer) :
               inner \in {"", V2Severity(s)}, outer \in {"", V2Severity(s)}} : s \in Scores}
Second == Data(vec2, 40, "MEDIUM")
Lists(S, second) == {<<>>} \cup {<<x>> : x \in S} \cup {<<x, second>> : x \in S}

MCRecords ==
    {Record(ds, ws, <<>>, <<>>, <<>>) : ds \in Descriptions, ws \in Weaknesses}
        \cup {Record(<<>>, <<>>, v31, v30, v2) : v31 \in Lists(Datas, Second),
                 v30 \in Lists(Datas, Second), v2 \in Lists(MetricsV2, MetricV2(Second, ""))}
====
