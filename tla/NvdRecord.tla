----------------------------- MODULE NvdRecord -----------------------------
(***************************************************************************)
(* A record of the NVD 2.0 API, as far as client.go decodes it.  Texts,    *)
(* vectors and identifiers are model values, scores are in tenths, and ""  *)
(* is a field the record does not have.                                    *)
(***************************************************************************)

(* nvdCVSSData, and the v2 metric with a severity of its own. *)
Data(vector, score, severity) ==
    [vectorString |-> vector, baseScore |-> score, baseSeverity |-> severity]
MetricV2(data, severity) == [cvssData |-> data, baseSeverity |-> severity]

Record(descriptions, weaknesses, v31, v30, v2) ==
    [descriptions |-> descriptions, weaknesses |-> weaknesses,
     v31 |-> v31, v30 |-> v30, v2 |-> v2]
====
