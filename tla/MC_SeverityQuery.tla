-------------------------- MODULE MC_SeverityQuery --------------------------
(* Instances of SeverityQuery for TLC. *)
EXTENDS SeverityQuery, MC_Records

Vector(av, ac, ui, c, i, a, s, pr) ==
    << Metric("AV", av), Metric("AC", ac), Metric("UI", ui), Metric("C", c),
       Metric("I", i), Metric("A", a), Metric("S", s), Metric("PR", pr) >>

(* All 2592 complete vectors. *)
AllVectors ==
    {Vector(av, ac, ui, c, i, a, s, pr) :
        av \in Values.AV, ac \in Values.AC, ui \in Values.UI, c \in Values.C,
        i \in Values.I, a \in Values.A, s \in Values.S, pr \in Values.PR}

Heartbleed == Vector("N", "L", "N", "H", "N", "N", "U", "N")

(* One token too many, at every place: a version, right or wrong, an empty *)
(* or a malformed token, a metric that is not required, a second value for *)
(* one that is, good or bad.                                               *)
Extra ==
    { Metric("CVSS", "3.1"), Metric("CVSS", "2.0"), Blank, Malformed,
      Metric("E", "U"), Metric("AC", "H"), Metric("S", "Z"), Metric("PR", "Z") }
Inserted == {InsertAt(Heartbleed, i, t) : i \in 1 .. 9, t \in Extra}

(* One token too few, and a few short vectors. *)
Removed == {RemoveAt(Heartbleed, i) : i \in 1 .. 8}
Short   == {<<>>, <<Blank>>, <<Metric("CVSS", "3.0")>>, <<Malformed>>}
Reversed == {Reverse(Heartbleed), Reverse(InsertAt(Heartbleed, 9, Metric("AC", "H")))}

Odd == Inserted \cup Removed \cup Short \cup Reversed

MCBatches ==
    {<<v>> : v \in AllVectors \cup Odd} \cup {<<>>}
        \cup {<<Heartbleed, v, w>> : v \in Removed \cup Short, w \in Odd}

(* Doubles around every threshold of Severity and every bound of a band,   *)
(* between two bands, and out of range.                                    *)
Threshold == {0, 10, 390, 400, 690, 700, 890, 900, 1000}
MCColumns == {<<t + d>> : t \in Threshold, d \in {-5, 0, 5}} \cup {<<-1000, 395, 2000>>}

BothTransports == {"live", "http"}
====
