-------------------------------- MODULE Cvss --------------------------------
(***************************************************************************)
(* The arithmetic of src/internal/cveworker/cvss.go.  Floating point is    *)
(* modelled in fixed point: sub-scores in units of 10^-8, weights in       *)
(* hundredths, scores in tenths.                                           *)
(***************************************************************************)
EXTENDS Integers, Sequences

One == 100000000

(* x * w / 100, and x * y in the same unit, within 32-bit integers. *)
Percent(x, w) == (x \div 100) * w + ((x % 100) * w) \div 100
Times(x, y) ==
    LET h(z) == z \div 10000
        l(z) == z % 10000
    IN  h(x) * h(y) + (h(x) * l(y)) \div 10000 + (l(x) * h(y)) \div 10000
Power15(x) ==
    LET x2 == Times(x, x)   x4 == Times(x2, x2)   x8 == Times(x4, x4)
    IN  Times(Times(Times(x8, x4), x2), x)

-----------------------------------------------------------------------------
(* (A slip: two rows of the table swapped.)                                *)
AttackVectorSwapped == [N |-> 85, A |-> 55, L |-> 62, P |-> 20]
AttackVector       == [N |-> 85, A |-> 62, L |-> 55, P |-> 20]
AttackComplexity   == [L |-> 77, H |-> 44]
UserInteraction    == [N |-> 85, R |-> 62]
CIA                == [H |-> 56, L |-> 22, N |-> 0]
PrivilegesRequired ==
    [U |-> [N |-> 85, L |-> 62, H |-> 27], C |-> [N |-> 85, L |-> 68, H |-> 50]]

(* The values each required metric may have. *)
Values ==
    [AV |-> DOMAIN AttackVector, AC |-> DOMAIN AttackComplexity,
     UI |-> DOMAIN UserInteraction, C |-> DOMAIN CIA, I |-> DOMAIN CIA,
     A |-> DOMAIN CIA, S |-> DOMAIN PrivilegesRequired, PR |-> {"N", "L", "H"}]

Changed(m) == m.S = "C"

IscBase(m) == One - 100 * (100 - CIA[m.C]) * (100 - CIA[m.I]) * (100 - CIA[m.A])

Impact(m) ==
    IF Changed(m)
    THEN Percent(IscBase(m) - 2900000, 752) - Percent(Power15(IscBase(m) - 2000000), 325)
    ELSE Percent(IscBase(m), 642)

Exploitability(m) ==
    Percent(Percent(Percent(Percent(822000000, AttackVector[m.AV]),
        AttackComplexity[m.AC]), PrivilegesRequired[m.S][m.PR]), UserInteraction[m.UI])

(* The score before rounding.  (A slip: without the cap of 10.)            *)
RawUncapped(m) ==
    Percent(Impact(m) + Exploitability(m), IF Changed(m) THEN 108 ELSE 100)
Raw(m) ==
    LET sum == Percent(Impact(m) + Exploitability(m), IF Changed(m) THEN 108 ELSE 100)
    IN  IF sum > 10 * One THEN 10 * One ELSE sum

(* In tenths, up, and exact when the fifth decimal already is.             *)
(* (A slip: rounding to the nearest tenth.)                                *)
RoundUpNearest(x) == (x + 5000000) \div 10000000
RoundUp1(x) ==
    LET n == (x + 500) \div 1000
    IN  IF n % 10000 = 0 THEN n \div 10000 ELSE n \div 10000 + 1

(* (A slip: no special case without impact.) *)
ScoreAnyway(m) == RoundUp1(Raw(m))
Score(m) == IF Impact(m) <= 0 THEN 0 ELSE RoundUp1(Raw(m))

(* Severity takes any double: here, scores in hundredths.                  *)
(* (A slip: HIGH includes 9.0.)                                            *)
SeverityHigh9(score) ==
    CASE score <= 0 -> "NONE"
      [] score > 0 /\ score < 400 -> "LOW"
      [] score >= 400 /\ score < 700 -> "MEDIUM"
      [] score >= 700 /\ score <= 900 -> "HIGH"
      [] OTHER -> "CRITICAL"
Severity(score) ==
    CASE score <= 0 -> "NONE"
      [] score > 0 /\ score < 400 -> "LOW"
      [] score >= 400 /\ score < 700 -> "MEDIUM"
      [] score >= 700 /\ score < 900 -> "HIGH"
      [] OTHER -> "CRITICAL"

(* The bounds of a band, in tenths. *)
Band(name, min, max) == [severity |-> name, min |-> min, max |-> max]
SeverityBands ==
    << Band("NONE", 0, 0), Band("LOW", 1, 39), Band("MEDIUM", 40, 69),
       Band("HIGH", 70, 89), Band("CRITICAL", 90, 100) >>
====
