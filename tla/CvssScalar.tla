----------------------------- MODULE CvssScalar -----------------------------
(***************************************************************************)
(* cvss_base_score over a batch of rows, and cvss_severity over its        *)
(* result or over any doubles (functions.go): parseVector, the checks of   *)
(* BaseScore, and the row loop that goes on after a bad row and fails with *)
(* the first error.                                                        *)
(*                                                                         *)
(* A vector string is a sequence of tokens; trimming and upper-casing are  *)
(* left out.                                                               *)
(***************************************************************************)
EXTENDS Cvss, SequencesExt

CONSTANTS
    Batches,  \* the batches of vectors DuckDB sends
    Columns   \* the batches of other doubles it sends to cvss_severity,
              \* in hundredths

VARIABLES
    phase,      \* "idle", "scoring", "failed", "scored", "rated"
    batch,      \* the vectors of the batch
    out,        \* the scores of the rows done so far, in tenths
    firstErr,   \* the first problem met, or NoProblem
    args,       \* the rows cvss_severity is given, in hundredths
    severities  \* and what it says of each

scalarVars == <<phase, batch, out, firstErr, args, severities>>

ASSUME ScalarAssumption ==
    /\ \A vs \in Batches : vs \in Seq(Seq([key : STRING, val : STRING]))
    /\ \A ss \in Columns : ss \in Seq(Int)

Metric(key, val) == [key |-> key, val |-> val]
Blank     == Metric("", "")     \* an empty token: "//", or a trailing "/"
Malformed == Metric("?", "?")   \* a token that is not KEY:VALUE

Problem(what, key) == [what |-> what, key |-> key]
NoProblem == Problem("none", "")

-----------------------------------------------------------------------------
(* parseVector: one token after the other into a map. *)

NoMetrics == <<>>
Put(metrics, t) == [k \in DOMAIN metrics \cup {t.key} |->
                       IF k = t.key THEN t.val ELSE metrics[k]]
ParseToken(p, t) ==
    IF p.problem # NoProblem \/ t = Blank THEN p
    ELSE CASE t = Malformed -> [p EXCEPT !.problem = Problem("malformed", "")]
           [] t.key = "CVSS" /\ t.val \notin {"3.0", "3.1"} ->
                 [p EXCEPT !.problem = Problem("version", "")]
           [] t.key = "CVSS" /\ t.val \in {"3.0", "3.1"} -> p
           [] OTHER -> [p EXCEPT !.metrics = Put(@, t)]

(* After the first n tokens. *)
ParseTokens(vector) ==
    LET parsed[n \in 0 .. Len(vector)] ==
            IF n = 0 THEN [metrics |-> NoMetrics, problem |-> NoProblem]
                     ELSE ParseToken(parsed[n - 1], vector[n])
    IN  parsed
ParseVector(vector) ==
    LET p == ParseTokens(vector)[Len(vector)]
    IN  IF p.problem = NoProblem /\ DOMAIN p.metrics = {}
        THEN [p EXCEPT !.problem = Problem("empty", "")] ELSE p

(* BaseScore looks the required metrics up in this order. *)
Required == <<"AV", "AC", "UI", "C", "I", "A", "S", "PR">>
Lookup(metrics, key) ==
    CASE key \notin DOMAIN metrics -> Problem("missing", key)
      [] key \in DOMAIN metrics /\ metrics[key] \notin Values[key] -> Problem("invalid", key)
      [] OTHER -> NoProblem

Faulty(metrics) == {i \in DOMAIN Required : Lookup(metrics, Required[i]) # NoProblem}

BaseScore(vector) ==
    LET p == ParseVector(vector)
    IN  CASE p.problem # NoProblem -> [score |-> 0, problem |-> p.problem]
          [] p.problem = NoProblem /\ Faulty(p.metrics) # {} ->
                [score |-> 0, problem |-> Lookup(p.metrics, Required[Min(Faulty(p.metrics))])]
          [] OTHER -> [score |-> Score(p.metrics), problem |-> NoProblem]

-----------------------------------------------------------------------------
Init ==
    /\ phase = "idle" /\ batch = <<>> /\ out = <<>> /\ firstErr = NoProblem
    /\ args = <<>> /\ severities = <<>>

Call ==
    /\ phase = "idle" /\ phase' = "scoring" /\ batch' \in Batches
    /\ UNCHANGED <<out, firstErr, args, severities>>

(* (A slip: the last error is kept.) *)
KeepLast(old, new) == IF new = NoProblem THEN old ELSE new
Keep(old, new) == IF old = NoProblem THEN new ELSE old

(* One row.  A bad row yields 0 and the loop goes on. *)
Row ==
    /\ phase = "scoring" /\ Len(out) < Len(batch)
    /\ LET r == BaseScore(batch[Len(out) + 1])
       IN  out' = Append(out, r.score) /\ firstErr' = Keep(firstErr, r.problem)
    /\ UNCHANGED <<phase, batch, args, severities>>

Fail ==
    /\ phase = "scoring" /\ Len(out) = Len(batch) /\ firstErr # NoProblem
    /\ phase' = "failed" /\ UNCHANGED <<batch, out, firstErr, args, severities>>

Scored ==
    /\ phase = "scoring" /\ Len(out) = Len(batch) /\ firstErr = NoProblem
    /\ phase' = "scored" /\ UNCHANGED <<batch, out, firstErr, args, severities>>

(* cvss_severity, row by row; a NULL stays one, without an entry here.     *)
Rate(ss) ==
    /\ phase' = "rated" /\ args' = ss
    /\ severities' = [i \in DOMAIN ss |-> Severity(ss[i])]
    /\ UNCHANGED <<batch, out, firstErr>>

(* Of the scores, or of any other doubles. *)
RateScores  == phase = "scored" /\ Rate([i \in DOMAIN out |-> 10 * out[i]])
RateDoubles == phase = "idle" /\ \E ss \in Columns : Rate(ss)

Step == Call \/ Row \/ Fail \/ Scored \/ RateScores \/ RateDoubles
Done == phase \in {"failed", "rated"} /\ UNCHANGED scalarVars
Next == Step \/ Done
Spec == Init /\ [][Next]_scalarVars

-----------------------------------------------------------------------------
(* What a vector says, read as a whole: the last token of each key counts, *)
(* the version and empty tokens do not.                                    *)
Says(vector, key) ==
    LET at == {i \in DOMAIN vector : vector[i].key = key}
    IN  IF at = {} THEN "nothing" ELSE vector[CHOOSE i \in at : \A j \in at : j <= i].val
Offends(t) == t = Malformed \/ (t.key = "CVSS" /\ t.val \notin {"3.0", "3.1"})
WellFormed(vector) ==
    /\ \A i \in DOMAIN vector : ~Offends(vector[i])
    /\ \A key \in DOMAIN Values : Says(vector, key) \in Values[key]
Reading(vector) == [key \in DOMAIN Values |-> Says(vector, key)]

TypeOK ==
    /\ out \in Seq(0 .. 100)
    /\ phase \in {"idle", "scoring", "failed", "scored", "rated"}
    /\ firstErr \in [what : {"none", "malformed", "version", "empty", "missing", "invalid"},
                     key : DOMAIN Values \cup {""}]
    /\ DOMAIN severities = DOMAIN args
    /\ \A i \in DOMAIN args :
          args[i] \in Int /\ severities[i] \in {"NONE", "LOW", "MEDIUM", "HIGH", "CRITICAL"}

(* The rows done so far: as long as no problem is kept, they are well      *)
(* formed and have their scores; the one kept is that of the first bad row. *)
RowByRow ==
    IF firstErr = NoProblem
    THEN \A i \in 1 .. Len(out) : WellFormed(batch[i]) /\ out[i] = Score(Reading(batch[i]))
    ELSE \E i \in 1 .. Len(out) :
            /\ ~WellFormed(batch[i]) /\ firstErr = BaseScore(batch[i]).problem
            /\ \A j \in 1 .. i - 1 : WellFormed(batch[j])

(* The inductive invariant: the loop goes through all rows, each with the  *)
(* facts above, and what is rated is a number with its own severity.       *)
RowsInv ==
    /\ batch \in Seq(Seq([key : STRING, val : STRING])) /\ out \in Seq(0 .. 100) /\ Len(out) <= Len(batch)
    /\ phase \in {"idle", "scoring", "failed", "scored", "rated"}
    /\ phase = "idle" => batch = <<>>
    /\ phase \in {"failed", "scored", "rated"} => Len(out) = Len(batch)
    /\ phase \in {"idle", "scored", "rated"} => firstErr = NoProblem
    /\ phase = "failed" => firstErr # NoProblem
    /\ RowByRow
    /\ DOMAIN severities = DOMAIN args
    /\ \A i \in DOMAIN args : args[i] \in Int /\ severities[i] = Severity(args[i])

(* A batch succeeds exactly when every vector in it is well formed, each    *)
(* row has the score of what its vector says as a whole, and a batch that  *)
(* fails does so with the error of its first bad row (functions.go:195).   *)
RowsAreScored ==
    LET bad == {i \in DOMAIN batch : ~WellFormed(batch[i])}
    IN  /\ phase \in {"scored", "rated"} =>
              bad = {} /\ out = [i \in DOMAIN batch |-> Score(Reading(batch[i]))]
        /\ phase = "failed" => \E i \in bad :
              /\ \A j \in bad : i <= j
              /\ firstErr = BaseScore(batch[i]).problem

(* Metrics from the mildest to the worst value. *)
Order ==
    [AV |-> <<"P", "L", "A", "N">>, AC |-> <<"H", "L">>, PR |-> <<"H", "L", "N">>,
     UI |-> <<"R", "N">>, S |-> <<"U", "C">>, C |-> <<"N", "L", "H">>,
     I |-> <<"N", "L", "H">>, A |-> <<"N", "L", "H">>]

(* The readings of the rows that got a score. *)
Readings == IF phase = "scored" THEN {Reading(batch[i]) : i \in DOMAIN batch} ELSE {}

(* A vulnerability that is worse in one metric never has a lower score,    *)
(* across the two equations, the power, the cap and the rounding           *)
(* (cvss.go:169-195).                                                      *)
WorseNeverScoresLower ==
    \A m \in Readings, key \in DOMAIN Order : \A i \in 1 .. Len(Order[key]) - 1 :
        m[key] = Order[key][i] =>
            Score([m EXCEPT ![key] = Order[key][i + 1]]) >= Score(m)

(* Only a vulnerability without impact scores 0.0: every other is at least *)
(* LOW, and none exceeds 10.0 (cvss.go:183-194).                           *)
ScoreIsZeroWithoutImpact ==
    \A m \in Readings :
        /\ Score(m) \in 0 .. 100
        /\ Score(m) = 0 <=> \A key \in {"C", "I", "A"} : m[key] = "N"

(* A score is the least tenth that is not below the equation's value, up   *)
(* to its fifth decimal, half of which is rounded up (roundUp1,            *)
(* cvss.go:247-249).                                                       *)
RoundedUp ==
    \A m \in Readings : Score(m) > 0 =>
        /\ Score(m) * 10000000 > Raw(m) - 500
        /\ (Score(m) - 1) * 10000000 <= Raw(m) - 500
====
