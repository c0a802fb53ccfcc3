---------------------------- MODULE OnboardingRisk ----------------------------
(***************************************************************************)
(* The scores of the legacy onboarding gate: the three analysis modules     *)
(* (documents, synthetic identity, clustering) and their fusion into one    *)
(* decision by analysis/risk_scorer.py.  Scores are integers in units of    *)
(* 0.0001, to which the code rounds every score; weights are in tenths.     *)
(***************************************************************************)
EXTENDS SharedAttributes, FiniteSets, FiniteSetsExt, TLC

CONSTANTS
    SuspiciousSize, HighRiskSize, CriticalSize,  \* cluster sizes
    None

ASSUME SizeAssumption == /\ SuspiciousSize \in Nat /\ HighRiskSize \in Nat
                         /\ CriticalSize \in Nat
                         /\ SuspiciousSize <= HighRiskSize
                         /\ HighRiskSize <= CriticalSize

One == 10000
Unit == 0..One

Least(a, b) == IF a <= b THEN a ELSE b
Greatest(a, b) == IF a >= b THEN a ELSE b

\* n / d to the nearest integer.
Rounded(n, d) == (2 * n + d) \div (2 * d)

\* A RiskSignal; which one it is tells two of the same severity apart.
Signal(n, v, w) == [name |-> n, value |-> v, weight |-> w]

\* The weighted mean of the signals S, raised for each that corroborates.
Fused(S, corroboration) ==
    IF S = {} THEN 0
    ELSE LET Product(s) == s.value * s.weight
             Weight(s) == s.weight
             total == MapThenSumSet(Weight, S)
         IN  Least(One, Rounded(MapThenSumSet(Product, S) + corroboration * total, total))

-------------------------------------------------------------------------------
(* Synthetic identity.  What the patterns look for in a form is a set of    *)
(* traits; a trait is a signal.                                             *)

Severe(v, w) == [value |-> v, weight |-> w]

\* In the e-mail address, the telephone number and the PAN.
ContactSignal ==
    [disposable_email_domain   |-> Severe(8200, 16), sequential_numeric_email |-> Severe(4500, 10),
     placeholder_email         |-> Severe(7000, 13), unaffiliated_free_email  |-> Severe(2200, 10),
     invalid_mobile_series     |-> Severe(9000, 15), repeated_digit_phone     |-> Severe(8500, 14),
     digit_run_phone           |-> Severe(4000, 10), sequential_phone         |-> Severe(6000, 10),
     invalid_pan_holder_type   |-> Severe(8000, 14), pan_surname_mismatch     |-> Severe(6500, 13),
     keyboard_pattern_pan      |-> Severe(7500, 13)]

\* In the address, the business and between the fields.
BusinessSignal ==
    [placeholder_address       |-> Severe(8000, 14), missing_pincode          |-> Severe(3500, 10),
     incomplete_address        |-> Severe(4500, 10), unrecognised_locality    |-> Severe(2500, 10),
     placeholder_business_name |-> Severe(8000, 14), generic_business_name    |-> Severe(3000, 10),
     high_risk_category        |-> Severe(3500, 10), repeated_digit_account   |-> Severe(8800, 15),
     sequential_account        |-> Severe(6000, 10), gst_pan_mismatch         |-> Severe(8500, 15)]

TraitSignal ==
    [t \in DOMAIN ContactSignal \cup DOMAIN BusinessSignal |->
        IF t \in DOMAIN ContactSignal THEN ContactSignal[t] ELSE BusinessSignal[t]]

Trait == DOMAIN TraitSignal

\* Traits that one form cannot show together: the tests for them exclude each other.
Exclusive == {{"disposable_email_domain", "unaffiliated_free_email"},
              {"repeated_digit_phone", "digit_run_phone", "sequential_phone"},
              {"invalid_pan_holder_type", "pan_surname_mismatch"},
              {"placeholder_business_name", "generic_business_name"},
              {"repeated_digit_account", "sequential_account"}}

IsForm(traits) == \A x \in Exclusive : Cardinality(traits \cap x) <= 1

IdentitySignals(traits) ==
    {Signal(<< "identity", t >>, TraitSignal[t].value, TraitSignal[t].weight) : t \in traits}

IdentityScore(S) == Fused(S, Least(1800, 450 * (Cardinality(S) - 1)))

-------------------------------------------------------------------------------
(* Documents.  An analysis that could not be made says so.                  *)

Skipped == [skipped |-> TRUE]

Measured == [skipped : {FALSE}, tampering : Unit \cup {None}, forgery : Unit \cup {None},
             mismatches : Nat, overall : {0, 800, 1800, 3000}]

IsMeasured(d) == ~d.skipped

\* A score that was reported counts for a half at least.
Claimed(v) == IF v = None THEN 0 ELSE Greatest(v, 5000)

DocumentRisk(d) ==
    Least(One, Rounded(42 * Claimed(d.tampering) + 33 * Claimed(d.forgery), 100)
               + Least(2000, 1000 * d.mismatches) + d.overall)

DocumentSignals(docs) ==
    LET Of(t) == (IF docs[t].tampering = None THEN {}
                  ELSE {Signal(<< "tampering", t >>, Claimed(docs[t].tampering), 15)})
                 \cup (IF docs[t].forgery = None THEN {}
                       ELSE {Signal(<< "forgery", t >>, Claimed(docs[t].forgery), 14)})
                 \cup {Signal(<< "mismatch", t, i >>, 5500, 12) : i \in 1..Least(3, docs[t].mismatches)}
    IN  UNION {Of(t) : t \in {u \in DOMAIN docs : IsMeasured(docs[u])}}

\* The highest risk of a measured document.
DocumentScore(docs) ==
    Max({0} \cup {DocumentRisk(docs[t]) : t \in {u \in DOMAIN docs : IsMeasured(docs[u])}})

-------------------------------------------------------------------------------
(* Clustering: matches maps an attribute to the applications that share it, *)
(* rejected are those of them that were turned down.                        *)

Related(matches) == UNION {matches[a] : a \in DOMAIN matches}

\* Sharing with many is worse than sharing with one.
SharedSignal(a, n) ==
    Signal(<< "shared", a >>,
           Least(One, Rounded(AttributeSeverity[a] * (100 + 12 * (n - 1)), 100)),
           IF AttributeSeverity[a] >= 7000 THEN 14 ELSE 10)

SizeSignals(size) ==
    IF size >= CriticalSize THEN {Signal(<< "cluster_size" >>, 9200, 16)}
    ELSE IF size >= HighRiskSize THEN {Signal(<< "cluster_size" >>, 7400, 13)}
    ELSE IF size >= SuspiciousSize THEN {Signal(<< "cluster_size" >>, 5200, 11)}
    ELSE {}

ClusterSignals(matches, rejected) ==
    LET related == Related(matches) IN
    IF related = {} THEN {}
    ELSE {SharedSignal(a, Cardinality(matches[a])) : a \in DOMAIN matches}
         \cup SizeSignals(Cardinality(related) + 1)
         \cup IF rejected = {} THEN {}
              ELSE {Signal(<< "contains_rejected" >>,
                           Least(One, 8000 + 500 * Cardinality(rejected)), 17)}

ClusterScore(matches, S) ==
    Fused(S, Least(1500, 500 * Greatest(0, Cardinality(DOMAIN matches) - 1)))

-------------------------------------------------------------------------------
(* Fusion.                                                                  *)

\* BASE_WEIGHTS, in twentieths.
DocumentWeight == 7
IdentityWeight == 6
ClusterWeight == 7

\* Mutant: a document that was not measured counts as a clean one.
CountsDocuments(docs) == DOMAIN docs # {}

\* The document module is active when it has measured something.
HasMeasurement(docs) == \E t \in DOMAIN docs : IsMeasured(docs[t])

\* Mutant: the plain weighted mean.
MeanOnly(docs, i, c) ==
    LET w == IdentityWeight + ClusterWeight + IF HasMeasurement(docs) THEN DocumentWeight ELSE 0
    IN  [over |-> 20 * w,
         total |-> 20 * (IdentityWeight * i + ClusterWeight * c + DocumentWeight * DocumentScore(docs))]

\* 0.55 of the weighted mean over the modules that measured, 0.45 of the
\* strongest of them.
Blend(docs, i, c) ==
    LET w == IdentityWeight + ClusterWeight + IF HasMeasurement(docs) THEN DocumentWeight ELSE 0
        d == DocumentScore(docs)
    IN  [over |-> 20 * w,
         total |-> 11 * (IdentityWeight * i + ClusterWeight * c + DocumentWeight * d)
                   + 9 * w * Greatest(d, Greatest(i, c))]

\* Several severe signals compound: by 1.08 for two, by 1.18 for more.
Compounded(S, blend) ==
    LET severe == Cardinality({s \in S : s.value >= 7000})
        fiftieths == IF severe >= 3 THEN 59 ELSE IF severe = 2 THEN 54 ELSE 50
    IN  Least(One, Rounded(fiftieths * blend.total, 50 * blend.over))

DecisiveSignal == 8800
AutoRejectThreshold == 7500
AutoApproveThreshold == 2500

\* Mutant: a score between the thresholds falls through.
DecideOrNone(score, S, size) ==
    IF (\E s \in S : s.value >= DecisiveSignal) \/ size >= CriticalSize THEN "rejected"
    ELSE IF score >= AutoRejectThreshold THEN "rejected"
    ELSE IF score <= AutoApproveThreshold THEN "approved" ELSE None

\* The hard rules come before the thresholds.
Decide(score, S, size) ==
    IF (\E s \in S : s.value >= DecisiveSignal) \/ size >= CriticalSize THEN "rejected"
    ELSE IF score >= AutoRejectThreshold THEN "rejected"
    ELSE IF score <= AutoApproveThreshold THEN "approved" ELSE "under_review"

\* RiskScorer.score: documents by type, identity traits, and the clustering result.
Assessed(docs, traits, matches, rejected) ==
    LET identity == IdentitySignals(traits)
        cluster == ClusterSignals(matches, rejected)
        signals == DocumentSignals(docs) \cup identity \cup cluster
        score == Compounded(signals, Blend(docs, IdentityScore(identity),
                                           ClusterScore(matches, cluster)))
    IN  [score    |-> score,
         decision |-> Decide(score, signals, Cardinality(Related(matches)) + 1)]
===============================================================================
