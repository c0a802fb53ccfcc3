----------------------------- MODULE EvidenceGraph -----------------------------
(***************************************************************************)
(* analysis/evidence_graph.py: which merchants form a ring candidate.       *)
(* Attributes they share are evidence, weaker the more merchants share      *)
(* them; the evidence between two of them adds up to the strength of their  *)
(* pair, and strong enough pairs connect.  Weights are in thousandths (the  *)
(* code keeps six digits).  A map apps gives each merchant its application. *)
(***************************************************************************)
EXTENDS SharedAttributes, FiniteSets, FiniteSetsExt

CONSTANTS
    MinimumEvidenceWeight,      \* 0.10
    MinimumPairStrength,        \* 0.35
    MaximumAttributeFrequency   \* 50

ASSUME GraphAssumption ==
    /\ MinimumEvidenceWeight \in 0..1000
    /\ MinimumPairStrength \in 0..1000
    /\ MaximumAttributeFrequency \in Nat /\ MaximumAttributeFrequency >= 2

\* The inverted index: who shares a key.
Sharers(apps, k) == {m \in DOMAIN apps : k \in KeyOf(apps[m])}

SharedKeys(apps) ==
    {k \in UNION {KeyOf(apps[m]) : m \in DOMAIN apps} :
        Cardinality(Sharers(apps, k)) \in 2..MaximumAttributeFrequency}

Thousandths(attribute) == AttributeSeverity[attribute] \div 10

IsStrong(attribute) == Thousandths(attribute) >= 700

\* severity / sqrt(d / 5), to a thousandth.
OverRoot(severity, d) ==
    CHOOSE w \in 0..severity : /\ w * w * d <= 5 * severity * severity
                               /\ (w + 1) * (w + 1) * d > 5 * severity * severity

\* Mutant: strong attributes are discounted like weak ones.
DiscountAll(attribute, frequency) ==
    IF frequency <= 2 THEN Thousandths(attribute)
    ELSE OverRoot(Thousandths(attribute), 5 * (frequency - 1))

\* _frequency_adjusted_weight: over sqrt(1 + 0.2 (n - 2)) or sqrt(n - 1).
AdjustedWeight(attribute, frequency) ==
    IF frequency <= 2 THEN Thousandths(attribute)
    ELSE OverRoot(Thousandths(attribute),
                  IF IsStrong(attribute) THEN 5 + (frequency - 2) ELSE 5 * (frequency - 1))

\* The keys that are evidence, with their weights.
Evidence(apps) ==
    LET shared == SharedKeys(apps)
        weight == [k \in shared |-> AdjustedWeight(k[1], Cardinality(Sharers(apps, k)))]
    IN  [k \in {j \in shared : weight[j] >= MinimumEvidenceWeight} |-> weight[k]]

\* _noisy_or of the weights of the keys K, of which evidence is a map.
NoisyOr(K, evidence) ==
    LET Remaining(k, r) == (r * (1000 - evidence[k]) + 500) \div 1000
    IN  1000 - FoldSet(Remaining, 1000, K)

Connected(apps, evidence, m, n) ==
    LET between == KeyOf(apps[m]) \cap KeyOf(apps[n]) \cap DOMAIN evidence
    IN  between # {} /\ NoisyOr(between, evidence) >= MinimumPairStrength

\* The pairs that are strong enough.
Adjacency(apps) ==
    LET evidence == Evidence(apps)
    IN  [m \in DOMAIN apps |->
            {n \in DOMAIN apps \ {m} : Connected(apps, evidence, m, n)}]

\* The connected components of adjacent (which is symmetric) among the merchants
\* M, found by adding one after the other.
Components(adjacent, M) ==
    LET Add(m, components) ==
            LET touching == {c \in components : c \cap adjacent[m] # {}}
            IN  (components \ touching) \cup {{m} \cup UNION touching}
    IN  FoldSet(Add, {}, M)

\* Mutant: merchants that nothing connects are left out.
LinkedCandidates(apps) ==
    LET adjacent == Adjacency(apps)
    IN  Components(adjacent, {m \in DOMAIN apps : adjacent[m] # {}})

\* EvidenceGraphBuilder.build: the members of each candidate.
Candidates(apps) ==
    LET adjacent == Adjacency(apps) IN Components(adjacent, DOMAIN apps)

\* The evidence of a candidate: weak links between members count too.
EvidenceWithin(apps, members) ==
    {k \in DOMAIN Evidence(apps) : Cardinality(Sharers(apps, k) \cap members) >= 2}
===============================================================================
