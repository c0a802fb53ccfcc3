SPECIFICATION Spec
CONSTANTS
    CaseId = {c1}
    Key = {k1}
    Reviewer = {r1, r2}
    Verdict = {v1, v2}
    Session = {s1, s2}
    Item = {i1}
    None = None
    HumanDecision = {"approve_onboarding", "keep_on_hold"}
    MaxEvents = 3
SYMMETRY Symmetry
INVARIANTS
    ConflictCarriesVersion
CHECK_DEADLOCK FALSE
