SPECIFICATION FairSpec
CONSTANTS
    CaseId = {c1, c2}
    Key = {k1, k2}
    Reviewer = {r1}
    Verdict = {v1}
    Session = {s1, s2}
    Item = {i1}
    None = None
    HumanDecision = {"approve_onboarding"}
    MaxEvents = 3
INVARIANTS
    KeyOpensOneCase
PROPERTIES
    CallsReturn
CHECK_DEADLOCK FALSE
