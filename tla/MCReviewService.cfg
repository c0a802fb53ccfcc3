SPECIFICATION Spec
CONSTANTS
    CaseId = {c1}
    Key = {k1, k2}
    Reviewer = {r1}
    Item = {i1}
    Verdict <- Verdicts
    HumanDecision = {"approve_onboarding", "keep_on_hold"}
    None = None
    Process = {p1, p2}
    Session = {s1, s2}
    InvestigatorBreaks = TRUE
    MaxRounds = 1
    MaxEvents = 4
    MaxRestarts = 1
SYMMETRY Symmetry
INVARIANTS
    TypeOK
    GatewayNeedsApproval
    EvidenceFitsRounds
PROPERTIES
    KeepsPromises
CHECK_DEADLOCK FALSE
