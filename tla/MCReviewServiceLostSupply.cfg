SPECIFICATION Spec
CONSTANTS
    CaseId = {c1}
    Key = {k1}
    Reviewer = {r1}
    Item = {i1, i2}
    Verdict <- Verdicts
    HumanDecision = {"approve_onboarding"}
    None = None
    Process = {p1}
    Session = {s1}
    InvestigatorBreaks = FALSE
    MaxRounds = 1
    MaxEvents = 6
    MaxRestarts = 0
SYMMETRY Symmetry
INVARIANTS
    SuppliedIsConsidered
CHECK_DEADLOCK FALSE
