SPECIFICATION FairSpec
CONSTANTS
    CaseId = {c1}
    Key = {k1}
    Reviewer = {r1, r2}
    Item = {i1, i2}
    Verdict <- Verdicts
    HumanDecision = {"approve_onboarding"}
    None = None
    Process = {p1}
    Session = {s1}
    InvestigatorBreaks = TRUE
    MaxRounds = 2
    MaxEvents = 9
    MaxRestarts = 1
INVARIANTS
    RequestsAreCapped
PROPERTIES
    EvidenceAccumulates
    AnswersMoveOn
CHECK_DEADLOCK FALSE
