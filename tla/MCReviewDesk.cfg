SPECIFICATION DeskSpec
CONSTANTS
    c1 = c1
    v1 = v1
    v2 = v2
    alice = alice
    bob = bob
    t1 = t1
    t2 = t2
    CaseId = {c1}
    Key = {k1}
    Reviewer = {alice, bob}
    Verdict = {v1, v2}
    Item = {i1}
    HumanDecision = {"approve_onboarding", "keep_on_hold", "escalate"}
    None = None
    Tab = {t1, t2}
    DefaultReviewer = alice
    Shared <- LinkedByAccount
    MaxVersion = 4
SYMMETRY DeskSymmetry
INVARIANT DeskTypeOK
INVARIANT ButtonsWork
INVARIANT DecidedOnThePage
