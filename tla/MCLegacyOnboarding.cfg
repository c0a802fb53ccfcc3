SPECIFICATION Spec
CONSTANTS
    Merchant = {m1, m2, m3}
    Reviewer = {r1, r2}
    Application <- Applications
    SuspiciousSize = 2
    HighRiskSize = 3
    CriticalSize = 4
    None = None
SYMMETRY Symmetry
INVARIANTS
    TypeOK
    IndexIsExact
    SharedAccountIsSeen
    MachineDecisionStands
    MissingIsNotClean
    OneLoudModuleIsHeard
CHECK_DEADLOCK FALSE
