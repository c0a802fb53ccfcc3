SPECIFICATION Spec
CONSTANTS
    Evidence = {edge, other, expert, forged}
    Catalogue = {edge, other, expert}
    Edge = {edge, other}
    Budget <- Budgets
    None = None
INVARIANTS
    CallsAreRecorded
CHECK_DEADLOCK FALSE
