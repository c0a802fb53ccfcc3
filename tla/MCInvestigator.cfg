SPECIFICATION FairSpec
CONSTANTS
    Evidence = {edge, other, expert, forged}
    Catalogue = {edge, other, expert}
    Edge = {edge, other}
    Budget <- Budgets
    None = None
INVARIANTS
    TypeOK
    OpinionsAreGrounded
    BudgetsAreHonest
    ResultsAreAccepted
PROPERTIES
    InvestigationReturns
CHECK_DEADLOCK FALSE
