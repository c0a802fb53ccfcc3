SPECIFICATION LiveSpec
CONSTANTS
    Score <- Scores
    ReviewThreshold = 5
    UncertaintyLow = 4
    UncertaintyHigh = 15
    DisagreementThreshold = 8
    HasTabular = TRUE
    None = None
    MaxRounds = 2
    MinimumEvidenceWeight = 100
    MinimumPairStrength = 350
    MaximumAttributeFrequency = 50
    Reference <- Population
    Submission <- Files
INVARIANTS
    TabularMayTriggerReview
CHECK_DEADLOCK FALSE
