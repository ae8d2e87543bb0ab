\* One to three timeframes with scores at the thresholds.
SPECIFICATION Spec
CONSTANTS
    Definition <- MCDefinition
    Weight <- MCWeight
    ScoreValue <- MCScoreValue
    NeutralThreshold = 72  StrongThreshold = 260
    NoScore = NoScore
INVARIANTS OpinionIsComplete DirectionSupported ConfidenceBounded BiasMonotone
CHECK_DEADLOCK FALSE
