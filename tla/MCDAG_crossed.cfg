SPECIFICATION ArrivalSpec
CONSTANTS
    Hash <- CrossHash
    Content <- CrossContent
    Genesis = "gen"
    NoVertex = "none"
    ThreshAccepted = 2
    ThreshSafeEarlyCommit = 1
INVARIANT
    FrontierNonEmpty
CHECK_DEADLOCK FALSE
