SPECIFICATION ArrivalSpec
CONSTANTS
    Hash <- ArrivalHash
    Content <- ArrivalContent
    Genesis = "gen"
    NoVertex = "none"
    ThreshAccepted = 2
    ThreshSafeEarlyCommit = 1
INVARIANTS
    InsertionExact
CHECK_DEADLOCK FALSE
