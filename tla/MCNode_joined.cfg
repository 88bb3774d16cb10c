SPECIFICATION NodeSpec
CONSTANTS
    Hash <- JoinHash
    Content <- JoinContent
    Favoured <- PeersOfB
    Genesis = "gen"
    NoVertex = "none"
    ThreshAccepted = 2
    ThreshSafeEarlyCommit = 1
INVARIANT
    NoConflictingAncestry
CHECK_DEADLOCK FALSE
