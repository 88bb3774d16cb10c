SPECIFICATION SteadyPeers
CONSTANTS
    Hash <- PairHash
    Content <- PairContent
    Favoured <- PeersOfB
    Genesis = "gen"
    NoVertex = "none"
    ThreshAccepted = 2
    ThreshSafeEarlyCommit = 1
PROPERTY
    FollowsPeers
CHECK_DEADLOCK FALSE
