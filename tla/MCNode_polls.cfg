SPECIFICATION NodeSpec
CONSTANTS
    Hash <- JoinHash
    Content <- JoinContent
    Favoured <- PeersOfB
    Genesis = "gen"
    NoVertex = "none"
    ThreshAccepted = 2
    ThreshSafeEarlyCommit = 1
INVARIANTS
    NoPanic
    PreferredThroughout
    LegalNotPunished
    FrontierExtendable
PROPERTIES
    FirstSeenPreferred
    DecisionFinal
    EarlyCommitTaken
CHECK_DEADLOCK FALSE
