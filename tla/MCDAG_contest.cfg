SPECIFICATION Spec
CONSTANTS
    Hash <- ContestHash
    Content <- ContestContent
    Genesis = "gen"
    NoVertex = "none"
    ThreshAccepted = 2
    ThreshSafeEarlyCommit = 1
INVARIANTS
    TypeOK
    ChildMapExact
    GraphWellFormed
    UndecidedUntainted
    QueryNeverFails
    NeverBothAccepted
    AcceptedPreferred
    AcceptanceBacked
PROPERTIES
    SettledFinal
    HandlersFinish
    RefinesLifecycle
CHECK_DEADLOCK FALSE
