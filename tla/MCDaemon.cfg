SPECIFICATION DaemonSpec
CONSTANTS
    Hash <- WireHash
    Content <- WireContent
    Genesis = "gen"
    NamespaceId = {"ns"}
    TxRoot = {"r0", "r1"}
    Caller = {"handler", "rpc"}
    Subscriber = {"main"}
    Main = "main"
    Capacity = 1
    MaxEvents = 2
    MaxActions = 5
    Subject = {}
    RequestId = {"r1", "r2"}
    GossipId = {"g"}
    NewPeer = {"n"}
    RequestWire <- Requests
    GossipWire <- Gossips
    SubmissionId = {"s1", "s2"}
    Submitted <- Submissions
    Refusal = {"Vertex", "ConflictingAncestors", "MissingParents"}
    P2pCapacity = 1
    MaxArrivals = 3
    MaxTimeOuts = 1
INVARIANTS
    WaitingHaveActions
    PendingResponsesExact
    AnswersMatch
    VerdictsMatch
    PublishedDecodes
PROPERTIES
    CallsReturn
    EventsServed
CHECK_DEADLOCK FALSE
