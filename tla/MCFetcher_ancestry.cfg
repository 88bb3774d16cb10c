SPECIFICATION Spec
CONSTANTS
    Hash <- DiamondHash
    ParentsOf <- DiamondParents
    Genesis = "gen"
    Message <- DiamondMessage
    Carried <- DiamondCarried
    MaxFailed = 1
    Peer = {n1}
INVARIANTS
    AskedOnce
    RequestsTraced

    
CHECK_DEADLOCK FALSE
