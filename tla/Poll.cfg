SPECIFICATION Spec
CONSTANTS
    Peer = {n1, n2, n3}
    Pollster = {p1, p2}
    QueryCount = 3
    QuorumSize = 2
INVARIANTS
    TypeOK
    ResultHasQuorum
PROPERTIES
    PollsFinish
    RequestsDrained
CHECK_DEADLOCK FALSE
