SPECIFICATION SequencerSpec
CONSTANTS
    Hash <- SequencerHash
    Content <- SequencerContent
    Built <- SequencerBuilt
    Favoured <- NoVertices
    Genesis = "gen"
    NoVertex = "none"
    ThreshAccepted = 1
    ThreshSafeEarlyCommit = 1
INVARIANTS
    ProposalUsable
CHECK_DEADLOCK FALSE
