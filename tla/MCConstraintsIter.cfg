SPECIFICATION Spec
CONSTANTS
    Hash <- IterHash
    Content <- IterContent
    Genesis = 0
    MaxParents = 5
INVARIANTS
    IndicesInBounds
    IteratesConstraints
    KeyIdentifiesConflictSet
CHECK_DEADLOCK FALSE
