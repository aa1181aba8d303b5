SPECIFICATION Spec
CONSTANTS
    Names <- MCNames
    Openings <- FreshOpenings
    Batches <- MCBatches
    NoObjective = NoObjective
    MaxStep = 1
    MaxPasses = 1
INVARIANT FreshDrawsApart
CHECK_DEADLOCK FALSE
