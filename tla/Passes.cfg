SPECIFICATION Spec
CONSTANTS
    Names <- MCNames
    Openings <- MCOpenings
    Batches <- MCBatches
    NoObjective = NoObjective
    MaxStep = 2
    MaxPasses = 2
INVARIANTS
    AnswersByName
    DrawsApart
    TappedIsOnePass
    AcceptedIsWired
CHECK_DEADLOCK FALSE
