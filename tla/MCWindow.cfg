SPECIFICATION Spec
CONSTANTS
    Registered <- MCRegistered
    Calls = {"step!", "accumulate", "apply!", "discard", "adjust", "freeze!", "put",
             "checkpoint!", "restore", "run"}
    Rates = {"high", "low"}
    FirstRate = "high"
    Losses = {"finite", "nan"}
    Nowhere = Nowhere
    MaxLines = 4
    MaxSteps = 2
    MaxParts = 2
    MaxDepth = 2
INVARIANTS
    TypeOK
    ReplayReproduces
    CheckpointIsInTheJournal
    FenceFalls
