SPECIFICATION Spec
CONSTANTS
    NumParams = 3
    Candidates <- MCCandidates
    Patterns <- MCPatterns
    Rule = "adamw"
    Lrs = {1, 2}
    Clips = {"no cap"}
    Seeds = {0}
    PutValues = {0}
    Readings = {"finite", "nan"}
    NoCheckpoint = NoCheckpoint
    MaxStep = 2
    MaxParts = 2
INVARIANTS
    TypeOK
    LinedUp
    CountersAgree
    OwnCheckpointIsAccepted
PROPERTIES
    StepIsWhole
    SlotsFollowTheSet
    WaitingIsKept
    RestoreContinues
