SPECIFICATION LibrarySpec
CONSTANTS
    Declarations <- MCDeclarations
    MaxNodes = 5
    Sizes = {1, 2}
    Losses = {1, 3, 4}
    NotFinite = NotFinite
    Keep = 3
    By = 1
    GuardPatience = 3
    CutPatience = 2
    StopPatience = 3
    MinRate = 3
    MaxReadings = 6
INVARIANTS
    ReferencesHold
    RunsAsDescribed
    FailsOnlyOverSymbols
    PlateauIsJudgedOnAll
PROPERTIES
    OneCutPerPlateau
CHECK_DEADLOCK FALSE
