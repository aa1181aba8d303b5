CONSTANTS
    Losses = {1, 3, 4}
    NotFinite = NotFinite
    Keep = 3
    By = 1
    GuardPatience = 3
    CutPatience = 2
    StopPatience = 3
    MinRate = 3
    MaxReadings = 6
CHECK_DEADLOCK FALSE
SPECIFICATION PoliciesSpec
INVARIANTS
    GuardEndsAfterPatience
