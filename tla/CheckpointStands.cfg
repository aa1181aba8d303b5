SPECIFICATION Spec
CONSTANTS
    MaxSaves = 2
    Absent = Absent
INVARIANTS
    LastCheckpointStands
