SPECIFICATION EdgesSpec
CONSTANTS
    Arrays = 2
    MaxHandles = 16
    MaxFailures = 4
    MaxSaves = 3
    Absent = Absent
INVARIANTS
    TheCauseComesOut
    EveryHandleHasOneOwner
    NameIsWhole
    BothStandAside
    ReturnedIsThere
    ReadsForward
PROPERTIES
    KeepsItsPromise
