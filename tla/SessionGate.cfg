SPECIFICATION Spec
CONSTANTS
    Threads = {t1, t2}
    Sessions = {s1, s2}
    Attempts = 2
    None = None
INVARIANTS
    TypeOK
    EngineInOnePlace
    ClaimedIsServed
    FreshWhenReady
PROPERTIES
    GoneStaysGone
    UsesMLXAsPromised
    EveryCallReturns
CHECK_DEADLOCK FALSE
