CONSTANTS
    h1 = h1
    t1 = t1
    b1 = b1
    None = None
    Hooks = {h1}
    Timers = {t1}
    Bots = {b1}
    Legacy = TRUE
    Budget = 1
SPECIFICATION Spec
INVARIANTS
    TypeOK
    Evidence
    ReopenRespected
    ReleasedOnce
    MergedOnce
    NothingForgotten
PROPERTIES
    CycleCloses
    ReleaseCloses
CHECK_DEADLOCK FALSE
