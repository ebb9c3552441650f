CONSTANTS
    i1 = i1
    i2 = i2
    f1 = f1
    t1 = t1
    b1 = b1
    None = None
    Issues = {i1, i2}
    Rounds = {}
    Rank <- Order
    Timers = {t1}
    Commands = {b1}
    Runs = {1, 2, 3}
    DailyCap = 1
    OpenCap = 1
    FinishOpenWork = TRUE
    Patient = TRUE
    Budget <- Waits
SPECIFICATION FairSpec
INVARIANTS
    PauseHolds
    Valve
PROPERTIES
    LimitHolds
    Served
