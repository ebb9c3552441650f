CONSTANTS
    i1 = i1
    i2 = i2
    f1 = f1
    t1 = t1
    b1 = b1
    None = None
    Issues = {i1}
    Rounds = {f1}
    Rank <- Order
    Timers = {t1}
    Commands = {}
    Runs = {1, 2, 3}
    DailyCap = 2
    OpenCap = 2
    FinishOpenWork = TRUE
    Patient = TRUE
    Budget <- Mishaps
SPECIFICATION Spec
INVARIANTS
    TypeOK
    OneContainer
    BranchFree
PROPERTIES
    NoBlindRerun
    ImplementsQueue
