CONSTANTS
    h1 = h1
    t1 = t1
    b1 = b1
    None = None
    Hooks = {h1}
    Timers = {t1}
    Bots = {}
    Cap = 2
    Last = 2
    Most = 3
    End = 3
    Prompt = TRUE
    Budget = 1
SPECIFICATION Spec
INVARIANTS
    TypeOK
    OneRound
    CapHolds
    MarkIsSafe
PROPERTIES
    Answered
CHECK_DEADLOCK FALSE
