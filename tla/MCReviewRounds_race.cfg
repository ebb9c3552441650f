CONSTANTS
    h1 = h1
    t1 = t1
    b1 = b1
    None = None
    Hooks = {h1}
    Timers = {}
    Bots = {}
    Cap = 2
    Last = 1
    Most = 2
    End = 2
    Prompt = FALSE
    Budget = 1
SPECIFICATION Spec
INVARIANT OneRound
CHECK_DEADLOCK FALSE
