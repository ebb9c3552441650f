CONSTANTS
    i1 = i1
    s1 = s1
    h1 = h1
    h2 = h2
    t1 = t1
    b1 = b1
    None = None
    Numbers = {1, 2, 3}
    Patient = FALSE
    Items = {i1}
    Polled = {i1}
    Backlog = {}
    Hooks = {h1}
    Timers = {}
    Bots = {b1}
    Budget <- Slip
SPECIFICATION Spec
INVARIANTS
    OneWaiting
CHECK_DEADLOCK FALSE
