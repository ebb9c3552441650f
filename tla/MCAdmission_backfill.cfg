CONSTANTS
    i1 = i1
    s1 = s1
    h1 = h1
    h2 = h2
    t1 = t1
    b1 = b1
    None = None
    Numbers = {1, 2, 3}
    Patient = TRUE
    Items = {i1, s1}
    Polled = {i1}
    Backlog = {i1}
    Hooks = {h1}
    Timers = {t1}
    Bots = {b1}
    Budget <- Change
SPECIFICATION Spec
INVARIANTS
    OneWaiting
    DryRunIsQuiet
CHECK_DEADLOCK FALSE
