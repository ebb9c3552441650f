CONSTANTS
    i1 = i1
    s1 = s1
    h1 = h1
    h2 = h2
    t1 = t1
    b1 = b1
    None = None
    Numbers = {1, 2, 3}
    Patient = TRUE
    Items = {i1}
    Polled = {i1}
    Backlog = {}
    Hooks = {h1, h2}
    Timers = {}
    Bots = {b1}
    Budget <- Mishaps
SPECIFICATION Spec
INVARIANTS
    TypeOK
    OneWaiting
    DryRunIsQuiet
PROPERTIES
    MovedStays
SYMMETRY Threads
CHECK_DEADLOCK FALSE
