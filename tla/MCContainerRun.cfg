CONSTANTS
    None = None
    Poll = 2
    Timeout = 5
    Stall = 3
    End = 9
    Budget = 2
SPECIFICATION Spec
INVARIANTS
    TypeOK
    CutIsRight
    InTime
    ParkedStays
    CleanEnd
    TreeOutlives
    TokenReturns
PROPERTIES
    NoFalseSuccess
    Reviewed
    Ends
CHECK_DEADLOCK FALSE
