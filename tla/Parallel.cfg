CONSTANTS
    NumCases = 5
    Counts = {0, 1, 3}
SPECIFICATION Spec
CHECK_DEADLOCK FALSE
INVARIANTS
    NoCaseLost
    CrashTolerance
    PoolsBounded
PROPERTIES
    Terminates
    ImplementsStream
