CONSTANTS
    NumPaths = 2
    MaxParts = 1
    MaxInterrupts = 3
SPECIFICATION Spec
CHECK_DEADLOCK FALSE
INVARIANTS
    GroupCleaned
    PassedIsProved
    ProgressRetained
PROPERTIES
    Terminates
