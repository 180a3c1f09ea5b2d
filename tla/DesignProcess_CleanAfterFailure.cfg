CONSTANTS
    NumPaths = 1
    MaxParts = 0
    MaxInterrupts = 1
SPECIFICATION Spec
CHECK_DEADLOCK FALSE
INVARIANT CleanAfterFailure
