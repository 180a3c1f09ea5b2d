CONSTANTS
    NumDesigns = 2
    RunInterrupts = 2
SPECIFICATION SpecRun
CHECK_DEADLOCK FALSE
INVARIANTS
    ProgressOnDisk
    DesignsFullyChecked
    ExitTellsTruth
