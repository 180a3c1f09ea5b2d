CONSTANTS
    FreeVars <- Vars
    MaxRects = 4
    Contexts <- AllQuestions
    Plan <- Tools
    Iterations = 2
    Models <- Assignments
    MaxPasses = 32
    ValueOf <- Value
    VariablesOf <- Variables
    ConstantFolded <- Fold
    Substituted <- Substitute
    ConjunctsOf <- Conjuncts
    SplitOf <- Split
    Trimmed <- Trim
    RivalAnswer <- Feasibility
    EGraphOf <- GraphOf
    EGraphAfter <- NextGraph
    Verified <- Found
    CheapestEquals <- Smaller
    WorthTheSame <- OneWorth
SPECIFICATION ToolsSpec
CHECK_DEADLOCK FALSE
INVARIANTS
    NoModelLost
    NoModelGained
    VerdictSound
    Saturates
    RewritingSound
