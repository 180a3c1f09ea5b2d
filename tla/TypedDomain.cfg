CONSTANTS
    N = 2
    Dtypes <- TwoInputs
    Bounds <- Outputs
    Problems <- AlmostUniform
    Minimum <- Lowest
    Maximum = 0
    Excluded = 0
SPECIFICATION Spec
CHECK_DEADLOCK FALSE
INVARIANTS
    FitAnswerSound
    BoundsEnclose
    ComplaintsAreReal
PROPERTIES
    Terminates
