CONSTANTS
    Points = {p}
    Schedules <- SomeSchedules
    MaxReports = 2
SPECIFICATION Spec
CHECK_DEADLOCK FALSE
INVARIANTS
    AnswerSound
    TraceChained
    UnknownMeansExhausted
PROPERTIES
    ImplementsSolver
