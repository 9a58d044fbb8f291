SPECIFICATION Spec
CONSTANTS
    Values = {1, 2, 3}
    Largest = 4
    Cap = 3
    TwoThreads = FALSE
    PassesTime = TRUE
    Warnings <- WarnLimits
    Errors <- ErrorLimits
    MaxUpdates = 6
    MaxTime = 2
INVARIANTS ReportIsExact LevelIsOfItsWindow
PROPERTY DurationIsElapsed
CHECK_DEADLOCK FALSE
