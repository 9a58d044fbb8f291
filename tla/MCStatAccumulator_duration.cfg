SPECIFICATION Spec
CONSTANTS
    Values = {1}
    Largest = 4
    Cap = 0
    TwoThreads = FALSE
    PassesTime = FALSE
    Warnings <- WarnLimits
    Errors <- ErrorLimits
    MaxUpdates = 2
    MaxTime = 2
PROPERTY DurationIsElapsed
CHECK_DEADLOCK FALSE
