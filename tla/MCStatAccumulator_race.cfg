SPECIFICATION Spec
CONSTANTS
    Values = {1}
    Largest = 4
    Cap = 1
    TwoThreads = TRUE
    PassesTime = TRUE
    Warnings <- WarnLimits
    Errors <- ErrorLimits
    MaxUpdates = 3
    MaxTime = 0
INVARIANT CountsAddUp
CHECK_DEADLOCK FALSE
