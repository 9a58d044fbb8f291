SPECIFICATION FairSpec
CONSTANTS
    Collectors <- TwoOn
    PathsOf <- ThreePaths
    Interval = 2
    MaxSockets = 2
    MaxWork = 5
    MaxOvershoot = 1
    Unset = Unset
    Unreadable = Unreadable
    NaN = NaN
    Scale = 1
INVARIANTS TypeOK ShownIsCurrent
PROPERTIES Paced CollectorsAreIsolated StopEnds
