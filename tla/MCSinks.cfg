SPECIFICATION FairSpec
CONSTANTS
    Nodes = {n1, n2}
    Levels = {0, 2, 3}
    None = None
    Timeout = 2
    Deadline = 4
    ShowInterval = 3
    FlushInterval = 3
    Never = Never
INVARIANTS WithheldIsYoung EachPointOnce NoneForgotten
PROPERTY SilenceIsShown
