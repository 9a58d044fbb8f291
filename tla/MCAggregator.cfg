SPECIFICATION FairSpec
CONSTANTS
    Nodes = {"arm", "leg"}
    ZmqLevels = {0}
    RosLevels = {3}
    None = None
    Malformed = Malformed
    Sources <- RosSources
    NumSinks <- RosSinks
    Timeout = 1
    CheckInterval = 1
    MaxPass = 1
    ZmqHwm = 1
    RosDepth = 1
    Arrays <- OneAndTwo
    Unset = Unset
    Unreadable = Unreadable
    NaN = NaN
    Scale = 1
INVARIANTS TypeOK StaleSound StaleTimely SinksCurrent
PROPERTIES BoardSpec SilenceIsPublished QueuedIsProcessed StopCloses
