SPECIFICATION CallSpec
CONSTANTS
    Keys <- HostKeys
    Values <- LinkValues
    Direction <- HostDirection
    Warn <- HostWarn
    Error <- HostError
    None = None
    Margin <- HostMargin
    Consecutive <- HostConsecutive
    Samples = {"network"}
    AlertsOf <- HostAlertsOf
    KeyOf <- HostKeyOf
    Optional <- HostOptional
    Bare <- HostBare
    Unset = Unset
    Unreadable = Unreadable
    NaN = NaN
    Scale = 10
    Config <- DefaultConfig
INVARIANT BestValueClears
