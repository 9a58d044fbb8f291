SPECIFICATION CallSpec
CONSTANTS
    Keys <- HostKeys
    Values <- ZoneValues
    Direction <- HostDirection
    Warn <- HostWarn
    Error <- HostError
    None = None
    Margin <- HostMargin
    Consecutive <- HostConsecutive
    Samples <- HostSamples
    AlertsOf <- HostAlertsOf
    KeyOf <- HostKeyOf
    Optional <- HostOptional
    Bare <- HostBare
    Unset = Unset
    Unreadable = Unreadable
    NaN = NaN
    Scale = 1
    Config <- ZonesConfig
INVARIANTS TypeOK NothingWithheld TroubleIsShown AlarmHasCause
PROPERTY ChangesAreJustified
