SPECIFICATION Spec
CONSTANTS
    Patience <- Timeouts
    Grace = 1
    Interfaces = {eth0, usb0}
    Absent = Absent
    MaxDelay = 1
    MaxUnread = 4
    MinPeriod = 2
    MaxPeriod = 3
    MaxHang = 1
INVARIANTS NoChildSurvives PassIsBounded
PROPERTIES RaisedOrGivenUp RatesSpanTheirTime
