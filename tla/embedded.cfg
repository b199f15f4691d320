SPECIFICATION Spec
CONSTANTS
    NumRemotes = 2
    Devices = {d1, d2}
    Parts = 2
    MaxReports = 1
    MaxQueue = 0
    MaxUnread = 2
    NoDevice = NoDevice
SYMMETRY Symmetry
INVARIANTS
    EmbeddedTypeOK
    ChannelsMatch
    ReportsAreKept
    CleanReadIsWhole
PROPERTIES
    ConnectEndsItsAttempt
CHECK_DEADLOCK FALSE
