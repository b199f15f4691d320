SPECIFICATION Spec
CONSTANTS
    MaxTries = 3
    MaxStatus = 3
    MaxReports = 3
INVARIANTS
    MotionPlusTypeOK
    PortIsUnderstood
PROPERTIES
    ActiveStaysActive
    HandlersReturn
