SPECIFICATION Spec
CONSTANTS
    MaxTries = 3
    MaxStatus = 3
    MaxReports = 3
    Levels = {2, 3}
    Default = 3
INVARIANTS
    SessionTypeOK
    HandshakeIsWhole
    ReportsMatchFlags
    CameraMatchesReports
    IrIsNeverSilent
    ExpansionIsNoticed
PROPERTIES
    HandlersReturn
