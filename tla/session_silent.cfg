SPECIFICATION Spec
CONSTANTS
    MaxTries = 2
    MaxStatus = 2
    MaxReports = 2
    Levels = {2, 3}
    Default = 3
INVARIANTS
    ReportsAreReenabled
