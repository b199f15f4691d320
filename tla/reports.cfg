SPECIFICATION Spec
CONSTANTS
    Buttons = {A}
    PadButtons = {C}
    Expansions = {"PAD", "BOARD"}
    Accels = {0, 2}
    OneG = 1
    AngleStep = 2
    AccelThreshold = 2
    OrientThreshold = 2
    Tilts = {0, 2}
    Loads = {0, 2}
    RawPerKilo = 2
    Spots = {s1, s2}
INVARIANTS
    ReportsTypeOK
    EdgesFollowButtons
    EdgesFollowPad
    StillRemoteIsQuiet
SYMMETRY SpotSymmetry
CONSTRAINT OneAtATime
