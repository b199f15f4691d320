SPECIFICATION Spec
CONSTANTS
    Dots = 3
    Views <- MCViews
    Aspects = {"4:3", "16:9"}
    Positions = {"BELOW"}
    Resolutions <- MCResolutions
INVARIANTS
    IrTypeOK
    DotsAreOrdered
    CursorIsOnScreen
PROPERTIES
    LostDotKeepsMiddle
