CONSTANTS
    w1 = w1
    w2 = w2
    None = None
    Windows <- MCWindows
    Frame <- MCFrame
    Control <- MCControl
    Offsets <- MCOffsets
    Buttons = {1, 2}
    Width = 4
    Height = 2
    MaxChildren = 2
    Half = 512
    Table <- MCTable
    Former <- MCFormer
    Modes <- MCModes
SPECIFICATION GraphicsSpec
CHECK_DEADLOCK FALSE
INVARIANTS
    GraphicsTypeOK
    FrontDragHolds
    KeysToLastPressed
    FrontIsTold
    EachRegisterSet
    DrawnOnScreen
PROPERTIES
    DragKeepsGrip
