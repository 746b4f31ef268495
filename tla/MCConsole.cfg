CONSTANTS
    Width = 4
    Height = 2
    Half = 4
    MaxMarred = 1
    Message <- MCMessage
    Texts <- MCTexts
    Offsets <- MCOffsets
SPECIFICATION Spec
INVARIANTS
    TypeOK
    
    OnePointer
    PrintsAsWhole
PROPERTIES
    PrintfReturns
    PointerFollows
