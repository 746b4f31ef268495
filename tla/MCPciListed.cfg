CONSTANTS
    Buses = 2
    Slots = 2
    Functions = 2
    Cards <- MCCards
    Packets <- MCPackets
    Keys <- MCKeys
    Modes <- MCModes
    Room = 2
    MaxKeys = 4
    MaxPackets = 3
SPECIFICATION Spec
CHECK_DEADLOCK FALSE
INVARIANTS
    ListedAsPresent
