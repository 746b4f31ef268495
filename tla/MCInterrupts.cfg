CONSTANTS
    Devices <- AllDevices
    MayDeactivate = TRUE
SPECIFICATION Spec
INVARIANTS
    TypeOK
    RightNumber
    DriverReady
PROPERTIES
    EndsOnlyItsOwn
    NoneLeftInService
    Served
