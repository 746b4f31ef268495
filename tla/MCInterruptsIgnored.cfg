CONSTANTS
    Devices <- MouseAndDisk
    MayDeactivate = FALSE
SPECIFICATION Spec
PROPERTIES
    ServedBesideOthers
