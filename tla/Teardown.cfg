CONSTANTS
    DSCModules <- MCDSCModules
    DSCIModules <- MCDSCIModules
    Established = {}
    Toggled = {}
    Policies <- MCNone
    Uninstallable = TRUE
    PlatformDeletable = TRUE
SPECIFICATION Spec
PROPERTIES
    OwnersKept
    AnchoredOperators
CHECK_DEADLOCK FALSE
