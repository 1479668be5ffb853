CONSTANTS
    DSCModules <- MCDSCModules
    DSCIModules <- MCDSCIModules
    Established = {"DSC", "DSCI"}
    Toggled = {"kserve", "monitoring"}
    Policies <- MCForegroundDSC
    Uninstallable = FALSE
    PlatformDeletable = FALSE
SPECIFICATION FairSpec
PROPERTIES
    OperatorOutlivesCR
    FinalizersServed
    TeardownCompletes
CHECK_DEADLOCK FALSE
