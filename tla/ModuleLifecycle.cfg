CONSTANTS
    m1 = m1
    Modules <- OneModule
    MaxEdits = 3
    MaxFaults = 1
SPECIFICATION FairSpec
INVARIANTS
    TypeOK
    StatusSettles
    ReadyMeansCurrent
PROPERTIES
    EnabledBecomesReady
    DisabledIsCleaned
    DeletionServed
CHECK_DEADLOCK FALSE
