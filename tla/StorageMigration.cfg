CONSTANTS
    p1 = p1
    p2 = p2
    cr1 = cr1
    cr2 = cr2
    Attempts <- Processes
    Objects = {cr1}
    Versions <- TwoVersions
    APIs <- OneAPI
    MaxChanges = 3
    MaxFaults = 1
SPECIFICATION Spec
SYMMETRY Symmetry
CHECK_DEADLOCK FALSE
INVARIANTS
    HistoryCoversObjects
    DoneMeansPruned
PROPERTIES
    DeletesOnlySpent
    PruningIsAtomic
