CONSTANTS
    p1 = p1
    p2 = p2
    cr1 = cr1
    cr2 = cr2
    Attempts = {p1}
    Objects = {cr1, cr2}
    Versions <- TwoVersions
    APIs <- TwoAPIs
    MaxChanges = 2
    MaxFaults = 2
SPECIFICATION FairSpec
CHECK_DEADLOCK FALSE
PROPERTY RestartRecovers
