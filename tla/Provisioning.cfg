SPECIFICATION Spec
CONSTANTS
    m1 = m1
    c1 = c1
    Modules <- TwoModules
    Components <- MCComponents
    Order <- TwoOrder
    Timeout <- TwoTimeout
    MaxVersion = 2
    GateVersion <- TwoGateVersion
    ChartGates <- TwoChartGates
    OrderingDisabled = FALSE
INVARIANTS
    ComponentOrder
    StampFollowsDeploy
    ProgressTrueMeansDone
    WaitHasWakeup
PROPERTIES
    GatedDeploy
    OperatorOutlivesCR
