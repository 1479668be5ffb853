SPECIFICATION Spec
CONSTANTS
    i1 = i1
    k1 = k1
    k2 = k2
    NoKey = NoKey
    default = default
    Ingresses <- MCIngresses
    Default = default
    Platforms <- MCPlatforms
    SessionKeys <- MCKeys
    MaxEdits = 2
SYMMETRY Symmetry
INVARIANTS
    GatewaySettled
    ReadyIsTruthful
PROPERTIES
    TrafficStaysFiltered
    AuthenticationSurvives
    ForeignObjectsKept
CHECK_DEADLOCK FALSE
