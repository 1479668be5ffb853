SPECIFICATION FairSpec
CONSTANTS
    old = old
    new = new
    Procs = {old, new}
    Version <- MCVersion
    Keys <- MCKeys
    Descriptions = {"msg"}
    InTree <- MCInTree
    Charts <- MCCharts
    LabelledKeys <- MCKeys
INVARIANTS
    PassMeansApproved
    RestIsJustified
PROPERTIES
    AcksSurvive
    GatesOpenEventually
