SPECIFICATION MCSpec
CONSTANTS
    Namespaces = {"a", "b"}
    KueueEvents = 4
    CMDeps = {"sail", "rhcl"}
    CMEvents = 3
    PKIEvents = 5
    Notebooks = {"n"}
    UpEvents = 2
    APIEvents = 5
    HWEvents = 4
    SCCEvents = 5
    ComponentNames = {1}
    ModuleNames = {2}
    Readers = {"g", "h"}
    BatchesOf <- Resolve
    RegEvents = 4
    Suite <- MCSuite
    RetryOptions <- MCRetryOptions
    BinaryMayCrash = TRUE
INVARIANTS
    ControllersSettle
    AdmissionIsFaithful
    
    RetryIsHonest
    AlgorithmsAgree
PROPERTIES
    NothingNeededIsTaken
    AnswersAreCurrent
VIEW MCView
CHECK_DEADLOCK FALSE
