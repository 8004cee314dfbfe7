SPECIFICATION ServicesSpec
CONSTANTS
    Contexts = {c1, c2}
    Tokens = {t1}
    Documents = {7}
    None = None
    MaxCounter = 2
    Scenes <- MCScenes
    Additions <- MCAdditions
    ParamNames <- MCParamNames
    ParamValues <- MCParamValues
    InputSpecs <- MCInputSpecs
    InputValues <- MCInputValues
    MaxHandles = 8
    MaxApiCalls = 3
    Int32Max = 3
    Allocators = {"a", "b"}
    DocumentIds = {0, 1, 5, 8, 9}
    Seeds = {0, 6, 30}
    RangeSizes = {1, 2}
    Foreign <- FromElsewhere
    Persisted <- NoneRead
    MaxCalls = 5
    Reportable <- MCReportable
    Caps = {0, 2}
    CapChanges = TRUE
    Unlimited = 99
    OutOfMemory = TRUE
    DebugBuild = TRUE
    MaxDepth = 2
    MaxReports = 3
    MaxGeneration = 1
INVARIANTS
    
    HandlesSound
    AnswersFitHandles
    AllocatorConsistent
    TagsNameOneIdentity
    CollectorConsistent
    ResultsTruthful
PROPERTIES
    KeptUpToCap
CHECK_DEADLOCK FALSE
