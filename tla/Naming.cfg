SPECIFICATION NamingSpec
CONSTANTS
    Int32Max = 1
    Elements = {1, 2, 3}
    GivenNames <- MCNames
    ChildIds <- MCChildIds
    MaxAttempts = 1
    MaxCalls = 4
    MaxTrace = 2
    MaxDepth = 1
    Hints = {0, 1, 5}
    Texts <- MCTexts
    SizeLimit = 9
    InputChoices <- MCInputs
    ResultElements <- MCResultElements
    Topologies <- MCTopologies
    OpId <- MCOpId
    Shapes <- MCShapes
    MaxRecords = 3
    Current <- MCCurrent
    Versions <- MCVersions
    MaxMigrations = 3
INVARIANTS
    
    NumberingIrrelevant
    ResultNamesSound
    MigrationsAgree
PROPERTIES
    NamesLeadBack
CHECK_DEADLOCK FALSE
