SPECIFICATION ModellingSpec
CONSTANTS
    NaN = NaN
    Values = {0, 1}
    Half <- MCHalf
    Seeds <- MCSeeds
    ConstraintChoices <- MCChoices
    StartSketches <- MCStart
    MaxSketchCalls = 3
    MaxEntities = 3
    MaxConstraints = 2
    MaxDrawn = 3
    IndexSpace = 20
    MaxMeshTriangles = 3
    MaxMeshVertices = 6
    MaxGlbWords = 90
    MaxFaces = 2
    MaxMeshCalls = 4
INVARIANTS
    SolvedMeansMet
    FailuresReachTheCaller
    CachedFacesFit
    BuffersShowTheFaces
PROPERTIES
    
    IdentitiesAccounted
CHECK_DEADLOCK FALSE
