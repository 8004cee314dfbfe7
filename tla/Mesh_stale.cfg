SPECIFICATION ModellingSpec
CONSTANTS
    NaN = NaN
    Values = {0, 1}
    Half <- MCHalf
    Seeds <- MCSeeds
    ConstraintChoices <- MCChoices
    StartSketches <- MCStart
    MaxSketchCalls = 0
    MaxEntities = 3
    MaxConstraints = 2
    MaxDrawn = 0
    IndexSpace = 20
    MaxMeshTriangles = 3
    MaxMeshVertices = 6
    MaxGlbWords = 90
    MaxMeshCalls = 4
    MaxFaces = 2
INVARIANT ChangedFacesRemeshed
CHECK_DEADLOCK FALSE
