\* Transformers that reject a feature, and exceptions that leave a replay.
SPECIFICATION Spec
CONSTANTS
    f1 = f1
    f2 = f2
    f3 = f3
    v1 = v1
    v2 = v2
    bad = bad
    c = c
    Ids = {f1, f2, f3}
    Literals = {v1, v2, bad}
    FailingValues = {bad}
    Inputs = {c}
    NoRef = NoRef
    Unbound = Unbound
    NoTransformer = NoTransformer
    Catalog <- MCConfiguredCatalog
    NewValues = {v1, c, bad}
    Configs <- MCConfigs
    Markers = {}
    Aborts = TRUE
    MaxFeatures = 2
    MaxIdentity = 5
    MaxEdits = 5
INVARIANTS
    CleanShapesFollowStatus
