\* One configuration, two answers.
SPECIFICATION PSSpec
CONSTANTS
    f1 = f1
    f2 = f2
    v1 = v1
    v2 = v2
    bad = bad
    size = size
    Ids = {f1, f2}
    Literals = {v1, v2, bad}
    FailingValues = {bad}
    Inputs = {size}
    NoRef = NoRef
    Unbound = Unbound
    NoTransformer = NoTransformer
    NoDocument = NoDocument
    Catalog <- MCCatalog
    NewValues = {size, v1}
    Configs = {}
    Specs <- MCSpecs
    ConfigValues <- MCConfigValues
    Markers = {1}
    Aborts = TRUE
    MaxFeatures = 2
    MaxIdentity = 4
    MaxEdits = 3
INVARIANT ExecuteIsDeterministic
