\* Incremental replay against full replay, references kept upstream.
SPECIFICATION UpstreamFairSpec
CONSTANTS
    f1 = f1
    f2 = f2
    f3 = f3
    v1 = v1
    v2 = v2
    bad = bad
    c = c
    Ids = {f1, f2, f3}
    Literals = {v1, v2, bad}
    FailingValues = {bad}
    Inputs = {}
    NoRef = NoRef
    Unbound = Unbound
    NoTransformer = NoTransformer
    Catalog <- MCCatalog
    NewValues = {v1, bad}
    Configs = {}
    Markers = {}
    Aborts = FALSE
    MaxFeatures = 3
    MaxIdentity = 5
    MaxEdits = 6
PROPERTIES
    
    ReplayCompletes
