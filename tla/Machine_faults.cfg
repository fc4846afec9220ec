SPECIFICATION Spec
CONSTANTS
    None = None
    e1 = e1
    e2 = e2
    h1 = h1
    h2 = h2
    h3 = h3
    i1 = i1
    i2 = i2
    Instances = {i1, i2}
    Hosts = {h1, h2, h3}
    Eips = {e1, e2}
    Prefixes = {}
    NChunks = 1
    SecretBackend = "none"
    DynamicHost = TRUE
    ElasticIPPool = TRUE
    LoadBalancers <- TwoLBs
    ImageKnown = TRUE
    CanStop = FALSE
    FaultKinds = {"aws", "patch", "crash"}
    MaxFaults = 3
SYMMETRY Ids
INVARIANTS
    OneLiveInstance
    NoOrphanInstance
    OneAddress
    OneHost
PROPERTIES
    ImplementsLifecycle
    DrainedBeforeTermination
CHECK_DEADLOCK FALSE
