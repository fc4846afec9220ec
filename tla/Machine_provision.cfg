SPECIFICATION FairSpec
CONSTANTS
    None = None
    h1 = h1
    h2 = h2
    h3 = h3
    i1 = i1
    p1 = p1
    p2 = p2
    p3 = p3
    Instances = {i1}
    Hosts = {h1, h2, h3}
    Eips = {}
    Prefixes = {p1, p2, p3}
    NChunks = 1
    SecretBackend = "sm"
    DynamicHost = TRUE
    ElasticIPPool = FALSE
    LoadBalancers <- NoLBs
    ImageKnown = TRUE
    CanStop = FALSE
    FaultKinds = {"aws"}
    MaxFaults = 2
INVARIANTS
    TypeOK
    BootstrapKept
    NoOrphanSecrets
PROPERTIES
    ProvisioningCompletes
CHECK_DEADLOCK FALSE
