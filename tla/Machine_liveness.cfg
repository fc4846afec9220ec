SPECIFICATION FairSpec
CONSTANTS
    None = None
    i1 = i1
    Instances = {i1}
    Hosts = {}
    Eips = {}
    Prefixes = {}
    NChunks = 1
    SecretBackend = "none"
    DynamicHost = FALSE
    ElasticIPPool = FALSE
    LoadBalancers <- ClassicLB
    ImageKnown = TRUE
    CanStop = TRUE
    FaultKinds = {"aws", "denied"}
    MaxFaults = 2
PROPERTIES
    LeavesLoadBalancer
    DeletionCompletes
CHECK_DEADLOCK FALSE
