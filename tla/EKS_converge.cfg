SPECIFICATION FairSpec
CONSTANTS
    Addons = {"coredns"}
    Principals = {"admin"}
    MaxVersion = 3
    EditKinds = {"version", "logging", "auth", "addons", "oidc", "idp", "entries", "foreign"}
    MaxEdits = 3
    FaultKinds = {"aws", "patch", "timeout", "update", "crash"}
    MaxFaults = 1
INVARIANTS
    NoOrphanEKS
PROPERTIES
    EKSConverges
    DeletionCompletes
CHECK_DEADLOCK FALSE
