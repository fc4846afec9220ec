SPECIFICATION FairSpec
CONSTANTS
    Networks = {n1, n2}
    Ref = n1
    Shapes = {{n1, n2, "delete network"}, {n1, "cluster", "edit cluster"}, {"roles", "cluster", "delete roles"}, {"cluster", "pool", "edit pool", "delete pool"}}
    MaxVersion = 2
    MaxSize = 2
    MaxEdits = 1
    FaultKinds = {"aws", "ocm", "kube", "patch", "update", "install", "resync", "crash"}
    MaxFaults = 1
INVARIANTS
    NoOrphanROSA
PROPERTIES
    ROSAConverges
    ROSADeletionCompletes
CHECK_DEADLOCK FALSE
