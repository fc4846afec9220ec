SPECIFICATION FairSpec
CONSTANTS
    MaxVersion = 2
    MaxRev = 2
    MaxSize = 2
    Shapes = {{"pool", "autoupgrade", "autoscale", "edit pool"}, {"fargate", "autoupgrade"}, {"pool", "workload"}, {"fargate", "workload"}, {"config", "edit config"}}
    MaxEdits = 2
    FaultKinds = {"aws", "kube", "patch", "timeout", "update", "crash"}
    MaxFaults = 1
INVARIANTS
    NoOrphanWorkers
PROPERTIES
    WorkersConverge
    DeletionCompletes
CHECK_DEADLOCK FALSE
