SPECIFICATION FairSpec
CONSTANTS
    Ids = {1, 2}
    Configs = {1, 2}
    Datas = {1, 2}
    Tags = {"t"}
    HookSpecs = {0, 1}
    Sizes = {1, 2}
    Modes <- Plain
    EditKinds = {"config", "data", "tags", "hook", "suspend", "replicas", "max", "rebalance", "delete"}
    MaxEdits = 2
    FaultKinds = {"aws", "patch", "crash", "timeout"}
    MaxFaults = 1
PROPERTIES
    PoolConverges
    RolloutCompletes
    PoolDeletionCompletes
CHECK_DEADLOCK FALSE
