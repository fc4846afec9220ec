SPECIFICATION Spec
CONSTANTS
    Ids = {1, 2}
    Configs = {1, 2}
    Datas = {1, 2}
    Tags = {"t"}
    HookSpecs = {0, 1}
    Sizes = {1, 2}
    Modes <- PlainAndExternal
    EditKinds = {"config", "data", "tags", "hook", "suspend", "replicas", "max", "rebalance", "delete"}
    MaxEdits = 1
    FaultKinds = {"aws", "patch", "crash", "timeout", "instance"}
    MaxFaults = 2
INVARIANTS
    VersionsBounded
    RefreshCanStart
PROPERTIES
    ImplementsLifecycle
    OnlyOrphansDeleted
CHECK_DEADLOCK FALSE
