SPECIFICATION Spec
CONSTANTS
    None = None
    ByoVpc = ByoVpc
    e1 = e1
    e2 = e2
    g1 = g1
    g2 = g2
    l1 = l1
    l2 = l2
    v1 = v1
    v2 = v2
    z1 = z1
    Vpcs = {v1, v2}
    Igws = {g1, g2}
    Eips = {e1, e2}
    Lbs = {l1, l2}
    Zones = {z1}
    Roles = {"controlplane", "node"}
    Specs <- AllKinds
    FaultKinds = {"aws", "patch", "crash", "stale", "codeless", "lblost"}
    MaxFaults = 2
SYMMETRY Ids
INVARIANTS
    OneVPC
    UnmanagedNetworkKept
CHECK_DEADLOCK FALSE
