SPECIFICATION FairSpec
CONSTANTS
    None = None
    ByoVpc = ByoVpc
    e1 = e1
    e2 = e2
    e3 = e3
    g1 = g1
    g2 = g2
    l1 = l1
    l2 = l2
    v1 = v1
    z1 = z1
    z2 = z2
    Vpcs = {v1}
    Igws = {g1, g2}
    Eips = {e1, e2, e3}
    Lbs = {l1, l2}
    Zones = {z1, z2}
    Roles = {"bastion", "node"}
    Specs <- Deletable
    FaultKinds = {"aws", "crash", "lblost"}
    MaxFaults = 1
INVARIANTS
    NoOrphanResources
    ReadyMeansProvisioned
PROPERTIES
    ClusterBecomesReady
    ClusterDeletionCompletes
CHECK_DEADLOCK FALSE
