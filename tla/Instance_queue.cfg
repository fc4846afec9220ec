SPECIFICATION FairSpec
CONSTANTS
    Machines = {"m1"}
    Pollers = {"p1", "p2"}
    FaultKinds = {"aws", "api", "timeout", "crash"}
    MaxFaults = 2
    MaxEvents = 3
INVARIANTS
    NoOrphanEvents
    AtLeastOnce
PROPERTIES
    EventProcessed
    QueueForgotten
CHECK_DEADLOCK FALSE
