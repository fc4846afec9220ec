SPECIFICATION FairSpec
CONSTANTS
    Machines = {"m1", "m2"}
    Pollers = {}
    FaultKinds = {"aws", "api", "crash"}
    MaxFaults = 1
    MaxEvents = 2
INVARIANTS
    NeverCatchAll
PROPERTIES
    PatternConverges
CHECK_DEADLOCK FALSE
