SPECIFICATION OneProfileFairSpec
CONSTANTS
    n1 = n1
    n2 = n2
    rack = rack
    Nodes = {n1, n2}
    Profiles = {rack}
    SpecsOf <- MixedSpecs
    Readings <- OnOrOff
    Flags <- Both
    ReconcileInterval = 1
    Faults = {"record", "update", "lost", "restart"}
    MaxClock = 1
INVARIANTS
    TypeOK
    ViewsAgree
PROPERTIES
    CostFollowsSpec
    PowerCatchesUp
