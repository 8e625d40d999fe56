SPECIFICATION FairSpec
CONSTANTS
    p1 = p1
    p2 = p2
    m1 = m1
    m2 = m2
    n1 = n1
    n2 = n2
    rack = rack
    all = all
    other = other
    Pods = {p1}
    ModelOf <- Replicas
    NodeOf <- TwoNodes
    Profiles = {rack, all, other}
    NodesOf <- Overlapping
    SnapshotInterval = 2
    AnswerDelay = 2
    Faults = {"scrape", "restart"}
    MaxTokens = 5
    MaxClock = 7
INVARIANTS
    TypeOK
    RateIsPlausible
    ModelsAreCompared
PROPERTIES
    PodsAreListed
