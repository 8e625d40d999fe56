SPECIFICATION Spec
CONSTANTS
    p1 = p1
    p2 = p2
    m1 = m1
    m2 = m2
    n1 = n1
    n2 = n2
    rack = rack
    all = all
    other = other
    Pods = {p1, p2}
    ModelOf <- Replicas
    NodeOf <- TwoNodes
    Profiles = {all}
    NodesOf <- Overlapping
    SnapshotInterval = 1
    AnswerDelay = 1
    Faults = {}
    MaxTokens = 2
    MaxClock = 5
INVARIANTS
    TokensAreTotal
