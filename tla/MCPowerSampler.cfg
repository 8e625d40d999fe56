SPECIFICATION FairSpec
CONSTANTS
    k1 = k1
    k2 = k2
    Keys <- TwoKeys
    Readings <- MCReadings
    HasStore = TRUE
    Retention = 2
    PruneInterval = 2
    Faults = {"append", "prune", "kill"}
    MaxStep = 2
    MaxClock = 6
INVARIANTS
    TypeOK
    Chronological
    CallInProgress
    WindowMatchesStore
    SummaryIsByInstant
    OverRetentionBounded
PROPERTIES
    RefinesHistory
    CreditNeverShrinks
    DurableBecomesVisible
