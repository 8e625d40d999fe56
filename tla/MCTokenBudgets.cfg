SPECIFICATION FairSpec
CONSTANTS
    ns1 = ns1
    ns2 = ns2
    team = team
    Namespaces = {ns1, ns2}
    Names = {team}
    Budgets <- OneBudget
    SpecsOf <- OwnSpecs
    CostTables <- TwoCosts
    Faults = {"update", "lost", "rule", "restart"}
    MaxEntries = 3
INVARIANTS
    TypeOK
    ViewsAgree
    EntriesAreUnique
PROPERTIES
    VerdictFollowsSpec
    SpendIsReflected
    AlertsSettle
