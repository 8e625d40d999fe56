SPECIFICATION Spec
CONSTANTS
    ns1 = ns1
    ns2 = ns2
    team = team
    Namespaces = {ns1, ns2}
    Names = {team}
    Budgets <- OneBudget
    SpecsOf <- CentralSpecs
    CostTables <- OneCost
    Faults = {}
    MaxEntries = 3
INVARIANTS
    EntriesAreUnique
