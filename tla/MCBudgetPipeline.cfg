SPECIFICATION FairServingSpec
CONSTANTS
    ns1 = ns1
    ns2 = ns2
    m1 = m1
    pod = pod
    node = node
    report = report
    other = other
    team = team
    Namespaces = {ns1, ns2}
    Models = {m1}
    Pods = {pod}
    PodOf <- PodInFirst
    Profiles = {node}
    Rates = {6}
    Reports = {report}
    ReportSpecs <- EitherFilter
    PeriodLength = 3
    ReportFaults = {"restart"}
    FirstClock = 1
    MaxTokens = 1
    MaxClock = 1
    Names = {team}
    Budgets <- FirstBudget
    BudgetSpecs <- OwnScope
    BudgetFaults = {"restart"}
    MaxEntries = 2
    MaxChanges = 7
INVARIANTS
    ExcludedSpendNothing
PROPERTIES
    BudgetsCatchUp
