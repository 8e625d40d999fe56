SPECIFICATION Spec
CONSTANTS
    ns1 = ns1
    ns2 = ns2
    m1 = m1
    pod = pod
    node = node
    report = report
    other = other
    team = team
    Namespaces = {ns1, ns2}
    Models = {m1}
    Pods = {pod}
    PodOf <- PodInFirst
    Profiles = {node}
    Rates = {6}
    Reports = {report, other}
    ReportSpecs <- FilteredApart
    PeriodLength = 3
    ReportFaults = {}
    FirstClock = 1
    MaxTokens = 1
    MaxClock = 1
    Names = {team}
    Budgets <- FirstBudget
    BudgetSpecs <- OwnScope
    BudgetFaults = {}
    MaxEntries = 2
    MaxChanges = 6
PROPERTIES
    SpendIsAccumulated
