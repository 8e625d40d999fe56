SPECIFICATION FiguresThenExport
CONSTANTS
    ns1 = ns1
    ns2 = ns2
    m1 = m1
    m2 = m2
    budget = budget
    flagship = flagship
    free = free
    unknown = unknown
    Namespaces = {ns1, ns2}
    Models = {m1, m2}
    Amortization = 2
    EnergyPrice = 1
    IdleWatts = 1
    Watts = {1, 2, 4}
    Catalogue <- ThreePrices
    Targets <- FourTargets
    TicksPerDay = 24000
    MaxTicks = 3
    MaxTokens = 3
    Home = ns1
    Scrapes <- SixScrapes
    PeriodCosts = {10, 25}
    Periods = {1, 2}
INVARIANTS
    TypeOK
    CostsAddUp
    FiguresAreOrdered
    VerdictIsCheaper
    ExportMatchesReport
    ExportFollowsBudgets

    
