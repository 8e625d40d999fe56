SPECIFICATION OneReportFairSpec
CONSTANTS
    ns1 = ns1
    ns2 = ns2
    m1 = m1
    pod = pod
    node = node
    report = report
    Namespaces = {ns1, ns2}
    Models = {m1}
    Pods = {pod}
    PodOf <- PodsInNs2
    Profiles = {node}
    Rates = {6}
    Reports = {report}
    SpecsOf <- FilteredSpecs
    PeriodLength = 3
    FirstClock = 4
    Faults = {"scrape", "update", "lost", "restart"}
    MaxTokens = 1
    MaxClock = 6
INVARIANTS
    TypeOK
PROPERTIES
    AttributionFollowsSpec
    WritesCarryWork
    ReportsCatchUp
