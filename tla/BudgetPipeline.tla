---------------------------- MODULE BudgetPipeline ----------------------------
(***************************************************************************)
(* From pods to budgets: the UsageReport and the TokenBudget controller in *)
(* one process.  They run concurrently and meet in one place, the API      *)
(* store's table of namespace costs (internal/api/store.go), which every   *)
(* Reconcile of a report replaces and every Reconcile of a budget reads.   *)
(* The process restarts with an empty table.                               *)
(***************************************************************************)
EXTENDS Attribution, Sequences

CONSTANTS
    Pods, PodOf, Profiles, Rates, Reports, ReportSpecs, PeriodLength, ReportFaults,
    FirstClock, MaxTokens, MaxClock,                \* as in UsageReports
    Names, Budgets, BudgetSpecs, BudgetFaults, MaxEntries, \* as in TokenBudgets
    MaxChanges  \* bound: external changes and restarts

VARIABLES
    clock, pods, rates, reports, reportCache, reportAge, reportWork,  \* of UsageReports
    costs,                                                            \* of both
    budgets, budgetCache, budgetAge, rule, entries, gauge, budgetWork, retry, \* of TokenBudgets
    included, \* the namespaces that reports have included so far: nothing reads this
    changes   \* how many external changes and restarts there have been

UsageReport == INSTANCE UsageReports WITH
    SpecsOf <- ReportSpecs, Faults <- ReportFaults,
    server <- reports, cache <- reportCache, age <- reportAge, work <- reportWork

\* The tables a report may publish.
CostTables == UNION {[S -> Nat] : S \in SUBSET Namespaces}

TokenBudget == INSTANCE TokenBudgets WITH
    SpecsOf <- BudgetSpecs, Faults <- BudgetFaults,
    server <- budgets, cache <- budgetCache, age <- budgetAge, work <- budgetWork

\* The assumptions of UsageReports and TokenBudgets on their constants.
ASSUME ReportsAssumption ==
    /\ IsFiniteSet(Pods) /\ PodOf \in [Pods -> Workload]
    /\ Rates \subseteq Nat
    /\ DOMAIN ReportSpecs = Reports
    /\ \A r \in Reports : ReportSpecs[r] \subseteq UsageReport!ReportSpec
    /\ PeriodLength \in Nat \ {0} /\ FirstClock \in Nat /\ MaxClock \in Nat
    /\ MaxTokens \in Nat
    /\ ReportFaults \subseteq {"scrape", "update", "lost", "restart"}
ASSUME BudgetsAssumption ==
    /\ Budgets \subseteq [namespace : Namespaces, name : Names]
    /\ DOMAIN BudgetSpecs = Budgets
    /\ \A b \in Budgets : BudgetSpecs[b] \subseteq TokenBudget!BudgetSpec
    /\ BudgetFaults \subseteq {"update", "lost", "rule", "restart"}
    /\ MaxEntries \in Nat
ASSUME ChangesAssumption == MaxChanges \in Nat

reportVars == <<clock, pods, rates, reports, reportCache, reportAge, reportWork>>
budgetVars == <<budgets, budgetCache, budgetAge, rule, entries, gauge, budgetWork, retry>>
vars == <<reportVars, costs, budgetVars, included, changes>>

\* The namespaces whose pods a report of spec scrapes.
Scope(spec) == IF spec.namespaces = {} THEN Namespaces ELSE spec.namespaces

Init == UsageReport!Init /\ TokenBudget!Init /\ included = {} /\ changes = 0

\* Both controllers and the store are parts of one process.
Restart == UsageReport!Restart /\ TokenBudget!Restart

Change ==
    /\ changes < MaxChanges
    /\ changes' = changes + 1
    /\ \/ UsageReport!External /\ UNCHANGED budgetVars
       \/ TokenBudget!External /\ UNCHANGED reportVars
       \/ Restart

Work ==
    /\ \/ UsageReport!Controller /\ UNCHANGED budgetVars
       \/ TokenBudget!Controller /\ UNCHANGED reportVars
    /\ UNCHANGED changes

Next ==
    /\ Change \/ Work
    /\ included' = included \cup
                      UNION {Scope(reports'[r].spec) : r \in {q \in Reports : reports'[q].exists}}

Spec == Init /\ [][Next]_vars

Fairness == UsageReport!Fairness /\ TokenBudget!Fairness

FairSpec == Spec /\ Fairness

-----------------------------------------------------------------------------
(* Properties *)

\* What report r attributes to namespace ns when it has seen all there is now.
Attributed(r, ns) ==
    LET spec == reports[r].spec
        table == NamespaceCosts(UsageReport!Served(spec),
                                rates[spec.profile] * UsageReport!HoursInPeriod(clock))
    IN  IF ns \in DOMAIN table THEN table[ns] ELSE 0

\* Report r comes to publish a table.
Publishes(r) == reports[r].exists /\ rates[reports[r].spec.profile] # UsageReport!NoProfile

\* What budget b shows is what report r attributes.
Shows(b, r) ==
    budgets[b].status =
        TokenBudget!StatusFor(budgets[b].spec, Attributed(r, budgets[b].spec.scope))

AtRest ==
    LET inputs == <<clock, pods, rates,
                    [r \in Reports |-> IF reports[r].exists THEN reports[r].spec
                                       ELSE UsageReport!Absent],
                    [b \in Budgets |-> IF budgets[b].exists THEN budgets[b].spec
                                       ELSE TokenBudget!Absent]>>
        answers == \A p \in Pods : UsageReport!ScrapeFails(p) => pods[p] = UsageReport!Down
    IN  <>[][UNCHANGED inputs /\ ~Restart /\ answers]_vars

\* When pods, profiles, specs and the manager come to rest, every budget comes to show
\* the spend and verdict that a report attributes to its namespace at present, even
\* when the store was emptied by a restart and no report has anything new to write.
BudgetsCatchUp ==
    AtRest => \A b \in Budgets :
        <>[](budgets[b].exists /\ (\E r \in Reports : Publishes(r))
             => \E r \in Reports : Publishes(r) /\ Shows(b, r))

\* Namespaces that no report has ever included.
Excluded == Namespaces \ included

\* Costs follow the filters through scrape, table and budget: as long as no report has
\* included a namespace nothing is spent there - in the table, in a gauge, in an entry of
\* the API, in the status of a budget - whatever is served in it and however edits and the
\* Reconciles of both sides interleave.
ExcludedSpendNothing ==
    /\ DOMAIN costs \cap Excluded = {}
    /\ \A l \in DOMAIN gauge : l.scope \in Excluded => gauge[l] \in {0, TokenBudget!NoGauge}
    /\ \A i \in DOMAIN entries : entries[i].namespace \in Excluded => entries[i].spend = 0
    /\ \A b \in Budgets :
          (\A spec \in BudgetSpecs[b] : spec.scope \in Excluded) /\ budgets[b].exists
          => budgets[b].status.spend = 0

\* Report r shows tokens of the current period that cost something in namespace ns.
ShowsCosts(r, ns) ==
    /\ Publishes(r)
    /\ rates[reports[r].spec.profile] > 0
    /\ reports[r].status.period = UsageReport!Period(clock)
    /\ \E w \in Workload : w.namespace = ns /\ reports[r].status.byModel[w] > 0

\* "the accumulated spend in the current billing period" (tokenbudget_types.go:59): a
\* budget's spend does not fall to nothing while a report shows costs of the period in
\* its namespace.
SpendIsAccumulated ==
    [][\A b \in Budgets :
         /\ budgets[b].exists
         /\ budgets'[b].exists
         /\ budgets[b].status.spend > 0
         /\ budgets'[b].status.spend = 0
         => ~ \E r \in Reports : ShowsCosts(r, budgets[b].spec.scope)]_vars
=============================================================================
