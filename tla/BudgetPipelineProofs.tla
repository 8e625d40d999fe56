------------------------- MODULE BudgetPipelineProofs -------------------------
(***************************************************************************)
(* What TLAPS proves of BudgetPipeline, for all reports, budgets and       *)
(* specs.  The composition implements each of its components, with the     *)
(* other as the environment it assumes: a step of the budgets is a stutter *)
(* of the reports, and a report that publishes is the replacement of the   *)
(* cost table that TokenBudgets allows at any time.  So what is proved of  *)
(* a component holds of the composition; what no report has included is    *)
(* then shown to cost nothing anywhere.                                    *)
(***************************************************************************)
EXTENDS BudgetPipeline, TLAPS

\* The theorems of the components, about this module's variables.
Report == INSTANCE UsageReportsProofs WITH
    SpecsOf <- ReportSpecs, Faults <- ReportFaults,
    server <- reports, cache <- reportCache, age <- reportAge, work <- reportWork

Budget == INSTANCE TokenBudgetsProofs WITH
    SpecsOf <- BudgetSpecs, Faults <- BudgetFaults,
    server <- budgets, cache <- budgetCache, age <- budgetAge, work <- budgetWork

-----------------------------------------------------------------------------
(* Both instances of UsageReports are one specification, and so are those  *)
(* of TokenBudgets.                                                        *)

\* The constants of a report are those the theorems of UsageReports ask for.
LEMMA ReportConstants ==
    /\ Report!IsFiniteSet(Namespaces) /\ Report!IsFiniteSet(Models)
    /\ Report!IsFiniteSet(Pods) /\ PodOf \in [Pods -> Report!Workload]
    /\ DOMAIN ReportSpecs = Reports
    /\ \A r \in Reports : ReportSpecs[r] \subseteq Report!ReportSpec
<1>1. \A S : IsFiniteSet(S) <=> Report!IsFiniteSet(S)
  BY DEF IsFiniteSet, Report!IsFiniteSet
<1>2. Workload = Report!Workload
  BY DEF Workload, Report!Workload
<1>3. UsageReport!ReportSpec = Report!ReportSpec
  BY DEF UsageReport!ReportSpec, Report!ReportSpec
<1> QED
  BY <1>1, <1>2, <1>3, SetsAssumption, ReportsAssumption

\* Every definition of the one is the same formula in the other.
LEMMA SameReports ==
    /\ UsageReport!Init <=> Report!Init
    /\ [UsageReport!Next]_(UsageReport!vars) <=> [Report!Next]_(Report!vars)
    /\ UsageReport!Publish <=> Report!Publish
<1>1. UsageReport!Init <=> Report!Init
  BY DEF UsageReport!Init, Report!Init, UsageReport!Down, Report!Down,
         UsageReport!NoProfile, Report!NoProfile, UsageReport!Absent, Report!Absent,
         UsageReport!Idle, Report!Idle
<1>2. UsageReport!Next <=> Report!Next
  BY DEF UsageReport!Next, Report!Next, UsageReport!Tick, Report!Tick, UsageReport!Serve,
         Report!Serve, UsageReport!PodStarts, Report!PodStarts, UsageReport!PodStops,
         Report!PodStops, UsageReport!ProfileChanges, Report!ProfileChanges,
         UsageReport!UserCreates, Report!UserCreates, UsageReport!UserEdits,
         Report!UserEdits, UsageReport!UserDeletes, Report!UserDeletes,
         UsageReport!Observe, Report!Observe, UsageReport!Begin, Report!Begin,
         UsageReport!Scrape, Report!Scrape, UsageReport!ScrapeFails, Report!ScrapeFails,
         UsageReport!Scraped, Report!Scraped, UsageReport!SkipStatus, Report!SkipStatus,
         UsageReport!WriteStatus, Report!WriteStatus, UsageReport!StatusFails,
         Report!StatusFails, UsageReport!StatusAnswerLost, Report!StatusAnswerLost,
         UsageReport!Publish, Report!Publish, UsageReport!External, Report!External,
         UsageReport!Controller, Report!Controller, UsageReport!Step, Report!Step,
         UsageReport!Restart, Report!Restart, UsageReport!Down, Report!Down,
         UsageReport!NoProfile, Report!NoProfile, UsageReport!ZeroStatus,
         Report!ZeroStatus, UsageReport!Absent, Report!Absent, UsageReport!Idle,
         Report!Idle, UsageReport!Period, Report!Period, UsageReport!HoursInPeriod,
         Report!HoursInPeriod, UsageReport!Scrapeable, Report!Scrapeable,
         UsageReport!Count, Report!Count, UsageReport!Write, Report!Write,
         UsageReport!Older, Report!Older, UsageReport!CopiesAge, Report!CopiesAge,
         UsageReport!Computed, Report!Computed, UsageReport!SameContent,
         Report!SameContent, UsageReport!Unchanged, Report!Unchanged, UsageReport!Changed,
         Report!Changed, UsageReport!Proceed, Report!Proceed, UsageReport!ApplyStatus,
         Report!ApplyStatus, UsageReport!NoCounts, Report!NoCounts,
         UsageReport!NotScraped, Report!NotScraped, UsageReport!Workload, Report!Workload,
         UsageReport!Workloads, Report!Workloads, UsageReport!TokensOf, Report!TokensOf,
         UsageReport!NamespacesOf, Report!NamespacesOf, UsageReport!Share, Report!Share,
         UsageReport!NamespaceCosts, Report!NamespaceCosts, UsageReport!MapThenSumSet,
         Report!MapThenSumSet, UsageReport!MapThenFoldSet, Report!MapThenFoldSet
<1>3. UNCHANGED UsageReport!vars <=> UNCHANGED Report!vars
  BY DEF UsageReport!vars, Report!vars
<1>4. UsageReport!Publish <=> Report!Publish
  BY DEF UsageReport!Publish, Report!Publish, UsageReport!Idle, Report!Idle,
         UsageReport!NotScraped, Report!NotScraped, UsageReport!Workload, Report!Workload,
         UsageReport!Workloads, Report!Workloads, UsageReport!TokensOf, Report!TokensOf,
         UsageReport!NamespacesOf, Report!NamespacesOf, UsageReport!Share, Report!Share,
         UsageReport!NamespaceCosts, Report!NamespaceCosts, UsageReport!MapThenSumSet,
         Report!MapThenSumSet, UsageReport!MapThenFoldSet, Report!MapThenFoldSet
<1> QED
  BY <1>1, <1>2, <1>3, <1>4

\* Likewise for budgets.
LEMMA SameBudgets ==
    /\ TokenBudget!Init <=> Budget!Init
    /\ [TokenBudget!Next]_(TokenBudget!vars) <=> [Budget!Next]_(Budget!vars)
<1>1. TokenBudget!Init <=> Budget!Init
  BY DEF TokenBudget!Init, Budget!Init, TokenBudget!Absent, Budget!Absent,
         TokenBudget!Label, Budget!Label, TokenBudget!NoGauge, Budget!NoGauge,
         TokenBudget!Idle, Budget!Idle
<1>2. TokenBudget!Next <=> Budget!Next
  BY DEF TokenBudget!Next, Budget!Next, TokenBudget!UserCreates, Budget!UserCreates,
         TokenBudget!UserEdits, Budget!UserEdits, TokenBudget!UserDeletes,
         Budget!UserDeletes, TokenBudget!CollectRule, Budget!CollectRule,
         TokenBudget!Observe, Budget!Observe, TokenBudget!SetNamespaceCosts,
         Budget!SetNamespaceCosts, TokenBudget!Restart, Budget!Restart, TokenBudget!Fetch,
         Budget!Fetch, TokenBudget!Evaluate, Budget!Evaluate, TokenBudget!WriteRule,
         Budget!WriteRule, TokenBudget!KeepRule, Budget!KeepRule, TokenBudget!ApplyStatus,
         Budget!ApplyStatus, TokenBudget!WriteStatus, Budget!WriteStatus,
         TokenBudget!GiveUp, Budget!GiveUp, TokenBudget!StatusConflict,
         Budget!StatusConflict, TokenBudget!StatusFails, Budget!StatusFails,
         TokenBudget!StatusAnswerLost, Budget!StatusAnswerLost, TokenBudget!Publish,
         Budget!Publish, TokenBudget!Step, Budget!Step, TokenBudget!External,
         Budget!External, TokenBudget!Controller, Budget!Controller,
         TokenBudget!ConditionTypes, Budget!ConditionTypes, TokenBudget!ZeroStatus,
         Budget!ZeroStatus, TokenBudget!Absent, Budget!Absent, TokenBudget!NoGauge,
         Budget!NoGauge, TokenBudget!Label, Budget!Label, TokenBudget!Idle, Budget!Idle,
         TokenBudget!SpendIn, Budget!SpendIn, TokenBudget!Utilization, Budget!Utilization,
         TokenBudget!Verdict, Budget!Verdict, TokenBudget!Conditions, Budget!Conditions,
         TokenBudget!StatusFor, Budget!StatusFor, TokenBudget!LabelOf, Budget!LabelOf,
         TokenBudget!RuleFor, Budget!RuleFor, TokenBudget!EntryFor, Budget!EntryFor,
         TokenBudget!IsEntryOf, Budget!IsEntryOf, TokenBudget!FirstEntryOf,
         Budget!FirstEntryOf, TokenBudget!UpdateOrAppend, Budget!UpdateOrAppend,
         TokenBudget!Write, Budget!Write, TokenBudget!Older, Budget!Older,
         TokenBudget!CopiesAge, Budget!CopiesAge
<1>3. UNCHANGED TokenBudget!vars <=> UNCHANGED Budget!vars
  BY DEF TokenBudget!vars, Budget!vars
<1> QED
  BY <1>1, <1>2, <1>3

\* So what is proved of reports holds of this instance.
LEMMA ReportInvariants ==
    /\ Report!Init => Report!Coherent
    /\ Report!Coherent /\ [Report!Next]_(Report!vars) => Report!Coherent'
<1>1. Report!Init => Report!Coherent
  BY ReportConstants, ReportsAssumption, Report!InitCoherent
<1>2. Report!Coherent /\ [Report!Next]_(Report!vars) => Report!Coherent'
  BY ReportConstants, ReportsAssumption, Report!StepCoherent
<1> QED
  BY <1>1, <1>2

\* The constants of a budget are those the theorems of TokenBudgets ask for; the
\* tables a report may publish are tables of costs.
LEMMA BudgetConstants ==
    /\ \A b \in Budgets : \A s \in BudgetSpecs[b] : s \in Budget!BudgetSpec
    /\ \A t \in CostTables :
          DOMAIN t \subseteq Namespaces /\ \A ns \in DOMAIN t : t[ns] \in Nat
<1>1. TokenBudget!BudgetSpec = Budget!BudgetSpec
  BY DEF TokenBudget!BudgetSpec, Budget!BudgetSpec, TokenBudget!Threshold, Budget!Threshold
<1> QED
  BY <1>1, BudgetsAssumption DEF CostTables

\* So what is proved of budgets holds of this instance.
LEMMA BudgetInvariants ==
    /\ Budget!Init => Budget!Coherent
    /\ Budget!Coherent /\ [Budget!Next]_(Budget!vars) => Budget!Coherent'
    /\ Budget!Coherent /\ Budget!SpecsArePermitted /\ [Budget!Next]_(Budget!vars)
       => Budget!SpecsArePermitted'
<1>1. Budget!Init => Budget!Coherent
  BY BudgetConstants, BudgetsAssumption, Budget!InitCoherent
<1>2. Budget!Coherent /\ [Budget!Next]_(Budget!vars) => Budget!Coherent'
  BY BudgetConstants, BudgetsAssumption, Budget!StepCoherent
<1>3. Budget!Coherent /\ Budget!SpecsArePermitted /\ [Budget!Next]_(Budget!vars)
      => Budget!SpecsArePermitted'
  BY BudgetConstants, BudgetsAssumption, Budget!StepPermitted
<1> QED
  BY <1>1, <1>2, <1>3

-----------------------------------------------------------------------------
(* The composition implements UsageReports *)

\* The actions of users and of the controller of budgets leave the costs alone.
LEMMA BudgetsLeaveCosts ==
    TokenBudget!External \/ TokenBudget!Controller => UNCHANGED costs
BY DEF TokenBudget!External, TokenBudget!Controller, TokenBudget!Step,
       TokenBudget!UserCreates, TokenBudget!UserEdits, TokenBudget!UserDeletes,
       TokenBudget!CollectRule, TokenBudget!Observe, TokenBudget!Fetch,
       TokenBudget!Evaluate, TokenBudget!WriteRule, TokenBudget!KeepRule,
       TokenBudget!WriteStatus, TokenBudget!StatusConflict, TokenBudget!StatusFails,
       TokenBudget!StatusAnswerLost, TokenBudget!GiveUp, TokenBudget!Publish

\* Every step is one of UsageReports or a stutter.
LEMMA StepOfReports ==
    ASSUME [Next]_vars
    PROVE  [UsageReport!Next]_(UsageReport!vars)
<1>1. CASE UsageReport!External \/ UsageReport!Controller \/ Restart
  BY <1>1 DEF Restart, UsageReport!Next
<1>2. CASE (TokenBudget!External \/ TokenBudget!Controller) /\ UNCHANGED reportVars
  BY <1>2, BudgetsLeaveCosts DEF reportVars, UsageReport!vars
<1>3. CASE UNCHANGED vars
  BY <1>3 DEF vars, reportVars, UsageReport!vars
<1> QED
  BY <1>1, <1>2, <1>3 DEF Next, Change, Work

\* The composition implements the specification of the UsageReport controller: budgets
\* that read the cost table, and the restarts both share, add nothing to what reports do.
THEOREM ImplementsUsageReports == Spec => UsageReport!Spec
<1>1. Init => UsageReport!Init
  BY DEF Init
<1>2. [Next]_vars => [UsageReport!Next]_(UsageReport!vars)
  BY StepOfReports
<1> QED
  BY <1>1, <1>2, PTL DEF Spec, UsageReport!Spec

\* Hence copies and Reconciles of reports are coherent in the composition.
LEMMA AlwaysReportCoherent == Spec => []Report!Coherent
<1>1. Init => Report!Coherent
  BY ReportInvariants, SameReports DEF Init
<1>2. [Next]_vars => [Report!Next]_(Report!vars)
  BY StepOfReports, SameReports
<1> QED
  BY <1>1, <1>2, ReportInvariants, PTL DEF Spec

-----------------------------------------------------------------------------
(* The composition implements TokenBudgets *)

\* Of what the report controller does, only Publish changes the costs.
LEMMA OnlyPublishSetsCosts ==
    UsageReport!External \/ UsageReport!Controller => UsageReport!Publish \/ UNCHANGED costs
BY DEF UsageReport!External, UsageReport!Controller, UsageReport!Step,
       UsageReport!Tick, UsageReport!Serve, UsageReport!PodStarts, UsageReport!PodStops,
       UsageReport!ProfileChanges, UsageReport!UserCreates, UsageReport!UserEdits,
       UsageReport!UserDeletes, UsageReport!Observe, UsageReport!Begin, UsageReport!Scrape,
       UsageReport!ScrapeFails, UsageReport!SkipStatus,
       UsageReport!WriteStatus, UsageReport!StatusFails, UsageReport!StatusAnswerLost

\* A Reconcile that publishes has counted tokens, for a cost and by its spec.
LEMMA Publishing ==
    ASSUME Report!Coherent, UsageReport!Publish
    PROVE  /\ reportWork \in Report!Reconcile
           /\ reportWork # UsageReport!Idle
           /\ costs' = Report!NamespaceCosts(reportWork.counts, reportWork.cost)
<1>1. Report!Publish
  BY SameReports
<1>2. reportWork # Report!Idle /\ reportWork # UsageReport!Idle
  BY <1>1 DEF Report!Publish, Report!Idle, UsageReport!Idle
<1>3. reportWork \in Report!Reconcile
  BY <1>2 DEF Report!Coherent, Report!Types
<1> QED
  BY <1>1, <1>2, <1>3 DEF Report!Publish

\* What a report publishes is a table of costs.
LEMMA PublishedTable ==
    ASSUME Report!Coherent, UsageReport!Publish
    PROVE  costs' \in CostTables
<1>1. reportWork.counts \in Report!Counts /\ reportWork.cost \in Nat
  BY Publishing DEF Report!Reconcile
<1>2. costs' = Report!NamespaceCosts(reportWork.counts, reportWork.cost)
  BY Publishing
<1>3. /\ DOMAIN costs' \subseteq Namespaces
      /\ \A ns \in DOMAIN costs' : costs'[ns] \in Nat
  BY <1>1, <1>2, ReportConstants, ReportsAssumption, Report!NamespaceCostsType
<1>4. costs' = [ns \in DOMAIN costs' |-> costs'[ns]]
  BY <1>2 DEF Report!NamespaceCosts
<1>5. costs' \in [DOMAIN costs' -> Nat]
  BY <1>3, <1>4
<1> QED
  BY <1>3, <1>5 DEF CostTables

\* Every step is one of TokenBudgets or a stutter.
LEMMA StepOfBudgets ==
    ASSUME Report!Coherent, [Next]_vars
    PROVE  [TokenBudget!Next]_(TokenBudget!vars)
<1>1. CASE TokenBudget!External \/ TokenBudget!Controller \/ Restart
  BY <1>1 DEF Restart, TokenBudget!Next
<1>2. CASE (UsageReport!External \/ UsageReport!Controller) /\ UNCHANGED budgetVars
  <2>1. CASE UNCHANGED costs
    BY <1>2, <2>1 DEF budgetVars, TokenBudget!vars
  <2>2. CASE UsageReport!Publish /\ costs' # costs
    <3>1. TokenBudget!SetNamespaceCosts(costs')
      BY <1>2, <2>2 DEF TokenBudget!SetNamespaceCosts, budgetVars
    <3> QED
      BY <2>2, <3>1, PublishedTable DEF TokenBudget!Next
  <2> QED
    BY <1>2, <2>1, <2>2, OnlyPublishSetsCosts
<1>3. CASE UNCHANGED vars
  BY <1>3 DEF vars, budgetVars, TokenBudget!vars
<1> QED
  BY <1>1, <1>2, <1>3 DEF Next, Change, Work

\* The composition implements the specification of the TokenBudget controller: whatever
\* reports publish, and whenever, is a table of natural costs that it is ready to find.
THEOREM ImplementsTokenBudgets == Spec => TokenBudget!Spec
<1>1. Init => TokenBudget!Init
  BY DEF Init
<1>2. Report!Coherent /\ [Next]_vars => [TokenBudget!Next]_(TokenBudget!vars)
  BY StepOfBudgets
<1> QED
  BY <1>1, <1>2, AlwaysReportCoherent, PTL DEF Spec, TokenBudget!Spec

\* Hence copies and Reconciles of budgets are coherent in the composition, and carry
\* specs that users gave.
LEMMA AlwaysBudgetCoherent == Spec => [](Budget!Coherent /\ Budget!SpecsArePermitted)
<1>1. TokenBudget!Init => Budget!Coherent /\ Budget!SpecsArePermitted
  <2>1. Budget!Init => Budget!Coherent /\ Budget!SpecsArePermitted
    BY BudgetInvariants DEF Budget!Init, Budget!SpecsArePermitted, Budget!Absent
  <2> QED BY <2>1, SameBudgets
<1>2. [TokenBudget!Next]_(TokenBudget!vars) <=> [Budget!Next]_(Budget!vars)
  BY SameBudgets
<1> QED
  BY <1>1, <1>2, ImplementsTokenBudgets, BudgetInvariants, PTL DEF TokenBudget!Spec

-----------------------------------------------------------------------------
(* What no report has included costs nothing *)

\* Nothing but namespaces that are counted as included are, or come to be, scraped.
ScopesIncluded ==
    /\ \A r \in Reports :
          /\ reports[r].exists => Scope(reports[r].spec) \subseteq included
          /\ reportCache[r].exists => Scope(reportCache[r].spec) \subseteq included
    /\ reportWork # Report!Idle => Scope(reportWork.spec) \subseteq included

\* What is excluded was so before: what has been included stays so.
LEMMA ExcludedShrinks ==
    ASSUME [Next]_vars
    PROVE  included \subseteq included' /\ Excluded' \subseteq Excluded
BY DEF Next, vars, Excluded

\* Whatever the server holds is counted, and the rest is copied from it.
LEMMA StepIncluded ==
    ASSUME Report!Coherent, ScopesIncluded, [Next]_vars
    PROVE  ScopesIncluded'
<1>1. \A r \in Reports : reports'[r].exists => Scope(reports'[r].spec) \subseteq included'
  <2>1. CASE UNCHANGED <<reports, included>>
    BY <2>1 DEF ScopesIncluded, Scope
  <2>2. CASE included' = included \cup
                 UNION {Scope(reports'[r].spec) : r \in {q \in Reports : reports'[q].exists}}
    BY <2>2
  <2> QED
    BY <2>1, <2>2 DEF Next, vars, reportVars
<1>2. /\ \A r \in Reports : reportCache'[r] = reportCache[r] \/ reportCache'[r] = reports[r]
      /\ reportWork' # Report!Idle =>
            \/ reportWork # Report!Idle /\ reportWork'.spec = reportWork.spec
            \/ \E r \in Reports : /\ reportCache[r].exists
                                 /\ reportWork'.spec = reportCache[r].spec
  <2>1. [Report!Next]_(Report!vars)
    BY StepOfReports, SameReports
  <2> QED
    BY <2>1, ReportConstants, ReportsAssumption, Report!SpecsAreCopied
<1>3. Report!Idle' = Report!Idle
  BY DEF Report!Idle
<1> QED
  BY <1>1, <1>2, <1>3, ExcludedShrinks DEF ScopesIncluded, Scope

ScopesExcluded(b) == \A spec \in BudgetSpecs[b] : spec.scope \in Excluded

\* Nothing is spent in an excluded namespace, nor about to be written or published.
GaugesAreZero ==
    \A l \in Budget!Label : l.scope \in Excluded => gauge[l] \in {0, Budget!NoGauge}
EntriesAreZero ==
    \A i \in DOMAIN entries : entries[i].namespace \in Excluded => entries[i].spend = 0
StatusesAreZero ==
    \A b \in Budgets :
        ScopesExcluded(b) /\ budgets[b].exists => budgets[b].status.spend = 0
WorkIsZero ==
    budgetWork.stage \in {"rule", "status", "publish"} /\ budgetWork.spec.scope \in Excluded
    => budgetWork.status.spend = 0 /\ budgetWork.status.utilization = 0

BudgetsAreZero == GaugesAreZero /\ EntriesAreZero /\ StatusesAreZero /\ WorkIsZero
NoExcludedCosts == DOMAIN costs \cap Excluded = {}

\* A table that a report publishes has no excluded namespace.
LEMMA PublishedFollowsFilter ==
    ASSUME Report!Coherent, ScopesIncluded, UsageReport!Publish, Excluded' \subseteq Excluded
    PROVE  NoExcludedCosts'
<1>1. reportWork \in Report!Reconcile /\ reportWork # Report!Idle
  BY Publishing DEF UsageReport!Idle, Report!Idle
<1>2. Scope(reportWork.spec) \subseteq included
  BY <1>1 DEF ScopesIncluded
<1>3. DOMAIN costs' = {w.namespace : w \in Report!Workloads(reportWork.counts)}
  BY Publishing DEF Report!NamespaceCosts, Report!NamespacesOf
<1>4. \A w \in Report!Workloads(reportWork.counts) :
          reportWork.spec.namespaces # {} => w.namespace \in reportWork.spec.namespaces
  BY <1>1 DEF Report!Workloads, Report!Coherent, Report!FilterHeld
<1>5. \A ns \in Excluded :
          reportWork.spec.namespaces # {} /\ ns \notin reportWork.spec.namespaces
  BY <1>2 DEF Excluded, Scope
<1>6. ASSUME NEW ns \in DOMAIN costs' \cap Excluded
      PROVE  FALSE
  BY <1>3, <1>4, <1>5, <1>6
<1> QED
  BY <1>6 DEF NoExcludedCosts

\* Of nothing spent, nothing is used.
LEMMA NothingSpent ==
    ASSUME NEW spec \in Budget!BudgetSpec
    PROVE  /\ Budget!StatusFor(spec, 0).spend = 0
           /\ Budget!StatusFor(spec, 0).utilization = 0
<1>1. spec.limit \in Nat
  BY DEF Budget!BudgetSpec
<1>2. \A n \in Nat : n > 0 => (0 * 100) \div n = 0
  OBVIOUS
<1>3. Budget!Utilization(0, spec.limit) = 0
  BY <1>1, <1>2 DEF Budget!Utilization
<1> QED
  BY <1>3 DEF Budget!StatusFor

\* Evaluating a budget of an excluded namespace finds no spend.
LEMMA EvaluateZero ==
    ASSUME Budget!Coherent, NoExcludedCosts, BudgetsAreZero, Budget!Evaluate,
           Excluded' \subseteq Excluded
    PROVE  BudgetsAreZero'
<1> USE DEF BudgetsAreZero, Budget!Coherent
<1> DEFINE spec == budgetWork.spec
           status == Budget!StatusFor(spec, Budget!SpendIn(spec.scope))
<1>1. /\ budgetWork \in Budget!Reconcile
      /\ spec \in Budget!BudgetSpec /\ budgetWork.key \in Budgets
  BY DEF Budget!Evaluate, Budget!TypeOK, Budget!Reconcile, Budget!Idle
<1>2. spec.scope \in Excluded => status.spend = 0 /\ status.utilization = 0
  BY <1>1, NothingSpent DEF NoExcludedCosts, Budget!SpendIn
<1>3. /\ gauge' = [gauge EXCEPT ![Budget!LabelOf(budgetWork.key, spec)] = status.utilization]
      /\ budgetWork' = [budgetWork EXCEPT !.stage = "rule", !.status = status]
      /\ UNCHANGED <<budgets, entries>>
  BY DEF Budget!Evaluate
<1>4. Budget!LabelOf(budgetWork.key, spec).scope = spec.scope
  BY DEF Budget!LabelOf
<1> HIDE DEF status
<1>6. WorkIsZero'
  BY <1>1, <1>2, <1>3 DEF WorkIsZero, Budget!Reconcile
<1> HIDE DEF spec
<1>7. GaugesAreZero'
  BY <1>2, <1>3, <1>4 DEF GaugesAreZero, Budget!TypeOK
<1>8. EntriesAreZero' /\ StatusesAreZero'
  BY <1>3 DEF EntriesAreZero, StatusesAreZero, ScopesExcluded
<1> QED
  BY <1>6, <1>7, <1>8

\* A status that the server accepts is the one the Reconcile holds.
LEMMA ApplyStatusZero ==
    ASSUME Budget!Coherent, Budget!SpecsArePermitted, BudgetsAreZero, Budget!ApplyStatus,
           Excluded' \subseteq Excluded
    PROVE  StatusesAreZero'
<1> USE DEF BudgetsAreZero, Budget!Coherent
<1>1. budgetWork \in Budget!Reconcile /\ budgetWork # Budget!Idle
  BY DEF Budget!ApplyStatus, Budget!TypeOK, Budget!Reconcile, Budget!Idle
<1>2. budgetWork.key \in Budgets /\ budgetWork.spec \in BudgetSpecs[budgetWork.key]
  BY <1>1 DEF Budget!Reconcile, Budget!SpecsArePermitted
<1>3. ScopesExcluded(budgetWork.key) => budgetWork.status.spend = 0
  BY <1>2 DEF ScopesExcluded, WorkIsZero, Budget!ApplyStatus
<1>4. budgets' = [budgets EXCEPT ![budgetWork.key].status = budgetWork.status]
  BY DEF Budget!ApplyStatus, Budget!Write
<1>5. budgets[budgetWork.key] \in Budget!Object
  BY <1>1, <1>2, BudgetConstants, BudgetsAssumption, Budget!ObjectExists
     DEF Budget!WorkAgrees, Budget!ApplyStatus, Budget!TypeOK
<1>6. budgets'[budgetWork.key].status = budgetWork.status
  BY <1>2, <1>4, <1>5 DEF Budget!TypeOK, Budget!Object
<1>7. \A b \in Budgets : b # budgetWork.key => budgets'[b] = budgets[b]
  BY <1>4 DEF Budget!TypeOK
<1> QED
  BY <1>3, <1>6, <1>7 DEF StatusesAreZero, ScopesExcluded

\* The entry published carries the status the Reconcile holds.
LEMMA PublishZero ==
    ASSUME Budget!Coherent, BudgetsAreZero, Budget!Publish, Excluded' \subseteq Excluded
    PROVE  BudgetsAreZero'
<1> USE DEF BudgetsAreZero, Budget!Coherent
<1> DEFINE entry == Budget!EntryFor(budgetWork.key, budgetWork.spec, budgetWork.status)
<1>1. /\ entries' = Budget!UpdateOrAppend(entries, budgetWork.key, entry)
      /\ budgetWork' = Budget!Idle
      /\ UNCHANGED <<budgets, gauge>>
  BY DEF Budget!Publish
<1>2. entry.namespace \in Excluded => entry.spend = 0
  BY DEF Budget!EntryFor, Budget!Publish, WorkIsZero
<1>3. entries \in Seq(Budget!Entry)
  BY DEF Budget!TypeOK
<1> HIDE DEF entry
<1>4. \A i \in DOMAIN entries' :
          entries'[i] = entry \/ (i \in DOMAIN entries /\ entries'[i] = entries[i])
  BY <1>1, <1>3 DEF Budget!UpdateOrAppend
<1>6. EntriesAreZero'
  BY <1>2, <1>4 DEF EntriesAreZero
<1>7. WorkIsZero'
  BY <1>1 DEF WorkIsZero, Budget!Idle
<1>8. GaugesAreZero' /\ StatusesAreZero'
  BY <1>1 DEF GaugesAreZero, StatusesAreZero, ScopesExcluded
<1> QED
  BY <1>6, <1>7, <1>8

\* Users, watches and the other steps of a Reconcile move no spend; a budget that is
\* created has none.
LEMMA QuietStepZero ==
    ASSUME Budget!Coherent, BudgetsAreZero, Excluded' \subseteq Excluded,
           \/ Budget!External
           \/ \E b \in Budgets : Budget!CollectRule(b) \/ Budget!Observe(b) \/ Budget!Fetch(b)
           \/ Budget!WriteRule \/ Budget!KeepRule
           \/ Budget!StatusConflict \/ Budget!StatusFails
           \/ Budget!Restart
           \/ UNCHANGED Budget!vars
    PROVE  BudgetsAreZero'
<1> USE DEF BudgetsAreZero, Budget!Coherent
<1>2. GaugesAreZero'
  BY DEF GaugesAreZero, Budget!External, Budget!UserCreates, Budget!UserEdits,
              Budget!UserDeletes, Budget!CollectRule, Budget!Observe, Budget!Fetch,
              Budget!WriteRule, Budget!KeepRule, Budget!StatusConflict,
              Budget!StatusFails, Budget!GiveUp, Budget!Restart, Budget!vars
<1>3. EntriesAreZero'
  <2>1. entries' = <<>> \/ UNCHANGED entries
    BY DEF Budget!External, Budget!UserCreates, Budget!UserEdits, Budget!UserDeletes,
           Budget!CollectRule, Budget!Observe, Budget!Fetch, Budget!WriteRule,
           Budget!KeepRule, Budget!StatusConflict, Budget!StatusFails, Budget!GiveUp,
           Budget!Restart, Budget!vars
  <2> QED BY <2>1 DEF EntriesAreZero
<1>4. StatusesAreZero'
  <2>1. ASSUME NEW b \in Budgets, NEW spec \in BudgetSpecs[b],
               Budget!UserCreates(b, spec)
        PROVE  StatusesAreZero'
    BY <2>1 DEF StatusesAreZero, ScopesExcluded, Budget!UserCreates, Budget!Write,
                      Budget!ZeroStatus, Budget!TypeOK
  <2>2. ASSUME NEW b \in Budgets, NEW spec \in BudgetSpecs[b], Budget!UserEdits(b, spec)
        PROVE  StatusesAreZero'
    <3>1. budgets[b] \in Budget!Object
      BY <2>2, BudgetConstants, BudgetsAssumption, Budget!ObjectExists
         DEF Budget!UserEdits, Budget!TypeOK
    <3>2. budgets'[b].status = budgets[b].status
      BY <2>2, <3>1 DEF Budget!UserEdits, Budget!Write, Budget!TypeOK, Budget!Object
    <3> QED
      BY <2>2, <3>2
         DEF StatusesAreZero, ScopesExcluded, Budget!UserEdits, Budget!Write, Budget!TypeOK
  <2>3. ASSUME NEW b \in Budgets, Budget!UserDeletes(b)
        PROVE  StatusesAreZero'
    BY <2>3 DEF StatusesAreZero, ScopesExcluded, Budget!UserDeletes, Budget!Write,
                      Budget!Absent, Budget!TypeOK
  <2>4. CASE UNCHANGED budgets
    BY <2>4 DEF StatusesAreZero, ScopesExcluded
  <2> QED
    BY <2>1, <2>2, <2>3, <2>4
       DEF Budget!External, Budget!CollectRule, Budget!Observe, Budget!Fetch,
           Budget!WriteRule, Budget!KeepRule, Budget!StatusConflict, Budget!StatusFails,
           Budget!Restart, Budget!vars
<1>5. WorkIsZero'
  <2>1. CASE \E b \in Budgets : Budget!Fetch(b)
    BY <2>1 DEF WorkIsZero, Budget!Fetch, Budget!Idle
  <2>2. CASE Budget!StatusConflict \/ Budget!StatusFails \/ Budget!Restart
    BY <2>2 DEF WorkIsZero, Budget!StatusConflict, Budget!StatusFails, Budget!GiveUp,
                Budget!Restart, Budget!Idle
  <2>3. CASE Budget!External
    <3>1. \/ budgetWork' = budgetWork
          \/ \E a : budgetWork' = [budgetWork EXCEPT !.age = a]
      BY <2>3 DEF Budget!External, Budget!UserCreates, Budget!UserEdits,
                  Budget!UserDeletes, Budget!CopiesAge
    <3>2. ASSUME NEW a, budgetWork' = [budgetWork EXCEPT !.age = a],
                 budgetWork \in Budget!Reconcile
          PROVE  WorkIsZero'
      BY <3>2 DEF WorkIsZero, Budget!Reconcile
    <3>3. ASSUME NEW a, budgetWork' = [budgetWork EXCEPT !.age = a], budgetWork = Budget!Idle
          PROVE  WorkIsZero'
      BY <3>3 DEF WorkIsZero, Budget!Idle
    <3>4. CASE budgetWork' = budgetWork
      BY <3>4 DEF WorkIsZero
    <3>5. budgetWork \in Budget!Reconcile \/ budgetWork = Budget!Idle
      BY DEF Budget!TypeOK
    <3> QED BY <3>1, <3>2, <3>3, <3>4, <3>5
  <2>4. CASE Budget!WriteRule \/ Budget!KeepRule
    BY <2>4 DEF WorkIsZero, Budget!WriteRule, Budget!KeepRule, Budget!TypeOK,
                      Budget!Reconcile, Budget!Idle
  <2>5. CASE UNCHANGED budgetWork
    BY <2>5 DEF WorkIsZero
  <2> QED
    BY <2>1, <2>2, <2>3, <2>4, <2>5 DEF Budget!CollectRule, Budget!Observe, Budget!vars
<1> QED
  BY <1>2, <1>3, <1>4, <1>5

\* Every step of budgets leaves what is excluded at zero, the accepted ones of a
\* Reconcile by what it holds.
LEMMA BudgetStepZero ==
    ASSUME Budget!Coherent, Budget!SpecsArePermitted, NoExcludedCosts, BudgetsAreZero,
           [Budget!Next]_(Budget!vars), Excluded' \subseteq Excluded
    PROVE  BudgetsAreZero'
<1>1. CASE Budget!Evaluate
  BY <1>1, EvaluateZero
<1>2. CASE Budget!WriteStatus \/ Budget!StatusAnswerLost
  <2>1. Budget!ApplyStatus /\ UNCHANGED <<entries, gauge>>
    BY <1>2 DEF Budget!WriteStatus, Budget!StatusAnswerLost, Budget!GiveUp
  <2>2. budgetWork' = [budgetWork EXCEPT !.stage = "publish"] \/ budgetWork' = Budget!Idle
    BY <1>2 DEF Budget!WriteStatus, Budget!StatusAnswerLost, Budget!GiveUp
  <2>4. budgetWork \in Budget!Reconcile /\ budgetWork.stage = "status"
    BY <2>1 DEF Budget!ApplyStatus, Budget!Coherent, Budget!TypeOK, Budget!Reconcile,
                Budget!Idle
  <2>5. WorkIsZero'
    BY <2>2, <2>4 DEF BudgetsAreZero, WorkIsZero, Budget!Reconcile, Budget!Idle
  <2>6. GaugesAreZero' /\ EntriesAreZero'
    BY <2>1 DEF BudgetsAreZero, GaugesAreZero, EntriesAreZero
  <2> QED
    BY <2>1, <2>5, <2>6, ApplyStatusZero DEF BudgetsAreZero
<1>3. CASE Budget!Publish
  BY <1>3, PublishZero
<1>4. CASE \E table \in CostTables : Budget!SetNamespaceCosts(table)
  <2>1. UNCHANGED <<budgets, entries, gauge, budgetWork>>
    BY <1>4 DEF Budget!SetNamespaceCosts
  <2> QED
    BY <2>1 DEF BudgetsAreZero, GaugesAreZero, EntriesAreZero, StatusesAreZero,
                      WorkIsZero, ScopesExcluded
<1> QED
  BY <1>1, <1>2, <1>3, <1>4, QuietStepZero DEF Budget!Next, Budget!Controller, Budget!Step

\* No step gives an excluded namespace a cost: a report's filter is in force until it
\* publishes, and a restart empties the table.
LEMMA CostsStepZero ==
    ASSUME Report!Coherent, ScopesIncluded, NoExcludedCosts, [Next]_vars
    PROVE  NoExcludedCosts'
<1>1. Excluded' \subseteq Excluded
  BY ExcludedShrinks
<1>2. CASE UNCHANGED costs
  BY <1>1, <1>2 DEF NoExcludedCosts
<1>3. CASE Restart
  BY <1>3 DEF Restart, UsageReport!Restart, NoExcludedCosts
<1> QED
  BY <1>1, <1>2, <1>3, PublishedFollowsFilter, OnlyPublishSetsCosts, BudgetsLeaveCosts
     DEF Next, Change, Work, vars

\* The costs of a report keep to its filter through table, gauge, API and status: a
\* namespace that no report includes is charged nothing, whatever is served in it and
\* however edits, restarts and the Reconciles of both controllers interleave.
THEOREM ExcludedAlwaysSpendNothing == Spec => []ExcludedSpendNothing
<1>1. Init => ScopesIncluded /\ NoExcludedCosts /\ BudgetsAreZero
  <2>1. Budget!Init => NoExcludedCosts /\ BudgetsAreZero
    BY DEF Budget!Init, Budget!Absent, Budget!Idle, NoExcludedCosts, BudgetsAreZero,
           GaugesAreZero, EntriesAreZero, StatusesAreZero, WorkIsZero
  <2>2. Report!Init => ScopesIncluded
    BY DEF Report!Init, Report!Absent, ScopesIncluded
  <2> QED BY <2>1, <2>2, SameBudgets, SameReports DEF Init
<1>2. /\ Report!Coherent /\ Budget!Coherent /\ Budget!SpecsArePermitted
      /\ ScopesIncluded /\ NoExcludedCosts /\ BudgetsAreZero /\ [Next]_vars
      => (ScopesIncluded /\ NoExcludedCosts /\ BudgetsAreZero)'
  BY StepOfBudgets, SameBudgets, ExcludedShrinks, StepIncluded, BudgetStepZero, CostsStepZero
<1>3. Budget!Coherent /\ NoExcludedCosts /\ BudgetsAreZero => ExcludedSpendNothing
  <2>1. Budget!Coherent => DOMAIN gauge = Budget!Label
    BY DEF Budget!Coherent, Budget!TypeOK
  <2> QED
    BY <2>1 DEF NoExcludedCosts, BudgetsAreZero, GaugesAreZero, EntriesAreZero,
                StatusesAreZero, ScopesExcluded, ExcludedSpendNothing,
                Budget!NoGauge, TokenBudget!NoGauge
<1> QED
  BY <1>1, <1>2, <1>3, AlwaysReportCoherent, AlwaysBudgetCoherent, PTL DEF Spec
=============================================================================
