------------------------------ MODULE FocusRows ------------------------------
(***************************************************************************)
(* The rows `infercost export focus` prints for a UsageReport              *)
(* (internal/focus/focus.go), beside the namespace costs that budgets are  *)
(* held against.  Both come from one Reconcile of the report, but on       *)
(* different ways: the rows are of the status at the API server, which     *)
(* applyStatusIfChanged leaves as it is while tokens and period stand      *)
(* still; the namespace costs go to the API store at every Reconcile, with *)
(* the cost of the moment.                                                 *)
(*                                                                         *)
(* A Reconcile is one step here, for what it may have scraped at whatever  *)
(* cost; its steps are in UsageReports, and the figures in ReportFigures.  *)
(* Of the columns those are kept that say what is charged, and to whom;    *)
(* the order of the rows is not.                                           *)
(***************************************************************************)
EXTENDS Attribution

CONSTANTS
    Home,         \* the namespace of the report
    Scrapes,      \* what the pods may be found to have counted: [input, output]
    PeriodCosts,  \* what the period may cost: the hourly cost times its hours
    Periods       \* the periods explored

ASSUME HomeAssumption == Home \in Namespaces
ASSUME ScrapesAssumption ==
    \A s \in Scrapes :
        s \in [input : Counts, output : Counts] /\ Workloads(s.input) = Workloads(s.output)
ASSUME ExploredAssumption == PeriodCosts \subseteq Nat /\ Periods \subseteq Nat \ {0}

VARIABLES
    counters,  \* what the pods of the report have counted: a member of Scrapes
    now,       \* the present period
    status,    \* the report's status at the API server
    copy,      \* the informer's copy of it, which a Reconcile reads
    published  \* API store: the namespace costs; beside them, for the properties alone,
               \* what they are shares of and the status their Reconcile left behind

exportVars == <<counters, now, status, copy, published>>

\* ready: the Ready condition says ReportComputed; costs: byModel's estimatedCostUSD.
ZeroStatus ==
    [ready |-> FALSE, period |-> 0, input |-> NoCounts, output |-> NoCounts,
     cost |-> 0, costs |-> ModelCosts(NoCounts, 0)]

NothingPublished ==
    [costs |-> NamespaceCosts(NoCounts, 0), total |-> 0, report |-> ZeroStatus]

-----------------------------------------------------------------------------
(* Reconcile *)

Computed(scrape, cost, period) ==
    [ready |-> TRUE, period |-> period, input |-> scrape.input, output |-> scrape.output,
     cost |-> cost, costs |-> ModelCosts(Added(scrape.input, scrape.output), cost)]

Sum(counts) == TokensOf(counts, Workloads(counts))

\* Mutant of SameWork: breakdowns are not compared, only their totals.
SameTotals(a, b) ==
    a.period = b.period /\ Sum(a.input) = Sum(b.input) /\ Sum(a.output) = Sum(b.output)

\* usageReportStatusContentEqual: costs are left out.
SameWork(a, b) == a.period = b.period /\ a.input = b.input /\ a.output = b.output

\* applyStatusIfChanged: nothing is to be written.
Unchanged(new) == copy.ready /\ SameWork(copy, new)

\* The API server takes an update of the version it holds, and of no other; versions of
\* equal content are taken for one.
Update(new) == copy = status /\ status' = new

Publish(new, report) ==
    published' = [costs |-> NamespaceCosts(Added(new.input, new.output), new.cost),
                  total |-> new.cost, report |-> report]

ExportInit ==
    /\ counters \in Scrapes
    /\ now \in Periods
    /\ status = ZeroStatus
    /\ copy = ZeroStatus
    /\ published = NothingPublished


\* A Reconcile that finds nothing new: no write, but namespace costs of this instant.
Refreshes(new) ==
    /\ Unchanged(new)
    /\ Publish(new, copy)
    /\ UNCHANGED <<counters, now, status, copy>>

Writes(new) ==
    /\ ~Unchanged(new)
    /\ Update(new)
    /\ Publish(new, new)
    /\ UNCHANGED <<counters, now, copy>>

\* The update arrives and its answer does not: Reconcile ends before it publishes.  An
\* update that does not arrive, or conflicts, changes nothing.
WriteAnswerLost(new) ==
    /\ ~Unchanged(new)
    /\ Update(new)
    /\ UNCHANGED <<counters, now, copy, published>>

\* handleMissingCostProfile: the condition is written, and nothing published.
ProfileMissing ==
    /\ copy.ready
    /\ Update([copy EXCEPT !.ready = FALSE])
    /\ UNCHANGED <<counters, now, copy, published>>

Observe ==
    /\ copy' = status
    /\ UNCHANGED <<counters, now, status, published>>

\* The manager restarts: the API store is empty, and reports are listed anew.
Restart ==
    /\ copy' = status
    /\ published' = NothingPublished
    /\ UNCHANGED <<counters, now, status>>

\* Pods start, serve and stop, and time passes.
WorldMoves ==
    /\ counters' \in Scrapes
    /\ now' \in Periods /\ now' >= now
    /\ UNCHANGED <<status, copy, published>>

\* What a Reconcile may find at present, at whatever cost.
Found == {Computed(counters, cost, now) : cost \in PeriodCosts}

Reconcile == \E new \in Found : Refreshes(new) \/ Writes(new) \/ WriteAnswerLost(new)

ExportNext == Reconcile \/ ProfileMissing \/ Observe \/ Restart \/ WorldMoves

ExportSpec == ExportInit /\ [][ExportNext]_exportVars

\* Watches deliver within the interval of 30 seconds, and so of the Reconciles that look
\* at a copy that is up to date some end in success, whatever they find.
ExportFairness ==
    /\ WF_exportVars(Observe)
    /\ SF_exportVars(copy = status /\ \E new \in Found : Refreshes(new) \/ Writes(new))

FairExportSpec == ExportSpec /\ ExportFairness

-----------------------------------------------------------------------------
(* The export *)

\* The columns that do not depend on the report: SubAccountId is a namespace.
BuildRow(cost, tokensIn, tokensOut, namespace) ==
    [billedCost |-> cost, usageQuantity |-> tokensIn + tokensOut, tokensInput |-> tokensIn,
     tokensOutput |-> tokensOut, subAccountId |-> namespace]

\* Mutant of RowFromModel: it is charged the report's cost, like the row of the totals.
RowFromModelAtTotal(w) ==
    BuildRow(status.cost, status.input[w], status.output[w], w.namespace)

RowFromModel(w) == BuildRow(status.costs[w], status.input[w], status.output[w], w.namespace)

RowFromTotals == BuildRow(status.cost, Sum(status.input), Sum(status.output), Home)

\* The rows, by the workload that each is for.
ModelRows == [w \in Workloads(status.input) |-> RowFromModel(w)]

\* rowsForReport
Rows ==
    IF Workloads(status.input) = {} THEN [total \in {Home} |-> RowFromTotals] ELSE ModelRows

RowsOf(ns) == {x \in DOMAIN Rows : Rows[x].subAccountId = ns}

\* The sum of a column over rows: "Total spend by namespace" (docs/focus-export.md:47).
Column(c) == [x \in DOMAIN Rows |-> Rows[x][c]]
ColumnTotal(c, rows) == LET column == Column(c) IN MapThenSumSet(LAMBDA x : column[x], rows)

-----------------------------------------------------------------------------
(* Properties *)

\* What finance adds up is what the stored report says, whatever wrote it: all tokens
\* are on some row, and the rows have the cost of the report, less than a dollar lost on
\* each.  Where pods are up but have served nothing the rows cost nothing.
ExportMatchesReport ==
    LET tokens == Sum(status.input) + Sum(status.output)
        spend == ColumnTotal("billedCost", DOMAIN Rows)
    IN  /\ ColumnTotal("usageQuantity", DOMAIN Rows) = tokens
        /\ tokens > 0 \/ Workloads(status.input) = {} =>
              spend <= status.cost /\ status.cost - spend < Cardinality(DOMAIN Rows)

\* The namespace costs are of the report that the server holds: not of one whose answer
\* was lost or whose copy was out of date, and not forgotten in a restart.
PublishedReport == published.report = [status EXCEPT !.ready = TRUE]

\* Where the namespace costs are of the report that is exported, finance bills the
\* namespaces whose budgets are held against a cost, and divides the cost between them in
\* the same proportion, but for a dollar that each division drops: the rows may be of an
\* earlier cost, since a report is not written for a cost alone, but never of other
\* tokens.  As long as the cost is the one the report was written with, the rows of a
\* namespace add up to what its budget is held against.
ExportFollowsBudgets ==
    PublishedReport =>
        /\ Workloads(status.input) # {} =>
              {Rows[x].subAccountId : x \in DOMAIN Rows} = DOMAIN published.costs
        /\ \A ns \in DOMAIN published.costs :
              LET rows == RowsOf(ns)
                  spend == ColumnTotal("billedCost", rows)
                  held == published.costs[ns]
              IN  /\ published.total = status.cost =>
                        spend <= held /\ held - spend < Cardinality(rows)
                  /\ held * status.cost <= (spend + Cardinality(rows)) * published.total
                  /\ spend * published.total <= (held + 1) * status.cost

=============================================================================
