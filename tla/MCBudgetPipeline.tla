-------------------------- MODULE MCBudgetPipeline --------------------------
(* Instances of BudgetPipeline for TLC. *)
EXTENDS BudgetPipeline

CONSTANTS ns1, ns2, m1, pod, node, report, other, team

PodInFirst == [p \in Pods |-> [namespace |-> ns1, model |-> m1]]

ReportOf(ns) == [profile |-> node, namespaces |-> {ns}]

\* One report of the first namespace; any other is of the second.
FilteredApart == [r \in Reports |-> {ReportOf(IF r = report THEN ns1 ELSE ns2)}]

\* The filter may be edited from one namespace to the other.
EitherFilter == [r \in Reports |-> {ReportOf(ns1), ReportOf(ns2)}]

Critical50 == [percent |-> 50, severity |-> "critical"]
FirstBudget == {[namespace |-> ns1, name |-> team]}

\* Six of ten dollars exceed the budget.
OwnScope ==
    [b \in Budgets |-> {[scope |-> b.namespace, limit |-> 10, thresholds |-> {Critical50}]}]

-----------------------------------------------------------------------------
(* A cluster that already serves. *)

\* What three changes make of Init: the pod has started and served a token, and the
\* profile shows a cost.
ServingInit ==
    /\ clock = FirstClock
    /\ pods = [p \in Pods |-> 1]
    /\ rates \in [Profiles -> Rates]
    /\ reports = [r \in Reports |-> UsageReport!Absent]
    /\ reportCache = reports
    /\ reportAge = [r \in Reports |-> "latest"]
    /\ reportWork = UsageReport!Idle
    /\ TokenBudget!Init
    /\ included = {}
    /\ changes = 3

FairServingSpec == ServingInit /\ [][Next]_vars /\ Fairness
=============================================================================
