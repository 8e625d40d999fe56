--------------------------- MODULE MCTokenBudgets ---------------------------
(* Instances of TokenBudgets for TLC. *)
EXTENDS TokenBudgets

CONSTANTS ns1, ns2, team

Warning80 == [percent |-> 80, severity |-> "warning"]
Critical100 == [percent |-> 100, severity |-> "critical"]
Both == {Warning80, Critical100}

BudgetOf(ns, name) == [namespace |-> ns, name |-> name]
OneBudget == {BudgetOf(ns1, team)}

SpecOf(ns, limit, thresholds) == [scope |-> ns, limit |-> limit, thresholds |-> thresholds]

\* Each budget covers its own namespace: 8 of 10 dollars warn, 12 exceed; a limit
\* raised to 20 or a threshold removed changes the verdict of the same spend.
OwnSpecs ==
    [b \in Budgets |-> {SpecOf(b.namespace, 10, Both), SpecOf(b.namespace, 20, {Warning80})}]
\* A budget kept in ns1 for the workloads of ns2.
CentralSpecs == [b \in Budgets |-> {SpecOf(ns2, 10, Both)}]

\* Spends on each side of the thresholds.
TwoCosts == {[n \in {ns1} |-> 8], [n \in {ns1, ns2} |-> 12]}
OneCost == {[n \in {ns1} |-> 12]}
=============================================================================
