----------------------------- MODULE Attribution -----------------------------
(***************************************************************************)
(* How a UsageReport attributes the cost of its period to models and       *)
(* namespaces by the tokens they have served (buildBreakdowns in           *)
(* internal/controller/usagereport_controller.go).                         *)
(***************************************************************************)
EXTENDS Integers, FiniteSets, FiniteSetsExt

CONSTANTS Namespaces, Models

ASSUME SetsAssumption == IsFiniteSet(Namespaces) /\ IsFiniteSet(Models)

\* What tokens are counted for: the pods of a model in a namespace.
Workload == [model : Models, namespace : Namespaces]

NotScraped == -1

\* Tokens per model and namespace, for the pairs with a pod that was scraped.
Counts == [Workload -> Nat \cup {NotScraped}]
NoCounts == [w \in Workload |-> NotScraped]

Workloads(counts) == {w \in Workload : counts[w] # NotScraped}

TokensOf(counts, workloads) == MapThenSumSet(LAMBDA w : counts[w], workloads)

\* Input and output tokens together.
Added(in, out) ==
    [w \in Workload |-> IF w \in Workloads(in) THEN in[w] + out[w] ELSE NotScraped]

NamespacesOf(counts) == {w.namespace : w \in Workloads(counts)}

\* The part of cost that tokens have in total; money is in whole dollars.
Share(cost, tokens, total) == IF total > 0 THEN (cost * tokens) \div total ELSE 0

\* Mutant of NamespaceCosts: a share is rounded up.
RoundedUpCosts(counts, cost) ==
    LET total == TokensOf(counts, Workloads(counts))
        tokens(ns) == TokensOf(counts, {w \in Workloads(counts) : w.namespace = ns})
    IN  [ns \in NamespacesOf(counts) |->
            IF total > 0 THEN (cost * tokens(ns) + total - 1) \div total ELSE 0]

\* Each scraped namespace bears its share of the total cost.
NamespaceCosts(counts, cost) ==
    LET total == TokensOf(counts, Workloads(counts))
        tokens(ns) == TokensOf(counts, {w \in Workloads(counts) : w.namespace = ns})
    IN  [ns \in NamespacesOf(counts) |-> Share(cost, tokens(ns), total)]

\* So does each model of a namespace.
ModelCosts(counts, cost) ==
    LET total == TokensOf(counts, Workloads(counts))
    IN  [w \in Workloads(counts) |-> Share(cost, counts[w], total)]
=============================================================================
