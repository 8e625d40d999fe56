--------------------------- MODULE MCTokenMetrics ---------------------------
(* Instances of TokenMetrics for TLC. *)
EXTENDS TokenMetrics

CONSTANTS p1, p2, m1, m2, n1, n2, rack, all, other

\* Pods on two nodes, of one model.
Replicas == [p \in Pods |-> m1]
TwoNodes == [p \in Pods |-> IF p = p1 THEN n1 ELSE n2]

\* A profile of one node, and one without a nodeSelector that scrapes its pods too,
\* and one of a node without pods.
Overlapping ==
    [c \in Profiles |-> CASE c = rack -> {n1} [] c = all -> Nodes [] c = other -> {}]
=============================================================================
