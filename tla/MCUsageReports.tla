--------------------------- MODULE MCUsageReports ---------------------------
(* Instance of UsageReports for TLC. *)
EXTENDS UsageReports

CONSTANTS ns1, ns2, m1, pod, node, report

PodIn(ns) == [namespace |-> ns, model |-> m1]

\* Every pod is in the second namespace.
PodsInNs2 == [p \in Pods |-> PodIn(ns2)]

SpecOf(namespaces) == [profile |-> node, namespaces |-> namespaces]

\* Everything, or the first namespace alone.
FilteredSpecs == [r \in Reports |-> {SpecOf({}), SpecOf({ns1})}]

-----------------------------------------------------------------------------
\* A single report finds the worker idle until its turn is taken, so weak fairness of
\* its turns is as much as FairSpec asks.
OneReportFairSpec ==
    /\ Spec
    /\ WF_vars(Step)
    /\ SF_vars(WriteStatus)
    /\ \A r \in Reports : WF_vars(Observe(r)) /\ WF_vars(Begin(r))
=============================================================================
