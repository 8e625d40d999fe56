--------------------------- MODULE MCCostProfiles ---------------------------
(* Instance of CostProfiles for TLC. *)
EXTENDS CostProfiles

CONSTANTS n1, n2, rack

GPUSpec(node, idle, amortization) ==
    [apple |-> FALSE, node |-> node, tdp |-> 20, gpus |-> 2, idle |-> idle,
     amortization |-> amortization, rate |-> 1]
AppleSpec ==
    [apple |-> TRUE, node |-> n1, tdp |-> 0, gpus |-> 1, idle |-> Undeclared,
     amortization |-> 1, rate |-> 2]

\* A profile that a user turns from NVIDIA to Apple hardware.
MixedSpecs == [p \in Profiles |-> {GPUSpec(n1, Undeclared, 1), AppleSpec}]

\* Both exporters answer, or the Metal agent alone.
Busy == [dcgm |-> [reached |-> TRUE, watts |-> [n \in Nodes |-> IF n = n1 THEN 3 ELSE 4]],
         metal |-> [reached |-> TRUE, watts |-> 7]]
NoDCGM == [Busy EXCEPT !.dcgm = [reached |-> FALSE, watts |-> [n \in Nodes |-> 0]]]
OnOrOff == {Busy, NoDCGM}

Both == {{"DCGM", "Metal"}}

-----------------------------------------------------------------------------
\* A single profile that is queued finds the worker idle until its turn is taken, so
\* weak fairness of its turns is as much as FairSpec asks.
OneProfileFairSpec ==
    /\ Spec
    /\ WF_vars(Tick)
    /\ WF_vars(Step)
    /\ SF_vars(Record)
    /\ SF_vars(WriteStatus)
    /\ \A p \in Profiles :
          WF_vars(Observe(p)) /\ WF_vars(TimerFires(p)) /\ WF_vars(Fetch(p))
=============================================================================
