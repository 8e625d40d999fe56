---------------------------- MODULE SampleHistory ----------------------------
(***************************************************************************)
(* What the power sampler promises its readers, whatever happens between   *)
(* memory and file: per CostProfile, the set of samples recorded within    *)
(* the retention window.  A sample enters the history once, at the current *)
(* instant, stays until it is older than Retention, and never changes.     *)
(* Only a sampler without a data directory may forget, and then all of it. *)
(***************************************************************************)
EXTENDS Integers

CONSTANTS Keys, Readings, Retention, Durable

VARIABLES now, history

vars == <<now, history>>

Init ==
    /\ now = 1
    /\ history = [k \in Keys |-> {}]

\* Time passes, and what is older than the retention window leaves the history.
Advance ==
    /\ now' \in Nat /\ now' > now
    /\ history' = [k \in Keys |-> {s \in history[k] : s.at >= now' - Retention}]

\* A reading of the current instant is recorded for k.
Observe(k, r) ==
    LET s == [at |-> now, power |-> r.power, active |-> r.active]
    IN  /\ \A h \in history[k] : h.at < now
        /\ history' = [history EXCEPT ![k] = @ \cup {s}]
        /\ UNCHANGED now

\* The process dies with its memory.
Forget ==
    /\ ~Durable
    /\ history' = [k \in Keys |-> {}]
    /\ UNCHANGED now

Next ==
    \/ Advance
    \/ \E k \in Keys, r \in Readings : Observe(k, r)
    \/ Forget

Spec == Init /\ [][Next]_vars
==============================================================================
