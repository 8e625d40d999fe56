------------------------------ MODULE ApiReads ------------------------------
(***************************************************************************)
(* The API store (internal/api/store.go) between the CostProfile           *)
(* controller, which publishes each Reconcile in up to three parts, and    *)
(* the handlers of the HTTP API (server.go), which run on goroutines of    *)
(* their own and put answers together from several parts.  Every part is   *)
(* read and written under the store's lock; nothing holds it over two.     *)
(* ApiState has the state, and what the answers promise.                   *)
(*                                                                         *)
(* Handlers share nothing but the store: one request at a time stands for  *)
(* each of many.  A restart is a new behaviour: it ends the requests with  *)
(* the store.                                                              *)
(***************************************************************************)
EXTENDS ApiState

CONSTANT MaxReconciles  \* bound: Reconciles explored

ASSUME BoundAssumption == MaxReconciles \in Nat

vars == <<store, published, stage, request>>

-----------------------------------------------------------------------------
Init ==
    /\ store = [p \in Parts |-> Unset]
    /\ published = <<>>
    /\ stage = "idle"
    /\ request = NoRequest

\* The CostProfile controller.

\* A Reconcile scrapes the pods.  It goes on to the comparisons if they have
\* served tokens, to the models if not, and past both if listing them fails.
Scrape(next) ==
    /\ stage = "idle"
    /\ Current < MaxReconciles
    /\ published' = Append(published, {})
    /\ stage' = next
    /\ UNCHANGED <<store, request>>

\* Mutant of Set: the setter makes a store with its part alone.
SetAnew(part) ==
    /\ store' = [p \in {part} |-> Current]
    /\ published' = [published EXCEPT ![Current] = @ \cup {part}]

\* A setter of the store, under its lock.
Set(part) ==
    /\ store' = [store EXCEPT ![part] = Current]
    /\ published' = [published EXCEPT ![Current] = @ \cup {part}]

SetComparisons ==
    /\ stage = "comparisons"
    /\ Set("comparisons")
    /\ stage' = "models"
    /\ UNCHANGED request

SetModels ==
    /\ stage = "models"
    /\ Set("models")
    /\ stage' = "status"
    /\ UNCHANGED request

\* The costs are published only if the status could be written.
WriteStatus(written) ==
    /\ stage = "status"
    /\ stage' = IF written THEN "cost" ELSE "idle"
    /\ UNCHANGED <<store, published, request>>

SetCostData ==
    /\ stage = "cost"
    /\ Set("cost")
    /\ stage' = "idle"
    /\ UNCHANGED request

-----------------------------------------------------------------------------
(* The handlers *)

\* Mutants of Reads: a status reads in the order of the writes; a comparison
\* begins with the costs.
ReadsAsWritten(handler) ==
    IF handler = "status" THEN <<"comparisons", "models", "cost">>
    ELSE <<"comparisons", "cost">>
ReadsCostFirst(handler) ==
    IF handler = "status" THEN <<"cost", "models", "comparisons">>
    ELSE <<"cost", "comparisons">>

\* What handleStatus and handleCompare read, in this order: the calls in a map
\* literal are made from left to right.
Reads(handler) ==
    IF handler = "status" THEN <<"cost", "models", "comparisons">>
    ELSE <<"comparisons", "cost">>

Ask(handler) ==
    /\ request = NoRequest
    /\ request' = [handler |-> handler, left |-> Reads(handler),
                   answer |-> [p \in Parts |-> NotRead]]
    /\ UNCHANGED <<store, published, stage>>

\* A getter of the store, under its lock.
Read ==
    /\ request # NoRequest
    /\ request.left # <<>>
    /\ LET part == Head(request.left)
       IN  request' = [handler |-> request.handler, left |-> Tail(request.left),
                       answer |-> [request.answer EXCEPT ![part] = store[part]]]
    /\ UNCHANGED <<store, published, stage>>

Reply ==
    /\ request # NoRequest
    /\ request.left = <<>>
    /\ request' = NoRequest
    /\ UNCHANGED <<store, published, stage>>

Next ==
    \/ \E next \in {"comparisons", "models", "status"} : Scrape(next)
    \/ SetComparisons \/ SetModels \/ SetCostData
    \/ \E written \in BOOLEAN : WriteStatus(written)
    \/ \E handler \in Handlers : Ask(handler)
    \/ Read \/ Reply

Spec == Init /\ [][Next]_vars
=============================================================================
