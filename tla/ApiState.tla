------------------------------ MODULE ApiState ------------------------------
(***************************************************************************)
(* The API store (internal/api/store.go) and a request that is answered    *)
(* from it, as states; and what an answer promises, whoever takes which    *)
(* steps.  ApiReads has the steps.                                         *)
(*                                                                         *)
(* Reconciles are numbered from 1, and a part is shown by the number of    *)
(* the Reconcile that set it.  Getters return copies, or a pointer to data *)
(* that is replaced and never changed, so what a handler has read stays as *)
(* it was.                                                                 *)
(***************************************************************************)
EXTENDS Integers, Sequences

VARIABLES
    store,      \* part -> the Reconcile that set it, or Unset
    published,  \* Reconcile -> the parts it has published
    stage,      \* what the Reconcile in progress publishes next, or "idle"
    request     \* the request being answered, or NoRequest

Parts == {"cost", "models", "comparisons"}
Unset == 0
NotRead == -1

Handlers == {"status", "compare"}
NoRequest == [handler |-> "none"]
Request == [handler : Handlers, left : Seq(Parts), answer : [Parts -> Nat \cup {NotRead}]]

\* The Reconcile in progress, or the last one.
Current == Len(published)

\* Every variable holds what the declarations above say it holds.
ApiTypeOK ==
    /\ store \in [Parts -> Nat]
    /\ published \in Seq(SUBSET Parts)
    /\ stage \in {"idle", "comparisons", "models", "status", "cost"}
    /\ request \in Request \cup {NoRequest}

-----------------------------------------------------------------------------
(* What an answer promises *)

\* answer has whatever the first n Reconciles published of part.
HasUpTo(answer, part, n) ==
    \A k \in 1 .. Current : k <= n /\ part \in published[k] => answer[part] >= k

Answered(handler) == request # NoRequest /\ request.handler = handler /\ request.left = <<>>

\* A status is never behind its own costs: the models of the Reconcile whose costs
\* it shows, or later ones, are in it, and so are the comparisons of the Reconcile
\* whose models it shows - though its parts are read one by one while Reconciles
\* publish, fail and go on.  handleStatus reads in the reverse order of the writes.
StatusIsCaughtUp ==
    Answered("status") =>
        LET a == request.answer
        IN  /\ HasUpTo(a, "models", a["cost"])
            /\ HasUpTo(a, "comparisons", a["cost"])
            /\ HasUpTo(a, "comparisons", a["models"])

\* A comparison's on-premises cost is never more than the Reconcile in progress
\* behind its comparisons: it has the costs of every Reconcile before the one that
\* compared, unless that one's status could not be written.
CompareIsCaughtUp ==
    Answered("compare") =>
        LET a == request.answer
        IN  HasUpTo(a, "cost", a["comparisons"] - 1)
=============================================================================
