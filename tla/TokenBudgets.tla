---------------------------- MODULE TokenBudgets ----------------------------
(***************************************************************************)
(* The TokenBudget controller (internal/controller/tokenbudget_controller) *)
(* between four parties that change state under it: the API server with    *)
(* its users, the informer cache the controller reads budgets from, the    *)
(* namespace costs other controllers publish in the API store, and the     *)
(* Prometheus operator's rules.  One worker runs one Reconcile at a time,  *)
(* in the order of the code: read the budget, read the spend and set the   *)
(* gauge, write the rule, write the status, publish to the API store.      *)
(*                                                                         *)
(* A resourceVersion or a UID is only ever compared with the server's for  *)
(* equality, so a copy of an object carries its age: "latest" when it is   *)
(* the server's object, "older" when that has changed since, "gone" when   *)
(* it has been deleted, and perhaps created anew under the same name.      *)
(* Money is in whole dollars and a utilization is a whole percentage.      *)
(***************************************************************************)
EXTENDS Integers, Sequences

CONSTANTS
    Namespaces, Names,
    Budgets,     \* the keys [namespace, name] users may give a TokenBudget
    SpecsOf,     \* key -> the specs users may give it
    CostTables,  \* what namespaceCosts may hold: namespace -> USD, on any domain
    Faults,      \* faults to inject: "update", "lost", "rule", "restart"
    MaxEntries   \* bound: entries of the API store's budget list

Threshold == [percent : Nat, severity : {"warning", "critical"}]
BudgetSpec == [scope : Namespaces, limit : Nat, thresholds : SUBSET Threshold]

ASSUME BudgetsAssumption == Budgets \subseteq [namespace : Namespaces, name : Names]
ASSUME SpecsAssumption ==
    /\ DOMAIN SpecsOf = Budgets
    /\ \A b \in Budgets : \A s \in SpecsOf[b] : s \in BudgetSpec
ASSUME CostsAssumption ==
    \A t \in CostTables :
        DOMAIN t \subseteq Namespaces /\ \A ns \in DOMAIN t : t[ns] \in Nat
ASSUME FaultsAssumption == Faults \subseteq {"update", "lost", "rule", "restart"}
ASSUME MaxEntriesAssumption == MaxEntries \in Nat

VARIABLES
    server,   \* key -> the TokenBudget object at the API server, or Absent
    cache,    \* key -> the informer's copy of it
    age,      \* key -> the age of that copy
    rule,     \* key -> the PrometheusRule of the budget, or Absent
    costs,    \* API store: namespaceCosts
    entries,  \* API store: budgets
    gauge,    \* label -> the utilization gauge, or NoGauge
    work,     \* the Reconcile in progress, or Idle
    retry     \* keys whose last Reconcile returned an error

vars == <<server, cache, age, rule, costs, entries, gauge, work, retry>>

ConditionTypes == {"BudgetOK", "BudgetWarning", "BudgetExceeded"}
Status ==
    [spend : Nat, utilization : Nat,
     conditions : [ConditionTypes -> {"Unset", "True", "False"}]]

\* The zero value of TokenBudgetStatus, that of an object never reconciled.
ZeroStatus ==
    [spend |-> 0, utilization |-> 0, conditions |-> [c \in ConditionTypes |-> "Unset"]]

Age == {"latest", "older", "gone"}
Absent == [exists |-> FALSE]
Object == [exists : {TRUE}, spec : BudgetSpec, status : Status]

Label == [scope : Namespaces, name : Names]
NoGauge == -1

\* A rule is garbage when the budget its owner reference names is gone.
Rule == [exists : {TRUE}, label : Label, alerts : SUBSET Threshold, garbage : BOOLEAN]

Entry ==
    [name : Names, namespace : Namespaces, limit : Nat, spend : Nat,
     utilization : Nat, status : {"ok", "warning", "exceeded"}]

Idle == [stage |-> "idle"]
Reconcile ==
    [stage : {"evaluate", "rule", "status", "publish"}, key : Budgets,
     spec : BudgetSpec, status : Status, age : Age]

\* Every variable holds what the declarations above say it holds.
TypeOK ==
    /\ server \in [Budgets -> Object \cup {Absent}]
    /\ cache \in [Budgets -> Object \cup {Absent}]
    /\ age \in [Budgets -> Age]
    /\ rule \in [Budgets -> Rule \cup {Absent}]
    /\ costs \in CostTables \cup {<<>>}
    /\ entries \in Seq(Entry)
    /\ gauge \in [Label -> Nat \cup {NoGauge}]
    /\ work \in Reconcile \cup {Idle}
    /\ retry \subseteq Budgets

-----------------------------------------------------------------------------
(* Evaluation *)

\* Store.GetNamespaceCosts and the first entry of the scope's namespace; a
\* UsageReport publishes at most one entry per namespace.
SpendIn(ns) == IF ns \in DOMAIN costs THEN costs[ns] ELSE 0

\* (spend / limit) * 100, and 0 for a limit that is not positive.
Utilization(spend, limit) == IF limit > 0 THEN (spend * 100) \div limit ELSE 0

\* The highest severity among the thresholds reached decides.
Verdict(thresholds, utilization) ==
    LET reached == {t.severity : t \in {u \in thresholds : utilization >= u.percent}}
    IN  IF "critical" \in reached THEN "exceeded"
        ELSE IF reached # {} THEN "warning" ELSE "ok"

\* Mutant of Conditions: those that do not hold are not set.
ConditionsThatHold(verdict) ==
    LET true == CASE verdict = "ok" -> {"BudgetOK"}
                  [] verdict = "warning" -> {"BudgetWarning"}
                  [] verdict = "exceeded" -> {"BudgetWarning", "BudgetExceeded"}
    IN  [c \in true |-> "True"]

\* evaluateConditions: each verdict sets all three conditions.
Conditions(verdict) ==
    LET true == CASE verdict = "ok" -> {"BudgetOK"}
                  [] verdict = "warning" -> {"BudgetWarning"}
                  [] verdict = "exceeded" -> {"BudgetWarning", "BudgetExceeded"}
    IN  [c \in ConditionTypes |-> IF c \in true THEN "True" ELSE "False"]

\* What the CLI reads from them (infercost budget): Exceeded before Warning.
BudgetStatus(conditions) ==
    IF conditions["BudgetExceeded"] = "True" THEN "exceeded"
    ELSE IF conditions["BudgetWarning"] = "True" THEN "warning" ELSE "ok"

StatusFor(spec, spend) ==
    LET utilization == Utilization(spend, spec.limit)
    IN  [spend |-> spend, utilization |-> utilization,
         conditions |-> Conditions(Verdict(spec.thresholds, utilization))]

LabelOf(b, spec) == [scope |-> spec.scope, name |-> b.name]

\* One alert per threshold, each on the gauge of the budget's label.
RuleFor(b, spec, garbage) ==
    [exists |-> TRUE, label |-> LabelOf(b, spec), alerts |-> spec.thresholds,
     garbage |-> garbage]

\* What updateAPIStore stores: the namespace is that of the scope.
EntryFor(b, spec, status) ==
    [name |-> b.name, namespace |-> spec.scope, limit |-> spec.limit,
     spend |-> status.spend, utilization |-> status.utilization,
     status |-> Verdict(spec.thresholds, status.utilization)]

\* What it looks for: the namespace is that of the object.
IsEntryOf(e, b) == e.name = b.name /\ e.namespace = b.namespace

FirstEntryOf(list, b) ==
    CHOOSE i \in DOMAIN list :
        /\ IsEntryOf(list[i], b)
        /\ \A j \in DOMAIN list : j < i => ~IsEntryOf(list[j], b)

\* Mutants of UpdateOrAppend: a found entry is left as it was, or not looked for.
FindOrAppend(list, b, entry) ==
    IF \E i \in DOMAIN list : IsEntryOf(list[i], b) THEN list ELSE Append(list, entry)

AlwaysAppend(list, b, entry) == Append(list, entry)

UpdateOrAppend(list, b, entry) ==
    IF \E i \in DOMAIN list : IsEntryOf(list[i], b)
    THEN [list EXCEPT ![FirstEntryOf(list, b)] = entry]
    ELSE Append(list, entry)

-----------------------------------------------------------------------------
Init ==
    /\ server = [b \in Budgets |-> Absent]
    /\ cache = [b \in Budgets |-> Absent]
    /\ age = [b \in Budgets |-> "latest"]
    /\ rule = [b \in Budgets |-> Absent]
    /\ costs = <<>>
    /\ entries = <<>>
    /\ gauge = [l \in Label |-> NoGauge]
    /\ work = Idle
    /\ retry = {}

\* The server's object of b changes: a copy of it is older, or gone with it.
Write(b, o) == server' = [server EXCEPT ![b] = o]
Older(a) == IF a = "latest" THEN "older" ELSE a
CopiesAge(b, Aged(_)) ==
    /\ age' = [age EXCEPT ![b] = Aged(@)]
    /\ work' = IF work # Idle /\ work.key = b THEN [work EXCEPT !.age = Aged(@)] ELSE work

\* Users and the cluster.

\* A copy that says there is no such budget is out of date from now on.
UserCreates(b, spec) ==
    /\ ~server[b].exists
    /\ Write(b, [exists |-> TRUE, spec |-> spec, status |-> ZeroStatus])
    /\ age' = [age EXCEPT ![b] = Older(@)]
    /\ UNCHANGED <<cache, rule, costs, entries, gauge, work, retry>>

UserEdits(b, spec) ==
    /\ server[b].exists
    /\ server[b].spec # spec
    /\ Write(b, [server[b] EXCEPT !.spec = spec])
    /\ CopiesAge(b, Older)
    /\ UNCHANGED <<cache, rule, costs, entries, gauge, retry>>

UserDeletes(b) ==
    /\ server[b].exists
    /\ Write(b, Absent)
    /\ CopiesAge(b, LAMBDA a : "gone")
    /\ rule' = IF rule[b].exists THEN [rule EXCEPT ![b].garbage = TRUE] ELSE rule
    /\ UNCHANGED <<cache, costs, entries, gauge, retry>>

\* The cluster's garbage collector, at some time after the owner's deletion.
CollectRule(b) ==
    /\ rule[b].exists
    /\ rule[b].garbage
    /\ rule' = [rule EXCEPT ![b] = Absent]
    /\ UNCHANGED <<server, cache, age, costs, entries, gauge, work, retry>>

\* A watch event brings the cached copy up to date.
Observe(b) ==
    /\ age[b] # "latest"
    /\ cache' = [cache EXCEPT ![b] = server[b]]
    /\ age' = [age EXCEPT ![b] = "latest"]
    /\ UNCHANGED <<server, rule, costs, entries, gauge, work, retry>>

\* A UsageReport reconcile replaces the namespace costs.
SetNamespaceCosts(table) ==
    /\ costs # table
    /\ costs' = table
    /\ UNCHANGED <<server, cache, age, rule, entries, gauge, work, retry>>

\* The manager restarts: store, metrics and work are gone, the cache is relisted.
Restart ==
    /\ "restart" \in Faults
    /\ cache' = server
    /\ age' = [b \in Budgets |-> "latest"]
    /\ costs' = <<>>
    /\ entries' = <<>>
    /\ gauge' = [l \in Label |-> NoGauge]
    /\ work' = Idle
    /\ retry' = {}
    /\ UNCHANGED <<server, rule>>

-----------------------------------------------------------------------------
(* Reconcile, step by step.  Every budget is requeued a minute after each   *)
(* success and sooner after an error, so a Reconcile of it is always due.   *)

\* The budget is read from the cache; one that is not there needs no work.
Fetch(b) ==
    /\ work = Idle
    /\ \/ /\ cache[b].exists
          /\ work' = [stage |-> "evaluate", key |-> b, spec |-> cache[b].spec,
                      status |-> cache[b].status, age |-> age[b]]
       \/ /\ ~cache[b].exists
          /\ UNCHANGED work
    /\ retry' = retry \ {b}
    /\ UNCHANGED <<server, cache, age, rule, costs, entries, gauge>>

\* The spend is read from the API store, the conditions follow, gauges are set.
Evaluate ==
    LET status == StatusFor(work.spec, SpendIn(work.spec.scope))
    IN  /\ work.stage = "evaluate"
        /\ gauge' = [gauge EXCEPT ![LabelOf(work.key, work.spec)] = status.utilization]
        /\ work' = [work EXCEPT !.stage = "rule", !.status = status]
        /\ UNCHANGED <<server, cache, age, rule, costs, entries, retry>>

\* Mutant of WriteRule: an existing rule is not updated.
CreateRule ==
    /\ work.stage = "rule"
    /\ work.spec.thresholds # {}
    /\ rule' = [rule EXCEPT ![work.key] =
                   IF @.exists THEN @ ELSE RuleFor(work.key, work.spec, work.age = "gone")]
    /\ work' = [work EXCEPT !.stage = "status"]
    /\ UNCHANGED <<server, cache, age, costs, entries, gauge, retry>>

\* reconcilePrometheusRule: a missing rule is created with this budget as its
\* owner, an existing one gets the new alerts and keeps the owner it has.
WriteRule ==
    /\ work.stage = "rule"
    /\ work.spec.thresholds # {}
    /\ rule' = [rule EXCEPT ![work.key] =
                   RuleFor(work.key, work.spec,
                           IF @.exists THEN @.garbage ELSE work.age = "gone")]
    /\ work' = [work EXCEPT !.stage = "status"]
    /\ UNCHANGED <<server, cache, age, costs, entries, gauge, retry>>

\* Without thresholds an existing rule is left as it is; an error, or a cluster
\* without the CRD, is only logged.
KeepRule ==
    /\ work.stage = "rule"
    /\ work.spec.thresholds = {} \/ "rule" \in Faults
    /\ work' = [work EXCEPT !.stage = "status"]
    /\ UNCHANGED <<server, cache, age, rule, costs, entries, gauge, retry>>

\* Mutant of ApplyStatus: a patch, which the server applies to any version.
PatchStatus ==
    /\ work.stage = "status"
    /\ work.age # "gone"
    /\ Write(work.key, [server[work.key] EXCEPT !.status = work.status])
    /\ age' = [age EXCEPT ![work.key] = Older(@)]

\* The API server applies a status update only to the version it was read at.
ApplyStatus ==
    /\ work.stage = "status"
    /\ work.age = "latest"
    /\ Write(work.key, [server[work.key] EXCEPT !.status = work.status])
    /\ age' = [age EXCEPT ![work.key] = Older(@)]

WriteStatus ==
    /\ ApplyStatus
    /\ work' = [work EXCEPT !.stage = "publish"]
    /\ UNCHANGED <<cache, rule, costs, entries, gauge, retry>>

\* Mutant of GiveUp: the error is logged and nothing retried.
LogError ==
    /\ work' = Idle
    /\ UNCHANGED <<cache, rule, costs, entries, gauge, retry>>

\* Reconcile returns the error of the status update and is retried.
GiveUp ==
    /\ work' = Idle
    /\ retry' = retry \cup {work.key}
    /\ UNCHANGED <<cache, rule, costs, entries, gauge>>

\* A conflict, or a budget deleted meanwhile.
StatusConflict ==
    /\ work.stage = "status"
    /\ work.age # "latest"
    /\ GiveUp
    /\ UNCHANGED <<server, age>>

\* The update does not reach the server.
StatusFails ==
    /\ "update" \in Faults
    /\ work.stage = "status"
    /\ GiveUp
    /\ UNCHANGED <<server, age>>

\* The update is applied and its answer is lost.
StatusAnswerLost ==
    /\ "lost" \in Faults
    /\ ApplyStatus
    /\ GiveUp

\* updateAPIStore; only this worker writes the list it reads and replaces.
Publish ==
    /\ work.stage = "publish"
    /\ entries' = UpdateOrAppend(entries, work.key,
                                 EntryFor(work.key, work.spec, work.status))
    /\ Len(entries') <= MaxEntries
    /\ work' = Idle
    /\ UNCHANGED <<server, cache, age, rule, costs, gauge, retry>>

Step == Evaluate \/ WriteRule \/ KeepRule \/ WriteStatus \/ StatusConflict \/ StatusFails
        \/ StatusAnswerLost \/ Publish

\* What users do.
External ==
    \E b \in Budgets :
        \/ \E spec \in SpecsOf[b] : UserCreates(b, spec) \/ UserEdits(b, spec)
        \/ UserDeletes(b)

\* What the controller does with its cache, and the garbage collector with its rules.
Controller == (\E b \in Budgets : CollectRule(b) \/ Observe(b) \/ Fetch(b)) \/ Step

Next ==
    \/ External
    \/ Controller
    \/ \E table \in CostTables : SetNamespaceCosts(table)
    \/ Restart

Spec == Init /\ [][Next]_vars

\* The worker runs on; watches deliver; each key gets its turn in the queue; an
\* API server that answers again and again answers with success in the end, for
\* the status and for the rule, whose CRD is installed.
Fairness ==
    /\ WF_vars(Step)
    /\ SF_vars(WriteRule)
    /\ SF_vars(WriteStatus)
    /\ \A b \in Budgets : WF_vars(Observe(b)) /\ SF_vars(Fetch(b))

FairSpec == Spec /\ Fairness

-----------------------------------------------------------------------------
(* Properties *)

\* The server never accepts a verdict computed from thresholds, a limit or a
\* scope that a user has replaced, however the edit interleaves with Reconcile.
VerdictFollowsSpec ==
    [][\A b \in Budgets :
         server[b].exists /\ server'[b].exists /\ server'[b].status # server[b].status
         => server'[b].status = StatusFor(server'[b].spec, server'[b].status.spend)]_vars

\* One budget, one line in the API: no two entries carry the same identity.
EntriesAreUnique ==
    \A i, j \in DOMAIN entries :
        entries[i].name = entries[j].name /\ entries[i].namespace = entries[j].namespace
        => i = j

Settled(b) ==
    /\ server[b].exists
    /\ server[b].status # ZeroStatus
    /\ b \notin retry
    /\ work # Idle => work.key # b

\* The status, the API entry, the gauge and the CLI show the same evaluation of a budget
\* whenever no Reconcile of it is under way or owed: a failed, conflicting or
\* lost update leaves them apart only until its retry.
ViewsAgree ==
    \A b \in Budgets : Settled(b) =>
        LET status == server[b].status
        IN  /\ \A i \in DOMAIN entries : IsEntryOf(entries[i], b) =>
                  /\ entries[i].spend = status.spend
                  /\ entries[i].utilization = status.utilization
                  /\ Conditions(entries[i].status) = status.conditions
                  /\ entries[i].status = BudgetStatus(status.conditions)
            /\ gauge[[scope |-> b.namespace, name |-> b.name]]
                  \in {NoGauge, status.utilization}

\* Once the costs and a budget's spec stand still, its status and its API entry
\* come to show that spend and its verdict, and keep showing them.
SpendIsReflected ==
    \A b \in Budgets : \A spec \in SpecsOf[b] : \A table \in CostTables :
        LET spend == IF spec.scope \in DOMAIN table THEN table[spec.scope] ELSE 0
            status == StatusFor(spec, spend)
        IN  <>[](server[b].exists /\ server[b].spec = spec /\ costs = table)
            => <>[](/\ server[b].exists /\ server[b].status = status
                    /\ \E i \in DOMAIN entries : entries[i] = EntryFor(b, spec, status))

\* A budget whose thresholds stand still keeps a rule with exactly their alerts
\* in the end, even when it was created anew while the rule of its predecessor
\* was waiting to be collected.
AlertsSettle ==
    \A b \in Budgets : \A spec \in SpecsOf[b] :
        spec.thresholds # {} =>
            (/\ <>[](server[b].exists /\ server[b].spec = spec)
             /\ <>[][~Restart]_vars
             => <>[](rule[b].exists /\ rule[b].label = LabelOf(b, spec)
                                   /\ rule[b].alerts = spec.thresholds))
=============================================================================
