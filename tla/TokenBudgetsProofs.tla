------------------------- MODULE TokenBudgetsProofs -------------------------
(***************************************************************************)
(* What TLAPS proves of TokenBudgets, for every set of budgets, specs and  *)
(* cost tables.  The argument: a copy of a budget that is still marked     *)
(* latest agrees with the server, so the one status update the server      *)
(* accepts carries a verdict about the spec the server holds.              *)
(***************************************************************************)
EXTENDS TokenBudgets, FiniteSums, SequenceTheorems, TLAPS

-----------------------------------------------------------------------------
(* What the operators return *)

\* A verdict is one of three.
LEMMA VerdictType ==
    ASSUME NEW thresholds, NEW utilization
    PROVE  Verdict(thresholds, utilization) \in {"ok", "warning", "exceeded"}
BY DEF Verdict

\* Every verdict sets all three conditions.
LEMMA ConditionsType ==
    ASSUME NEW verdict \in {"ok", "warning", "exceeded"}
    PROVE  Conditions(verdict) \in [ConditionTypes -> {"Unset", "True", "False"}]
BY DEF Conditions

\* A utilization is a whole percentage.
LEMMA UtilizationType ==
    ASSUME NEW spend \in Nat, NEW limit \in Nat
    PROVE  Utilization(spend, limit) \in Nat
<1>1. CASE limit = 0
  BY <1>1 DEF Utilization
<1>2. CASE limit > 0
  <2>1. spend * 100 \in Nat
    OBVIOUS
  <2>2. \A n \in Nat : n \div limit \in Nat
    BY <1>2
  <2> QED
    BY <1>2, <2>1, <2>2 DEF Utilization
<1> QED
  BY <1>1, <1>2

\* The status computed for a spec and a spend is a status.
LEMMA StatusType ==
    ASSUME NEW spec \in BudgetSpec, NEW spend \in Nat
    PROVE  /\ StatusFor(spec, spend) \in Status
           /\ StatusFor(spec, spend).spend = spend
<1>1. Utilization(spend, spec.limit) \in Nat
  BY UtilizationType DEF BudgetSpec
<1>2. \A v \in {"ok", "warning", "exceeded"} :
          Conditions(v) \in [ConditionTypes -> {"Unset", "True", "False"}]
  BY ConditionsType
<1> QED
  BY <1>1, <1>2, VerdictType DEF StatusFor, Status

\* A spend is an amount, whether or not the namespace has an entry.
LEMMA SpendType ==
    ASSUME costs \in CostTables \cup {<<>>}, NEW ns \in Namespaces
    PROVE  SpendIn(ns) \in Nat
BY CostsAssumption DEF SpendIn

\* The entry published for a budget is an entry.
LEMMA EntryType ==
    ASSUME NEW b \in Budgets, NEW spec \in BudgetSpec, NEW status \in Status
    PROVE  EntryFor(b, spec, status) \in Entry
<1>1. /\ b.name \in Names
      /\ spec.scope \in Namespaces
      /\ spec.limit \in Nat
      /\ status.spend \in Nat
      /\ status.utilization \in Nat
  BY BudgetsAssumption DEF BudgetSpec, Status
<1> QED
  BY <1>1, VerdictType DEF EntryFor, Entry

\* The entry replaced is one that matches.
LEMMA FirstMatches ==
    ASSUME NEW list \in Seq(Entry), NEW b,
           \E i \in DOMAIN list : IsEntryOf(list[i], b)
    PROVE  /\ FirstEntryOf(list, b) \in DOMAIN list
           /\ IsEntryOf(list[FirstEntryOf(list, b)], b)
<1> DEFINE S == {i \in DOMAIN list : IsEntryOf(list[i], b)}
<1>1. DOMAIN list = 1 .. Len(list) /\ Len(list) \in Nat
  OBVIOUS
<1>2. S \in SUBSET Nat /\ S # {}
  BY <1>1
<1>3. PICK m \in S : \A n \in S : m <= n
  <2> HIDE DEF S
  <2> QED BY <1>2, LeastNatural
<1>4. \A j \in DOMAIN list : j < m => ~IsEntryOf(list[j], b)
  BY <1>1, <1>2, <1>3
<1> QED
  BY <1>3, <1>4 DEF FirstEntryOf

\* Updating or appending keeps a list of entries.
LEMMA UpdateType ==
    ASSUME NEW list \in Seq(Entry), NEW b, NEW entry \in Entry
    PROVE  UpdateOrAppend(list, b, entry) \in Seq(Entry)
<1>1. CASE \E i \in DOMAIN list : IsEntryOf(list[i], b)
  BY <1>1, ExceptSeq, FirstMatches DEF UpdateOrAppend
<1>2. CASE ~\E i \in DOMAIN list : IsEntryOf(list[i], b)
  BY <1>2, AppendProperties DEF UpdateOrAppend
<1> QED
  BY <1>1, <1>2

\* The field "exists" tells an object from its absence, and a rule likewise.
LEMMA ObjectExists ==
    ASSUME NEW o \in Object \cup {Absent}
    PROVE  o.exists <=> o \in Object
<1>1. ASSUME o \in Object
      PROVE  o.exists
  <2>1. o.exists = TRUE
    BY <1>1 DEF Object
  <2> QED BY <2>1
<1>2. ASSUME o = Absent
      PROVE  ~o.exists
  <2>1. o.exists = FALSE
    BY <1>2 DEF Absent
  <2> QED BY <2>1
<1> QED
  BY <1>1, <1>2

\* The field "exists" tells a rule from its absence.
LEMMA RuleExists ==
    ASSUME NEW o \in Rule \cup {Absent}
    PROVE  o.exists <=> o \in Rule
<1>1. ASSUME o \in Rule
      PROVE  o.exists
  <2>1. o.exists = TRUE
    BY <1>1 DEF Rule
  <2> QED BY <2>1
<1>2. ASSUME o = Absent
      PROVE  ~o.exists
  <2>1. o.exists = FALSE
    BY <1>2 DEF Absent
  <2> QED BY <2>1
<1> QED
  BY <1>1, <1>2

-----------------------------------------------------------------------------
(* The inductive invariant *)

CopiesAgree ==
    \A b \in Budgets : age[b] = "latest" => cache[b] = server[b]

WorkAgrees ==
    work # Idle /\ work.age = "latest" =>
        server[work.key].exists /\ server[work.key].spec = work.spec

VerdictHeld ==
    work.stage \in {"rule", "status", "publish"} =>
        work.status = StatusFor(work.spec, work.status.spend)

Coherent == TypeOK /\ CopiesAgree /\ WorkAgrees /\ VerdictHeld

\* The stage tells a Reconcile in progress from none.
LEMMA IdleOrNot ==
    ASSUME TypeOK
    PROVE  /\ work # Idle <=> work \in Reconcile
           /\ work \in Reconcile <=> work.stage # "idle"
BY DEF TypeOK, Idle, Reconcile

\* The initial state is coherent.
LEMMA InitCoherent ==
    ASSUME Init
    PROVE  Coherent
<1>1. TypeOK
  BY DEF Init, TypeOK, Age
<1>2. CopiesAgree /\ WorkAgrees /\ VerdictHeld
  BY DEF Init, CopiesAgree, WorkAgrees, VerdictHeld, Idle
<1> QED
  BY <1>1, <1>2 DEF Coherent

\* A creation keeps coherence: copies of the absence age.
LEMMA UserCreatesCoherent ==
    ASSUME Coherent, NEW b \in Budgets, NEW spec \in SpecsOf[b], UserCreates(b, spec)
    PROVE  Coherent'
<1> USE DEF Coherent
<1>1. ZeroStatus \in Status
  BY DEF ZeroStatus, Status
<1>2. [exists |-> TRUE, spec |-> spec, status |-> ZeroStatus] \in Object
  BY <1>1, SpecsAssumption DEF Object
<1>3. TypeOK'
  BY <1>2 DEF TypeOK, UserCreates, Write, Older, Age
<1>4. CopiesAgree'
  BY DEF CopiesAgree, TypeOK, UserCreates, Write, Older
<1>5. WorkAgrees'
  BY DEF WorkAgrees, TypeOK, UserCreates, Write
<1>6. VerdictHeld'
  BY DEF VerdictHeld, UserCreates
<1> QED
  BY <1>3, <1>4, <1>5, <1>6

\* Every change of an object ages the copies of it and no other part of them.
LEMMA CopiesAgeType ==
    ASSUME TypeOK, NEW b \in Budgets, NEW Aged(_), \A a \in Age : Aged(a) \in Age,
           CopiesAge(b, Aged)
    PROVE  /\ age' \in [Budgets -> Age]
           /\ work' \in Reconcile \cup {Idle}
BY DEF TypeOK, CopiesAge, Reconcile, Idle

\* An edit keeps coherence: every copy ages.
LEMMA UserEditsCoherent ==
    ASSUME Coherent, NEW b \in Budgets, NEW spec \in SpecsOf[b], UserEdits(b, spec)
    PROVE  Coherent'
<1> USE DEF Coherent
<1>1. server[b] \in Object /\ [server[b] EXCEPT !.spec = spec] \in Object
  <2>1. server[b] \in Object
    BY ObjectExists DEF UserEdits, TypeOK
  <2>2. spec \in BudgetSpec
    BY SpecsAssumption
  <2> QED BY <2>1, <2>2 DEF Object
<1>2. /\ age' \in [Budgets -> Age]
      /\ work' \in Reconcile \cup {Idle}
  BY DEF UserEdits, TypeOK, CopiesAge, Older, Age, Reconcile, Idle
<1>3. TypeOK'
  BY <1>1, <1>2 DEF TypeOK, UserEdits, Write
<1>4. CopiesAgree'
  BY DEF CopiesAgree, TypeOK, UserEdits, Write, CopiesAge, Older
<1>5. WorkAgrees'
  BY IdleOrNot DEF WorkAgrees, TypeOK, UserEdits, Write, CopiesAge, Older, Reconcile, Idle
<1>6. VerdictHeld'
  BY DEF VerdictHeld, TypeOK, UserEdits, CopiesAge, Reconcile, Idle
<1> QED
  BY <1>3, <1>4, <1>5, <1>6

\* A deletion keeps coherence: every copy is gone.
LEMMA UserDeletesCoherent ==
    ASSUME Coherent, NEW b \in Budgets, UserDeletes(b)
    PROVE  Coherent'
<1> USE DEF Coherent
<1>1. rule' \in [Budgets -> Rule \cup {Absent}]
  <2>1. /\ rule \in [Budgets -> Rule \cup {Absent}]
        /\ rule' = IF rule[b].exists THEN [rule EXCEPT ![b].garbage = TRUE] ELSE rule
    BY DEF UserDeletes, TypeOK
  <2>2. rule[b].exists => rule[b] \in Rule
    BY <2>1 DEF Absent
  <2>3. rule[b] \in Rule => [rule[b] EXCEPT !.garbage = TRUE] \in Rule
    BY DEF Rule
  <2> QED BY ONLY <2>1, <2>2, <2>3
<1>2. /\ age' \in [Budgets -> Age]
      /\ work' \in Reconcile \cup {Idle}
  BY DEF UserDeletes, TypeOK, CopiesAge, Age, Reconcile, Idle
<1>3. TypeOK'
  BY <1>1, <1>2 DEF TypeOK, UserDeletes, Write
<1>4. CopiesAgree'
  BY DEF CopiesAgree, TypeOK, UserDeletes, Write, CopiesAge
<1>5. WorkAgrees'
  BY DEF WorkAgrees, TypeOK, UserDeletes, Write, CopiesAge, Reconcile, Idle
<1>6. VerdictHeld'
  BY DEF VerdictHeld, TypeOK, UserDeletes, CopiesAge, Reconcile, Idle
<1> QED
  BY <1>3, <1>4, <1>5, <1>6

\* The cluster and the UsageReports touch no budget.
LEMMA SurroundingsCoherent ==
    ASSUME Coherent,
           \/ \E b \in Budgets : CollectRule(b) \/ Observe(b)
           \/ \E table \in CostTables : SetNamespaceCosts(table)
           \/ Restart
    PROVE  Coherent'
<1> USE DEF Coherent, CopiesAgree, WorkAgrees, VerdictHeld
<1>1. ASSUME NEW b \in Budgets, CollectRule(b)
      PROVE  Coherent'
  BY <1>1 DEF CollectRule, TypeOK
<1>2. ASSUME NEW b \in Budgets, Observe(b)
      PROVE  Coherent'
  BY <1>2 DEF Observe, TypeOK, Age
<1>3. ASSUME NEW table \in CostTables, SetNamespaceCosts(table)
      PROVE  Coherent'
  BY <1>3 DEF SetNamespaceCosts, TypeOK
<1>4. ASSUME Restart
      PROVE  Coherent'
  BY <1>4 DEF Restart, TypeOK, Age, Idle
<1> QED
  BY <1>1, <1>2, <1>3, <1>4

\* A Reconcile that starts agrees with the cache it read.
LEMMA FetchCoherent ==
    ASSUME Coherent, NEW b \in Budgets, Fetch(b)
    PROVE  Coherent'
<1> USE DEF Coherent
<1>1. TypeOK'
  <2>1. CASE cache[b].exists
    <3>1. cache[b] \in Object /\ age[b] \in Age
      BY <2>1, ObjectExists DEF TypeOK
    <3>2. cache[b].spec \in BudgetSpec /\ cache[b].status \in Status
      BY <3>1 DEF Object
    <3>3. work' \in Reconcile
      BY <2>1, <3>1, <3>2 DEF Fetch, Reconcile
    <3> QED
      BY <3>3 DEF TypeOK, Fetch
  <2>2. CASE ~cache[b].exists
    BY <2>2 DEF TypeOK, Fetch
  <2> QED BY <2>1, <2>2
<1>2. WorkAgrees'
  BY DEF TypeOK, Fetch, WorkAgrees, CopiesAgree, Idle
<1>3. CopiesAgree' /\ VerdictHeld'
  BY DEF Fetch, CopiesAgree, VerdictHeld
<1> QED
  BY <1>1, <1>2, <1>3

\* The evaluation computes the status that the rest of the Reconcile holds.
LEMMA EvaluateCoherent ==
    ASSUME Coherent, Evaluate
    PROVE  Coherent'
<1> USE DEF Coherent
<1> DEFINE status == StatusFor(work.spec, SpendIn(work.spec.scope))
<1>1. work \in Reconcile /\ work.spec \in BudgetSpec /\ work.key \in Budgets
  BY DEF Evaluate, TypeOK, Reconcile, Idle
<1>2. SpendIn(work.spec.scope) \in Nat
  BY <1>1, SpendType DEF TypeOK, BudgetSpec
<1>3. status \in Status /\ status.spend = SpendIn(work.spec.scope)
  BY <1>1, <1>2, StatusType
<1>4. /\ gauge' = [gauge EXCEPT ![LabelOf(work.key, work.spec)] = status.utilization]
      /\ work' = [work EXCEPT !.stage = "rule", !.status = status]
      /\ UNCHANGED <<server, cache, age, rule, costs, entries, retry>>
  BY DEF Evaluate
<1>5. status = StatusFor(work.spec, status.spend)
  BY <1>3
<1> HIDE DEF status
<1>6. TypeOK'
  BY <1>1, <1>3, <1>4 DEF TypeOK, Reconcile, Status
<1>7. CopiesAgree' /\ WorkAgrees'
  BY <1>1, <1>4, IdleOrNot DEF CopiesAgree, WorkAgrees, Reconcile
<1>8. VerdictHeld'
  BY <1>1, <1>4, <1>5 DEF VerdictHeld, Reconcile
<1> QED
  BY <1>6, <1>7, <1>8

\* Writing or keeping the rule leaves the computed status alone.
LEMMA RuleCoherent ==
    ASSUME Coherent, WriteRule \/ KeepRule
    PROVE  Coherent'
<1> USE DEF Coherent
<1>1. work \in Reconcile /\ work.spec \in BudgetSpec /\ work.key \in Budgets
  BY DEF WriteRule, KeepRule, TypeOK, Reconcile, Idle
<1>2. LabelOf(work.key, work.spec) \in Label /\ work.spec.thresholds \in SUBSET Threshold
  BY <1>1, BudgetsAssumption DEF LabelOf, Label, BudgetSpec
<1>3. \A garbage \in BOOLEAN : RuleFor(work.key, work.spec, garbage) \in Rule
  BY <1>2 DEF RuleFor, Rule
<1>4. rule[work.key].exists => rule[work.key].garbage \in BOOLEAN
  <2>1. rule[work.key].exists => rule[work.key] \in Rule
    BY <1>1, RuleExists DEF TypeOK
  <2> QED BY <2>1 DEF Rule
<1>5. rule' \in [Budgets -> Rule \cup {Absent}]
  <2> DEFINE garbage == IF rule[work.key].exists THEN rule[work.key].garbage
                                                 ELSE work.age = "gone"
  <2>1. garbage \in BOOLEAN
    BY <1>4
  <2>2. RuleFor(work.key, work.spec, garbage) \in Rule
    BY <1>3, <2>1
  <2>3. CASE WriteRule
    <3>1. rule' = [rule EXCEPT ![work.key] = RuleFor(work.key, work.spec, garbage)]
      BY <2>3 DEF WriteRule
    <3> HIDE DEF garbage
    <3> QED BY <1>1, <2>2, <3>1 DEF TypeOK
  <2>4. CASE KeepRule
    BY <2>4 DEF KeepRule, TypeOK
  <2> QED BY <2>3, <2>4
<1>6. /\ work' = [work EXCEPT !.stage = "status"]
      /\ UNCHANGED <<server, cache, age, costs, entries, gauge, retry>>
  BY DEF WriteRule, KeepRule
<1>7. TypeOK'
  BY <1>1, <1>5, <1>6 DEF TypeOK, Reconcile
<1>8. CopiesAgree' /\ WorkAgrees' /\ VerdictHeld'
  BY <1>1, <1>6, IdleOrNot
     DEF CopiesAgree, WorkAgrees, VerdictHeld, Reconcile, WriteRule, KeepRule
<1> QED
  BY <1>7, <1>8

\* An accepted update ends the agreement of every copy with the server.
LEMMA ApplyStatusType ==
    ASSUME Coherent, ApplyStatus, UNCHANGED cache
    PROVE  /\ work \in Reconcile /\ work.key \in Budgets
           /\ server' \in [Budgets -> Object \cup {Absent}]
           /\ age' \in [Budgets -> Age]
           /\ CopiesAgree'
<1> USE DEF Coherent
<1>1. work \in Reconcile /\ work.key \in Budgets /\ work.status \in Status
  BY DEF ApplyStatus, TypeOK, Reconcile, Idle
<1>2. server[work.key].exists
  BY <1>1, IdleOrNot DEF ApplyStatus, WorkAgrees
<1>3. [server[work.key] EXCEPT !.status = work.status] \in Object
  <2>1. server[work.key] \in Object
    BY <1>1, <1>2, ObjectExists DEF TypeOK
  <2> QED BY <1>1, <2>1 DEF Object
<1>4. server' \in [Budgets -> Object \cup {Absent}] /\ age' \in [Budgets -> Age]
  BY <1>1, <1>3 DEF ApplyStatus, Write, TypeOK, Older, Age
<1>5. CopiesAgree'
  <2> SUFFICES ASSUME NEW b \in Budgets, age'[b] = "latest"
               PROVE  cache'[b] = server'[b]
    BY DEF CopiesAgree
  <2>1. \A a \in Age : Older(a) # "latest"
    BY DEF Older, Age
  <2>2. age'[work.key] = Older(age[work.key])
    BY <1>1 DEF ApplyStatus, TypeOK
  <2>3. age[work.key] \in Age
    BY <1>1 DEF TypeOK
  <2>4. b # work.key
    BY <2>1, <2>2, <2>3
  <2>5. age'[b] = age[b] /\ server'[b] = server[b]
    BY <1>1, <2>4 DEF ApplyStatus, Write, TypeOK
  <2> QED
    BY <2>5 DEF CopiesAgree
<1> QED
  BY <1>1, <1>4, <1>5

\* A status update that succeeds keeps coherence.
LEMMA WriteStatusCoherent ==
    ASSUME Coherent, WriteStatus
    PROVE  Coherent'
<1> USE DEF Coherent
<1>1. /\ work \in Reconcile /\ work.key \in Budgets
      /\ server' \in [Budgets -> Object \cup {Absent}]
      /\ age' \in [Budgets -> Age]
      /\ CopiesAgree'
  BY ApplyStatusType DEF WriteStatus
<1>2. TypeOK'
  BY <1>1 DEF WriteStatus, TypeOK, Reconcile
<1>3. server'[work.key].exists /\ server'[work.key].spec = work.spec
  <2>1. server[work.key].exists /\ server[work.key].spec = work.spec
    BY <1>1, IdleOrNot DEF WriteStatus, ApplyStatus, WorkAgrees
  <2>2. server[work.key] \in Object
    BY <1>1, <2>1, ObjectExists DEF TypeOK
  <2>3. server'[work.key] = [server[work.key] EXCEPT !.status = work.status]
    BY <1>1 DEF WriteStatus, ApplyStatus, Write, TypeOK
  <2> QED BY <2>1, <2>2, <2>3 DEF Object
<1>4. WorkAgrees'
  BY <1>1, <1>3 DEF WorkAgrees, WriteStatus, Reconcile
<1>5. VerdictHeld'
  BY <1>1 DEF VerdictHeld, WriteStatus, ApplyStatus, Reconcile
<1> QED
  BY <1>1, <1>2, <1>4, <1>5

\* A status update that fails, or whose answer is lost, keeps coherence.
LEMMA FailedStatusCoherent ==
    ASSUME Coherent, StatusConflict \/ StatusFails \/ StatusAnswerLost
    PROVE  Coherent'
<1> USE DEF Coherent
<1>1. work \in Reconcile /\ work.key \in Budgets
  BY DEF StatusConflict, StatusFails, StatusAnswerLost, ApplyStatus, TypeOK, Reconcile, Idle
<1>2. GiveUp
  BY DEF StatusConflict, StatusFails, StatusAnswerLost
<1>3. WorkAgrees' /\ VerdictHeld'
  BY <1>2 DEF GiveUp, WorkAgrees, VerdictHeld, Idle
<1>4. CASE UNCHANGED <<server, age>>
  BY <1>1, <1>2, <1>3, <1>4 DEF GiveUp, TypeOK, CopiesAgree
<1>5. CASE StatusAnswerLost
  BY <1>1, <1>2, <1>3, <1>5, ApplyStatusType DEF StatusAnswerLost, GiveUp, TypeOK
<1> QED
  BY <1>4, <1>5 DEF StatusConflict, StatusFails

\* Publishing to the API store keeps coherence.
LEMMA PublishCoherent ==
    ASSUME Coherent, Publish
    PROVE  Coherent'
<1> USE DEF Coherent
<1> DEFINE entry == EntryFor(work.key, work.spec, work.status)
<1>1. work \in Reconcile /\ work.key \in Budgets
  BY DEF Publish, TypeOK, Reconcile, Idle
<1>2. entry \in Entry
  BY <1>1, EntryType DEF Reconcile
<1>3. entries' \in Seq(Entry)
  BY <1>2, UpdateType DEF Publish, TypeOK
<1>4. TypeOK' /\ CopiesAgree'
  BY <1>3 DEF Publish, TypeOK, CopiesAgree
<1>5. WorkAgrees' /\ VerdictHeld'
  BY DEF Publish, WorkAgrees, VerdictHeld, Idle
<1> QED
  BY <1>4, <1>5

\* Every step keeps coherence.
LEMMA StepCoherent ==
    ASSUME Coherent, [Next]_vars
    PROVE  Coherent'
<1>1. CASE UNCHANGED vars
  BY <1>1 DEF vars, Coherent, TypeOK, CopiesAgree, WorkAgrees, VerdictHeld
<1>2. CASE Next
  BY <1>2, UserCreatesCoherent, UserEditsCoherent, UserDeletesCoherent, SurroundingsCoherent,
     FetchCoherent, EvaluateCoherent, RuleCoherent, WriteStatusCoherent,
     FailedStatusCoherent, PublishCoherent
     DEF Next, External, Controller, Step
<1> QED
  BY <1>1, <1>2

-----------------------------------------------------------------------------
(* The theorems *)

\* In every behaviour the copies marked latest agree with the server, and a
\* Reconcile past its evaluation holds the status its spec and spend call for.
THEOREM AlwaysCoherent == Spec => []Coherent
<1>1. Init => Coherent
  BY InitCoherent
<1>2. Coherent /\ [Next]_vars => Coherent'
  BY StepCoherent
<1> QED
  BY <1>1, <1>2, PTL DEF Spec

\* Every variable has its type, for any number of budgets and any costs.
THEOREM TypeCorrect == Spec => []TypeOK
<1>1. Coherent => TypeOK
  BY DEF Coherent
<1> QED
  BY <1>1, AlwaysCoherent, PTL

\* Only a status update changes the status of an object that stays, and it does
\* so at the version Reconcile read.
LEMMA StepVerdict ==
    ASSUME Coherent, [Next]_vars,
           NEW b \in Budgets,
           server[b].exists, server'[b].exists, server'[b].status # server[b].status
    PROVE  server'[b].status = StatusFor(server'[b].spec, server'[b].status.spend)
<1> USE DEF Coherent
<1>1. ASSUME ApplyStatus, UNCHANGED cache
      PROVE  server'[b].status = StatusFor(server'[b].spec, server'[b].status.spend)
  <2>1. /\ work \in Reconcile /\ work.key \in Budgets
        /\ server[work.key].exists /\ server[work.key].spec = work.spec
    BY <1>1, ApplyStatusType, IdleOrNot DEF ApplyStatus, WorkAgrees
  <2>2. work.key = b
    BY <1>1, <2>1 DEF ApplyStatus, Write, TypeOK
  <2>3. server'[b].status = work.status /\ server'[b].spec = work.spec
    BY <1>1, <2>1, <2>2 DEF ApplyStatus, Write, TypeOK, Object, Absent
  <2>4. work.status = StatusFor(work.spec, work.status.spend)
    BY <1>1 DEF ApplyStatus, VerdictHeld
  <2> QED
    BY <2>3, <2>4
<1>2. ASSUME NEW c \in Budgets, NEW spec \in SpecsOf[c], UserEdits(c, spec)
      PROVE  FALSE
  BY <1>2 DEF UserEdits, Write, TypeOK, Object, Absent
<1>3. ASSUME NEW c \in Budgets, NEW spec \in SpecsOf[c], UserCreates(c, spec)
      PROVE  FALSE
  BY <1>3 DEF UserCreates, Write, TypeOK
<1>4. ASSUME NEW c \in Budgets, UserDeletes(c)
      PROVE  FALSE
  BY <1>4 DEF UserDeletes, Write, TypeOK, Absent
<1>5. server' # server
  OBVIOUS
<1> QED
  BY <1>1, <1>2, <1>3, <1>4, <1>5
     DEF Next, External, Controller, Step, vars, CollectRule, Observe, Fetch,
         SetNamespaceCosts, Restart, Evaluate, WriteRule, KeepRule, WriteStatus, StatusConflict, StatusFails, StatusAnswerLost, GiveUp,
         Publish

\* However users' edits, deletions, conflicts and retries interleave, the status
\* the server accepts is a verdict about the thresholds it holds itself.
THEOREM VerdictAlwaysFollowsSpec == Spec => VerdictFollowsSpec
<1>1. Coherent /\ [Next]_vars =>
        [\A b \in Budgets :
           server[b].exists /\ server'[b].exists /\ server'[b].status # server[b].status
           => server'[b].status = StatusFor(server'[b].spec, server'[b].status.spend)]_vars
  BY StepVerdict
<1> QED
  BY <1>1, AlwaysCoherent, PTL DEF Spec, VerdictFollowsSpec

-----------------------------------------------------------------------------
(* Unique entries, where every budget covers the namespace it lives in       *)

ScopesAreOwn == \A b \in Budgets : \A s \in SpecsOf[b] : s.scope = b.namespace

\* Every spec that is stored, cached or worked on is one its budget may have.
SpecsArePermitted ==
    /\ \A b \in Budgets :
          /\ server[b].exists => server[b].spec \in SpecsOf[b]
          /\ cache[b].exists => cache[b].spec \in SpecsOf[b]
    /\ work # Idle => work.spec \in SpecsOf[work.key]

\* Users give budgets only specs they may give.
LEMMA UsersPermitted ==
    ASSUME Coherent, SpecsArePermitted, NEW b \in Budgets, NEW spec \in SpecsOf[b],
           UserCreates(b, spec) \/ UserEdits(b, spec)
    PROVE  SpecsArePermitted'
<1> USE DEF Coherent
<1>1. server'[b].spec = spec
  <2>1. CASE UserCreates(b, spec)
    BY <2>1 DEF UserCreates, Write, TypeOK
  <2>2. CASE UserEdits(b, spec)
    <3>1. server[b] \in Object
      BY <2>2, ObjectExists DEF UserEdits, TypeOK
    <3> QED
      BY <2>2, <3>1 DEF UserEdits, Write, TypeOK, Object
  <2> QED BY <2>1, <2>2
<1>2. /\ \A c \in Budgets : c # b => server'[c] = server[c]
      /\ UNCHANGED cache
  BY DEF UserCreates, UserEdits, Write, TypeOK
<1>3. work' # Idle => /\ work # Idle
                      /\ work'.key = work.key
                      /\ work'.spec = work.spec
  BY DEF UserCreates, UserEdits, CopiesAge, TypeOK, Reconcile, Idle
<1> QED
  BY <1>1, <1>2, <1>3 DEF SpecsArePermitted

\* A deletion leaves the specs that remain as they were.
LEMMA UserDeletesPermitted ==
    ASSUME Coherent, SpecsArePermitted, NEW b \in Budgets, UserDeletes(b)
    PROVE  SpecsArePermitted'
<1> USE DEF Coherent
<1>1. /\ ~server'[b].exists
      /\ \A c \in Budgets : c # b => server'[c] = server[c]
      /\ UNCHANGED cache
  <2>1. server'[b] = Absent
    BY DEF UserDeletes, Write, TypeOK
  <2>2. ~server'[b].exists
    <3>1. Absent.exists = FALSE
      BY DEF Absent
    <3> QED BY <2>1, <3>1
  <2> QED
    BY <2>2 DEF UserDeletes, Write, TypeOK
<1>2. work' # Idle => /\ work # Idle
                      /\ work'.key = work.key
                      /\ work'.spec = work.spec
  BY DEF UserDeletes, CopiesAge, TypeOK, Reconcile, Idle
<1> QED
  BY <1>1, <1>2 DEF SpecsArePermitted

\* Every spec in the system is one a user may give.
LEMMA StepPermitted ==
    ASSUME Coherent, SpecsArePermitted, [Next]_vars
    PROVE  SpecsArePermitted'
<1> USE DEF Coherent
<1>1. ASSUME NEW b \in Budgets, Observe(b) \/ CollectRule(b) \/ Fetch(b)
      PROVE  SpecsArePermitted'
  BY <1>1 DEF Observe, CollectRule, Fetch, SpecsArePermitted, TypeOK, Idle
<1>2. ASSUME Restart \/ \E table \in CostTables : SetNamespaceCosts(table)
      PROVE  SpecsArePermitted'
  BY <1>2 DEF Restart, SetNamespaceCosts, SpecsArePermitted
<1>3. ASSUME Evaluate \/ WriteRule \/ KeepRule
      PROVE  SpecsArePermitted'
  <2>1. work \in Reconcile
    BY <1>3 DEF Evaluate, WriteRule, KeepRule, TypeOK, Idle
  <2>2. /\ work'.key = work.key
        /\ work'.spec = work.spec
        /\ UNCHANGED <<server, cache>>
    BY <1>3, <2>1 DEF Evaluate, WriteRule, KeepRule, Reconcile
  <2> QED
    BY <2>1, <2>2, IdleOrNot DEF SpecsArePermitted
<1>4. ASSUME ApplyStatus, UNCHANGED cache,
             work' = Idle \/ work' = [work EXCEPT !.stage = "publish"]
      PROVE  SpecsArePermitted'
  <2>1. work \in Reconcile /\ work.key \in Budgets /\ server[work.key].exists
    BY <1>4, ApplyStatusType, IdleOrNot DEF ApplyStatus, WorkAgrees
  <2>2. server[work.key] \in Object
    BY <2>1, ObjectExists DEF TypeOK
  <2>3. \A c \in Budgets : server'[c].exists => /\ server[c].exists
                                                /\ server'[c].spec = server[c].spec
    <3>1. \A c \in Budgets : c # work.key => server'[c] = server[c]
      BY <1>4, <2>1 DEF ApplyStatus, Write, TypeOK
    <3>2. server'[work.key].spec = server[work.key].spec
      BY <1>4, <2>1, <2>2 DEF ApplyStatus, Write, TypeOK, Object
    <3> QED BY <3>1, <3>2, <2>1
  <2>4. work' # Idle => work'.key = work.key /\ work'.spec = work.spec
    BY <1>4, <2>1 DEF Reconcile
  <2> QED
    BY <1>4, <2>1, <2>3, <2>4, IdleOrNot DEF SpecsArePermitted
<1>5. ASSUME StatusConflict \/ StatusFails \/ Publish
      PROVE  SpecsArePermitted'
  BY <1>5 DEF StatusConflict, StatusFails, GiveUp, Publish, SpecsArePermitted
<1>6. CASE UNCHANGED vars
  BY <1>6 DEF vars, SpecsArePermitted
<1> QED
  BY <1>1, <1>2, <1>3, <1>4, <1>5, <1>6, UsersPermitted, UserDeletesPermitted
     DEF Next, External, Controller, Step, WriteStatus, StatusAnswerLost, GiveUp

\* No step lists a budget twice.
LEMMA StepUnique ==
    ASSUME ScopesAreOwn, Coherent, SpecsArePermitted, EntriesAreUnique, [Next]_vars
    PROVE  EntriesAreUnique'
<1> USE DEF Coherent
<1>1. CASE Publish
  <2> DEFINE b == work.key
             entry == EntryFor(b, work.spec, work.status)
  <2>1. work \in Reconcile /\ b \in Budgets
    BY <1>1 DEF Publish, TypeOK, Reconcile, Idle
  <2>2. work.spec.scope = b.namespace
    BY <2>1, IdleOrNot DEF ScopesAreOwn, SpecsArePermitted
  <2>3. entry.name = b.name /\ entry.namespace = b.namespace
    BY <2>2 DEF EntryFor
  <2>4. entry \in Entry /\ entries \in Seq(Entry)
    BY <2>1, EntryType DEF Reconcile, TypeOK
  <2>5. entries' = UpdateOrAppend(entries, b, entry)
    BY <1>1 DEF Publish
  <2> HIDE DEF entry, b
  <2>6. CASE \E i \in DOMAIN entries : IsEntryOf(entries[i], b)
    <3> DEFINE first == FirstEntryOf(entries, b)
    <3>1. first \in DOMAIN entries /\ IsEntryOf(entries[first], b)
      BY <2>4, <2>6, FirstMatches
    <3>2. entries' = [entries EXCEPT ![first] = entry]
      BY <2>5, <2>6 DEF UpdateOrAppend
    <3> HIDE DEF first
    <3>3. /\ DOMAIN entries' = DOMAIN entries
          /\ \A i \in DOMAIN entries : /\ entries'[i].name = entries[i].name
                                       /\ entries'[i].namespace = entries[i].namespace
      BY <2>3, <2>4, <3>1, <3>2 DEF IsEntryOf
    <3> QED
      BY <3>3 DEF EntriesAreUnique
  <2>7. CASE ~\E i \in DOMAIN entries : IsEntryOf(entries[i], b)
    <3>1. entries' = Append(entries, entry)
      BY <2>5, <2>7 DEF UpdateOrAppend
    <3>2. /\ Len(entries) \in Nat
          /\ DOMAIN entries = 1 .. Len(entries)
          /\ DOMAIN entries' = 1 .. (Len(entries) + 1)
          /\ \A i \in DOMAIN entries : entries'[i] = entries[i]
          /\ entries'[Len(entries) + 1] = entry
      BY <2>4, <3>1, AppendProperties
    <3> QED
      BY <2>3, <2>7, <3>2 DEF EntriesAreUnique, IsEntryOf
  <2> QED
    BY <2>6, <2>7
<1>2. CASE entries' = <<>>
  BY <1>2 DEF EntriesAreUnique
<1>3. CASE UNCHANGED entries
  BY <1>3 DEF EntriesAreUnique
<1> QED
  BY <1>1, <1>2, <1>3
     DEF Next, External, Controller, Step, vars, UserCreates, UserEdits, UserDeletes,
         CollectRule, Observe, Fetch, SetNamespaceCosts, Restart, Evaluate, WriteRule, KeepRule, WriteStatus, StatusConflict,
         StatusFails, StatusAnswerLost, GiveUp

\* When every budget covers its own namespace, updateAPIStore keeps one line per
\* budget, though it searches by the object's namespace and stores the scope's.
\* The assumption is needed: a run without it finds a duplicate.
THEOREM EntriesAlwaysUnique ==
    ASSUME ScopesAreOwn
    PROVE  Spec => []EntriesAreUnique
<1> DEFINE Inv == Coherent /\ SpecsArePermitted /\ EntriesAreUnique
<1>1. Init => Inv
  <2> SUFFICES ASSUME Init PROVE Inv
    OBVIOUS
  <2>1. Coherent
    BY InitCoherent
  <2>2. Absent.exists = FALSE
    BY DEF Absent
  <2>3. SpecsArePermitted
    BY <2>2 DEF Init, SpecsArePermitted
  <2>4. EntriesAreUnique
    BY DEF Init, EntriesAreUnique
  <2> QED BY <2>1, <2>3, <2>4
<1>2. Inv /\ [Next]_vars => Inv'
  BY StepCoherent, StepPermitted, StepUnique
<1>3. Inv => EntriesAreUnique
  OBVIOUS
<1> QED
  BY <1>1, <1>2, <1>3, PTL DEF Spec

-----------------------------------------------------------------------------
(* The views of a budget *)

\* Entries and gauge show status for b.
Shown(b, status) ==
    /\ \A i \in DOMAIN entries : IsEntryOf(entries[i], b) =>
          /\ entries[i].spend = status.spend
          /\ entries[i].utilization = status.utilization
          /\ Conditions(entries[i].status) = status.conditions
          /\ entries[i].status = BudgetStatus(status.conditions)
    /\ gauge[[scope |-> b.namespace, name |-> b.name]] \in {NoGauge, status.utilization}

\* A budget that was never deleted since it was cached or fetched is there; one that
\* the cache has yet to show has no status.
CopiesExist ==
    \A b \in Budgets :
        /\ cache[b].exists /\ age[b] # "gone" => server[b].exists
        /\ work # Idle /\ work.key = b /\ work.age # "gone"
           => server[b].exists /\ cache[b].exists
        /\ server[b].exists /\ ~cache[b].exists => server[b].status = ZeroStatus

\* After the evaluation the gauge has work's status, and after the update the server
\* does, unless the budget was created anew meanwhile.
WorkShown ==
    /\ work.stage \in {"rule", "status", "publish"}
       => gauge[LabelOf(work.key, work.spec)] = work.status.utilization
    /\ work.stage = "publish" /\ server[work.key].exists
       => server[work.key].status \in {ZeroStatus, work.status}

\* The CLI reads from the conditions the verdict that set them.
LEMMA StatusOfVerdict ==
    ASSUME NEW verdict \in {"ok", "warning", "exceeded"}
    PROVE  BudgetStatus(Conditions(verdict)) = verdict
BY DEF BudgetStatus, Conditions, ConditionTypes

\* One entry is new in an updated list, and the others are as they were.
LEMMA UpdateFacts ==
    ASSUME NEW list \in Seq(Entry), NEW b, NEW entry \in Entry
    PROVE  LET new == UpdateOrAppend(list, b, entry)
           IN  \E k \in DOMAIN new :
                  /\ new[k] = entry
                  /\ \A i \in DOMAIN new : i # k => i \in DOMAIN list /\ new[i] = list[i]
<1>1. CASE \E i \in DOMAIN list : IsEntryOf(list[i], b)
  <2> DEFINE k == FirstEntryOf(list, b)
  <2>1. k \in DOMAIN list
    BY <1>1, FirstMatches
  <2>2. UpdateOrAppend(list, b, entry) = [list EXCEPT ![k] = entry]
    BY <1>1 DEF UpdateOrAppend
  <2> HIDE DEF k
  <2> QED BY <2>1, <2>2
<1>2. CASE ~\E i \in DOMAIN list : IsEntryOf(list[i], b)
  <2>1. UpdateOrAppend(list, b, entry) = Append(list, entry)
    BY <1>2 DEF UpdateOrAppend
  <2>2. /\ Len(list) \in Nat
        /\ DOMAIN list = 1 .. Len(list)
        /\ DOMAIN Append(list, entry) = 1 .. (Len(list) + 1)
        /\ \A i \in DOMAIN list : Append(list, entry)[i] = list[i]
        /\ Append(list, entry)[Len(list) + 1] = entry
    BY AppendProperties
  <2> QED BY <2>1, <2>2
<1> QED
  BY <1>1, <1>2

\* A Reconcile that evaluates, writes or publishes is one, of a budget and its own scope.
LEMMA Working ==
    ASSUME ScopesAreOwn, Coherent, SpecsArePermitted,
           Evaluate \/ WriteRule \/ KeepRule \/ ApplyStatus \/ StatusConflict \/ StatusFails
           \/ Publish
    PROVE  /\ work \in Reconcile /\ work # Idle
           /\ work.key \in Budgets
           /\ work.spec.scope = work.key.namespace
           /\ LabelOf(work.key, work.spec)
                = [scope |-> work.key.namespace, name |-> work.key.name]
           /\ LabelOf(work.key, work.spec) \in Label
<1> USE DEF Coherent
<1>1. work \in Reconcile /\ work # Idle
  <2>1. work.stage # "idle"
    BY DEF Evaluate, WriteRule, KeepRule, ApplyStatus, StatusConflict, StatusFails, Publish
  <2> QED BY <2>1, IdleOrNot
<1>2. work.key \in Budgets
  BY <1>1 DEF Reconcile
<1>3. work.spec.scope = work.key.namespace
  BY <1>1, <1>2 DEF ScopesAreOwn, SpecsArePermitted
<1>4. LabelOf(work.key, work.spec)
        = [scope |-> work.key.namespace, name |-> work.key.name]
  BY <1>3 DEF LabelOf
<1>5. work.key.namespace \in Namespaces /\ work.key.name \in Names
  BY <1>2, BudgetsAssumption
<1> QED
  BY <1>1, <1>2, <1>3, <1>4, <1>5 DEF Label

\* Copies and what they are of come and go together.
LEMMA StepCopiesExist ==
    ASSUME ScopesAreOwn, Coherent, SpecsArePermitted, CopiesExist, [Next]_vars
    PROVE  CopiesExist'
<1> USE DEF Coherent, CopiesExist
<1>1. ASSUME NEW b \in Budgets, NEW spec \in SpecsOf[b], UserCreates(b, spec)
      PROVE  CopiesExist'
  BY <1>1 DEF UserCreates, Write, Older, TypeOK
<1>2. ASSUME NEW b \in Budgets, NEW spec \in SpecsOf[b], UserEdits(b, spec)
      PROVE  CopiesExist'
  <2>1. server[b] \in Object
    BY <1>2, ObjectExists DEF UserEdits, TypeOK
  <2>2. /\ server'[b].exists /\ server'[b].status = server[b].status
        /\ \A c \in Budgets : c # b => server'[c] = server[c]
    BY <1>2, <2>1 DEF UserEdits, Write, TypeOK, Object
  <2>3. \A c \in Budgets : age'[c] # "gone" => age[c] # "gone"
    BY <1>2 DEF UserEdits, CopiesAge, Older, TypeOK
  <2>4. work' # Idle /\ work'.age # "gone"
        => work # Idle /\ work.age # "gone" /\ work'.key = work.key
    BY <1>2, IdleOrNot DEF UserEdits, CopiesAge, Older, Reconcile
  <2>5. UNCHANGED cache
    BY <1>2 DEF UserEdits
  <2>6. \A c \in Budgets : /\ server'[c].exists <=> server[c].exists
                           /\ server'[c].status = server[c].status
    BY <1>2, <2>2 DEF UserEdits
  <2> QED BY <2>3, <2>4, <2>5, <2>6
<1>3. ASSUME NEW b \in Budgets, UserDeletes(b)
      PROVE  CopiesExist'
  <2>1. /\ server' = [server EXCEPT ![b] = Absent]
        /\ age' = [age EXCEPT ![b] = "gone"]
        /\ UNCHANGED cache
    BY <1>3 DEF UserDeletes, Write, CopiesAge
  <2>2. work' # Idle /\ work'.age # "gone"
        => work # Idle /\ work.age # "gone" /\ work'.key = work.key /\ work.key # b
    BY <1>3, IdleOrNot DEF UserDeletes, CopiesAge, Reconcile
  <2> QED BY <2>1, <2>2 DEF TypeOK, Absent
<1>4. ASSUME NEW b \in Budgets, Observe(b) \/ Fetch(b)
      PROVE  CopiesExist'
  BY <1>4 DEF Observe, Fetch, TypeOK
<1>5. CASE Restart
  BY <1>5 DEF Restart
<1>6. ASSUME ApplyStatus, UNCHANGED cache,
             work' = Idle \/ work' = [work EXCEPT !.stage = "publish"]
      PROVE  CopiesExist'
  <2>1. work \in Reconcile /\ work # Idle /\ work.key \in Budgets
    BY <1>6, Working
  <2>2. server[work.key].exists /\ cache[work.key].exists
    BY <1>6, <2>1 DEF ApplyStatus
  <2>3. server[work.key] \in Object
    BY <2>1, <2>2, ObjectExists DEF TypeOK
  <2>4. /\ server'[work.key].exists
        /\ \A c \in Budgets : c # work.key => server'[c] = server[c]
    BY <1>6, <2>1, <2>2, <2>3 DEF ApplyStatus, Write, TypeOK, Object
  <2>5. \A c \in Budgets : age'[c] # "gone" => age[c] # "gone"
    BY <1>6 DEF ApplyStatus, Older, TypeOK
  <2>6. work' # Idle => work'.key = work.key /\ work'.age = work.age
    BY <1>6, <2>1 DEF Reconcile
  <2> QED BY <1>6, <2>1, <2>2, <2>4, <2>5, <2>6
<1>7. CASE Evaluate \/ WriteRule \/ KeepRule
  <2>1. work \in Reconcile /\ work # Idle
    BY <1>7, Working
  <2>2. work'.key = work.key /\ work'.age = work.age
    BY <1>7, <2>1 DEF Evaluate, WriteRule, KeepRule, Reconcile
  <2> QED BY <1>7, <2>1, <2>2 DEF Evaluate, WriteRule, KeepRule
<1>8. CASE StatusConflict \/ StatusFails \/ Publish
  BY <1>8 DEF StatusConflict, StatusFails, GiveUp, Publish
<1>9. CASE UNCHANGED <<server, cache, age, work>>
  BY <1>9
<1> QED
  BY <1>1, <1>2, <1>3, <1>4, <1>5, <1>6, <1>7, <1>8, <1>9
     DEF Next, External, Controller, Step, vars, CollectRule, SetNamespaceCosts,
         WriteStatus, StatusAnswerLost, GiveUp

\* What a Reconcile is about to publish stays what it has shown and written.
LEMMA StepWorkShown ==
    ASSUME ScopesAreOwn, Coherent, SpecsArePermitted, WorkShown, [Next]_vars
    PROVE  WorkShown'
<1> USE DEF Coherent, WorkShown
<1>1. ASSUME NEW b \in Budgets, NEW spec \in SpecsOf[b], UserCreates(b, spec)
      PROVE  WorkShown'
  BY <1>1 DEF UserCreates, Write, TypeOK, Reconcile
<1>2. ASSUME NEW b \in Budgets, NEW spec \in SpecsOf[b], UserEdits(b, spec)
      PROVE  WorkShown'
  <2>1. server[b] \in Object
    BY <1>2, ObjectExists DEF UserEdits, TypeOK
  <2>2. \A c \in Budgets : server'[c].exists =>
            server[c].exists /\ server'[c].status = server[c].status
    BY <1>2, <2>1 DEF UserEdits, Write, TypeOK, Object
  <2>3. \/ work = Idle /\ work' = Idle
        \/ /\ work \in Reconcile
           /\ work'.stage = work.stage /\ work'.key = work.key
           /\ work'.spec = work.spec /\ work'.status = work.status
    BY <1>2, IdleOrNot DEF UserEdits, CopiesAge, Reconcile
  <2>4. UNCHANGED gauge
    BY <1>2 DEF UserEdits
  <2> QED BY <2>2, <2>3, <2>4 DEF Idle, Reconcile, LabelOf
<1>3. ASSUME NEW b \in Budgets, UserDeletes(b)
      PROVE  WorkShown'
  <2>1. \A c \in Budgets : server'[c].exists => server'[c] = server[c]
    BY <1>3 DEF UserDeletes, Write, TypeOK, Absent
  <2>2. \/ work = Idle /\ work' = Idle
        \/ /\ work \in Reconcile
           /\ work'.stage = work.stage /\ work'.key = work.key
           /\ work'.spec = work.spec /\ work'.status = work.status
    BY <1>3, IdleOrNot DEF UserDeletes, CopiesAge, Reconcile
  <2>3. UNCHANGED gauge
    BY <1>3 DEF UserDeletes
  <2> QED BY <2>1, <2>2, <2>3 DEF Idle, Reconcile, LabelOf
<1>4. ASSUME NEW b \in Budgets, Fetch(b)
      PROVE  WorkShown'
  BY <1>4 DEF Fetch, Idle
<1>5. CASE Restart \/ StatusConflict \/ StatusFails \/ StatusAnswerLost \/ Publish
  BY <1>5 DEF Restart, StatusConflict, StatusFails, StatusAnswerLost, GiveUp, Publish, Idle
<1>6. CASE Evaluate
  <2>1. work \in Reconcile /\ LabelOf(work.key, work.spec) \in Label
    BY <1>6, Working
  <2>2. /\ work'.stage = "rule" /\ work'.key = work.key /\ work'.spec = work.spec
        /\ gauge' = [gauge EXCEPT ![LabelOf(work.key, work.spec)] = work'.status.utilization]
    BY <1>6, <2>1 DEF Evaluate, Reconcile
  <2> QED BY <2>1, <2>2 DEF TypeOK, LabelOf
<1>7. CASE WriteRule \/ KeepRule
  <2>1. work \in Reconcile
    BY <1>7, Working
  <2>2. /\ work.stage = "rule" /\ work' = [work EXCEPT !.stage = "status"]
        /\ UNCHANGED <<server, gauge>>
    BY <1>7 DEF WriteRule, KeepRule
  <2> QED BY <2>1, <2>2 DEF Reconcile, LabelOf
<1>8. CASE WriteStatus
  <2>1. work \in Reconcile /\ work.key \in Budgets
    BY <1>8, Working DEF WriteStatus
  <2>2. server[work.key] \in Object
    BY <1>8, <2>1, IdleOrNot, ObjectExists DEF WriteStatus, ApplyStatus, WorkAgrees, TypeOK
  <2>3. server'[work.key].status = work.status
    BY <1>8, <2>1, <2>2 DEF WriteStatus, ApplyStatus, Write, TypeOK, Object
  <2>4. /\ work.stage = "status" /\ work' = [work EXCEPT !.stage = "publish"]
        /\ UNCHANGED gauge
    BY <1>8 DEF WriteStatus, ApplyStatus
  <2> QED BY <2>1, <2>3, <2>4 DEF Reconcile, LabelOf
<1>9. CASE UNCHANGED <<server, gauge, work>>
  BY <1>9 DEF LabelOf
<1> QED
  BY <1>1, <1>2, <1>3, <1>4, <1>5, <1>6, <1>7, <1>8, <1>9
     DEF Next, External, Controller, Step, vars, CollectRule, Observe, SetNamespaceCosts

\* Publishing brings the entries of the budget in line with gauge and server.
LEMMA PublishAgrees ==
    ASSUME ScopesAreOwn, Coherent, SpecsArePermitted, EntriesAreUnique, WorkShown, ViewsAgree,
           Publish
    PROVE  ViewsAgree'
<1> USE DEF Coherent
<1> DEFINE key == work.key
           status == work.status
           entry == EntryFor(key, work.spec, status)
<1>1. work \in Reconcile /\ work # Idle /\ key \in Budgets /\ work.spec.scope = key.namespace
  BY Working
<1>2. /\ entries' = UpdateOrAppend(entries, key, entry)
      /\ work' = Idle
      /\ UNCHANGED <<server, gauge, retry>>
  BY DEF Publish
<1>3. EntriesAreUnique'
  <2>1. [Next]_vars
    BY DEF Next, Controller, Step
  <2> QED BY <2>1, StepUnique
<1>4. /\ entry.name = key.name /\ entry.namespace = key.namespace
      /\ entry.spend = status.spend /\ entry.utilization = status.utilization
  BY <1>1 DEF EntryFor
<1>5. /\ Conditions(entry.status) = status.conditions
      /\ entry.status = BudgetStatus(status.conditions)
  <2>1. status = StatusFor(work.spec, status.spend)
    BY DEF VerdictHeld, Publish
  <2>2. status.conditions = Conditions(Verdict(work.spec.thresholds, status.utilization))
    BY <2>1 DEF StatusFor
  <2>3. entry.status = Verdict(work.spec.thresholds, status.utilization)
    BY DEF EntryFor
  <2> QED BY <2>2, <2>3, VerdictType, StatusOfVerdict
<1>6. entry \in Entry /\ entries \in Seq(Entry)
  BY <1>1, EntryType DEF Reconcile, TypeOK
<1>7. gauge[[scope |-> key.namespace, name |-> key.name]] = status.utilization
  BY Working DEF WorkShown, Publish
<1>8. server[key].exists => server[key].status \in {ZeroStatus, status}
  BY DEF WorkShown, Publish
<1> HIDE DEF entry, key, status
<1>9. PICK k \in DOMAIN entries' :
          /\ entries'[k] = entry
          /\ \A i \in DOMAIN entries' :
                i # k => i \in DOMAIN entries /\ entries'[i] = entries[i]
  BY <1>2, <1>6, UpdateFacts
<1>10. \A i \in DOMAIN entries' : IsEntryOf(entries'[i], key) => i = k
  BY <1>3, <1>4, <1>9 DEF EntriesAreUnique, IsEntryOf
<1>11. ASSUME NEW b \in Budgets, Settled(b)', b = key
       PROVE  Shown(b, server[b].status)'
  <2>1. server[b].status = status
    BY <1>2, <1>8, <1>11 DEF Settled
  <2>2. \A i \in DOMAIN entries' : IsEntryOf(entries'[i], b) => entries'[i] = entry
    BY <1>9, <1>10, <1>11
  <2> QED
    BY <1>2, <1>4, <1>5, <1>7, <1>11, <2>1, <2>2 DEF Shown
<1>12. ASSUME NEW b \in Budgets, Settled(b)', b # key
       PROVE  Shown(b, server[b].status)'
  <2>1. Settled(b)
    BY <1>2, <1>12 DEF Settled, key
  <2>2. b.name # key.name \/ b.namespace # key.namespace
    BY <1>1, <1>12, BudgetsAssumption
  <2>3. ~IsEntryOf(entry, b)
    BY <1>4, <2>2 DEF IsEntryOf
  <2>4. \A i \in DOMAIN entries' : IsEntryOf(entries'[i], b) =>
            i \in DOMAIN entries /\ entries'[i] = entries[i]
    BY <1>9, <2>3
  <2>5. Shown(b, server[b].status)
    BY <2>1 DEF ViewsAgree, Shown
  <2> QED
    BY <1>2, <2>4, <2>5 DEF Shown
<1> QED
  BY <1>11, <1>12 DEF ViewsAgree, Shown

\* No other step makes the views of a settled budget disagree.
LEMMA StepViewsAgree ==
    ASSUME ScopesAreOwn, Coherent, SpecsArePermitted, EntriesAreUnique, CopiesExist,
           WorkShown, ViewsAgree, [Next]_vars
    PROVE  ViewsAgree'
<1> USE DEF Coherent
\* A step that leaves what is shown alone and settles no budget, or one as it was.
<1>1. ASSUME UNCHANGED <<entries, gauge>>,
             \A b \in Budgets : Settled(b)' => Settled(b) /\ server'[b].status = server[b].status
      PROVE  ViewsAgree'
  BY <1>1 DEF ViewsAgree
<1>2. ASSUME NEW b \in Budgets, NEW spec \in SpecsOf[b], UserCreates(b, spec)
      PROVE  ViewsAgree'
  BY <1>1, <1>2 DEF UserCreates, Write, Settled, TypeOK
<1>3. ASSUME NEW b \in Budgets, NEW spec \in SpecsOf[b], UserEdits(b, spec)
      PROVE  ViewsAgree'
  <2>1. server[b] \in Object
    BY <1>3, ObjectExists DEF UserEdits, TypeOK
  <2>2. \A c \in Budgets : server'[c].exists =>
            server[c].exists /\ server'[c].status = server[c].status
    BY <1>3, <2>1 DEF UserEdits, Write, TypeOK, Object
  <2>3. work # Idle => work' # Idle /\ work'.key = work.key
    BY <1>3, IdleOrNot DEF UserEdits, CopiesAge, Reconcile, Idle
  <2>4. UNCHANGED <<entries, gauge, retry>>
    BY <1>3 DEF UserEdits
  <2> QED BY <1>1, <2>2, <2>3, <2>4 DEF Settled
<1>4. ASSUME NEW b \in Budgets, UserDeletes(b)
      PROVE  ViewsAgree'
  <2>1. \A c \in Budgets : server'[c].exists => server'[c] = server[c]
    BY <1>4 DEF UserDeletes, Write, TypeOK, Absent
  <2>2. work # Idle => work' # Idle /\ work'.key = work.key
    BY <1>4, IdleOrNot DEF UserDeletes, CopiesAge, Reconcile, Idle
  <2>3. UNCHANGED <<entries, gauge, retry>>
    BY <1>4 DEF UserDeletes
  <2> QED BY <1>1, <2>1, <2>2, <2>3 DEF Settled
<1>5. CASE Restart
  <2>1. entries' = <<>> /\ gauge' = [l \in Label |-> NoGauge]
    BY <1>5 DEF Restart
  <2>2. \A b \in Budgets : [scope |-> b.namespace, name |-> b.name] \in Label
    BY BudgetsAssumption DEF Label
  <2> QED BY <2>1, <2>2 DEF ViewsAgree
<1>6. ASSUME NEW b \in Budgets, Fetch(b)
      PROVE  ViewsAgree'
  <2>1. UNCHANGED <<server, entries, gauge>> /\ retry' = retry \ {b} /\ work = Idle
    BY <1>6 DEF Fetch
  <2>2. ~Settled(b)'
    <3>1. CASE cache[b].exists
      BY <1>6, <3>1 DEF Fetch, Settled, Idle
    <3>2. CASE ~cache[b].exists
      BY <2>1, <3>2 DEF CopiesExist, Settled
    <3> QED BY <3>1, <3>2
  <2> QED BY <1>1, <2>1, <2>2 DEF Settled
<1>7. CASE Evaluate
  <2> DEFINE label == LabelOf(work.key, work.spec)
  <2>1. /\ work \in Reconcile /\ work # Idle /\ work.key \in Budgets
        /\ label = [scope |-> work.key.namespace, name |-> work.key.name]
    BY <1>7, Working
  <2>2. work' # Idle /\ work'.key = work.key
    BY <1>7, <2>1 DEF Evaluate, Reconcile, Idle
  <2>3. /\ UNCHANGED <<server, entries, retry>>
        /\ \A l \in Label : l # label => gauge'[l] = gauge[l]
    BY <1>7 DEF Evaluate, TypeOK
  <2>4. \A b \in Budgets : b # work.key =>
            /\ [scope |-> b.namespace, name |-> b.name] \in Label
            /\ [scope |-> b.namespace, name |-> b.name] # label
    BY <2>1, BudgetsAssumption DEF Label
  <2> HIDE DEF label
  <2>5. ASSUME NEW b \in Budgets, Settled(b)'
        PROVE  Settled(b) /\ b # work.key
    BY <2>1, <2>2, <2>3, <2>5 DEF Settled
  <2>6. \A b \in Budgets : Settled(b)' =>
            gauge'[[scope |-> b.namespace, name |-> b.name]]
              = gauge[[scope |-> b.namespace, name |-> b.name]]
    BY <2>3, <2>4, <2>5
  <2> QED BY <2>3, <2>5, <2>6 DEF ViewsAgree
<1>8. CASE WriteRule \/ KeepRule
  <2>1. work \in Reconcile /\ work # Idle
    BY <1>8, Working
  <2>2. work' # Idle /\ work'.key = work.key /\ UNCHANGED <<server, entries, gauge, retry>>
    BY <1>8, <2>1 DEF WriteRule, KeepRule, Reconcile, Idle
  <2> QED BY <1>1, <2>1, <2>2 DEF Settled
<1>9. CASE WriteStatus \/ StatusAnswerLost
  <2>1. ApplyStatus /\ UNCHANGED <<entries, gauge>>
    BY <1>9 DEF WriteStatus, StatusAnswerLost, GiveUp
  <2>2. work \in Reconcile /\ work # Idle /\ work.key \in Budgets
    BY <2>1, Working
  <2>3. \/ work' # Idle /\ work'.key = work.key /\ UNCHANGED retry
        \/ retry' = retry \cup {work.key}
    BY <1>9, <2>2 DEF WriteStatus, StatusAnswerLost, GiveUp, Reconcile, Idle
  <2>4. \A b \in Budgets : b # work.key => server'[b] = server[b]
    BY <2>1 DEF ApplyStatus, Write, TypeOK
  <2> QED BY <1>1, <2>1, <2>2, <2>3, <2>4 DEF Settled
<1>10. CASE StatusConflict \/ StatusFails
  BY <1>1, <1>10 DEF StatusConflict, StatusFails, GiveUp, Settled
<1>11. CASE Publish
  BY <1>11, PublishAgrees
<1>12. CASE UNCHANGED <<server, entries, gauge, work, retry>>
  BY <1>1, <1>12 DEF Settled
<1> QED
  BY <1>2, <1>3, <1>4, <1>5, <1>6, <1>7, <1>8, <1>9, <1>10, <1>11, <1>12
     DEF Next, External, Controller, Step, vars, CollectRule, Observe, SetNamespaceCosts

\* When every budget covers its own namespace, its status, its API entry, its gauge and
\* the CLI show one evaluation whenever no Reconcile of it is under way or owed, whatever
\* conflicts, failures and lost answers come between the gauge and the entry.
THEOREM ViewsAlwaysAgree ==
    ASSUME ScopesAreOwn
    PROVE  Spec => []ViewsAgree
<1> DEFINE Inv == /\ Coherent /\ SpecsArePermitted /\ EntriesAreUnique
                  /\ CopiesExist /\ WorkShown /\ ViewsAgree
<1>1. Init => Inv
  <2> SUFFICES ASSUME Init PROVE Inv
    OBVIOUS
  <2>1. Coherent
    BY InitCoherent
  <2>2. Absent.exists = FALSE
    BY DEF Absent
  <2>3. SpecsArePermitted /\ CopiesExist /\ ViewsAgree
    BY <2>2 DEF Init, SpecsArePermitted, CopiesExist, ViewsAgree, Settled
  <2>4. EntriesAreUnique /\ WorkShown
    BY DEF Init, EntriesAreUnique, WorkShown, Idle
  <2> QED BY <2>1, <2>3, <2>4
<1>2. Inv /\ [Next]_vars => Inv'
  BY StepCoherent, StepPermitted, StepUnique, StepCopiesExist, StepWorkShown, StepViewsAgree
<1>3. Inv => ViewsAgree
  OBVIOUS
<1> QED
  BY <1>1, <1>2, <1>3, PTL DEF Spec
=============================================================================
