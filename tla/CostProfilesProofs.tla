------------------------- MODULE CostProfilesProofs -------------------------
(***************************************************************************)
(* What TLAPS proves of the CostProfile controller: of CostProfiles, for   *)
(* every set of profiles, specs and readings, and of ApiReads, the reads   *)
(* of what it publishes, for every number of Reconciles.                   *)
(*                                                                         *)
(* The argument for the first: a copy of a profile that is still marked    *)
(* latest agrees with the server, and a Reconcile whose copy has aged owes *)
(* another one; so what a Reconcile leaves behind without owing another is *)
(* of one reading and of the spec the server holds, except for a sample    *)
(* that was not stored.                                                    *)
(***************************************************************************)
EXTENDS CostProfiles, ApiState, FiniteSums, SequenceTheorems, TLAPS

-----------------------------------------------------------------------------
(* What the operators return *)

\* Products of naturals are naturals; a step of its own for the provers.
LEMMA ProductType == \A a, b \in Nat : a * b \in Nat
OBVIOUS

\* The readings of a profile's GPUs add up to watts.
LEMMA GPUPowerType ==
    ASSUME dcgm \in GPUReading, NEW spec
    PROVE  GPUPower(spec) \in Nat
<1> DEFINE S == {n \in Nodes : spec.node \in {n, AnyNode}}
<1>1. IsFiniteSet(S)
  BY NodesAssumption, FS_Subset
<1>2. \A n \in S : dcgm.watts[n] \in Nat
  BY DEF GPUReading
<1>3. SumOf(dcgm.watts, S) \in Nat
  <2> HIDE DEF S
  <2> QED BY <1>1, <1>2, SumNat
<1> QED BY <1>3 DEF GPUPower, SumOf

\* A profile of spec draws watts, measured or not, and has a threshold in watts.
LEMMA PowerType ==
    ASSUME TypeOK, NEW spec \in ProfileSpec
    PROVE  PowerOf(spec) \in Nat /\ Threshold(spec) \in Nat
<1>1. spec.tdp \in Nat /\ spec.gpus \in Nat /\ spec.idle \in Nat \cup {Undeclared}
  BY DEF ProfileSpec
<1>2. spec.tdp * spec.gpus \in Nat
  BY <1>1, ProductType
<1>3. PowerOf(spec) \in Nat
  <2>1. metal.watts \in Nat /\ GPUPower(spec) \in Nat
    BY GPUPowerType DEF TypeOK, SoCReading
  <2> QED BY <1>2, <2>1 DEF PowerOf, TDP, Measured
<1>4. Threshold(spec) \in Nat
  <2>1. \A n \in Nat : n \div 5 \in Nat
    OBVIOUS
  <2>2. (spec.tdp * spec.gpus) \div 5 \in Nat
    BY <1>2, <2>1
  <2>3. 30 * spec.gpus \in Nat
    BY <1>1
  <2> QED BY <1>1, <2>2, <2>3 DEF Threshold, Undeclared
<1> QED BY <1>3, <1>4

\* The conditions after a reading are conditions.
LEMMA ConditionType ==
    ASSUME NEW source, NEW spec
    PROVE  ConditionOf(source, spec) \in Condition
BY DEF ConditionOf, Condition

\* The source in use is one of the two.
LEMMA SourceType == \A spec : SourceOf(spec) \in Sources
BY DEF SourceOf, Sources

\* The status a Reconcile writes is a status.
LEMMA ComputedType ==
    ASSUME TypeOK, NEW w \in Reconcile
    PROVE  Computed(w) \in Status
<1>1. /\ w.spec.amortization \in Nat /\ w.spec.rate \in Nat /\ w.power \in Nat
      /\ w.status.conditions \in [Sources -> Condition] /\ clock \in Nat
  BY DEF TypeOK, Reconcile, ProfileSpec, Status
<1>2. w.spec.rate * w.power \in Nat
  BY <1>1, ProductType
<1>3. HourlyCost(w.spec, w.power) \in Nat
  BY <1>1, <1>2 DEF HourlyCost
<1> QED BY <1>1, <1>3 DEF Computed, Status

\* The queue adds an item at a time.
LEMMA RequeueType ==
    ASSUME TypeOK, NEW t \in Nat \cup {Never}
    PROVE  RequeueAfter(t) \in Nat
<1> DEFINE u == clock + ReconcileInterval
<1>1. u \in Nat
  BY TimesAssumption DEF TypeOK
<1>2. CASE t = Never
  BY <1>1, <1>2 DEF RequeueAfter
<1>3. CASE t # Never
  <2>1. t \in Nat
    BY <1>3
  <2>2. \E x \in {t, u} : \A y \in {t, u} : x <= y
    BY <1>1, <2>1
  <2>3. Min({t, u}) \in {t, u}
    BY <2>2 DEF Min
  <2> QED BY <1>1, <1>3, <2>1, <2>3 DEF RequeueAfter
<1> QED BY <1>2, <1>3

\* The field "exists" tells a profile from its absence.
LEMMA ObjectExists ==
    ASSUME NEW o \in Object \cup {Absent}
    PROVE  o.exists <=> o \in Object
<1>1. ASSUME o \in Object
      PROVE  o.exists
  <2>1. o.exists = TRUE
    BY <1>1 DEF Object
  <2> QED BY <2>1
<1>2. ASSUME o = Absent
      PROVE  ~o.exists
  <2>1. o.exists = FALSE
    BY <1>2 DEF Absent
  <2> QED BY <2>1
<1> QED
  BY <1>1, <1>2

\* The stage tells a Reconcile in progress from none.
LEMMA IdleOrNot ==
    ASSUME TypeOK
    PROVE  /\ work # Idle <=> work \in Reconcile
           /\ work \in Reconcile <=> work.stage # "idle"
BY DEF TypeOK, Idle, Reconcile

\* A Reconcile with a step to take is there.
LEMMA Working ==
    ASSUME TypeOK, work.stage \in {"power", "record", "status", "publish"}
    PROVE  /\ work # Idle /\ work \in Reconcile
           /\ work.key \in Profiles /\ work.spec \in ProfileSpec /\ work.status \in Status
           /\ work.power \in Nat
BY IdleOrNot DEF Reconcile

-----------------------------------------------------------------------------
(* Types *)

\* The initial state has its types.
LEMMA InitTyped ==
    ASSUME Init
    PROVE  TypeOK
<1>1. endpoints \subseteq Sources
  BY FlagsAssumption DEF Init, Sources
<1>2. dcgm \in GPUReading /\ metal \in SoCReading
  BY ReadingsAssumption DEF Init
<1> QED BY <1>1, <1>2 DEF Init, TypeOK, Age, Never

\* What users and the API server do keeps the types.
LEMMA UsersTyped ==
    ASSUME TypeOK, NEW p \in Profiles,
           \/ \E spec \in SpecsOf[p] : UserCreates(p, spec) \/ UserEdits(p, spec)
           \/ UserDeletes(p)
    PROVE  TypeOK'
<1>1. ASSUME NEW spec \in SpecsOf[p], UserCreates(p, spec)
      PROVE  TypeOK'
  <2>1. ZeroStatus \in Status
    BY DEF ZeroStatus, Status, Condition
  <2>2. [exists |-> TRUE, spec |-> spec, status |-> ZeroStatus] \in Object
    BY <2>1, SpecsAssumption DEF Object
  <2> QED BY <1>1, <2>2 DEF TypeOK, UserCreates, Write, Older, Age
<1>2. ASSUME NEW spec \in SpecsOf[p], UserEdits(p, spec)
      PROVE  TypeOK'
  <2>1. server[p] \in Object /\ spec \in ProfileSpec
    BY <1>2, ObjectExists, SpecsAssumption DEF UserEdits, TypeOK
  <2>2. [server[p] EXCEPT !.spec = spec] \in Object
    BY <2>1 DEF Object
  <2>3. age' \in [Profiles -> Age] /\ work' \in Reconcile \cup {Idle}
    BY <1>2 DEF UserEdits, TypeOK, CopiesAge, Older, Age, Reconcile, Idle
  <2> QED BY <1>2, <2>2, <2>3 DEF TypeOK, UserEdits, Write
<1>3. CASE UserDeletes(p)
  <2>1. age' \in [Profiles -> Age] /\ work' \in Reconcile \cup {Idle}
    BY <1>3 DEF UserDeletes, TypeOK, CopiesAge, Age, Reconcile, Idle
  <2> QED BY <1>3, <2>1 DEF TypeOK, UserDeletes, Write
<1> QED BY <1>1, <1>2, <1>3

\* Time, exporters, watches, timers and restarts keep the types.
LEMMA SurroundingsTyped ==
    ASSUME TypeOK,
           \/ Tick
           \/ \E r \in Readings : PowerChanges(r)
           \/ \E p \in Profiles : Observe(p) \/ TimerFires(p)
           \/ \E flags \in Flags : Restart(flags)
    PROVE  TypeOK'
<1>1. CASE Tick
  BY <1>1 DEF TypeOK, Tick
<1>2. ASSUME NEW r \in Readings, PowerChanges(r)
      PROVE  TypeOK'
  <2>1. r.dcgm \in GPUReading /\ r.metal \in SoCReading
    BY ReadingsAssumption
  <2> QED BY <1>2, <2>1 DEF TypeOK, PowerChanges
<1>3. ASSUME NEW p \in Profiles, Observe(p)
      PROVE  TypeOK'
  BY <1>3 DEF TypeOK, Observe, Age
<1>4. ASSUME NEW p \in Profiles, TimerFires(p)
      PROVE  TypeOK'
  BY <1>4 DEF TypeOK, TimerFires
<1>5. ASSUME NEW flags \in Flags, Restart(flags)
      PROVE  TypeOK'
  <2>1. flags \subseteq Sources
    BY FlagsAssumption DEF Sources
  <2> QED BY <1>5, <2>1 DEF TypeOK, Restart, Age
<1> QED BY <1>1, <1>2, <1>3, <1>4, <1>5

\* A Reconcile begins with what the cache holds.
LEMMA FetchTyped ==
    ASSUME TypeOK, NEW p \in Profiles, Fetch(p)
    PROVE  TypeOK'
<1>1. work' \in Reconcile \cup {Idle}
  <2>1. CASE cache[p].exists
    <3>1. cache[p] \in Object /\ age[p] \in Age
      BY <2>1, ObjectExists DEF TypeOK
    <3>2. cache[p].spec \in ProfileSpec /\ cache[p].status \in Status
      BY <3>1 DEF Object
    <3> QED BY <2>1, <3>1, <3>2 DEF Fetch, Reconcile
  <2>2. CASE ~cache[p].exists
    BY <2>2 DEF Fetch
  <2> QED BY <2>1, <2>2
<1> QED BY <1>1 DEF TypeOK, Fetch

\* The status update stores a status.
LEMMA ApplyStatusTyped ==
    ASSUME TypeOK, ApplyStatus
    PROVE  /\ work \in Reconcile /\ work.key \in Profiles
           /\ server' \in [Profiles -> Object \cup {Absent}]
           /\ age' \in [Profiles -> Age]
<1>1. work \in Reconcile /\ work.key \in Profiles /\ Computed(work) \in Status
  BY Working, ComputedType DEF ApplyStatus
<1> DEFINE o == server[work.key]
           new == [o EXCEPT !.status = Computed(work)]
<1>2. new \in Object \cup {Absent}
  <2>1. o \in Object \cup {Absent}
    BY <1>1 DEF TypeOK
  <2>2. CASE o \in Object
    BY <1>1, <2>2 DEF Object
  <2>3. CASE o = Absent
    BY <2>3 DEF Absent
  <2> QED BY <2>1, <2>2, <2>3
<1>3. server' = [server EXCEPT ![work.key] = new]
  BY DEF ApplyStatus, Write
<1>4. age' \in [Profiles -> Age]
  BY <1>1 DEF ApplyStatus, TypeOK, Age, Older
<1> HIDE DEF new
<1> QED BY <1>1, <1>2, <1>3, <1>4 DEF TypeOK

\* The steps of a Reconcile keep the types.
LEMMA StepTyped ==
    ASSUME TypeOK, Step
    PROVE  TypeOK'
<1>0. CASE RecordFails
  <2>1. work \in Reconcile /\ work.key \in Profiles
    BY <1>0, Working DEF RecordFails
  <2>2. work' \in Reconcile
    BY <1>0, <2>1 DEF RecordFails, Reconcile
  <2> QED BY <1>0, <2>1, <2>2 DEF TypeOK, RecordFails
<1>1. CASE ReadPower
  <2>1. work \in Reconcile /\ work.spec \in ProfileSpec
    BY <1>1, Working DEF ReadPower
  <2>2. PowerOf(work.spec) \in Nat
    BY <2>1, PowerType
  <2>3. /\ SourceOf(work.spec) \in Sources
        /\ ConditionOf(SourceOf(work.spec), work.spec) \in Condition
    BY SourceType, ConditionType
  <2>4. work' \in Reconcile
    BY <1>1, <2>1, <2>2, <2>3 DEF ReadPower, Reconcile, Status
  <2> QED BY <1>1, <2>4 DEF TypeOK, ReadPower
<1>2. CASE Record
  <2>1. work \in Reconcile /\ work.key \in Profiles /\ work.power \in Nat
    BY <1>2, Working DEF Record
  <2>2. Threshold(work.spec) \in Nat
    BY <1>2, Working, PowerType DEF Record
  <2>3. work' \in Reconcile
    BY <1>2, <2>1 DEF Record, Reconcile
  <2> QED BY <1>2, <2>1, <2>2, <2>3 DEF TypeOK, Record, Sample
<1>3. CASE WriteStatus
  <2>1. work \in Reconcile /\ Computed(work) \in Status
    BY <1>3, ApplyStatusTyped, ComputedType DEF WriteStatus
  <2>2. work' \in Reconcile
    BY <1>3, <2>1 DEF WriteStatus, Reconcile
  <2> QED BY <1>3, <2>2, ApplyStatusTyped DEF TypeOK, WriteStatus
<1>4. CASE StatusFails
  <2>1. work.key \in Profiles
    BY <1>4, Working DEF StatusFails
  <2> QED BY <1>4, <2>1 DEF TypeOK, StatusFails, Retry
<1>5. CASE StatusAnswerLost
  <2>1. work.key \in Profiles
    BY <1>5, ApplyStatusTyped DEF StatusAnswerLost
  <2> QED BY <1>5, <2>1, ApplyStatusTyped DEF TypeOK, StatusAnswerLost, Retry
<1>6. CASE Publish
  <2>1. work.key \in Profiles /\ work.power \in Nat /\ work.status.hourly \in Nat
    BY <1>6, Working DEF Publish, Status
  <2>2. RequeueAfter(timer[work.key]) \in Nat
    BY <2>1, RequeueType DEF TypeOK
  <2> QED BY <1>6, <2>1, <2>2 DEF TypeOK, Publish, Cost
<1> QED BY <1>0, <1>1, <1>2, <1>3, <1>4, <1>5, <1>6 DEF Step

\* Every step keeps the types.
LEMMA NextTyped ==
    ASSUME TypeOK, [Next]_vars
    PROVE  TypeOK'
<1>1. CASE UNCHANGED vars
  BY <1>1 DEF TypeOK, vars
<1> QED BY <1>1, UsersTyped, SurroundingsTyped, FetchTyped, StepTyped DEF Next

-----------------------------------------------------------------------------
(* Copies *)

\* The informer's copy of a profile, unless it has aged, is what the server holds.
CopiesAgree ==
    \A p \in Profiles : age[p] = "latest" => cache[p] = server[p]

\* So is the copy a Reconcile holds, and so is the status it has written.
WorkAgrees ==
    work # Idle /\ work.age = "latest" =>
        /\ server[work.key].exists
        /\ server[work.key].spec = work.spec
        /\ work.stage = "publish" => server[work.key].status = work.status

\* A Reconcile whose copy has aged is owed another one: the event that aged the copy
\* is on its way to the queue, or in it.
StaleIsOwed ==
    work # Idle /\ work.age # "latest" =>
        age[work.key] # "latest" \/ work.key \in queue

Coherent == TypeOK /\ CopiesAgree /\ WorkAgrees /\ StaleIsOwed

\* The initial state is coherent: there is nothing to copy.
LEMMA InitCoherent ==
    ASSUME Init
    PROVE  Coherent
BY InitTyped DEF Init, Coherent, CopiesAgree, WorkAgrees, StaleIsOwed

\* Users age every copy of what they change, and no other.
LEMMA UsersCoherent ==
    ASSUME Coherent, TypeOK', NEW p \in Profiles,
           \/ \E spec \in SpecsOf[p] : UserCreates(p, spec) \/ UserEdits(p, spec)
           \/ UserDeletes(p)
    PROVE  Coherent'
<1> USE DEF Coherent
<1>1. ASSUME NEW spec \in SpecsOf[p], UserCreates(p, spec)
      PROVE  CopiesAgree' /\ WorkAgrees' /\ StaleIsOwed'
  <2>1. CopiesAgree'
    BY <1>1 DEF CopiesAgree, TypeOK, UserCreates, Write, Older
  <2>2. WorkAgrees'
    <3>1. work # Idle /\ work.age = "latest" => work.key # p
      BY <1>1 DEF WorkAgrees, UserCreates
    <3> QED BY <1>1, <3>1 DEF WorkAgrees, TypeOK, UserCreates, Write
  <2>3. StaleIsOwed'
    <3>1. \A q \in Profiles : age[q] # "latest" => age'[q] # "latest"
      BY <1>1 DEF TypeOK, UserCreates, Older
    <3>2. work # Idle => work.key \in Profiles
      BY IdleOrNot DEF Reconcile
    <3> QED BY <1>1, <3>1, <3>2 DEF StaleIsOwed, UserCreates
  <2> QED BY <2>1, <2>2, <2>3
<1>2. ASSUME NEW spec \in SpecsOf[p], UserEdits(p, spec)
      PROVE  CopiesAgree' /\ WorkAgrees' /\ StaleIsOwed'
  <2>1. CopiesAgree'
    BY <1>2 DEF CopiesAgree, TypeOK, UserEdits, Write, CopiesAge, Older
  <2>2. WorkAgrees'
    BY <1>2, IdleOrNot
       DEF WorkAgrees, TypeOK, UserEdits, Write, CopiesAge, Older, Reconcile, Idle
  <2>3. StaleIsOwed'
    BY <1>2, IdleOrNot
       DEF StaleIsOwed, TypeOK, UserEdits, Write, CopiesAge, Older, Reconcile, Idle
  <2> QED BY <2>1, <2>2, <2>3
<1>3. ASSUME UserDeletes(p)
      PROVE  CopiesAgree' /\ WorkAgrees' /\ StaleIsOwed'
  <2>1. CopiesAgree'
    BY <1>3 DEF CopiesAgree, TypeOK, UserDeletes, Write, CopiesAge
  <2>2. WorkAgrees'
    BY <1>3, IdleOrNot DEF WorkAgrees, TypeOK, UserDeletes, Write, CopiesAge, Reconcile, Idle
  <2>3. StaleIsOwed'
    BY <1>3, IdleOrNot DEF StaleIsOwed, TypeOK, UserDeletes, Write, CopiesAge, Reconcile, Idle
  <2> QED BY <2>1, <2>2, <2>3
<1> QED BY <1>1, <1>2, <1>3

\* An observed copy is new, and its event is in the queue; a restart lists anew.
LEMMA SurroundingsCoherent ==
    ASSUME Coherent, TypeOK',
           \/ Tick
           \/ \E r \in Readings : PowerChanges(r)
           \/ \E p \in Profiles : Observe(p) \/ TimerFires(p)
           \/ \E flags \in Flags : Restart(flags)
    PROVE  Coherent'
<1> USE DEF Coherent, CopiesAgree, WorkAgrees, StaleIsOwed
<1>1. CASE Tick \/ \E r \in Readings : PowerChanges(r)
  BY <1>1 DEF Tick, PowerChanges
<1>2. ASSUME NEW p \in Profiles, Observe(p)
      PROVE  Coherent'
  BY <1>2, IdleOrNot DEF TypeOK, Observe, Reconcile
<1>3. ASSUME NEW p \in Profiles, TimerFires(p)
      PROVE  Coherent'
  BY <1>3 DEF TimerFires
<1>4. ASSUME NEW flags \in Flags, Restart(flags)
      PROVE  Coherent'
  BY <1>4 DEF Restart
<1> QED BY <1>1, <1>2, <1>3, <1>4

\* A Reconcile begins with the informer's copy, and its age.
LEMMA FetchCoherent ==
    ASSUME Coherent, TypeOK', NEW p \in Profiles, Fetch(p)
    PROVE  Coherent'
BY DEF Coherent, CopiesAgree, WorkAgrees, StaleIsOwed, TypeOK, Fetch, Idle

\* The one update the server accepts is of the spec it holds, and ages the informer's
\* copy if it changes anything.
LEMMA ApplyStatusFacts ==
    ASSUME Coherent, ApplyStatus
    PROVE  /\ work # Idle /\ work.key \in Profiles
           /\ server'[work.key].exists
           /\ server'[work.key].spec = work.spec
           /\ server'[work.key].status = Computed(work)
           /\ \A p \in Profiles \ {work.key} : server'[p] = server[p] /\ age'[p] = age[p]
           /\ \A p \in Profiles :
                 age'[p] = "latest" => age[p] = "latest" /\ server'[p] = server[p]
<1> USE DEF Coherent
<1>1. work # Idle /\ work \in Reconcile /\ work.key \in Profiles
  BY Working DEF ApplyStatus
<1> DEFINE o == server[work.key]
           c == Computed(work)
<1>2. o \in Object /\ o.exists /\ o.spec = work.spec
  <2>1. o.exists /\ o.spec = work.spec
    BY <1>1 DEF WorkAgrees, ApplyStatus
  <2> QED BY <1>1, <2>1, ObjectExists DEF TypeOK
<1>3. server' = [server EXCEPT ![work.key] = [o EXCEPT !.status = c]]
  BY DEF ApplyStatus, Write
<1> HIDE DEF c
<1>4. /\ server'[work.key] = [o EXCEPT !.status = c]
      /\ \A p \in Profiles \ {work.key} : server'[p] = server[p]
  BY <1>1, <1>3 DEF TypeOK
<1>5. /\ server'[work.key].exists
      /\ server'[work.key].spec = work.spec
      /\ server'[work.key].status = c
  BY <1>2, <1>4 DEF Object
<1>6. \A p \in Profiles \ {work.key} : age'[p] = age[p]
  BY <1>1 DEF ApplyStatus, TypeOK
<1>7. ASSUME NEW p \in Profiles, age'[p] = "latest"
      PROVE  age[p] = "latest" /\ server'[p] = server[p]
  <2>1. CASE p = work.key
    <3>1. server' = server
      BY <1>1, <1>7, <2>1 DEF ApplyStatus, TypeOK, Older
    <3>2. age' = age
      BY <3>1 DEF ApplyStatus
    <3> QED BY <1>7, <3>1, <3>2
  <2>2. CASE p # work.key
    BY <1>4, <1>6, <1>7, <2>2
  <2> QED BY <2>1, <2>2
<1> QED BY <1>1, <1>4, <1>5, <1>6, <1>7 DEF c

\* The steps of a Reconcile keep coherence.
LEMMA StepCoherent ==
    ASSUME Coherent, TypeOK', Step
    PROVE  Coherent'
<1> USE DEF Coherent
<1>0. CASE RecordFails
  <2>1. work # Idle /\ work \in Reconcile
    BY <1>0, Working DEF RecordFails
  <2>2. /\ work' # Idle /\ work'.age = work.age /\ work'.key = work.key
        /\ work'.spec = work.spec /\ work'.stage = "status"
    BY <1>0, <2>1 DEF RecordFails, Reconcile, Idle
  <2> QED
    BY <1>0, <2>1, <2>2 DEF RecordFails, CopiesAgree, WorkAgrees, StaleIsOwed
<1>1. CASE ReadPower
  <2>1. work # Idle /\ work \in Reconcile
    BY <1>1, Working DEF ReadPower
  <2>2. /\ work' # Idle /\ work'.age = work.age /\ work'.key = work.key
        /\ work'.spec = work.spec /\ work'.stage = "record"
    BY <1>1, <2>1 DEF ReadPower, Reconcile, Idle
  <2> QED
    BY <1>1, <2>1, <2>2 DEF ReadPower, CopiesAgree, WorkAgrees, StaleIsOwed
<1>2. CASE Record
  <2>1. work # Idle /\ work \in Reconcile
    BY <1>2, Working DEF Record
  <2>2. /\ work' # Idle /\ work'.age = work.age /\ work'.key = work.key
        /\ work'.spec = work.spec /\ work'.stage = "status"
    BY <1>2, <2>1 DEF Record, Reconcile, Idle
  <2> QED
    BY <1>2, <2>1, <2>2 DEF Record, CopiesAgree, WorkAgrees, StaleIsOwed
<1>3. CASE WriteStatus
  <2>1. work # Idle /\ work \in Reconcile /\ work.age = "latest"
    BY <1>3, Working DEF WriteStatus, ApplyStatus
  <2>2. /\ work'.age = "latest" /\ work'.key = work.key
        /\ work'.spec = work.spec /\ work'.status = Computed(work)
    <3> DEFINE c == Computed(work)
    <3>1. work' = [work EXCEPT !.stage = "publish", !.status = c]
      BY <1>3 DEF WriteStatus
    <3> HIDE DEF c
    <3>2. /\ work'.age = "latest" /\ work'.key = work.key
          /\ work'.spec = work.spec /\ work'.status = c
      BY <2>1, <3>1 DEF Reconcile
    <3> QED BY <3>2 DEF c
  <2>3. CopiesAgree'
    BY <1>3, ApplyStatusFacts DEF WriteStatus, CopiesAgree
  <2>4. WorkAgrees' /\ StaleIsOwed'
    BY <1>3, <2>2, ApplyStatusFacts DEF WriteStatus, WorkAgrees, StaleIsOwed
  <2> QED BY <2>3, <2>4
<1>4. CASE StatusFails
  BY <1>4 DEF StatusFails, Retry, CopiesAgree, WorkAgrees, StaleIsOwed
<1>5. CASE StatusAnswerLost
  <2>1. CopiesAgree'
    BY <1>5, ApplyStatusFacts DEF StatusAnswerLost, Retry, CopiesAgree
  <2> QED BY <1>5, <2>1 DEF StatusAnswerLost, Retry, WorkAgrees, StaleIsOwed
<1>6. CASE Publish
  BY <1>6 DEF Publish, CopiesAgree, WorkAgrees, StaleIsOwed
<1> QED BY <1>0, <1>1, <1>2, <1>3, <1>4, <1>5, <1>6 DEF Step

\* Every step keeps coherence.
LEMMA NextCoherent ==
    ASSUME Coherent, [Next]_vars
    PROVE  Coherent'
<1>1. TypeOK'
  BY NextTyped DEF Coherent
<1>2. CASE UNCHANGED vars
  BY <1>1, <1>2 DEF Coherent, CopiesAgree, WorkAgrees, StaleIsOwed, vars
<1> QED
  BY <1>1, <1>2, UsersCoherent, SurroundingsCoherent, FetchCoherent, StepCoherent DEF Next

\* Copies agree, and what has aged is owed, in every reachable state.
LEMMA AlwaysCoherent == Spec => []Coherent
<1>1. Init => Coherent
  BY InitCoherent
<1>2. Coherent /\ [Next]_vars => Coherent'
  BY NextCoherent
<1> QED BY <1>1, <1>2, PTL DEF Spec

\* Profiles, copies, queue, timers, samples and costs keep their types (TypeOK).
THEOREM TypeCorrect == Spec => []TypeOK
<1>1. Coherent => TypeOK
  BY DEF Coherent
<1> QED BY <1>1, AlwaysCoherent, PTL

-----------------------------------------------------------------------------
(* Costs follow the spec *)

\* Only the status update of a Reconcile changes the status of a profile that is
\* there before and after, and it costs the power by the spec the server holds.
LEMMA StepFollowsSpec ==
    ASSUME Coherent, [Next]_vars, NEW p \in Profiles,
           server[p].exists, server'[p].exists, server'[p].status # server[p].status
    PROVE  LET o == server'[p] IN o.status.hourly = HourlyCost(o.spec, o.status.power)
<1> USE DEF Coherent
<1>1. CASE ApplyStatus
  <2>1. p = work.key
    BY <1>1, ApplyStatusFacts
  <2>2. server'[p].spec = work.spec /\ server'[p].status = Computed(work)
    BY <1>1, <2>1, ApplyStatusFacts
  <2> QED BY <2>2 DEF Computed
<1>2. ASSUME NEW q \in Profiles, NEW spec \in SpecsOf[q], UserCreates(q, spec)
      PROVE  FALSE
  BY <1>2 DEF UserCreates, Write, TypeOK
<1>3. ASSUME NEW q \in Profiles, NEW spec \in SpecsOf[q], UserEdits(q, spec)
      PROVE  FALSE
  <2>1. server[q] \in Object
    BY <1>3, ObjectExists DEF UserEdits, TypeOK
  <2>2. server'[q].status = server[q].status
    BY <1>3, <2>1 DEF UserEdits, Write, TypeOK, Object
  <2> QED BY <1>3, <2>2 DEF UserEdits, Write, TypeOK
<1>4. ASSUME NEW q \in Profiles, UserDeletes(q)
      PROVE  FALSE
  BY <1>4 DEF UserDeletes, Write, TypeOK, Absent
<1>5. CASE UNCHANGED server
  BY <1>5
<1> QED
  BY <1>1, <1>2, <1>3, <1>4, <1>5
     DEF Next, Tick, PowerChanges, Observe, TimerFires, Restart, Fetch, Step, ReadPower,
         Record, RecordFails, WriteStatus, StatusFails, StatusAnswerLost, Publish, vars

\* No hourly cost is accepted that was computed from a spec a user has replaced
\* (CostFollowsSpec).
THEOREM CostAlwaysFollowsSpec == Spec => CostFollowsSpec
<1>1. Coherent /\ [Next]_vars =>
        [\A p \in Profiles :
           server[p].exists /\ server'[p].exists /\ server'[p].status # server[p].status
           => LET o == server'[p]
              IN  o.status.hourly = HourlyCost(o.spec, o.status.power)]_vars
  BY StepFollowsSpec
<1> QED BY <1>1, AlwaysCoherent, PTL DEF Spec, CostFollowsSpec

-----------------------------------------------------------------------------
(* The views agree *)

\* What a Reconcile has stored and computed is of the power it read.
WorkHolds ==
    /\ work.stage \in {"status", "publish"} /\ work.key \notin missed =>
          /\ sample[work.key] # NoSample
          /\ sample[work.key].power = work.power
          /\ sample[work.key].active = Threshold(work.spec)
    /\ work.stage = "publish" =>
          /\ work.status.power = work.power
          /\ work.status.hourly = HourlyCost(work.spec, work.power)

\* Every step keeps what the Reconcile in progress holds.
LEMMA NextHolds ==
    ASSUME Coherent, WorkHolds, [Next]_vars
    PROVE  WorkHolds'
<1> USE DEF Coherent
<1>1. CASE UNCHANGED <<work, sample, missed>>
  BY <1>1 DEF WorkHolds
<1>2. ASSUME NEW p \in Profiles,
             \/ \E spec \in SpecsOf[p] : UserEdits(p, spec)
             \/ UserDeletes(p)
      PROVE  WorkHolds'
  <2>1. /\ work'.stage = work.stage /\ sample' = sample /\ missed' = missed
        /\ work.stage \in {"status", "publish"} =>
              /\ work'.key = work.key /\ work'.spec = work.spec
              /\ work'.power = work.power /\ work'.status = work.status
    BY <1>2, IdleOrNot DEF UserEdits, UserDeletes, CopiesAge, Reconcile, Idle
  <2> QED BY <2>1 DEF WorkHolds
<1>3. CASE work'.stage \in {"idle", "power", "record"}
  BY <1>3 DEF WorkHolds
<1>4. ASSUME NEW p \in Profiles, Fetch(p)
      PROVE  WorkHolds'
  BY <1>4, <1>3 DEF Fetch, Idle
<1>5. CASE ReadPower
  <2>1. work'.stage = "record"
    BY <1>5, Working DEF ReadPower, Reconcile
  <2> QED BY <2>1, <1>3
<1>6. CASE Record
  <2> DEFINE th == Threshold(work.spec)
  <2>1. work \in Reconcile /\ work.key \in Profiles
    BY <1>6, Working DEF Record
  <2>2. /\ work'.stage = "status" /\ work'.key = work.key
        /\ work'.spec = work.spec /\ work'.power = work.power
    BY <1>6, <2>1 DEF Record, Reconcile
  <2>3. sample'[work.key] = [power |-> work.power, active |-> th]
    BY <1>6, <2>1 DEF Record, TypeOK
  <2>4. sample'[work.key] # NoSample
    BY <2>1, <2>3 DEF Reconcile, NoSample, Never
  <2> QED BY <2>2, <2>3, <2>4 DEF WorkHolds
<1>10. CASE RecordFails
  <2>1. work \in Reconcile
    BY <1>10, Working DEF RecordFails
  <2>2. work'.stage = "status" /\ work'.key = work.key /\ work.key \in missed'
    BY <1>10, <2>1 DEF RecordFails, Reconcile
  <2> QED BY <2>2 DEF WorkHolds
<1>7. CASE WriteStatus
  <2> DEFINE c == Computed(work)
  <2>1. work \in Reconcile /\ work.stage = "status"
    BY <1>7, Working DEF WriteStatus, ApplyStatus
  <2>2. work' = [work EXCEPT !.stage = "publish", !.status = c] /\ sample' = sample
        /\ missed' = missed
    BY <1>7 DEF WriteStatus
  <2>3. c.power = work.power /\ c.hourly = HourlyCost(work.spec, work.power)
    BY DEF Computed
  <2> HIDE DEF c
  <2>4. /\ work'.key = work.key /\ work'.spec = work.spec /\ work'.power = work.power
        /\ work'.status = c /\ work'.stage = "publish"
    BY <2>1, <2>2 DEF Reconcile
  <2> QED BY <2>1, <2>2, <2>3, <2>4 DEF WorkHolds
<1>8. CASE StatusFails \/ StatusAnswerLost \/ Publish
  BY <1>8, <1>3 DEF StatusFails, StatusAnswerLost, Publish, Retry, Idle
<1>9. CASE \E flags \in Flags : Restart(flags)
  BY <1>9, <1>3 DEF Restart, Idle
<1> QED
  BY <1>1, <1>2, <1>4, <1>5, <1>6, <1>7, <1>8, <1>9, <1>10
     DEF Next, Tick, PowerChanges, UserCreates, Observe, TimerFires, Step, vars

\* What ViewsAgree says of one profile.
AgreesOn(p) ==
    LET o == server[p]
    IN  /\ o.status.hourly = HourlyCost(o.spec, o.status.power)
        /\ cost # NoCost /\ cost.profile = p => /\ cost.power = o.status.power
                                                /\ cost.hourly = o.status.hourly
        /\ p \in missed \/ /\ sample[p] # NoSample
                           /\ sample[p].power = o.status.power
                           /\ sample[p].active = Threshold(o.spec)

\* A settled profile that a step does not concern keeps agreeing.
LEMMA QuietAgrees ==
    ASSUME ViewsAgree, NEW p \in Profiles, Settled(p),
           server'[p] = server[p], sample'[p] = sample[p], p \in missed' <=> p \in missed,
           cost' = cost \/ cost' = NoCost \/ cost'.profile # p
    PROVE  AgreesOn(p)'
BY DEF ViewsAgree, AgreesOn

\* Users and watches leave agreement, or owe a Reconcile.
LEMMA SurroundingsAgree ==
    ASSUME Coherent, ViewsAgree, NEW p \in Profiles, Settled(p)',
           \/ Tick
           \/ \E r \in Readings : PowerChanges(r)
           \/ \E q \in Profiles :
                 \/ \E spec \in SpecsOf[q] : UserCreates(q, spec) \/ UserEdits(q, spec)
                 \/ UserDeletes(q)
                 \/ Observe(q)
                 \/ TimerFires(q)
           \/ \E flags \in Flags : Restart(flags)
    PROVE  AgreesOn(p)'
<1> USE DEF Coherent
<1>1. CASE Tick \/ \E r \in Readings : PowerChanges(r)
  BY <1>1, QuietAgrees DEF Tick, PowerChanges, Settled, Owed
<1>2. ASSUME NEW q \in Profiles, NEW spec \in SpecsOf[q], UserCreates(q, spec)
      PROVE  AgreesOn(p)'
  <2>1. p # q
    BY <1>2 DEF UserCreates, Write, TypeOK, Settled
  <2> QED BY <1>2, <2>1, QuietAgrees DEF UserCreates, Write, TypeOK, Settled, Owed
<1>3. ASSUME NEW q \in Profiles, NEW spec \in SpecsOf[q], UserEdits(q, spec)
      PROVE  AgreesOn(p)'
  <2>1. p # q
    BY <1>3 DEF UserEdits, CopiesAge, Older, TypeOK, Settled, Owed
  <2>2. server'[p] = server[p] /\ age'[p] = age[p]
    BY <1>3, <2>1 DEF UserEdits, Write, CopiesAge, TypeOK
  <2>3. work # Idle /\ work.key = p => work' # Idle /\ work'.key = p
    BY <1>3, IdleOrNot DEF UserEdits, CopiesAge, Reconcile, Idle
  <2>4. Settled(p)
    BY <1>3, <2>2, <2>3 DEF UserEdits, Settled, Owed
  <2> QED BY <1>3, <2>2, <2>4, QuietAgrees DEF UserEdits
<1>4. ASSUME NEW q \in Profiles, UserDeletes(q)
      PROVE  AgreesOn(p)'
  <2>1. p # q
    BY <1>4 DEF UserDeletes, Write, Absent, TypeOK, Settled
  <2>2. server'[p] = server[p] /\ age'[p] = age[p]
    BY <1>4, <2>1 DEF UserDeletes, Write, CopiesAge, TypeOK
  <2>3. work # Idle /\ work.key = p => work' # Idle /\ work'.key = p
    BY <1>4, IdleOrNot DEF UserDeletes, CopiesAge, Reconcile, Idle
  <2>4. Settled(p)
    BY <1>4, <2>2, <2>3 DEF UserDeletes, Settled, Owed
  <2> QED BY <1>4, <2>2, <2>4, QuietAgrees DEF UserDeletes
<1>5. ASSUME NEW q \in Profiles, Observe(q)
      PROVE  AgreesOn(p)'
  <2>1. p # q
    BY <1>5 DEF Observe, Settled, Owed
  <2> QED BY <1>5, <2>1, QuietAgrees DEF Observe, TypeOK, Settled, Owed
<1>6. ASSUME NEW q \in Profiles, TimerFires(q)
      PROVE  AgreesOn(p)'
  BY <1>6, QuietAgrees DEF TimerFires, Settled, Owed
<1>7. ASSUME NEW flags \in Flags, Restart(flags)
      PROVE  FALSE
  BY <1>7 DEF Restart, Settled, Owed
<1> QED BY <1>1, <1>2, <1>3, <1>4, <1>5, <1>6, <1>7

\* A profile that is fetched is under way, unless there is none.
LEMMA FetchAgrees ==
    ASSUME Coherent, ViewsAgree, NEW p \in Profiles, Settled(p)',
           NEW q \in Profiles, Fetch(q)
    PROVE  AgreesOn(p)'
<1> USE DEF Coherent
<1>1. p # q
  <2>1. CASE cache[q].exists
    <3>1. work'.key = q /\ work'.stage = "power"
      BY <2>1 DEF Fetch
    <3>2. work' # Idle
      BY <3>1 DEF Idle
    <3> QED BY <3>1, <3>2 DEF Settled, Owed
  <2>2. CASE ~cache[q].exists
    BY <2>2 DEF Fetch, Settled, Owed, CopiesAgree
  <2> QED BY <2>1, <2>2
<1>2. Settled(p)
  BY <1>1 DEF Fetch, Settled, Owed
<1> QED BY <1>2, QuietAgrees DEF Fetch

\* A Reconcile that ends without owing another leaves one reading everywhere, costed
\* and classified by the spec the server holds; until then its profile is under way.
LEMMA StepAgrees ==
    ASSUME Coherent, WorkHolds, ViewsAgree, NEW p \in Profiles, Settled(p)', Step
    PROVE  AgreesOn(p)'
<1> USE DEF Coherent
<1>1. CASE ReadPower \/ Record \/ RecordFails
  <2>1. /\ work # Idle /\ work' # Idle /\ work'.key = work.key /\ work.key \in Profiles
    BY <1>1, Working DEF ReadPower, Record, RecordFails, Reconcile, Idle
  <2>2. p # work.key
    BY <2>1 DEF Settled, Owed
  <2>3. /\ sample'[p] = sample[p] /\ (p \in missed' <=> p \in missed)
        /\ server' = server /\ age' = age /\ queue' = queue /\ cost' = cost
    BY <1>1, <2>1, <2>2 DEF ReadPower, Record, RecordFails, TypeOK
  <2> QED BY <2>1, <2>2, <2>3, QuietAgrees DEF Settled, Owed
<1>2. CASE WriteStatus
  <2>1. work # Idle /\ work' # Idle /\ work'.key = work.key
    BY <1>2, Working DEF WriteStatus, ApplyStatus, Reconcile, Idle
  <2>2. p # work.key
    BY <2>1 DEF Settled, Owed
  <2>3. server'[p] = server[p] /\ age'[p] = age[p]
    BY <1>2, <2>2, ApplyStatusFacts DEF WriteStatus
  <2> QED BY <1>2, <2>1, <2>2, <2>3, QuietAgrees DEF WriteStatus, Settled, Owed
<1>3. CASE StatusFails
  <2>1. p # work.key
    BY <1>3 DEF StatusFails, Retry, Settled, Owed
  <2> QED BY <1>3, <2>1, QuietAgrees DEF StatusFails, Retry, Settled, Owed
<1>4. CASE StatusAnswerLost
  <2>1. p # work.key
    BY <1>4 DEF StatusAnswerLost, Retry, Settled, Owed
  <2>2. server'[p] = server[p] /\ age'[p] = age[p]
    BY <1>4, <2>1, ApplyStatusFacts DEF StatusAnswerLost
  <2> QED
    BY <1>4, <2>1, <2>2, QuietAgrees DEF StatusAnswerLost, Retry, Settled, Owed
<1>5. CASE Publish /\ p # work.key
  BY <1>5, QuietAgrees DEF Publish, Settled, Owed
<1>6. CASE Publish /\ p = work.key
  <2>1. work # Idle /\ work.stage = "publish"
    BY <1>6, Working DEF Publish
  <2>2. work.age = "latest"
    BY <1>6, <2>1 DEF Publish, Settled, Owed, StaleIsOwed
  <2>3. server[p].spec = work.spec /\ server[p].status = work.status
    BY <1>6, <2>1, <2>2 DEF WorkAgrees
  <2>4. /\ p \in missed \/ /\ sample[p] # NoSample
                           /\ sample[p].power = work.power
                           /\ sample[p].active = Threshold(work.spec)
        /\ work.status.power = work.power
        /\ work.status.hourly = HourlyCost(work.spec, work.power)
    BY <1>6, <2>1 DEF WorkHolds
  <2>5. /\ server' = server /\ sample' = sample /\ missed' = missed
        /\ cost'.power = work.power /\ cost'.hourly = work.status.hourly
    BY <1>6 DEF Publish
  <2> QED BY <2>3, <2>4, <2>5 DEF AgreesOn
<1> QED BY <1>1, <1>2, <1>3, <1>4, <1>5, <1>6 DEF Step

\* Statuses, the API store and, where the last one was stored, samples show one reading,
\* costed and classified by the spec the server holds, whenever no Reconcile is owed
\* (ViewsAgree).
THEOREM ViewsAlwaysAgree == Spec => []ViewsAgree
<1> DEFINE IInv == WorkHolds /\ ViewsAgree
<1>1. Init => IInv
  BY DEF Init, WorkHolds, ViewsAgree, Settled, Absent, Idle
<1>2. Coherent /\ IInv /\ [Next]_vars => IInv'
  <2> SUFFICES ASSUME Coherent, WorkHolds, ViewsAgree, [Next]_vars
               PROVE  WorkHolds' /\ ViewsAgree'
    OBVIOUS
  <2>1. ASSUME NEW p \in Profiles, Settled(p)'
        PROVE  AgreesOn(p)'
    <3>1. CASE UNCHANGED vars
      BY <2>1, <3>1, QuietAgrees DEF vars, Settled, Owed
    <3> QED BY <2>1, <3>1, SurroundingsAgree, FetchAgrees, StepAgrees DEF Next
  <2>2. ViewsAgree'
    BY <2>1 DEF ViewsAgree, AgreesOn
  <2> QED BY <2>2, NextHolds
<1>3. IInv => ViewsAgree
  OBVIOUS
<1> HIDE DEF IInv
<1> QED BY <1>1, <1>2, <1>3, AlwaysCoherent, PTL DEF Spec

-----------------------------------------------------------------------------
(***************************************************************************)
(* What a Reconcile publishes to the API store, part by part, and what the *)
(* handlers read of it (ApiReads).  The argument: the store holds the last *)
(* of every part published; a part that can be read is settled, as are the *)
(* parts that are published before it; what is settled changes no more.    *)
(***************************************************************************)

CONSTANT MaxReconciles

Api == INSTANCE ApiReads

\* When the Reconcile in progress is past publishing part.
After(part) ==
    IF part = "comparisons" THEN {"models", "status", "cost", "idle"}
    ELSE IF part = "models" THEN {"status", "cost", "idle"}
    ELSE {"idle"}

\* Reconcile n publishes part no more.
PartSettled(n, part) == n < Api!Current \/ stage \in After(part)

\* The store holds the last that has been published of each part, and no handler
\* can read of a Reconcile what is not settled.
StoreIsLatest ==
    /\ stage # "idle" => Api!Current > 0
    /\ \A p \in Api!Parts :
          /\ store[p] <= Api!Current
          /\ Api!HasUpTo(store, p, Api!Current)
          /\ PartSettled(store[p], p)

Handling(handler) == request # Api!NoRequest /\ request.handler = handler

\* What is left to read, from the back to the front of Reads("status").
Left3 == <<"cost", "models", "comparisons">>
Left2 == <<"models", "comparisons">>
Left1 == <<"comparisons">>

StatusSoFar ==
    Handling("status") =>
        LET a == request.answer
            l == request.left
        IN  /\ l \in {Left3, Left2, Left1, <<>>}
            /\ a["cost"] <= Api!Current /\ a["models"] <= Api!Current
            /\ PartSettled(a["cost"], "cost") /\ PartSettled(a["models"], "models")
            /\ l \in {Left1, <<>>} => Api!HasUpTo(a, "models", a["cost"])
            /\ l = <<>> => /\ Api!HasUpTo(a, "comparisons", a["cost"])
                           /\ Api!HasUpTo(a, "comparisons", a["models"])

CompareSoFar ==
    Handling("compare") =>
        LET a == request.answer
            l == request.left
        IN  /\ l \in {<<"comparisons", "cost">>, <<"cost">>, <<>>}
            /\ a["comparisons"] <= Api!Current
            /\ l = <<>> => Api!HasUpTo(a, "cost", a["comparisons"] - 1)

ApiInv == Api!ApiTypeOK /\ StoreIsLatest /\ StatusSoFar /\ CompareSoFar

\* The instance has the state of ApiState under names of its own.
USE DEF Current, Parts, Handlers, Unset, NotRead,
        Api!Current, Api!Parts, Api!Handlers, Api!Unset, Api!NotRead

-----------------------------------------------------------------------------
(* What is published and read: types *)

\* A request that is there is a record of one.
LEMMA RequestType ==
    ASSUME Api!ApiTypeOK, request # Api!NoRequest
    PROVE  request \in Api!Request
BY DEF Api!ApiTypeOK

\* NoRequest is told from the requests by its fields.
LEMMA NoRequestIsNone == Api!NoRequest \notin Api!Request
<1>1. \A r \in Api!Request : "left" \in DOMAIN r
  BY DEF Api!Request
<1>2. "left" \notin DOMAIN Api!NoRequest
  BY DEF Api!NoRequest
<1> QED BY <1>1, <1>2

\* The setter of a part keeps the types.
LEMMA SetType ==
    ASSUME Api!ApiTypeOK, Api!Current > 0, NEW part \in Api!Parts, Api!Set(part)
    PROVE  /\ store' \in [Api!Parts -> Nat]
           /\ published' \in Seq(SUBSET Api!Parts)
           /\ Len(published') = Len(published)
<1>1. store' \in [Api!Parts -> Nat]
  BY DEF Api!ApiTypeOK, Api!Set
<1>2. /\ Api!Current \in 1 .. Len(published)
      /\ published[Api!Current] \cup {part} \in SUBSET Api!Parts
  BY DEF Api!ApiTypeOK
<1>3. /\ published' \in Seq(SUBSET Api!Parts)
      /\ Len(published') = Len(published)
  BY <1>2, ExceptSeq DEF Api!ApiTypeOK, Api!Set
<1> QED BY <1>1, <1>3

\* What a handler reads are parts.
LEMMA ReadsType == \A handler \in Api!Handlers : Api!Reads(handler) \in Seq(Api!Parts)
<1>1. <<"cost", "models", "comparisons">> \in Seq(Api!Parts)
  OBVIOUS
<1>2. <<"comparisons", "cost">> \in Seq(Api!Parts)
  OBVIOUS
<1> QED BY <1>1, <1>2 DEF Api!Reads

\* Every step keeps the types (TypeOK): store, history and request are what the
\* declarations of ApiReads say.
LEMMA ApiTypePreserved ==
    ASSUME Api!ApiTypeOK, stage # "idle" => Api!Current > 0, [Api!Next]_(Api!vars)
    PROVE  Api!ApiTypeOK'
<1>1. CASE UNCHANGED Api!vars
  BY <1>1 DEF Api!ApiTypeOK, Api!vars
<1>2. ASSUME NEW next \in {"comparisons", "models", "status"}, Api!Scrape(next)
      PROVE  Api!ApiTypeOK'
  BY <1>2 DEF Api!ApiTypeOK, Api!Scrape
<1>3. CASE Api!SetComparisons
  BY <1>3, SetType DEF Api!ApiTypeOK, Api!SetComparisons
<1>4. CASE Api!SetModels
  BY <1>4, SetType DEF Api!ApiTypeOK, Api!SetModels
<1>5. CASE Api!SetCostData
  BY <1>5, SetType DEF Api!ApiTypeOK, Api!SetCostData
<1>6. ASSUME NEW written \in BOOLEAN, Api!WriteStatus(written)
      PROVE  Api!ApiTypeOK'
  BY <1>6 DEF Api!ApiTypeOK, Api!WriteStatus
<1>7. ASSUME NEW handler \in Api!Handlers, Api!Ask(handler)
      PROVE  Api!ApiTypeOK'
  <2>1. Api!Reads(handler) \in Seq(Api!Parts)
    BY ReadsType
  <2>2. [p \in Api!Parts |-> Api!NotRead] \in [Api!Parts -> Nat \cup {Api!NotRead}]
    OBVIOUS
  <2>3. request' \in Api!Request
    BY <1>7, <2>1, <2>2 DEF Api!Ask, Api!Request
  <2> QED BY <1>7, <2>3 DEF Api!ApiTypeOK, Api!Ask
<1>8. CASE Api!Read
  <2>1. request \in Api!Request
    BY <1>8, RequestType DEF Api!Read
  <2>2. /\ Head(request.left) \in Api!Parts
        /\ Tail(request.left) \in Seq(Api!Parts)
    BY <1>8, <2>1 DEF Api!Read, Api!Request
  <2>3. store[Head(request.left)] \in Nat
    BY <2>2 DEF Api!ApiTypeOK
  <2>4. request' \in Api!Request
    BY <1>8, <2>1, <2>2, <2>3 DEF Api!Read, Api!Request
  <2> QED BY <1>8, <2>4 DEF Api!ApiTypeOK, Api!Read
<1>9. CASE Api!Reply
  BY <1>9 DEF Api!ApiTypeOK, Api!Reply
<1> QED
  BY <1>1, <1>2, <1>3, <1>4, <1>5, <1>6, <1>7, <1>8, <1>9 DEF Api!Next

-----------------------------------------------------------------------------
(* What is settled stays *)

\* The setter of the part that is due adds it to the Reconcile in progress.
LEMMA SetAdds ==
    ASSUME Api!ApiTypeOK, Api!Current > 0, NEW part \in Api!Parts, Api!Set(part)
    PROVE  /\ Len(published') = Len(published)
           /\ \A n \in 1 .. Api!Current : \A p \in Api!Parts :
                 p \in published'[n] <=> p \in published[n] \/ (n = Api!Current /\ p = part)
<1>1. /\ Api!Current \in 1 .. Len(published)
      /\ published[Api!Current] \cup {part} \in SUBSET Api!Parts
  BY DEF Api!ApiTypeOK
<1>2. /\ Len(published') = Len(published)
      /\ \A n \in 1 .. Len(published) :
            published'[n] = IF n = Api!Current THEN published[Api!Current] \cup {part}
                            ELSE published[n]
  BY <1>1, ExceptSeq DEF Api!ApiTypeOK, Api!Set
<1> QED BY <1>2

\* A part that Reconcile n publishes no more stays as it is, whatever step is taken.
LEMMA SettledStays ==
    ASSUME Api!ApiTypeOK, stage # "idle" => Api!Current > 0, [Api!Next]_(Api!vars),
           NEW n \in Int, n <= Api!Current, NEW part \in Api!Parts, PartSettled(n, part)
    PROVE  /\ Api!Current <= Api!Current'
           /\ PartSettled(n, part)'
           /\ n > 0 => (part \in published'[n] <=> part \in published[n])
<1> USE DEF PartSettled, After
<1>0. Len(published) \in Nat
  BY DEF Api!ApiTypeOK
<1>1. CASE UNCHANGED <<published, stage>>
  BY <1>0, <1>1
<1>2. ASSUME NEW next \in {"comparisons", "models", "status"}, Api!Scrape(next)
      PROVE  /\ Api!Current <= Api!Current'
             /\ PartSettled(n, part)'
             /\ n > 0 => (part \in published'[n] <=> part \in published[n])
  <2>1. /\ Len(published') = Len(published) + 1
        /\ \A k \in 1 .. Len(published) : published'[k] = published[k]
    BY <1>2 DEF Api!ApiTypeOK, Api!Scrape
  <2> QED BY <1>0, <2>1
<1>3. CASE Api!SetComparisons
  BY <1>0, <1>3, SetAdds DEF Api!SetComparisons
<1>4. CASE Api!SetModels
  BY <1>0, <1>4, SetAdds DEF Api!SetModels
<1>5. CASE Api!SetCostData
  BY <1>0, <1>5, SetAdds DEF Api!SetCostData
<1>6. ASSUME NEW written \in BOOLEAN, Api!WriteStatus(written)
      PROVE  /\ Api!Current <= Api!Current'
             /\ PartSettled(n, part)'
             /\ n > 0 => (part \in published'[n] <=> part \in published[n])
  BY <1>0, <1>6 DEF Api!WriteStatus
<1> QED
  BY <1>1, <1>2, <1>3, <1>4, <1>5, <1>6 DEF Api!Next, Api!Ask, Api!Read, Api!Reply, Api!vars

\* What an answer has of settled Reconciles it keeps having.
LEMMA HasUpToStays ==
    ASSUME Api!ApiTypeOK, stage # "idle" => Api!Current > 0, [Api!Next]_(Api!vars),
           NEW answer, NEW n \in Int, n <= Api!Current, NEW part \in Api!Parts,
           PartSettled(n, part), Api!HasUpTo(answer, part, n)
    PROVE  \A k \in 1 .. Api!Current' : k <= n /\ part \in published'[k] => answer[part] >= k
<1> SUFFICES ASSUME NEW k \in 1 .. Api!Current', k <= n, part \in published'[k]
             PROVE  answer[part] >= k
  OBVIOUS
<1>1. k \in 1 .. Api!Current /\ PartSettled(k, part)
  BY DEF PartSettled, Api!ApiTypeOK
<1>2. part \in published[k]
  BY <1>1, SettledStays
<1> QED BY <1>1, <1>2 DEF Api!HasUpTo

-----------------------------------------------------------------------------
(* The store *)

\* The setter of a part that is due puts the Reconcile in progress in its place.
LEMMA SetLatest ==
    ASSUME Api!ApiTypeOK, StoreIsLatest, stage # "idle", NEW part \in Api!Parts, Api!Set(part),
           stage' \in After(part),
           \A p \in Api!Parts : stage \in After(p) => stage' \in After(p)
    PROVE  StoreIsLatest'
<1>0. Len(published) \in Nat /\ Api!Current > 0
  BY DEF Api!ApiTypeOK, StoreIsLatest
<1>1. Len(published') = Len(published)
  BY <1>0, SetAdds
<1>2. ASSUME NEW p \in Api!Parts
      PROVE  /\ store'[p] <= Api!Current'
             /\ Api!HasUpTo(store, p, Api!Current)'
             /\ PartSettled(store[p], p)'
  <2>1. CASE p = part
    <3>1. store'[p] = Api!Current
      BY <2>1 DEF Api!ApiTypeOK, Api!Set
    <3> QED BY <1>0, <1>1, <2>1, <3>1 DEF Api!HasUpTo, PartSettled
  <2>2. CASE p # part
    <3>1. store'[p] = store[p]
      BY <2>2 DEF Api!ApiTypeOK, Api!Set
    <3>2. \A k \in 1 .. Api!Current : p \in published'[k] <=> p \in published[k]
      BY <1>0, <2>2, SetAdds
    <3> QED BY <1>1, <3>1, <3>2 DEF StoreIsLatest, Api!HasUpTo, PartSettled
  <2> QED BY <2>1, <2>2
<1> QED BY <1>0, <1>1, <1>2 DEF StoreIsLatest

\* No step makes the store older than what has been published.
LEMMA StoreStaysLatest ==
    ASSUME Api!ApiTypeOK, StoreIsLatest, [Api!Next]_(Api!vars)
    PROVE  StoreIsLatest'
<1>0. Len(published) \in Nat /\ store \in [Api!Parts -> Nat]
  BY DEF Api!ApiTypeOK
<1>1. CASE UNCHANGED <<store, published, stage>>
  BY <1>1 DEF StoreIsLatest, Api!HasUpTo, PartSettled
<1>2. ASSUME NEW next \in {"comparisons", "models", "status"}, Api!Scrape(next)
      PROVE  StoreIsLatest'
  <2>1. /\ Len(published') = Len(published) + 1
        /\ \A k \in 1 .. Len(published) : published'[k] = published[k]
        /\ published'[Len(published) + 1] = {}
    BY <1>2 DEF Api!ApiTypeOK, Api!Scrape
  <2>2. store' = store
    BY <1>2 DEF Api!Scrape
  <2>3. ASSUME NEW p \in Api!Parts
        PROVE  /\ store'[p] <= Api!Current'
               /\ Api!HasUpTo(store, p, Api!Current)'
               /\ PartSettled(store[p], p)'
    BY <1>0, <2>1, <2>2 DEF StoreIsLatest, Api!HasUpTo, PartSettled
  <2> QED BY <1>0, <2>1, <2>3 DEF StoreIsLatest
<1>3. CASE Api!SetComparisons
  BY <1>3, SetLatest DEF Api!SetComparisons, After
<1>4. CASE Api!SetModels
  BY <1>4, SetLatest DEF Api!SetModels, After
<1>5. CASE Api!SetCostData
  BY <1>5, SetLatest DEF Api!SetCostData, After
<1>6. ASSUME NEW written \in BOOLEAN, Api!WriteStatus(written)
      PROVE  StoreIsLatest'
  <2>1. \A p \in Api!Parts : PartSettled(store[p], p)'
    BY <1>6 DEF Api!WriteStatus, StoreIsLatest, PartSettled, After
  <2> QED BY <1>6, <2>1 DEF Api!WriteStatus, StoreIsLatest, Api!HasUpTo
<1> QED
  BY <1>1, <1>2, <1>3, <1>4, <1>5, <1>6 DEF Api!Next, Api!Ask, Api!Read, Api!Reply, Api!vars

-----------------------------------------------------------------------------
(* The answers *)

\* The writers leave requests alone, and what they publish does not put an answer
\* behind: an answer is about settled Reconciles.
LEMMA AnswersKeep ==
    ASSUME ApiInv, [Api!Next]_(Api!vars), UNCHANGED request
    PROVE  StatusSoFar' /\ CompareSoFar'
<1>0. /\ Api!ApiTypeOK /\ (stage # "idle" => Api!Current > 0)
      /\ Len(published) \in Nat
  BY DEF ApiInv, StoreIsLatest, Api!ApiTypeOK
<1> DEFINE a == request.answer
<1>1. ASSUME Handling("status")'
      PROVE  StatusSoFar'
  <2>1. Handling("status") /\ request \in Api!Request /\ a \in [Api!Parts -> Int]
    BY <1>0, <1>1, RequestType DEF Handling, Api!Request
  <2>2. /\ PartSettled(a["cost"], "cost") /\ PartSettled(a["models"], "models")
        /\ a["cost"] <= Api!Current /\ a["models"] <= Api!Current
    BY <2>1 DEF ApiInv, StatusSoFar
  <2>3. /\ PartSettled(a["cost"], "models") /\ PartSettled(a["cost"], "comparisons")
        /\ PartSettled(a["models"], "comparisons")
    BY <2>2 DEF PartSettled, After
  <2>4. /\ Api!Current <= Api!Current'
        /\ PartSettled(a["cost"], "cost")' /\ PartSettled(a["models"], "models")'
    BY <1>0, <2>1, <2>2, SettledStays
  <2>5. Api!HasUpTo(a, "models", a["cost"]) => Api!HasUpTo(a, "models", a["cost"])'
    <3> SUFFICES ASSUME Api!HasUpTo(a, "models", a["cost"])
                 PROVE  Api!HasUpTo(a, "models", a["cost"])'
      OBVIOUS
    <3>1. \A k \in 1 .. Api!Current' :
            k <= a["cost"] /\ "models" \in published'[k] => a["models"] >= k
      BY <1>0, <2>1, <2>2, <2>3, HasUpToStays
    <3> QED BY <3>1 DEF Api!HasUpTo
  <2>6. Api!HasUpTo(a, "comparisons", a["cost"]) => Api!HasUpTo(a, "comparisons", a["cost"])'
    <3> SUFFICES ASSUME Api!HasUpTo(a, "comparisons", a["cost"])
                 PROVE  Api!HasUpTo(a, "comparisons", a["cost"])'
      OBVIOUS
    <3>1. \A k \in 1 .. Api!Current' :
            k <= a["cost"] /\ "comparisons" \in published'[k] => a["comparisons"] >= k
      BY <1>0, <2>1, <2>2, <2>3, HasUpToStays
    <3> QED BY <3>1 DEF Api!HasUpTo
  <2>7. Api!HasUpTo(a, "comparisons", a["models"])
        => Api!HasUpTo(a, "comparisons", a["models"])'
    <3> SUFFICES ASSUME Api!HasUpTo(a, "comparisons", a["models"])
                 PROVE  Api!HasUpTo(a, "comparisons", a["models"])'
      OBVIOUS
    <3>1. \A k \in 1 .. Api!Current' :
            k <= a["models"] /\ "comparisons" \in published'[k] => a["comparisons"] >= k
      BY <1>0, <2>1, <2>2, <2>3, HasUpToStays
    <3> QED BY <3>1 DEF Api!HasUpTo
  <2>8. a["cost"] <= Api!Current' /\ a["models"] <= Api!Current'
    BY <1>0, <2>1, <2>2, <2>4, ApiTypePreserved DEF Api!ApiTypeOK
  <2> QED BY <2>1, <2>4, <2>5, <2>6, <2>7, <2>8 DEF ApiInv, StatusSoFar
<1>2. ASSUME Handling("compare")'
      PROVE  CompareSoFar'
  <2>1. Handling("compare") /\ request \in Api!Request /\ a \in [Api!Parts -> Int]
    BY <1>0, <1>2, RequestType DEF Handling, Api!Request
  <2>2. a["comparisons"] <= Api!Current
    BY <2>1 DEF ApiInv, CompareSoFar
  <2>3. a["comparisons"] - 1 \in Int /\ PartSettled(a["comparisons"] - 1, "cost")
    BY <1>0, <2>1, <2>2 DEF PartSettled
  <2>4. Api!Current <= Api!Current'
    BY <1>0, <2>1, <2>2, <2>3, SettledStays
  <2>5. Api!HasUpTo(a, "cost", a["comparisons"] - 1)
        => Api!HasUpTo(a, "cost", a["comparisons"] - 1)'
    <3> SUFFICES ASSUME Api!HasUpTo(a, "cost", a["comparisons"] - 1)
                 PROVE  Api!HasUpTo(a, "cost", a["comparisons"] - 1)'
      OBVIOUS
    <3>1. \A k \in 1 .. Api!Current' :
             k <= a["comparisons"] - 1 /\ "cost" \in published'[k] => a["cost"] >= k
      BY <1>0, <2>1, <2>2, <2>3, HasUpToStays
    <3> QED BY <3>1 DEF Api!HasUpTo
  <2>6. a["comparisons"] <= Api!Current'
    BY <1>0, <2>1, <2>2, <2>4, ApiTypePreserved DEF Api!ApiTypeOK
  <2> QED BY <2>1, <2>5, <2>6 DEF ApiInv, CompareSoFar
<1> QED BY <1>1, <1>2 DEF StatusSoFar, CompareSoFar

\* An answer begins with nothing read.
LEMMA AskKeeps ==
    ASSUME ApiInv, NEW handler \in Api!Handlers, Api!Ask(handler)
    PROVE  StatusSoFar' /\ CompareSoFar'
<1>1. /\ request'.handler = handler /\ request'.left = Api!Reads(handler)
      /\ \A p \in Api!Parts : request'.answer[p] = -1
      /\ published' = published /\ Len(published) \in Nat
  BY DEF Api!Ask, ApiInv, Api!ApiTypeOK
<1>2. Left3 # Left1 /\ Left3 # <<>> /\ <<"comparisons", "cost">> # <<>>
  BY DEF Left3, Left1
<1>3. StatusSoFar'
  BY <1>1, <1>2 DEF StatusSoFar, Handling, Api!Reads, PartSettled, Left3
<1>4. CompareSoFar'
  BY <1>1, <1>2 DEF CompareSoFar, Handling, Api!Reads
<1> QED BY <1>3, <1>4

\* What is read next is the latest: the store has what the parts read before promise.
LEMMA ReadKeeps ==
    ASSUME ApiInv, Api!Read
    PROVE  StatusSoFar' /\ CompareSoFar'
<1> DEFINE a == request.answer
           b == request'.answer
<1>0. /\ request \in Api!Request /\ a \in [Api!Parts -> Int] /\ store \in [Api!Parts -> Int]
      /\ published' = published /\ stage' = stage /\ store' = store
      /\ Len(published) \in Nat
  BY RequestType DEF Api!Read, ApiInv, Api!ApiTypeOK, Api!Request
<1>1. /\ request'.handler = request.handler
      /\ request'.left = Tail(request.left)
      /\ b = [a EXCEPT ![Head(request.left)] = store[Head(request.left)]]
  BY DEF Api!Read
<1>2. \A p \in Api!Parts : /\ store[p] <= Api!Current
                       /\ Api!HasUpTo(store, p, Api!Current)
                       /\ PartSettled(store[p], p)
  BY DEF ApiInv, StoreIsLatest
<1>3. /\ Left3 # Left1 /\ Left3 # <<>> /\ Left2 # Left1 /\ Left2 # <<>> /\ Left1 # <<>>
      /\ Head(Left3) = "cost" /\ Tail(Left3) = Left2
      /\ Head(Left2) = "models" /\ Tail(Left2) = Left1
      /\ Head(Left1) = "comparisons" /\ Tail(Left1) = <<>>
  BY DEF Left3, Left2, Left1
<1>4. ASSUME Handling("status")'
      PROVE  StatusSoFar'
  <2>1. /\ request.left \in {Left3, Left2, Left1}
        /\ a["cost"] <= Api!Current /\ a["models"] <= Api!Current
        /\ PartSettled(a["cost"], "cost") /\ PartSettled(a["models"], "models")
        /\ request.left = Left1 => Api!HasUpTo(a, "models", a["cost"])
    BY <1>1, <1>4 DEF ApiInv, StatusSoFar, Handling, Api!Read
  <2>2. CASE request.left = Left3
    BY <1>0, <1>1, <1>2, <1>3, <2>1, <2>2 DEF StatusSoFar, PartSettled
  <2>3. CASE request.left = Left2
    <3>1. b["cost"] = a["cost"] /\ b["models"] = store["models"]
      BY <1>0, <1>1, <1>3, <2>3
    <3>2. Api!HasUpTo(b, "models", b["cost"])
      BY <1>0, <1>2, <2>1, <3>1 DEF Api!HasUpTo
    <3> QED
      BY <1>0, <1>1, <1>2, <1>3, <2>1, <2>3, <3>1, <3>2
         DEF StatusSoFar, PartSettled, Api!HasUpTo
  <2>4. CASE request.left = Left1
    <3>1. /\ b["cost"] = a["cost"] /\ b["models"] = a["models"]
          /\ b["comparisons"] = store["comparisons"]
      BY <1>0, <1>1, <1>3, <2>4
    <3>2. /\ Api!HasUpTo(b, "models", b["cost"])
          /\ Api!HasUpTo(b, "comparisons", b["cost"])
          /\ Api!HasUpTo(b, "comparisons", b["models"])
      BY <1>0, <1>2, <2>1, <2>4, <3>1 DEF Api!HasUpTo
    <3> QED
      BY <1>0, <1>1, <1>3, <2>1, <2>4, <3>1, <3>2
         DEF StatusSoFar, PartSettled, Api!HasUpTo
  <2> QED BY <2>1, <2>2, <2>3, <2>4
<1>5. ASSUME Handling("compare")'
      PROVE  CompareSoFar'
  <2>1. /\ request.left \in {<<"comparisons", "cost">>, <<"cost">>}
        /\ a["comparisons"] <= Api!Current
    BY <1>1, <1>5 DEF ApiInv, CompareSoFar, Handling, Api!Read
  <2>2. CASE request.left = <<"comparisons", "cost">>
    <3>1. request'.left = <<"cost">> /\ b["comparisons"] = store["comparisons"]
      BY <1>0, <1>1, <2>2
    <3> QED BY <1>0, <1>2, <3>1 DEF CompareSoFar
  <2>3. CASE request.left = <<"cost">>
    <3>1. /\ request'.left = <<>> /\ b["comparisons"] = a["comparisons"]
          /\ b["cost"] = store["cost"]
      BY <1>0, <1>1, <2>3
    <3>2. Api!HasUpTo(b, "cost", b["comparisons"] - 1)
      BY <1>0, <1>2, <2>1, <3>1 DEF Api!HasUpTo
    <3> QED BY <1>0, <2>1, <3>1, <3>2 DEF CompareSoFar, Api!HasUpTo
  <2> QED BY <2>1, <2>2, <2>3
<1> QED BY <1>4, <1>5 DEF StatusSoFar, CompareSoFar

-----------------------------------------------------------------------------
(* The theorems *)

\* The invariant holds in every reachable state.
LEMMA ApiInvariance == Api!Spec => []ApiInv
<1>1. Api!Init => ApiInv
  BY DEF Api!Init, ApiInv, Api!ApiTypeOK, StoreIsLatest, StatusSoFar, CompareSoFar,
         Handling, Api!HasUpTo, PartSettled, After, Api!NoRequest
<1>2. ApiInv /\ [Api!Next]_(Api!vars) => ApiInv'
  <2> SUFFICES ASSUME ApiInv, [Api!Next]_(Api!vars)
               PROVE  ApiInv'
    OBVIOUS
  <2>1. Api!ApiTypeOK'
    BY ApiTypePreserved DEF ApiInv, StoreIsLatest
  <2>2. StoreIsLatest'
    BY StoreStaysLatest DEF ApiInv
  <2>3. StatusSoFar' /\ CompareSoFar'
    <3>1. CASE UNCHANGED request
      BY <3>1, AnswersKeep
    <3>2. ASSUME NEW handler \in Api!Handlers, Api!Ask(handler)
          PROVE  StatusSoFar' /\ CompareSoFar'
      BY <3>2, AskKeeps
    <3>3. CASE Api!Read
      BY <3>3, ReadKeeps
    <3>4. CASE Api!Reply
      BY <3>4 DEF Api!Reply, StatusSoFar, CompareSoFar, Handling
    <3> QED
      BY <3>1, <3>2, <3>3, <3>4
         DEF Api!Next, Api!Scrape, Api!SetComparisons, Api!SetModels, Api!SetCostData,
             Api!WriteStatus, Api!vars
  <2> QED BY <2>1, <2>2, <2>3 DEF ApiInv
<1> QED BY <1>1, <1>2, PTL DEF Api!Spec

\* Store, history, stage and request keep their types (ApiTypeOK).
THEOREM ApiTypeCorrect == Api!Spec => []ApiTypeOK
<1>1. Api!ApiTypeOK => ApiTypeOK
  BY DEF Api!ApiTypeOK, ApiTypeOK, Api!Request, Request, Api!NoRequest, NoRequest
<1>2. ApiInv => ApiTypeOK
  BY <1>1 DEF ApiInv
<1> QED BY <1>2, ApiInvariance, PTL

\* What the instance says of an answer is what ApiState says of it.
LEMMA AnswersAlike ==
    /\ \A answer, part, n : Api!HasUpTo(answer, part, n) <=> HasUpTo(answer, part, n)
    /\ \A handler : Answered(handler) => Handling(handler) /\ request.left = <<>>
<1>1. \A answer, part, n : Api!HasUpTo(answer, part, n) <=> HasUpTo(answer, part, n)
  BY DEF Api!HasUpTo, HasUpTo
<1>2. \A handler : Answered(handler) => Handling(handler) /\ request.left = <<>>
  BY DEF Answered, Handling, Api!NoRequest, NoRequest
<1> QED BY <1>1, <1>2

\* Every answer of handleStatus has the models and comparisons of the Reconcile whose
\* costs it shows, or later ones (StatusIsCaughtUp).
THEOREM StatusAlwaysCaughtUp == Api!Spec => []StatusIsCaughtUp
<1>1. ApiInv => StatusIsCaughtUp
  BY AnswersAlike DEF ApiInv, StatusIsCaughtUp, StatusSoFar
<1> QED BY <1>1, ApiInvariance, PTL

\* Every answer of handleCompare has the costs of all Reconciles before the one that
\* compared (CompareIsCaughtUp).
THEOREM CompareAlwaysCaughtUp == Api!Spec => []CompareIsCaughtUp
<1>1. ApiInv => CompareIsCaughtUp
  BY AnswersAlike DEF ApiInv, CompareIsCaughtUp, CompareSoFar
<1> QED BY <1>1, ApiInvariance, PTL
=============================================================================
