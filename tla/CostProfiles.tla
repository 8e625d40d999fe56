---------------------------- MODULE CostProfiles ----------------------------
(***************************************************************************)
(* The CostProfile controller (internal/controller/costprofile_controller) *)
(* between the users who edit profiles, the exporters it reads power from, *)
(* the API server that keeps its status, the sampler and the API store.    *)
(* One worker runs one Reconcile at a time: read the profile from the      *)
(* cache, read the power or fall back to the TDP, record the sample, write *)
(* the status, publish to the API store.  Its scrape of the inference pods *)
(* is in TokenMetrics, what becomes of a sample in PowerSampler.           *)
(*                                                                         *)
(* The work queue is explicit, since what puts a profile into it decides   *)
(* how often power is sampled: every watch event does, the controller's    *)
(* own status writes included, and so do a timer and an error.  Ages of    *)
(* copies are as in TokenBudgets; a tick is the second in which LastUpdated *)
(* is written, and the last one explored stands for every later one, so    *)
(* that timers still fire in it.                                           *)
(***************************************************************************)
EXTENDS Integers, FiniteSets, FiniteSetsExt

CONSTANTS
    Nodes,
    Profiles,
    SpecsOf,            \* profile -> the specs users may give it
    Readings,           \* what the exporters may show: [dcgm, metal]
    Flags,              \* what --dcgm-endpoint and --metal-endpoint may configure
    ReconcileInterval,  \* reconcileInterval, in ticks
    Faults,             \* faults to inject: "record", "update", "lost", "restart"
    MaxClock            \* bound: last instant explored

AnyNode == "any"
Undeclared == -1
Never == -1

ProfileSpec ==
    [apple : BOOLEAN, node : Nodes \cup {AnyNode}, tdp : Nat, gpus : Nat \ {0},
     idle : Nat \cup {Undeclared}, amortization : Nat, rate : Nat]

\* Watts by node, and watts; or no answer.
GPUReading == [reached : BOOLEAN, watts : [Nodes -> Nat]]
SoCReading == [reached : BOOLEAN, watts : Nat]

ASSUME NodesAssumption == IsFiniteSet(Nodes) /\ AnyNode \notin Nodes
ASSUME SpecsAssumption ==
    /\ DOMAIN SpecsOf = Profiles
    /\ \A p \in Profiles : \A s \in SpecsOf[p] : s \in ProfileSpec
ASSUME ReadingsAssumption ==
    Readings \subseteq [dcgm : GPUReading, metal : SoCReading]
ASSUME FlagsAssumption == Flags # {} /\ Flags \subseteq SUBSET {"DCGM", "Metal"}
ASSUME TimesAssumption == ReconcileInterval \in Nat \ {0} /\ MaxClock \in Nat
ASSUME FaultsAssumption == Faults \subseteq {"record", "update", "lost", "restart"}

VARIABLES
    clock,
    endpoints,  \* the exporters this process was started with
    dcgm,       \* what the DCGM exporter shows
    metal,      \* what the Metal agent shows
    server,     \* profile -> the object at the API server, or Absent
    cache,      \* profile -> the informer's copy of it
    age,        \* profile -> the age of that copy
    queue,      \* profiles due for a Reconcile
    timer,      \* profile -> when RequeueAfter adds it to the queue, or Never
    work,       \* the Reconcile in progress, or Idle
    sample,     \* profile -> the last sample stored, or NoSample
    missed,     \* the profiles whose last sample was not stored: nothing reads this
    cost        \* API store: cost, or NoCost

vars == <<clock, endpoints, dcgm, metal, server, cache, age, queue, timer, work,
          sample, missed, cost>>

Sources == {"DCGM", "Metal"}
Condition == {"Unset", "True", "False", "Unknown"}
Status == [power : Nat, hourly : Nat, conditions : [Sources -> Condition], updated : Nat]
ZeroStatus ==
    [power |-> 0, hourly |-> 0, conditions |-> [s \in Sources |-> "Unset"], updated |-> 0]

Age == {"latest", "older", "gone"}
Absent == [exists |-> FALSE]
Object == [exists : {TRUE}, spec : ProfileSpec, status : Status]

Sample == [power : Nat, active : Nat]
NoSample == [power |-> Never]
Cost == [profile : Profiles, power : Nat, hourly : Nat]
NoCost == [profile |-> "none"]

Idle == [stage |-> "idle"]
Reconcile ==
    [stage : {"power", "record", "status", "publish"}, key : Profiles, spec : ProfileSpec,
     status : Status, age : Age, power : Nat]

\* Every variable holds what the declarations above say it holds.
TypeOK ==
    /\ clock \in Nat
    /\ endpoints \subseteq Sources
    /\ dcgm \in GPUReading
    /\ metal \in SoCReading
    /\ server \in [Profiles -> Object \cup {Absent}]
    /\ cache \in [Profiles -> Object \cup {Absent}]
    /\ age \in [Profiles -> Age]
    /\ queue \subseteq Profiles
    /\ timer \in [Profiles -> Nat \cup {Never}]
    /\ work \in Reconcile \cup {Idle}
    /\ sample \in [Profiles -> Sample \cup {NoSample}]
    /\ missed \subseteq Profiles
    /\ cost \in Cost \cup {NoCost}

-----------------------------------------------------------------------------
(* Power and cost *)

\* readPower: the Metal agent for Apple hardware when there is one, else DCGM.
SourceOf(spec) == IF "Metal" \in endpoints /\ spec.apple THEN "Metal" ELSE "DCGM"

\* fallbackPowerDraw
TDP(spec) == spec.tdp * spec.gpus

\* The readings of the GPUs on the profile's node, or on any.
GPUPower(spec) ==
    MapThenSumSet(LAMBDA n : dcgm.watts[n], {n \in Nodes : spec.node \in {n, AnyNode}})

Reached(source) == IF source = "Metal" THEN metal.reached ELSE dcgm.reached
Measured(source, spec) == IF source = "Metal" THEN metal.watts ELSE GPUPower(spec)

\* The condition of the source that says how the power was obtained.
ConditionOf(source, spec) ==
    IF source \notin endpoints \/ ~Reached(source) THEN "False"
    ELSE IF Measured(source, spec) = 0 THEN "Unknown" ELSE "True"

\* Without a reading the power is the TDP.
PowerOf(spec) ==
    LET source == SourceOf(spec)
    IN  IF ConditionOf(source, spec) = "True" THEN Measured(source, spec) ELSE TDP(spec)

\* Mutant of Threshold: no default.
ThresholdAsDeclared(spec) == spec.idle

\* resolveIdleThreshold: as declared, or a fifth of the TDP, or 30 W a GPU.
Threshold(spec) ==
    IF spec.idle # Undeclared THEN spec.idle
    ELSE IF spec.tdp > 0 THEN (spec.tdp * spec.gpus) \div 5 ELSE 30 * spec.gpus

\* ComputeHourlyCost: amortization, and electricity in proportion to the power.
HourlyCost(spec, power) == spec.amortization + spec.rate * power

-----------------------------------------------------------------------------
Init ==
    /\ clock = 0
    /\ endpoints \in Flags
    /\ \E r \in Readings : dcgm = r.dcgm /\ metal = r.metal
    /\ server = [p \in Profiles |-> Absent]
    /\ cache = [p \in Profiles |-> Absent]
    /\ age = [p \in Profiles |-> "latest"]
    /\ queue = {}
    /\ timer = [p \in Profiles |-> Never]
    /\ work = Idle
    /\ sample = [p \in Profiles |-> NoSample]
    /\ missed = {}
    /\ cost = NoCost

Tick ==
    /\ clock < MaxClock
    /\ clock' = clock + 1
    /\ UNCHANGED <<endpoints, dcgm, metal, server, cache, age, queue, timer, work, sample,
                   missed, cost>>

\* The exporters show other readings, or stop to answer.
PowerChanges(r) ==
    /\ [dcgm |-> dcgm, metal |-> metal] # r
    /\ dcgm' = r.dcgm
    /\ metal' = r.metal
    /\ UNCHANGED <<clock, endpoints, server, cache, age, queue, timer, work, sample,
                   missed, cost>>

\* Users and the API server.

Write(p, o) == server' = [server EXCEPT ![p] = o]
Older(a) == IF a = "latest" THEN "older" ELSE a
CopiesAge(p, Aged(_)) ==
    /\ age' = [age EXCEPT ![p] = Aged(@)]
    /\ work' = IF work # Idle /\ work.key = p THEN [work EXCEPT !.age = Aged(@)] ELSE work

UserCreates(p, spec) ==
    /\ ~server[p].exists
    /\ Write(p, [exists |-> TRUE, spec |-> spec, status |-> ZeroStatus])
    /\ age' = [age EXCEPT ![p] = Older(@)]
    /\ UNCHANGED <<clock, endpoints, dcgm, metal, cache, queue, timer, work, sample,
                   missed, cost>>

UserEdits(p, spec) ==
    /\ server[p].exists
    /\ server[p].spec # spec
    /\ Write(p, [server[p] EXCEPT !.spec = spec])
    /\ CopiesAge(p, Older)
    /\ UNCHANGED <<clock, endpoints, dcgm, metal, cache, queue, timer, sample, missed,
                   cost>>

UserDeletes(p) ==
    /\ server[p].exists
    /\ Write(p, Absent)
    /\ CopiesAge(p, LAMBDA a : "gone")
    /\ UNCHANGED <<clock, endpoints, dcgm, metal, cache, queue, timer, sample, missed,
                   cost>>

\* A watch event updates the cached copy and, without a predicate to filter it,
\* puts the profile into the queue.
Observe(p) ==
    /\ age[p] # "latest"
    /\ cache' = [cache EXCEPT ![p] = server[p]]
    /\ age' = [age EXCEPT ![p] = "latest"]
    /\ queue' = queue \cup {p}
    /\ UNCHANGED <<clock, endpoints, dcgm, metal, server, timer, work, sample,
                   missed, cost>>

TimerFires(p) ==
    /\ timer[p] # Never
    /\ timer[p] <= clock \/ clock = MaxClock
    /\ timer' = [timer EXCEPT ![p] = Never]
    /\ queue' = queue \cup {p}
    /\ UNCHANGED <<clock, endpoints, dcgm, metal, server, cache, age, work, sample,
                   missed, cost>>

\* The manager restarts, perhaps with other endpoints: the API store and the work
\* are gone, and every profile is listed and queued.
Restart(flags) ==
    /\ "restart" \in Faults
    /\ endpoints' = flags
    /\ cache' = server
    /\ age' = [p \in Profiles |-> "latest"]
    /\ queue' = {p \in Profiles : server[p].exists}
    /\ timer' = [p \in Profiles |-> Never]
    /\ work' = Idle
    /\ cost' = NoCost
    /\ UNCHANGED <<clock, dcgm, metal, server, sample, missed>>

-----------------------------------------------------------------------------
(* Reconcile, step by step *)

\* The profile is read from the cache; one that is not there needs no work.
Fetch(p) ==
    /\ work = Idle
    /\ p \in queue
    /\ queue' = queue \ {p}
    /\ work' = IF cache[p].exists
               THEN [stage |-> "power", key |-> p, spec |-> cache[p].spec,
                     status |-> cache[p].status, age |-> age[p], power |-> 0]
               ELSE Idle
    /\ UNCHANGED <<clock, endpoints, dcgm, metal, server, cache, age, timer, sample, missed,
                   cost>>

\* Only the condition of the source in use is set; the other one stays.
ReadPower ==
    LET source == SourceOf(work.spec)
    IN  /\ work.stage = "power"
        /\ work' = [work EXCEPT !.stage = "record",
                                !.power = PowerOf(work.spec),
                                !.status.conditions[source] = ConditionOf(source, work.spec)]
        /\ UNCHANGED <<clock, endpoints, dcgm, metal, server, cache, age, queue, timer,
                       sample, missed, cost>>

\* Sampler.Record, where the sample is stored.
Record ==
    /\ work.stage = "record"
    /\ sample' = [sample EXCEPT ![work.key] =
                     [power |-> work.power, active |-> Threshold(work.spec)]]
    /\ missed' = missed \ {work.key}
    /\ work' = [work EXCEPT !.stage = "status"]
    /\ UNCHANGED <<clock, endpoints, dcgm, metal, server, cache, age, queue, timer, cost>>

\* The file takes no sample.  The error is logged, and the Reconcile goes on as if
\* there were one: no retry is owed for it.
RecordFails ==
    /\ "record" \in Faults
    /\ work.stage = "record"
    /\ missed' = missed \cup {work.key}
    /\ work' = [work EXCEPT !.stage = "status"]
    /\ UNCHANGED <<clock, endpoints, dcgm, metal, server, cache, age, queue, timer, sample,
                   cost>>

Computed(w) ==
    [power |-> w.power, hourly |-> HourlyCost(w.spec, w.power),
     conditions |-> w.status.conditions, updated |-> clock]

\* Mutant of ApplyStatus: a patch, which the server applies to any version.
PatchStatus ==
    /\ work.stage = "status"
    /\ work.age # "gone"
    /\ Write(work.key, [server[work.key] EXCEPT !.status = Computed(work)])
    /\ age' = IF server' = server THEN age ELSE [age EXCEPT ![work.key] = Older(@)]

\* The API server applies an update only to the version it was read at; one that
\* changes nothing leaves the version as it is, and causes no event.
ApplyStatus ==
    /\ work.stage = "status"
    /\ work.age = "latest"
    /\ Write(work.key, [server[work.key] EXCEPT !.status = Computed(work)])
    /\ age' = IF server' = server THEN age ELSE [age EXCEPT ![work.key] = Older(@)]

WriteStatus ==
    /\ ApplyStatus
    /\ work' = [work EXCEPT !.stage = "publish", !.status = Computed(work)]
    /\ UNCHANGED <<clock, endpoints, dcgm, metal, cache, queue, timer, sample, missed,
                   cost>>

\* Mutant of Retry: the error is logged and the timer waited for.
LogError ==
    /\ work' = Idle
    /\ timer' = [timer EXCEPT ![work.key] = clock + ReconcileInterval]
    /\ UNCHANGED <<clock, endpoints, dcgm, metal, cache, queue, sample, missed, cost>>

\* Reconcile returns the error and the profile is queued again.
Retry ==
    /\ work' = Idle
    /\ queue' = queue \cup {work.key}
    /\ UNCHANGED <<clock, endpoints, dcgm, metal, cache, timer, sample, missed,
                   cost>>

\* A conflict or a deleted profile; or an update that does not reach the server.
StatusFails ==
    /\ work.stage = "status"
    /\ work.age # "latest" \/ "update" \in Faults
    /\ Retry
    /\ UNCHANGED <<server, age>>

\* The update is applied and its answer is lost.
StatusAnswerLost ==
    /\ "lost" \in Faults
    /\ ApplyStatus
    /\ Retry

\* Mutant of RequeueAfter: the result asks for no further Reconcile.
NoRequeue(t) == t

\* The queue keeps the earlier of two times at which an item is to be added.
RequeueAfter(t) == IF t = Never THEN clock + ReconcileInterval
                   ELSE Min({t, clock + ReconcileInterval})

\* SetCostData replaces what the last profile left.
Publish ==
    /\ work.stage = "publish"
    /\ cost' = [profile |-> work.key, power |-> work.power, hourly |-> work.status.hourly]
    /\ timer' = [timer EXCEPT ![work.key] = RequeueAfter(@)]
    /\ work' = Idle
    /\ UNCHANGED <<clock, endpoints, dcgm, metal, server, cache, age, queue, sample,
                   missed>>

Step ==
    \/ ReadPower \/ Record \/ RecordFails
    \/ WriteStatus \/ StatusFails \/ StatusAnswerLost
    \/ Publish

Next ==
    \/ Tick
    \/ \E r \in Readings : PowerChanges(r)
    \/ \E p \in Profiles :
          \/ \E spec \in SpecsOf[p] : UserCreates(p, spec) \/ UserEdits(p, spec)
          \/ UserDeletes(p)
          \/ Observe(p)
          \/ TimerFires(p)
          \/ Fetch(p)
    \/ \E flags \in Flags : Restart(flags)
    \/ Step

Spec == Init /\ [][Next]_vars

\* Time passes; the worker runs on; watches deliver and timers fire; each profile
\* gets its turn in the queue; an API server that answers again and again answers
\* with success in the end, and so does a file that is written to again and again.
FairSpec ==
    /\ Spec
    /\ WF_vars(Tick)
    /\ WF_vars(Step)
    /\ SF_vars(Record)
    /\ SF_vars(WriteStatus)
    /\ \A p \in Profiles :
          WF_vars(Observe(p)) /\ WF_vars(TimerFires(p)) /\ SF_vars(Fetch(p))

-----------------------------------------------------------------------------
(* Properties *)

\* A Reconcile of p is under way, or owed to it.
Owed(p) == p \in queue \/ age[p] # "latest" \/ (work # Idle /\ work.key = p)

Settled(p) == server[p].exists /\ server[p].status # ZeroStatus /\ ~Owed(p)

\* The status, the API store and the sample stored for utilization show the same
\* reading, costed and classified by the spec the server holds, whenever no Reconcile
\* is under way or owed: a failed, conflicting or lost update, an edit or a restart
\* leaves them apart only until its retry.  A sample that the file did not take is
\* not retried; there the status goes ahead of an older sample.
ViewsAgree ==
    \A p \in Profiles : Settled(p) =>
        LET o == server[p]
        IN  /\ o.status.hourly = HourlyCost(o.spec, o.status.power)
            /\ cost # NoCost /\ cost.profile = p => /\ cost.power = o.status.power
                                                    /\ cost.hourly = o.status.hourly
            /\ p \in missed \/ /\ sample[p] # NoSample
                               /\ sample[p].power = o.status.power
                               /\ sample[p].active = Threshold(o.spec)

\* The server never accepts an hourly cost of a spec that a user has replaced.
CostFollowsSpec ==
    [][\A p \in Profiles :
         server[p].exists /\ server'[p].exists /\ server'[p].status # server[p].status
         => LET o == server'[p] IN o.status.hourly = HourlyCost(o.spec, o.status.power)]_vars

UpToDate(p) ==
    LET o == server[p]
        source == SourceOf(o.spec)
    IN  o.exists =>
          /\ o.status.power = PowerOf(o.spec)
          /\ o.status.conditions[source] = ConditionOf(source, o.spec)
          /\ sample[p] # NoSample
          /\ sample[p].power = o.status.power
          /\ sample[p].active = Threshold(o.spec)

\* "why is my dashboard flat?" (readDCGMPower): when exporters, specs and the
\* manager come to rest, status and samples come to show the power that is drawn, with the
\* condition that says where it is from, though no event tells of a reading and a
\* sample that could not be stored is only ever made good by a later one.
PowerCatchesUp ==
    LET inputs == <<endpoints, dcgm, metal, [p \in Profiles |->
                      IF server[p].exists THEN server[p].spec ELSE Absent]>>
    IN  <>[][UNCHANGED inputs /\ \A flags \in Flags : ~Restart(flags)]_vars
        => \A p \in Profiles : <>[]UpToDate(p)
=============================================================================
