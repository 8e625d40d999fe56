---------------------------- MODULE UsageReports ----------------------------
(***************************************************************************)
(* The UsageReport controller (internal/controller/usagereport_controller) *)
(* between the inference pods it scrapes, the CostProfiles whose hourly    *)
(* cost it attributes, the API server that keeps its reports and the       *)
(* namespace costs it leaves in the API store.  One worker runs one        *)
(* Reconcile at a time: read report, profile and pod list from the cache,  *)
(* scrape the pods one by one, write the status unless its content is the  *)
(* one already there, publish to the API store.                            *)
(*                                                                         *)
(* One tick of the clock is 0.001 hours, the least period length; rates    *)
(* are in dollars per tick, and input and output tokens are one count.     *)
(* Ages of copies are as in TokenBudgets.                                  *)
(***************************************************************************)
EXTENDS Attribution

CONSTANTS
    Pods,          \* pods with the model label
    PodOf,         \* pod -> [namespace, model]
    Profiles,      \* CostProfiles, in the namespace of the reports
    Rates,         \* hourly costs a CostProfile status may show
    Reports,       \* the UsageReports users may create
    SpecsOf,       \* report -> the specs users may give it
    PeriodLength,  \* ticks in a reporting period
    Faults,        \* faults to inject: "scrape", "update", "lost", "restart"
    FirstClock,    \* the instant the behaviour begins
    MaxTokens,     \* bound: tokens a pod counts
    MaxClock       \* bound: last instant explored

ReportSpec == [profile : Profiles, namespaces : SUBSET Namespaces]

ASSUME PodsAssumption == IsFiniteSet(Pods) /\ PodOf \in [Pods -> Workload]
ASSUME RatesAssumption == Rates \subseteq Nat
ASSUME SpecsAssumption ==
    /\ DOMAIN SpecsOf = Reports
    /\ \A r \in Reports : SpecsOf[r] \subseteq ReportSpec
ASSUME TimesAssumption ==
    PeriodLength \in Nat \ {0} /\ FirstClock \in Nat /\ MaxClock \in Nat
ASSUME TokensAssumption == MaxTokens \in Nat
ASSUME FaultsAssumption == Faults \subseteq {"scrape", "update", "lost", "restart"}

VARIABLES
    clock,
    pods,      \* pod -> the tokens it has served since it started, or Down
    rates,     \* profile -> its hourly cost, or NoProfile
    server,    \* report -> the object at the API server, or Absent
    cache,     \* report -> the informer's copy of it
    age,       \* report -> the age of that copy
    costs,     \* API store: namespaceCosts, namespace -> USD
    work       \* the Reconcile in progress, or Idle

vars == <<clock, pods, rates, server, cache, age, costs, work>>

Down == -1
NoProfile == -1

\* The Ready condition, the period, the tokens by model, and estimatedCostUSD.
Status == [ready : {"Unset", "CostProfileNotFound", "ReportComputed"}, period : Nat,
           byModel : Counts, cost : Nat]
ZeroStatus == [ready |-> "Unset", period |-> 0, byModel |-> NoCounts, cost |-> 0]

Age == {"latest", "older", "gone"}
Absent == [exists |-> FALSE]
Object == [exists : {TRUE}, spec : ReportSpec, status : Status]

Idle == [stage |-> "idle"]
Reconcile ==
    [stage : {"missing", "scrape", "publish"}, key : Reports, spec : ReportSpec,
     status : Status, age : Age, period : Nat, cost : Nat, left : SUBSET Pods,
     counts : Counts]

\* Every variable holds what the declarations above say it holds.
TypeOK ==
    /\ clock \in Nat
    /\ pods \in [Pods -> Nat \cup {Down}]
    /\ rates \in [Profiles -> Rates \cup {NoProfile}]
    /\ server \in [Reports -> Object \cup {Absent}]
    /\ cache \in [Reports -> Object \cup {Absent}]
    /\ age \in [Reports -> Age]
    /\ DOMAIN costs \subseteq Namespaces /\ \A ns \in DOMAIN costs : costs[ns] \in Nat
    /\ work \in Reconcile \cup {Idle}

-----------------------------------------------------------------------------
(* Periods and counts *)

Period(now) == now \div PeriodLength

\* periodBounds: the time since the period began, one tick at the least.
HoursInPeriod(now) == LET hours == now % PeriodLength IN IF hours < 1 THEN 1 ELSE hours

\* Mutant: the report's namespaces select nothing.
ScrapeableAnywhere(spec) == {p \in Pods : pods[p] # Down}

\* podIsScrapeable: running, and in a namespace of the filter if there is one.
Scrapeable(spec) ==
    {p \in Pods : /\ pods[p] # Down
                  /\ spec.namespaces = {} \/ PodOf[p].namespace \in spec.namespaces}

\* The counters of one more pod are added to those of its model and namespace.
Count(counts, p, tokens) ==
    [counts EXCEPT ![PodOf[p]] = IF @ = NotScraped THEN tokens ELSE @ + tokens]

-----------------------------------------------------------------------------
Init ==
    /\ clock = FirstClock
    /\ pods = [p \in Pods |-> Down]
    /\ rates = [c \in Profiles |-> NoProfile]
    /\ server = [r \in Reports |-> Absent]
    /\ cache = [r \in Reports |-> Absent]
    /\ age = [r \in Reports |-> "latest"]
    /\ costs = <<>>
    /\ work = Idle

\* Time, traffic and the life of pods.

Tick ==
    /\ clock < MaxClock
    /\ clock' = clock + 1
    /\ UNCHANGED <<pods, rates, server, cache, age, costs, work>>

Serve(p) ==
    /\ pods[p] # Down
    /\ pods[p] < MaxTokens
    /\ pods' = [pods EXCEPT ![p] = @ + 1]
    /\ UNCHANGED <<clock, rates, server, cache, age, costs, work>>

\* A pod starts, or its container restarts, with counters at zero.
PodStarts(p) ==
    /\ pods[p] # 0
    /\ pods' = [pods EXCEPT ![p] = 0]
    /\ UNCHANGED <<clock, rates, server, cache, age, costs, work>>

PodStops(p) ==
    /\ pods[p] # Down
    /\ pods' = [pods EXCEPT ![p] = Down]
    /\ UNCHANGED <<clock, rates, server, cache, age, costs, work>>

\* The CostProfile's status shows a new hourly cost, or the profile is gone.
ProfileChanges(c, rate) ==
    /\ rates[c] # rate
    /\ rates' = [rates EXCEPT ![c] = rate]
    /\ UNCHANGED <<clock, pods, server, cache, age, costs, work>>

\* Users and the API server.

Write(r, o) == server' = [server EXCEPT ![r] = o]
Older(a) == IF a = "latest" THEN "older" ELSE a
CopiesAge(r, Aged(_)) ==
    /\ age' = [age EXCEPT ![r] = Aged(@)]
    /\ work' = IF work # Idle /\ work.key = r THEN [work EXCEPT !.age = Aged(@)] ELSE work

UserCreates(r, spec) ==
    /\ ~server[r].exists
    /\ Write(r, [exists |-> TRUE, spec |-> spec, status |-> ZeroStatus])
    /\ age' = [age EXCEPT ![r] = Older(@)]
    /\ UNCHANGED <<clock, pods, rates, cache, costs, work>>

UserEdits(r, spec) ==
    /\ server[r].exists
    /\ server[r].spec # spec
    /\ Write(r, [server[r] EXCEPT !.spec = spec])
    /\ CopiesAge(r, Older)
    /\ UNCHANGED <<clock, pods, rates, cache, costs>>

UserDeletes(r) ==
    /\ server[r].exists
    /\ Write(r, Absent)
    /\ CopiesAge(r, LAMBDA a : "gone")
    /\ UNCHANGED <<clock, pods, rates, cache, costs>>

\* A watch event brings the cached copy up to date.
Observe(r) ==
    /\ age[r] # "latest"
    /\ cache' = [cache EXCEPT ![r] = server[r]]
    /\ age' = [age EXCEPT ![r] = "latest"]
    /\ UNCHANGED <<clock, pods, rates, server, costs, work>>

\* The manager restarts: store and work are gone, the cache is relisted.
Restart ==
    /\ "restart" \in Faults
    /\ cache' = server
    /\ age' = [r \in Reports |-> "latest"]
    /\ costs' = <<>>
    /\ work' = Idle
    /\ UNCHANGED <<clock, pods, rates, server>>

-----------------------------------------------------------------------------
(* Reconcile, step by step.  A report is requeued after every Reconcile, so *)
(* one is always due.                                                       *)

\* Mutant of Begin: the error of reading the profile is ignored.
BeginAnyway(r) ==
    /\ work = Idle
    /\ cache[r].exists
    /\ work' = [stage |-> "scrape", key |-> r,
                spec |-> cache[r].spec, status |-> cache[r].status, age |-> age[r],
                period |-> Period(clock),
                cost |-> rates[cache[r].spec.profile] * HoursInPeriod(clock),
                left |-> Scrapeable(cache[r].spec),
                counts |-> NoCounts]
    /\ UNCHANGED <<clock, pods, rates, server, cache, age, costs>>

\* Report, profile, period and pod list are read; the counters are not yet.
Begin(r) ==
    /\ work = Idle
    /\ cache[r].exists
    /\ LET rate == rates[cache[r].spec.profile]
           found == rate # NoProfile
       IN  work' = [stage |-> IF found THEN "scrape" ELSE "missing", key |-> r,
                    spec |-> cache[r].spec, status |-> cache[r].status, age |-> age[r],
                    period |-> Period(clock),
                    cost |-> IF found THEN rate * HoursInPeriod(clock) ELSE 0,
                    left |-> IF found THEN Scrapeable(cache[r].spec) ELSE {},
                    counts |-> NoCounts]
    /\ UNCHANGED <<clock, pods, rates, server, cache, age, costs>>

Scrape(p) ==
    /\ work.stage = "scrape"
    /\ p \in work.left
    /\ pods[p] # Down
    /\ work' = [work EXCEPT !.left = @ \ {p}, !.counts = Count(@, p, pods[p])]
    /\ UNCHANGED <<clock, pods, rates, server, cache, age, costs>>

\* The pod has gone, or does not answer: it is left out of this report.
ScrapeFails(p) ==
    /\ work.stage = "scrape"
    /\ p \in work.left
    /\ pods[p] = Down \/ "scrape" \in Faults
    /\ work' = [work EXCEPT !.left = @ \ {p}]
    /\ UNCHANGED <<clock, pods, rates, server, cache, age, costs>>

\* No pod is left, and the status is due.
Scraped == work.stage = "scrape" /\ work.left = {}

\* The status the Reconcile arrives at; a missing profile sets Ready alone.
Computed(w) ==
    IF w.stage = "missing"
    THEN [w.status EXCEPT !.ready = "CostProfileNotFound"]
    ELSE [ready |-> "ReportComputed", period |-> w.period, byModel |-> w.counts,
          cost |-> w.cost]

\* Mutants of SameContent: costs are compared too; tokens are not.
SameFields(a, b) == a.period = b.period /\ a.byModel = b.byModel /\ a.cost = b.cost
SameWorkloads(a, b) == a.period = b.period /\ Workloads(a.byModel) = Workloads(b.byModel)

\* usageReportStatusContentEqual: costs, which move with time, are not compared.
SameContent(a, b) == a.period = b.period /\ a.byModel = b.byModel

\* handleMissingCostProfile looks at Ready alone, applyStatusIfChanged at both;
\* either way the comparison is with the copy read at the beginning.
Unchanged ==
    /\ work.stage = "missing" \/ Scraped
    /\ work.status.ready = Computed(work).ready
    /\ Scraped => SameContent(work.status, Computed(work))

Changed == (work.stage = "missing" \/ Scraped) /\ ~Unchanged

\* Mutant of Proceed: nothing to write, nothing to publish.
ProceedIfChanged ==
    work' = IF Scraped /\ Changed THEN [work EXCEPT !.stage = "publish"] ELSE Idle

\* After the status: publish, unless the profile is missing.
Proceed ==
    work' = IF Scraped THEN [work EXCEPT !.stage = "publish"] ELSE Idle

SkipStatus ==
    /\ Unchanged
    /\ Proceed
    /\ UNCHANGED <<clock, pods, rates, server, cache, age, costs>>

\* The API server applies a status update only to the version it was read at.
ApplyStatus ==
    /\ Changed
    /\ work.age = "latest"
    /\ Write(work.key, [server[work.key] EXCEPT !.status = Computed(work)])
    /\ age' = [age EXCEPT ![work.key] = Older(@)]

WriteStatus ==
    /\ ApplyStatus
    /\ Proceed
    /\ UNCHANGED <<clock, pods, rates, cache, costs>>

\* A conflict or an error ends the Reconcile before it publishes.
StatusFails ==
    /\ Changed
    /\ work.age # "latest" \/ "update" \in Faults
    /\ work' = Idle
    /\ UNCHANGED <<clock, pods, rates, server, cache, age, costs>>

\* The update is applied and its answer is lost.
StatusAnswerLost ==
    /\ "lost" \in Faults
    /\ ApplyStatus
    /\ work' = Idle
    /\ UNCHANGED <<clock, pods, rates, cache, costs>>

\* SetNamespaceCosts: whatever an earlier report left is replaced.
Publish ==
    /\ work.stage = "publish"
    /\ costs' = NamespaceCosts(work.counts, work.cost)
    /\ work' = Idle
    /\ UNCHANGED <<clock, pods, rates, server, cache, age>>

Step ==
    \/ \E p \in Pods : Scrape(p) \/ ScrapeFails(p)
    \/ SkipStatus \/ WriteStatus \/ StatusFails \/ StatusAnswerLost
    \/ Publish

\* What time, traffic, the cluster and users do.
External ==
    \/ Tick
    \/ \E p \in Pods : Serve(p) \/ PodStarts(p) \/ PodStops(p)
    \/ \E c \in Profiles, rate \in Rates \cup {NoProfile} : ProfileChanges(c, rate)
    \/ \E r \in Reports :
          \/ \E spec \in SpecsOf[r] : UserCreates(r, spec) \/ UserEdits(r, spec)
          \/ UserDeletes(r)

\* What the controller does with its cache.
Controller == (\E r \in Reports : Observe(r) \/ Begin(r)) \/ Step

Next == External \/ Controller \/ Restart

Spec == Init /\ [][Next]_vars

\* The worker runs on; watches deliver; each report gets its turn in the queue;
\* an API server that answers again and again answers with success in the end.
Fairness ==
    /\ WF_vars(Step)
    /\ SF_vars(WriteStatus)
    /\ \A r \in Reports : WF_vars(Observe(r)) /\ SF_vars(Begin(r))

FairSpec == Spec /\ Fairness

-----------------------------------------------------------------------------
(* Properties *)

\* What a report shows of the work itself.
ShowSameWork(a, b) == a.period = b.period /\ a.byModel = b.byModel

\* The server never accepts a report with a namespace the user has since
\* excluded, or for a period that has not begun, however edits interleave with
\* the scraping of pods.
AttributionFollowsSpec ==
    [][\A r \in Reports :
         /\ server[r].exists
         /\ server'[r].exists
         /\ server'[r].status.byModel # server[r].status.byModel
         => /\ server'[r].spec.namespaces # {} =>
                  NamespacesOf(server'[r].status.byModel) \subseteq server'[r].spec.namespaces
            /\ server'[r].status.period <= Period(clock)]_vars

\* "the primary guard against the ... hot-loop" (applyStatusIfChanged): a report
\* is written only for work that the server's copy does not show yet, never
\* because time has passed, even when the guard looked at an outdated copy.
WritesCarryWork ==
    [][\A r \in Reports :
         /\ server[r].exists
         /\ server'[r].exists
         /\ server'[r].status # server[r].status
         => \/ server'[r].status.ready # server[r].status.ready
            \/ ~ShowSameWork(server[r].status, server'[r].status)]_vars

\* What a report of spec shows once it has seen all there is now.
Served(spec) ==
    LET seen == {p \in Pods : /\ pods[p] # Down
                              /\ spec.namespaces = {} \/ PodOf[p].namespace \in spec.namespaces}
        podsOf(w) == {p \in seen : PodOf[p] = w}
    IN  [w \in Workload |->
            IF podsOf(w) = {} THEN NotScraped
            ELSE MapThenSumSet(LAMBDA p : pods[p], podsOf(w))]

UpToDate(r) ==
    LET o == server[r]
    IN  o.exists =>
          IF rates[o.spec.profile] = NoProfile
          THEN o.status.ready = "CostProfileNotFound"
          ELSE /\ o.status.ready = "ReportComputed"
               /\ o.status.period = Period(clock)
               /\ o.status.byModel = Served(o.spec)

\* When clock, pods, profiles, specs and the manager come to rest and pods answer,
\* every report comes to show the current period and every pod's tokens, or that
\* its profile is missing, though a write may be skipped after a look at an outdated copy.
ReportsCatchUp ==
    LET inputs == <<clock, pods, rates, [r \in Reports |->
                      IF server[r].exists THEN server[r].spec ELSE Absent]>>
        answers == \A p \in Pods : ScrapeFails(p) => pods[p] = Down
    IN  <>[][UNCHANGED inputs /\ ~Restart /\ answers]_vars
        => \A r \in Reports : <>[]UpToDate(r)
=============================================================================
