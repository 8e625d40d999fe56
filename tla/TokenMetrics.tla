---------------------------- MODULE TokenMetrics ----------------------------
(***************************************************************************)
(* The scrape of the inference pods in the CostProfile controller          *)
(* (scrapeInferencePods) and what it derives from their counters: gauges   *)
(* of tokens and of token rates per model, the snapshots the rates are     *)
(* computed from, and the models and comparisons of the API store.         *)
(*                                                                         *)
(* One worker scrapes one pod at a time, for one profile after another.    *)
(* A pod answers with its counters first and the clock is read only then,  *)
(* up to AnswerDelay later.  In a tick a pod serves at most one token, the *)
(* most it can; input and output tokens are one count.                     *)
(***************************************************************************)
EXTENDS Integers, FiniteSets, FiniteSetsExt

CONSTANTS
    Pods,              \* pods with the model label, by name
    ModelOf,           \* pod -> its model (with its namespace)
    NodeOf,            \* pod -> its node
    Profiles,          \* CostProfiles
    NodesOf,           \* profile -> the nodes its nodeSelector admits
    SnapshotInterval,  \* minSnapshotInterval, in ticks
    AnswerDelay,       \* the longest time from a pod's answer to the clock reading
    Faults,            \* faults to inject: "scrape", "restart"
    MaxTokens,         \* bound: tokens a pod counts
    MaxClock           \* bound: last instant explored

Models == {ModelOf[p] : p \in Pods}
Nodes == {NodeOf[p] : p \in Pods}

ASSUME PodsAssumption == IsFiniteSet(Pods) /\ DOMAIN ModelOf = Pods /\ DOMAIN NodeOf = Pods
ASSUME ProfilesAssumption ==
    DOMAIN NodesOf = Profiles /\ \A c \in Profiles : NodesOf[c] \subseteq Nodes
ASSUME TimesAssumption ==
    SnapshotInterval \in Nat /\ AnswerDelay \in 0 .. SnapshotInterval /\ MaxClock \in Nat
ASSUME TokensAssumption == MaxTokens \in Nat
ASSUME FaultsAssumption == Faults \subseteq {"scrape", "restart"}

VARIABLES
    clock,
    pods,         \* pod -> the tokens it has served since it started, or Down
    snapshots,    \* tokenSnapshots: pod -> [at, tokens], or None
    tokens,       \* gauge: model -> its tokens, or None
    rates,        \* gauge: model -> [tokens, ticks], the tokens served in that time
    comparisons,  \* API store: the tokens compared with the cloud, or None
    models,       \* API store: models, as [pod, tokens]
    work          \* the scrape in progress, or Idle

vars == <<clock, pods, snapshots, tokens, rates, comparisons, models, work>>

Down == -1
None == [none |-> TRUE]
Snapshot == [at : Nat, tokens : Nat]
Rate == [tokens : Nat, ticks : Nat \ {0}]
ModelData == [pod : Pods, tokens : Nat]
NoAnswer == [pending |-> FALSE]
Answer == [pending : {TRUE}, pod : Pods, at : Nat, tokens : Nat]
Idle == [busy |-> FALSE]
Scraping ==
    [busy : {TRUE}, profile : Profiles, left : SUBSET Pods, answer : Answer \cup {NoAnswer},
     total : Nat, models : SUBSET ModelData]

\* Every variable holds what the declarations above say it holds.
TypeOK ==
    /\ clock \in Nat
    /\ pods \in [Pods -> Nat \cup {Down}]
    /\ snapshots \in [Pods -> Snapshot \cup {None}]
    /\ tokens \in [Models -> [tokens : Nat] \cup {None}]
    /\ rates \in [Models -> Rate \cup {None}]
    /\ comparisons \in [tokens : Nat] \cup {None}
    /\ models \subseteq ModelData
    /\ work \in Scraping \cup {Idle}

-----------------------------------------------------------------------------
Init ==
    /\ clock = 0
    /\ pods = [p \in Pods |-> Down]
    /\ snapshots = [p \in Pods |-> None]
    /\ tokens = [m \in Models |-> None]
    /\ rates = [m \in Models |-> None]
    /\ comparisons = None
    /\ models = {}
    /\ work = Idle

\* The pods.

\* Time passes, and each running pod serves at most one token.
Tick(serving) ==
    /\ clock < MaxClock
    /\ work.busy /\ work.answer.pending => clock - work.answer.at < AnswerDelay
    /\ \A p \in serving : pods[p] \in 0 .. (MaxTokens - 1)
    /\ clock' = clock + 1
    /\ pods' = [p \in Pods |-> IF p \in serving THEN pods[p] + 1 ELSE pods[p]]
    /\ UNCHANGED <<snapshots, tokens, rates, comparisons, models, work>>

\* A pod starts, or restarts or is created anew under its name: it counts from zero.
PodStarts(p) ==
    /\ pods[p] # 0
    /\ pods' = [pods EXCEPT ![p] = 0]
    /\ UNCHANGED <<clock, snapshots, tokens, rates, comparisons, models, work>>

PodStops(p) ==
    /\ pods[p] # Down
    /\ pods' = [pods EXCEPT ![p] = Down]
    /\ UNCHANGED <<clock, snapshots, tokens, rates, comparisons, models, work>>

\* The manager restarts: snapshots, gauges and store are gone.
Restart ==
    /\ "restart" \in Faults
    /\ snapshots' = [p \in Pods |-> None]
    /\ tokens' = [m \in Models |-> None]
    /\ rates' = [m \in Models |-> None]
    /\ comparisons' = None
    /\ models' = {}
    /\ work' = Idle
    /\ UNCHANGED <<clock, pods>>

-----------------------------------------------------------------------------
(* scrapeInferencePods *)

\* The pods are listed; those that run on the profile's nodes are to be scraped.
Begin(c) ==
    /\ ~work.busy
    /\ work' = [busy |-> TRUE, profile |-> c, answer |-> NoAnswer, total |-> 0,
                models |-> {},
                left |-> {p \in Pods : pods[p] # Down /\ NodeOf[p] \in NodesOf[c]}]
    /\ UNCHANGED <<clock, pods, snapshots, tokens, rates, comparisons, models>>

\* A pod reads its counters and answers.
PodAnswers(p) ==
    /\ work.busy
    /\ ~work.answer.pending
    /\ p \in work.left
    /\ pods[p] # Down
    /\ work' = [work EXCEPT !.answer = [pending |-> TRUE, pod |-> p, at |-> clock,
                                        tokens |-> pods[p]]]
    /\ UNCHANGED <<clock, pods, snapshots, tokens, rates, comparisons, models>>

\* A pod that does not answer, or whose answer is lost, is skipped.
ScrapeFails(p) ==
    /\ work.busy
    /\ p \in work.left
    /\ work.answer.pending => work.answer.pod = p
    /\ pods[p] = Down \/ "scrape" \in Faults
    /\ work' = [work EXCEPT !.left = @ \ {p}, !.answer = NoAnswer]
    /\ UNCHANGED <<clock, pods, snapshots, tokens, rates, comparisons, models>>

\* Before its rate is computed the pod is counted: in the gauge of its model,
\* which it overwrites, in the total and in the models.
Counted ==
    LET a == work.answer
    IN  /\ work.busy
        /\ a.pending
        /\ tokens' = [tokens EXCEPT ![ModelOf[a.pod]] = [tokens |-> a.tokens]]
        /\ work' = [work EXCEPT !.left = @ \ {a.pod}, !.answer = NoAnswer,
                                !.total = @ + a.tokens,
                                !.models = @ \cup {[pod |-> a.pod, tokens |-> a.tokens]}]
        /\ UNCHANGED <<clock, pods, comparisons, models>>

\* Mutant of TooSoon: no debouncing.
NeverTooSoon(p) == FALSE

\* Status writes cause a Reconcile within milliseconds: too short to divide by.
TooSoon(p) == snapshots[p] # None /\ clock - snapshots[p].at < SnapshotInterval

Debounce ==
    /\ Counted
    /\ TooSoon(work.answer.pod)
    /\ UNCHANGED <<snapshots, rates>>

TakeSnapshot ==
    LET a == work.answer
    IN  snapshots' = [snapshots EXCEPT ![a.pod] = [at |-> clock, tokens |-> a.tokens]]

FirstSnapshot ==
    /\ Counted
    /\ snapshots[work.answer.pod] = None
    /\ TakeSnapshot
    /\ UNCHANGED rates

\* Mutant of Delta: a counter that went back counts back.
SignedDelta(prev, curr) == curr.tokens - prev.tokens

\* A counter that went back has been reset.
Delta(prev, curr) ==
    IF curr.tokens < prev.tokens THEN curr.tokens ELSE curr.tokens - prev.tokens

\* ComputeTokenRate; no time elapsed is no rate.
ComputeTokenRate(prev, curr) ==
    IF curr.at <= prev.at THEN [tokens |-> 0, ticks |-> 1]
    ELSE [tokens |-> Delta(prev, curr), ticks |-> curr.at - prev.at]

PublishRate ==
    LET a == work.answer
    IN  /\ Counted
        /\ snapshots[a.pod] # None
        /\ ~TooSoon(a.pod)
        /\ TakeSnapshot
        /\ rates' = [rates EXCEPT ![ModelOf[a.pod]] =
                        ComputeTokenRate(snapshots[a.pod], [at |-> clock, tokens |-> a.tokens])]

\* Mutant of Finish: the models are added to those that are there.
FinishAppending ==
    /\ work.busy
    /\ work.left = {}
    /\ comparisons' = IF work.total > 0 THEN [tokens |-> work.total] ELSE comparisons
    /\ models' = models \cup work.models
    /\ work' = Idle
    /\ UNCHANGED <<clock, pods, snapshots, tokens, rates>>

\* Mutant of Finish: a scrape that saw no tokens publishes nothing.
FinishIfServed ==
    /\ work.busy
    /\ work.left = {}
    /\ comparisons' = IF work.total > 0 THEN [tokens |-> work.total] ELSE comparisons
    /\ models' = IF work.total > 0 THEN work.models ELSE models
    /\ work' = Idle
    /\ UNCHANGED <<clock, pods, snapshots, tokens, rates>>

\* The comparisons keep their last value where no tokens have been served.
Finish ==
    /\ work.busy
    /\ work.left = {}
    /\ comparisons' = IF work.total > 0 THEN [tokens |-> work.total] ELSE comparisons
    /\ models' = work.models
    /\ work' = Idle
    /\ UNCHANGED <<clock, pods, snapshots, tokens, rates>>

Next ==
    \/ \E serving \in SUBSET Pods : Tick(serving)
    \/ \E p \in Pods : PodStarts(p) \/ PodStops(p) \/ PodAnswers(p) \/ ScrapeFails(p)
    \/ \E c \in Profiles : Begin(c)
    \/ Debounce \/ FirstSnapshot \/ PublishRate
    \/ Finish
    \/ Restart

Spec == Init /\ [][Next]_vars

\* The steps of the one worker: what it began it goes on with.
Work ==
    \/ \E p \in Pods : PodAnswers(p) \/ ScrapeFails(p)
    \/ Debounce \/ FirstSnapshot \/ PublishRate
    \/ Finish

\* The worker goes on; every profile is reconciled again every 30 s, in the order of
\* a queue, so that each gets its turn though the worker is busy in between.
FairSpec == Spec /\ WF_vars(Work) /\ \A c \in Profiles : SF_vars(Begin(c))

-----------------------------------------------------------------------------
(* Properties *)

\* A published rate is at most twice the fastest a pod can serve, though a counter
\* is older than the instant it is filed under, pods restart, lose their counters
\* and return, and several profiles share the snapshots: the debounce keeps the
\* time divided by from being shorter than the delay that blurs it.
RateIsPlausible ==
    \A m \in Models : rates[m] # None => rates[m].tokens <= 2 * rates[m].ticks

\* The tokens of models.
TokensIn == [d \in ModelData |-> d.tokens]
TokensOf(data) == MapThenSumSet(LAMBDA d : TokensIn[d], data)

\* The API store has one table of models and one of comparisons, and profiles whose
\* nodes differ replace each other's: as long as models with tokens are listed, it
\* is those that are compared with the cloud.
ModelsAreCompared == TokensOf(models) > 0 => comparisons = [tokens |-> TokensOf(models)]

\* A pod that stays up and keeps answering is listed again and again, also before it
\* has served anything, though other profiles replace the list by one without it.
PodsAreListed ==
    \A p \in Pods :
        /\ \E c \in Profiles : NodeOf[p] \in NodesOf[c]
        /\ <>[](pods[p] # Down)
        /\ <>[][~ScrapeFails(p) /\ ~Restart]_vars
        => []<>(\E d \in models : d.pod = p)

\* "TokensTotal tracks cumulative token counts per model" (metrics.go:99): when a
\* profile's pods have been scraped, the gauge of a model has the sum of theirs.
TokensAreTotal ==
    work.busy /\ work.left = {} =>
        \A m \in Models :
            LET scraped == {d \in work.models : ModelOf[d.pod] = m}
            IN  scraped # {} =>
                  tokens[m].tokens >= TokensOf(scraped)
=============================================================================
