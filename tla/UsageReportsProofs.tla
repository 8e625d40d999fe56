------------------------- MODULE UsageReportsProofs -------------------------
(***************************************************************************)
(* What TLAPS proves of UsageReports, for every set of reports, pods and   *)
(* specs.  A Reconcile whose copy is still the latest holds the status and *)
(* spec of the server, so the guard that skips a write and the filter that *)
(* selects pods were evaluated on what the accepted update replaces.       *)
(***************************************************************************)
EXTENDS UsageReports, FiniteSums, TLAPS

-----------------------------------------------------------------------------
(* What the operators return *)

\* The field "exists" tells an object from its absence.
LEMMA ObjectExists ==
    ASSUME NEW o \in Object \cup {Absent}
    PROVE  o.exists <=> o \in Object
<1>1. ASSUME o \in Object
      PROVE  o.exists
  <2>1. o.exists = TRUE
    BY <1>1 DEF Object
  <2> QED BY <2>1
<1>2. ASSUME o = Absent
      PROVE  ~o.exists
  <2>1. o.exists = FALSE
    BY <1>2 DEF Absent
  <2> QED BY <2>1
<1> QED
  BY <1>1, <1>2

\* Periods and their hours are natural numbers.
LEMMA PeriodType ==
    ASSUME NEW now \in Nat
    PROVE  /\ Period(now) \in Nat
           /\ HoursInPeriod(now) \in Nat
           /\ Period(now) <= Period(now + 1)
<1>1. PeriodLength \in Nat /\ PeriodLength > 0
  BY TimesAssumption
<1>2. \A n \in Nat : n \div PeriodLength \in Nat /\ n % PeriodLength \in Nat
  BY <1>1
<1>3. now \div PeriodLength <= (now + 1) \div PeriodLength
  <2> DEFINE q == now \div PeriodLength
             s == (now + 1) \div PeriodLength
  <2>1. q \in Nat /\ s \in Nat
    BY <1>2
  <2>2. PeriodLength * q <= now
    BY <1>1
  <2>3. now + 1 < PeriodLength * (s + 1)
    BY <1>1
  <2> HIDE DEF q, s
  <2>4. PeriodLength * q < PeriodLength * (s + 1)
    BY <2>1, <2>2, <2>3, <1>1
  <2>5. q < s + 1
    BY <2>1, <2>4, <1>1
  <2>6. q <= s
    BY <2>1, <2>5
  <2> QED
    BY <2>6 DEF q, s
<1> QED
  BY <1>2, <1>3 DEF Period, HoursInPeriod

\* Adding a pod keeps the counters of a report.
LEMMA CountType ==
    ASSUME NEW counts \in Counts, NEW p \in Pods, NEW tokens \in Nat
    PROVE  /\ Count(counts, p, tokens) \in Counts
           /\ \A w \in Workload :
                 w # PodOf[p] => Count(counts, p, tokens)[w] = counts[w]
<1>1. PodOf[p] \in Workload
  BY PodsAssumption
<1> QED
  BY <1>1 DEF Count, Counts, NotScraped

\* There are finitely many pairs of a model and a namespace.
LEMMA WorkloadFinite == IsFiniteSet(Workload)
<1> DEFINE pair == [p \in Models \X Namespaces |-> [model |-> p[1], namespace |-> p[2]]]
           pairs == Models \X Namespaces
<1>1. IsFiniteSet(pairs)
  BY SetsAssumption, FS_Product
<1>2. Workload = {pair[p] : p \in pairs}
  <2>1. ASSUME NEW w \in Workload
        PROVE  w \in {pair[p] : p \in pairs}
    <3>1. <<w.model, w.namespace>> \in pairs /\ pair[<<w.model, w.namespace>>] = w
      BY DEF Workload
    <3> QED BY <3>1
  <2>2. ASSUME NEW p \in pairs
        PROVE  pair[p] \in Workload
    BY DEF Workload
  <2> HIDE DEF pair, pairs
  <2> QED BY <2>1, <2>2
<1> HIDE DEF pair, pairs
<1> QED BY <1>1, <1>2, FiniteImage

\* The tokens of a set of workloads that were scraped are a natural number.
LEMMA TokensType ==
    ASSUME NEW counts \in Counts, NEW W \in SUBSET Workloads(counts)
    PROVE  TokensOf(counts, W) \in Nat
<1>1. W \in SUBSET Workload
  BY DEF Workloads
<1>2. IsFiniteSet(W)
  BY <1>1, WorkloadFinite, FS_Subset
<1>3. \A w \in W : counts[w] \in Nat
  BY DEF Counts, Workloads, NotScraped
<1>4. SumOf(counts, W) \in Nat
  BY <1>2, <1>3, SumNat
<1> QED BY <1>4 DEF SumOf, TokensOf

\* The costs a report publishes are natural numbers, for namespaces.
LEMMA NamespaceCostsType ==
    ASSUME NEW counts \in Counts, NEW cost \in Nat
    PROVE  /\ DOMAIN NamespaceCosts(counts, cost) \subseteq Namespaces
           /\ \A ns \in DOMAIN NamespaceCosts(counts, cost) :
                 NamespaceCosts(counts, cost)[ns] \in Nat
<1> DEFINE total == TokensOf(counts, Workloads(counts))
           tokens(ns) == TokensOf(counts, {w \in Workloads(counts) : w.namespace = ns})
<1>1. NamespaceCosts(counts, cost)
        = [ns \in NamespacesOf(counts) |-> Share(cost, tokens(ns), total)]
  BY DEF NamespaceCosts
<1>2. NamespacesOf(counts) \subseteq Namespaces
  BY DEF NamespacesOf, Workloads, Workload
<1>3. total \in Nat
  BY TokensType
<1>4. \A ns : tokens(ns) \in Nat
  BY TokensType
<1>5. \A t \in Nat : Share(cost, t, total) \in Nat
  <2> HIDE DEF total
  <2>1. ASSUME NEW t \in Nat, total > 0
        PROVE  (cost * t) \div total \in Nat
    <3>1. cost * t \in Nat
      OBVIOUS
    <3> QED BY <1>3, <2>1, <3>1, Quotient
  <2> QED BY <2>1 DEF Share
<1> HIDE DEF total, tokens
<1> QED BY <1>1, <1>2, <1>4, <1>5

-----------------------------------------------------------------------------
(* The inductive invariant *)

\* The types of all variables but the costs, which no step before Publish reads.
Types ==
    /\ clock \in Nat
    /\ pods \in [Pods -> Nat \cup {Down}]
    /\ rates \in [Profiles -> Rates \cup {NoProfile}]
    /\ server \in [Reports -> Object \cup {Absent}]
    /\ cache \in [Reports -> Object \cup {Absent}]
    /\ age \in [Reports -> Age]
    /\ work \in Reconcile \cup {Idle}

CopiesAgree ==
    \A r \in Reports : age[r] = "latest" => cache[r] = server[r]

WorkAgrees ==
    work # Idle /\ work.age = "latest" =>
        /\ server[work.key].exists
        /\ server[work.key].spec = work.spec
        /\ work.stage # "publish" => server[work.key].status = work.status

\* The filter of work's spec lets every pod through that is left or counted.
Selected(p) ==
    work.spec.namespaces # {} => PodOf[p].namespace \in work.spec.namespaces

FilterHeld ==
    work # Idle =>
        /\ \A p \in work.left : Selected(p)
        /\ \A w \in Workload :
              work.counts[w] # NotScraped /\ work.spec.namespaces # {} =>
                  w.namespace \in work.spec.namespaces
        /\ work.period <= Period(clock)

Coherent == Types /\ CopiesAgree /\ WorkAgrees /\ FilterHeld

\* The stage tells a Reconcile in progress from none.
LEMMA IdleOrNot ==
    ASSUME Types
    PROVE  work # Idle <=> work \in Reconcile
BY DEF Types, Idle, Reconcile

\* The status of a report never reconciled is a status.
LEMMA ZeroStatusType == ZeroStatus \in Status
BY DEF ZeroStatus, Status, NoCounts, Counts, NotScraped

\* The initial state is coherent.
LEMMA InitCoherent ==
    ASSUME Init
    PROVE  Coherent
<1>1. Types
  BY TimesAssumption DEF Init, Types, Age
<1>2. CopiesAgree /\ WorkAgrees /\ FilterHeld
  BY DEF Init, CopiesAgree, WorkAgrees, FilterHeld, Idle
<1> QED
  BY <1>1, <1>2 DEF Coherent

\* Time passes, pods serve, start and stop, profiles change.
LEMMA SurroundingsCoherent ==
    ASSUME Coherent,
           \/ Tick
           \/ \E p \in Pods : Serve(p) \/ PodStarts(p) \/ PodStops(p)
           \/ \E c \in Profiles, rate \in Rates \cup {NoProfile} : ProfileChanges(c, rate)
    PROVE  Coherent'
<1> USE DEF Coherent
<1>1. UNCHANGED <<server, cache, age, work>>
  BY DEF Tick, Serve, PodStarts, PodStops, ProfileChanges
<1>2. Types'
  <2>1. CASE Tick
    BY <2>1 DEF Tick, Types
  <2>2. CASE \E p \in Pods : Serve(p) \/ PodStarts(p) \/ PodStops(p)
    <3>1. ASSUME NEW p \in Pods, Serve(p) \/ PodStarts(p) \/ PodStops(p)
          PROVE  pods' \in [Pods -> Nat \cup {Down}] /\ UNCHANGED <<clock, rates>>
      BY <3>1 DEF Serve, PodStarts, PodStops, Types, Down
    <3> QED
      BY <2>2, <3>1, <1>1 DEF Types
  <2>3. CASE \E c \in Profiles, rate \in Rates \cup {NoProfile} : ProfileChanges(c, rate)
    BY <2>3, <1>1 DEF ProfileChanges, Types
  <2> QED
    BY <2>1, <2>2, <2>3
<1>3. Period(clock) \in Nat /\ Period(clock') \in Nat /\ Period(clock) <= Period(clock')
  <2>1. clock' \in {clock, clock + 1}
    BY DEF Tick, Serve, PodStarts, PodStops, ProfileChanges
  <2> QED
    BY <2>1, PeriodType DEF Types
<1>4. work # Idle => work.period \in Nat
  BY IdleOrNot DEF Reconcile
<1>5. CopiesAgree' /\ WorkAgrees'
  BY <1>1 DEF CopiesAgree, WorkAgrees
<1>6. FilterHeld'
  BY <1>1, <1>3, <1>4 DEF FilterHeld, Selected
<1> QED
  BY <1>2, <1>5, <1>6

\* A creation keeps coherence: copies of the absence age.
LEMMA UserCreatesCoherent ==
    ASSUME Coherent, NEW r \in Reports, NEW spec \in SpecsOf[r], UserCreates(r, spec)
    PROVE  Coherent'
<1> USE DEF Coherent
<1>1. [exists |-> TRUE, spec |-> spec, status |-> ZeroStatus] \in Object
  BY ZeroStatusType, SpecsAssumption DEF Object
<1>2. Types'
  BY <1>1 DEF Types, UserCreates, Write, Older, Age
<1>3. CopiesAgree'
  BY DEF CopiesAgree, Types, UserCreates, Write, Older
<1>4. WorkAgrees'
  BY DEF WorkAgrees, Types, UserCreates, Write
<1>5. FilterHeld'
  BY DEF FilterHeld, Selected, UserCreates
<1> QED
  BY <1>2, <1>3, <1>4, <1>5

\* An edit keeps coherence: every copy ages.
LEMMA UserEditsCoherent ==
    ASSUME Coherent, NEW r \in Reports, NEW spec \in SpecsOf[r], UserEdits(r, spec)
    PROVE  Coherent'
<1> USE DEF Coherent
<1>1. server[r] \in Object /\ [server[r] EXCEPT !.spec = spec] \in Object
  <2>1. server[r] \in Object
    BY ObjectExists DEF UserEdits, Types
  <2>2. spec \in ReportSpec
    BY SpecsAssumption
  <2> QED BY <2>1, <2>2 DEF Object
<1>2. /\ age' \in [Reports -> Age]
      /\ work' \in Reconcile \cup {Idle}
  BY DEF UserEdits, Types, CopiesAge, Older, Age, Reconcile, Idle
<1>3. Types'
  BY <1>1, <1>2 DEF Types, UserEdits, Write
<1>4. CopiesAgree'
  BY DEF CopiesAgree, Types, UserEdits, Write, CopiesAge, Older
<1>5. WorkAgrees'
  BY IdleOrNot DEF WorkAgrees, Types, UserEdits, Write, CopiesAge, Older, Reconcile, Idle
<1>6. FilterHeld'
  BY IdleOrNot DEF FilterHeld, Selected, Types, UserEdits, CopiesAge, Reconcile, Idle
<1> QED
  BY <1>3, <1>4, <1>5, <1>6

\* A deletion keeps coherence: every copy is gone.
LEMMA UserDeletesCoherent ==
    ASSUME Coherent, NEW r \in Reports, UserDeletes(r)
    PROVE  Coherent'
<1> USE DEF Coherent
<1>1. /\ age' \in [Reports -> Age]
      /\ work' \in Reconcile \cup {Idle}
  BY DEF UserDeletes, Types, CopiesAge, Age, Reconcile, Idle
<1>2. Types'
  BY <1>1 DEF Types, UserDeletes, Write
<1>3. CopiesAgree'
  BY DEF CopiesAgree, Types, UserDeletes, Write, CopiesAge
<1>4. WorkAgrees'
  BY DEF WorkAgrees, Types, UserDeletes, Write, CopiesAge, Reconcile, Idle
<1>5. FilterHeld'
  BY IdleOrNot DEF FilterHeld, Selected, Types, UserDeletes, CopiesAge, Reconcile, Idle
<1> QED
  BY <1>2, <1>3, <1>4, <1>5

\* A cached copy brought up to date agrees with the server.
LEMMA CacheCoherent ==
    ASSUME Coherent, Restart \/ \E r \in Reports : Observe(r)
    PROVE  Coherent'
<1> USE DEF Coherent, CopiesAgree, WorkAgrees, FilterHeld, Selected
<1>1. CASE Restart
  BY <1>1 DEF Restart, Types, Age, Idle
<1>2. CASE \E r \in Reports : Observe(r)
  BY <1>2 DEF Observe, Types, Age
<1> QED
  BY <1>1, <1>2

\* A Reconcile that begins agrees with the cache it read.
LEMMA BeginCoherent ==
    ASSUME Coherent, NEW r \in Reports, Begin(r)
    PROVE  Coherent'
<1> USE DEF Coherent
<1> DEFINE o == cache[r]
           rate == rates[o.spec.profile]
           found == rate # NoProfile
<1>1. o \in Object /\ o.spec \in ReportSpec /\ o.status \in Status /\ age[r] \in Age
  <2>1. o \in Object
    BY ObjectExists DEF Begin, Types
  <2> QED BY <2>1 DEF Object, Types
<1>2. found => rate \in Nat
  BY <1>1, RatesAssumption DEF Types, ReportSpec
<1>3. found => rate * HoursInPeriod(clock) \in Nat
  <2>1. HoursInPeriod(clock) \in Nat
    BY PeriodType DEF Types
  <2> HIDE DEF rate, found
  <2> QED BY <1>2, <2>1
<1>4. Period(clock) \in Nat
  BY PeriodType DEF Types
<1>5. Scrapeable(o.spec) \in SUBSET Pods /\ NoCounts \in Counts
  BY DEF Scrapeable, NoCounts, Counts, NotScraped
<1>6. /\ work' = [stage |-> IF found THEN "scrape" ELSE "missing", key |-> r,
                  spec |-> o.spec, status |-> o.status, age |-> age[r],
                  period |-> Period(clock),
                  cost |-> IF found THEN rate * HoursInPeriod(clock) ELSE 0,
                  left |-> IF found THEN Scrapeable(o.spec) ELSE {},
                  counts |-> NoCounts]
      /\ o.exists
      /\ UNCHANGED <<clock, pods, rates, server, cache, age, costs>>
  BY DEF Begin
<1>7. work' \in Reconcile
  <2> HIDE DEF o, rate, found
  <2> QED BY <1>1, <1>3, <1>4, <1>5, <1>6 DEF Reconcile
<1>8. Types'
  BY <1>6, <1>7 DEF Types
<1>9. CopiesAgree' /\ WorkAgrees'
  BY <1>6 DEF CopiesAgree, WorkAgrees
<1>10. FilterHeld'
  <2>1. \A p \in Scrapeable(o.spec) :
            o.spec.namespaces # {} => PodOf[p].namespace \in o.spec.namespaces
    BY DEF Scrapeable
  <2>2. \A w \in Workload : NoCounts[w] = NotScraped
    BY DEF NoCounts
  <2> HIDE DEF o, rate, found
  <2> QED BY <1>4, <1>6, <2>1, <2>2 DEF FilterHeld, Selected
<1> QED
  BY <1>8, <1>9, <1>10

\* A scraped pod is one the filter selects.
LEMMA ScrapeCoherent ==
    ASSUME Coherent, NEW p \in Pods, Scrape(p) \/ ScrapeFails(p)
    PROVE  Coherent'
<1> USE DEF Coherent
<1>1. work \in Reconcile /\ work # Idle /\ p \in work.left
  BY DEF Scrape, ScrapeFails, Types, Reconcile, Idle
<1>2. PodOf[p] \in Workload /\ Selected(p)
  BY <1>1, PodsAssumption DEF FilterHeld
<1>3. CASE Scrape(p)
  <2> DEFINE counts == Count(work.counts, p, pods[p])
  <2>1. pods[p] \in Nat
    BY <1>3 DEF Scrape, Types
  <2>2. /\ counts \in Counts
        /\ \A w \in Workload : w # PodOf[p] => counts[w] = work.counts[w]
    BY <1>1, <2>1, CountType DEF Reconcile
  <2>3. /\ work' = [work EXCEPT !.left = @ \ {p}, !.counts = counts]
        /\ UNCHANGED <<clock, pods, rates, server, cache, age>>
    BY <1>3 DEF Scrape
  <2> HIDE DEF counts
  <2>4. Types'
    BY <1>1, <2>2, <2>3 DEF Types, Reconcile
  <2>5. CopiesAgree' /\ WorkAgrees'
    BY <1>1, <2>3 DEF CopiesAgree, WorkAgrees, Reconcile
  <2>6. /\ work'.left = work.left \ {p}
        /\ work'.counts = counts
        /\ work'.spec = work.spec
        /\ work'.period = work.period
    BY <1>1, <2>3 DEF Reconcile
  <2>7. FilterHeld'
    BY <1>1, <1>2, <2>2, <2>3, <2>6 DEF FilterHeld, Selected
  <2> QED
    BY <2>4, <2>5, <2>7
<1>4. CASE ScrapeFails(p)
  <2>1. /\ work' = [work EXCEPT !.left = @ \ {p}]
        /\ UNCHANGED <<clock, pods, rates, server, cache, age>>
    BY <1>4 DEF ScrapeFails
  <2>2. Types'
    BY <1>1, <2>1 DEF Types, Reconcile
  <2>3. CopiesAgree' /\ WorkAgrees' /\ FilterHeld'
    BY <1>1, <2>1 DEF CopiesAgree, WorkAgrees, FilterHeld, Selected, Reconcile
  <2> QED
    BY <2>2, <2>3
<1> QED
  BY <1>3, <1>4

\* What the steps after the scraping keep of the Reconcile under way.
LEMMA ProceedCoherent ==
    ASSUME Coherent, work # Idle,
           \/ work' = Idle
           \/ work' = [work EXCEPT !.stage = "publish"]
    PROVE  /\ work' \in Reconcile \cup {Idle}
           /\ work' # Idle => /\ work'.key = work.key
                              /\ work'.spec = work.spec
                              /\ work'.status = work.status
                              /\ work'.stage = "publish"
                              /\ work'.age = work.age
                              /\ work'.left = work.left
                              /\ work'.counts = work.counts
                              /\ work'.period = work.period
BY IdleOrNot DEF Coherent, Reconcile

\* Steps of a Reconcile that touch no object keep coherence.
LEMMA QuietStepCoherent ==
    ASSUME Coherent, SkipStatus \/ StatusFails \/ Publish
    PROVE  Coherent'
<1> USE DEF Coherent
<1>1. work # Idle
  BY DEF Scraped, SkipStatus, Unchanged, StatusFails, Changed, Publish, Idle
<1>2. \/ work' = Idle
      \/ work' = [work EXCEPT !.stage = "publish"]
  BY DEF SkipStatus, StatusFails, Publish, Proceed
<1>3. UNCHANGED <<clock, pods, rates, server, cache, age>>
  BY DEF SkipStatus, StatusFails, Publish
<1>4. Types'
  BY <1>1, <1>2, <1>3, ProceedCoherent DEF Types
<1>5. CopiesAgree' /\ WorkAgrees' /\ FilterHeld'
  BY <1>1, <1>2, <1>3, ProceedCoherent DEF CopiesAgree, WorkAgrees, FilterHeld, Selected
<1> QED
  BY <1>4, <1>5

\* What an accepted update finds and leaves.
LEMMA ApplyStatusFacts ==
    ASSUME Coherent, ApplyStatus
    PROVE  /\ work \in Reconcile /\ work # Idle /\ work.key \in Reports
           /\ server[work.key] \in Object
           /\ server[work.key].spec = work.spec
           /\ server[work.key].status = work.status
           /\ Computed(work) \in Status
           /\ server' = [server EXCEPT ![work.key] = [@ EXCEPT !.status = Computed(work)]]
<1> USE DEF Coherent
<1>1. work \in Reconcile /\ work # Idle /\ work.key \in Reports
  BY DEF ApplyStatus, Changed, Scraped, Types, Reconcile, Idle
<1>2. /\ server[work.key].exists
      /\ server[work.key].spec = work.spec
      /\ server[work.key].status = work.status
  BY <1>1 DEF ApplyStatus, Changed, Scraped, WorkAgrees
<1>3. server[work.key] \in Object
  BY <1>1, <1>2, ObjectExists DEF Types
<1>4. Computed(work) \in Status
  <2>1. work.status \in Status /\ work.period \in Nat /\ work.counts \in Counts
        /\ work.cost \in Nat
    BY <1>1 DEF Reconcile
  <2> QED BY <2>1 DEF Computed, Status
<1>5. server' = [server EXCEPT ![work.key] = [@ EXCEPT !.status = Computed(work)]]
  BY DEF ApplyStatus, Write
<1> QED
  BY <1>1, <1>2, <1>3, <1>4, <1>5

\* An applied status update ends the agreement of every cached copy.
LEMMA AppliedCoherent ==
    ASSUME Coherent, WriteStatus \/ StatusAnswerLost
    PROVE  Coherent'
<1> USE DEF Coherent
<1>1. ApplyStatus /\ UNCHANGED <<clock, pods, rates, cache>>
  BY DEF WriteStatus, StatusAnswerLost
<1>2. /\ work \in Reconcile /\ work # Idle /\ work.key \in Reports
      /\ server[work.key] \in Object
      /\ Computed(work) \in Status
      /\ server' = [server EXCEPT ![work.key] = [@ EXCEPT !.status = Computed(work)]]
  BY <1>1, ApplyStatusFacts
<1>3. [server[work.key] EXCEPT !.status = Computed(work)] \in Object
  BY <1>2 DEF Object
<1>4. /\ age' = [age EXCEPT ![work.key] = Older(@)]
      /\ \A a \in Age : Older(a) \in Age /\ Older(a) # "latest"
  BY <1>1 DEF ApplyStatus, Older, Age
<1>5. \/ work' = Idle
      \/ work' = [work EXCEPT !.stage = "publish"]
  BY DEF WriteStatus, StatusAnswerLost, Proceed
<1>6. /\ work' \in Reconcile \cup {Idle}
      /\ work' # Idle => /\ work'.key = work.key
                         /\ work'.spec = work.spec
                         /\ work'.age = work.age
                         /\ work'.left = work.left
                         /\ work'.counts = work.counts
                         /\ work'.period = work.period
  BY <1>2, <1>5, ProceedCoherent
<1>7. Types'
  BY <1>1, <1>2, <1>3, <1>4, <1>6 DEF Types
<1>8. CopiesAgree'
  <2> SUFFICES ASSUME NEW r \in Reports, age'[r] = "latest"
               PROVE  cache'[r] = server'[r]
    BY DEF CopiesAgree
  <2>1. r # work.key
    BY <1>2, <1>4 DEF Types
  <2> QED
    BY <1>1, <1>2, <1>4, <2>1 DEF CopiesAgree, Types
<1>9. WorkAgrees'
  <2> SUFFICES ASSUME work' # Idle
               PROVE  /\ server'[work'.key].exists
                      /\ server'[work'.key].spec = work'.spec
                      /\ work'.stage = "publish"
    BY DEF WorkAgrees
  <2>1. work'.key = work.key /\ work'.spec = work.spec
    BY <1>6
  <2>2. work'.stage = "publish"
    BY <1>2, <1>5 DEF Reconcile
  <2>3. server'[work.key] = [server[work.key] EXCEPT !.status = Computed(work)]
    BY <1>2 DEF Types
  <2>4. server'[work.key] \in Object /\ server'[work.key].spec = server[work.key].spec
    BY <1>2, <1>3, <2>3 DEF Object
  <2>5. server'[work.key].exists
    BY <2>4, ObjectExists
  <2>6. server[work.key].spec = work.spec
    BY <1>1, ApplyStatusFacts
  <2> QED
    BY <2>1, <2>2, <2>4, <2>5, <2>6
<1>10. FilterHeld'
  BY <1>1, <1>2, <1>6 DEF FilterHeld, Selected
<1> QED
  BY <1>7, <1>8, <1>9, <1>10

\* Every step keeps coherence.
LEMMA StepCoherent ==
    ASSUME Coherent, [Next]_vars
    PROVE  Coherent'
<1>1. CASE UNCHANGED vars
  BY <1>1 DEF vars, Coherent, Types, CopiesAgree, WorkAgrees, FilterHeld, Selected
<1>2. CASE Next
  BY <1>2, SurroundingsCoherent, UserCreatesCoherent, UserEditsCoherent, UserDeletesCoherent,
     CacheCoherent, BeginCoherent, ScrapeCoherent, QuietStepCoherent, AppliedCoherent
     DEF Next, External, Controller, Step
<1> QED
  BY <1>1, <1>2

-----------------------------------------------------------------------------
(* The theorems *)

\* In every behaviour a copy marked latest agrees with the server, and what a
\* Reconcile has counted lies within the filter and the period it read.
THEOREM AlwaysCoherent == Spec => []Coherent
<1>1. Init => Coherent
  BY InitCoherent
<1>2. Coherent /\ [Next]_vars => Coherent'
  BY StepCoherent
<1> QED
  BY <1>1, <1>2, PTL DEF Spec

\* A cached spec is one that the server holds or that was cached before, and the spec of
\* a Reconcile is the one it has or a cached one.
LEMMA SpecsAreCopied ==
    ASSUME Coherent, [Next]_vars
    PROVE  /\ \A r \in Reports : cache'[r] = cache[r] \/ cache'[r] = server[r]
           /\ work' # Idle => \/ work # Idle /\ work'.spec = work.spec
                             \/ \E r \in Reports : /\ cache[r].exists
                                                  /\ work'.spec = cache[r].spec
<1> USE DEF Coherent, Types
<1>1. ASSUME NEW r \in Reports, NEW spec \in SpecsOf[r], UserEdits(r, spec)
      PROVE  work' # Idle => work # Idle /\ work'.spec = work.spec
  BY <1>1, IdleOrNot DEF UserEdits, CopiesAge, Reconcile
<1>2. ASSUME NEW r \in Reports, UserDeletes(r)
      PROVE  work' # Idle => work # Idle /\ work'.spec = work.spec
  BY <1>2, IdleOrNot DEF UserDeletes, CopiesAge, Reconcile
<1>3. CASE Step
  <2>1. work # Idle
    <3>1. work.stage # "idle"
      BY <1>3 DEF Step, Scrape, ScrapeFails, SkipStatus, WriteStatus, StatusFails,
                  StatusAnswerLost, ApplyStatus, Changed, Unchanged, Scraped, Publish
    <3> QED BY <3>1 DEF Idle
  <2> QED
    BY <1>3, <2>1, IdleOrNot
       DEF Step, Scrape, ScrapeFails, SkipStatus, WriteStatus, StatusFails,
           StatusAnswerLost, Proceed, Publish, Reconcile
<1>4. ASSUME NEW r \in Reports, Begin(r)
      PROVE  cache[r].exists /\ work'.spec = cache[r].spec
  BY <1>4 DEF Begin
<1>5. ASSUME NEW r \in Reports, Observe(r)
      PROVE  \A q \in Reports : cache'[q] = cache[q] \/ cache'[q] = server[q]
  BY <1>5 DEF Observe
<1>6. CASE UNCHANGED cache
  <2>1. CASE UNCHANGED work
    BY <1>6, <2>1
  <2> QED
    BY <1>1, <1>2, <1>3, <1>4, <1>6, <2>1
       DEF Next, External, Controller, vars, Tick, Serve, PodStarts, PodStops,
           ProfileChanges, UserCreates, Observe, Restart
<1>7. CASE Restart
  BY <1>7 DEF Restart
<1>8. CASE \E r \in Reports : Observe(r)
  BY <1>5, <1>8 DEF Observe
<1> QED
  BY <1>6, <1>7, <1>8
     DEF Next, External, Controller, Step, vars, Tick, Serve, PodStarts, PodStops,
         ProfileChanges, UserCreates, UserEdits, UserDeletes, Begin, Scrape, ScrapeFails,
         SkipStatus, WriteStatus, StatusFails, StatusAnswerLost, Publish

\* What the API store holds of namespaces is a cost of each.
CostsTyped == DOMAIN costs \subseteq Namespaces /\ \A ns \in DOMAIN costs : costs[ns] \in Nat

\* Every step leaves the costs typed: only Publish sets them.
LEMMA StepCostsTyped ==
    ASSUME Coherent, CostsTyped, [Next]_vars
    PROVE  CostsTyped'
<1>1. CASE Publish
  <2>1. work \in Reconcile
    BY <1>1, IdleOrNot DEF Publish, Idle, Coherent
  <2>2. work.counts \in Counts /\ work.cost \in Nat
    BY <2>1 DEF Reconcile
  <2>3. costs' = NamespaceCosts(work.counts, work.cost)
    BY <1>1 DEF Publish
  <2> QED BY <2>2, <2>3, NamespaceCostsType DEF CostsTyped
<1>2. CASE Restart
  BY <1>2 DEF Restart, CostsTyped
<1>3. CASE UNCHANGED costs
  BY <1>3 DEF CostsTyped
<1> QED
  BY <1>1, <1>2, <1>3
     DEF Next, External, Controller, Step, vars, Tick, Serve, PodStarts, PodStops,
         ProfileChanges, UserCreates, UserEdits, UserDeletes, Observe, Begin, Scrape,
         ScrapeFails, SkipStatus, WriteStatus, StatusFails, StatusAnswerLost

\* In every behaviour every variable keeps its type: whatever was counted, a
\* namespace's share of a cost is a natural number.
THEOREM TypeCorrect == Spec => []TypeOK
<1>1. Init => CostsTyped
  BY DEF Init, CostsTyped
<1>2. Coherent /\ CostsTyped /\ [Next]_vars => CostsTyped'
  BY StepCostsTyped
<1>3. Coherent /\ CostsTyped => TypeOK
  BY DEF Coherent, Types, CostsTyped, TypeOK
<1> QED
  BY <1>1, <1>2, <1>3, AlwaysCoherent, PTL DEF Spec

\* Only an accepted update changes the status of a report that stays.
LEMMA StatusChanges ==
    ASSUME Coherent, [Next]_vars,
           NEW r \in Reports,
           server[r].exists, server'[r].exists, server'[r].status # server[r].status
    PROVE  /\ ApplyStatus /\ UNCHANGED clock
           /\ r = work.key
           /\ server'[r].status = Computed(work)
           /\ server'[r].spec = work.spec
           /\ server[r].status = work.status
<1> USE DEF Coherent
<1>1. ASSUME ApplyStatus, UNCHANGED clock
      PROVE  /\ r = work.key
             /\ server'[r].status = Computed(work)
             /\ server'[r].spec = work.spec
             /\ server[r].status = work.status
  <2>1. /\ work.key \in Reports
        /\ server[work.key] \in Object
        /\ server[work.key].spec = work.spec
        /\ server[work.key].status = work.status
        /\ server' = [server EXCEPT ![work.key] = [@ EXCEPT !.status = Computed(work)]]
    BY <1>1, ApplyStatusFacts
  <2>2. r = work.key
    BY <2>1 DEF Types
  <2>3. server'[r] = [server[r] EXCEPT !.status = Computed(work)]
    BY <2>1, <2>2 DEF Types
  <2> QED
    BY <2>1, <2>2, <2>3 DEF Object
<1>2. ASSUME NEW c \in Reports, NEW spec \in SpecsOf[c], UserEdits(c, spec)
      PROVE  FALSE
  <2>1. server[c] \in Object
    BY <1>2, ObjectExists DEF UserEdits, Types
  <2> QED
    BY <1>2, <2>1 DEF UserEdits, Write, Types, Object
<1>3. ASSUME NEW c \in Reports, NEW spec \in SpecsOf[c], UserCreates(c, spec)
      PROVE  FALSE
  BY <1>3 DEF UserCreates, Write, Types
<1>4. ASSUME NEW c \in Reports, UserDeletes(c)
      PROVE  FALSE
  <2>1. Absent.exists = FALSE
    BY DEF Absent
  <2> QED
    BY <1>4, <2>1 DEF UserDeletes, Write, Types
<1>5. server' # server
  OBVIOUS
<1>6. ApplyStatus /\ UNCHANGED clock
  BY <1>2, <1>3, <1>4, <1>5
     DEF Next, External, Controller, Step, vars, Tick, Serve, PodStarts, PodStops,
         ProfileChanges, Observe, Restart, Begin, Scrape, ScrapeFails, SkipStatus, WriteStatus, StatusFails,
         StatusAnswerLost, Publish
<1> QED
  BY <1>1, <1>6

\* Every step that changes a status carries work.
LEMMA StepCarriesWork ==
    ASSUME Coherent, [Next]_vars,
           NEW r \in Reports,
           server[r].exists, server'[r].exists, server'[r].status # server[r].status
    PROVE  \/ server'[r].status.ready # server[r].status.ready
           \/ ~ShowSameWork(server[r].status, server'[r].status)
<1>1. /\ ApplyStatus
      /\ server'[r].status = Computed(work)
      /\ server[r].status = work.status
  BY StatusChanges
<1>2. \/ work.status.ready # Computed(work).ready
      \/ ~SameContent(work.status, Computed(work))
  BY <1>1 DEF ApplyStatus, Changed, Unchanged
<1> QED
  BY <1>1, <1>2 DEF SameContent, ShowSameWork

\* A cluster at rest causes no write: whatever the cache lag, the server accepts
\* only updates that change readiness, the period or somebody's tokens.
THEOREM AlwaysWritesCarryWork == Spec => WritesCarryWork
<1>1. Coherent /\ [Next]_vars =>
        [\A r \in Reports :
           /\ server[r].exists
           /\ server'[r].exists
           /\ server'[r].status # server[r].status
           => \/ server'[r].status.ready # server[r].status.ready
              \/ ~ShowSameWork(server[r].status, server'[r].status)]_vars
  BY StepCarriesWork
<1> QED
  BY <1>1, AlwaysCoherent, PTL DEF Spec, WritesCarryWork

\* Every step that changes the attribution obeys the filter in force.
LEMMA StepFollowsSpec ==
    ASSUME Coherent, [Next]_vars,
           NEW r \in Reports,
           server[r].exists, server'[r].exists,
           server'[r].status.byModel # server[r].status.byModel
    PROVE  /\ server'[r].spec.namespaces # {} =>
                 NamespacesOf(server'[r].status.byModel) \subseteq server'[r].spec.namespaces
           /\ server'[r].status.period <= Period(clock)
<1>1. /\ ApplyStatus
      /\ server'[r].status = Computed(work)
      /\ server'[r].spec = work.spec
      /\ server[r].status = work.status
  BY StatusChanges
<1>2. work \in Reconcile /\ work # Idle
  BY <1>1, ApplyStatusFacts
<1>3. work.stage # "missing"
  <2>1. work.stage = "missing" => Computed(work).byModel = work.status.byModel
    <3>1. work.status \in Status
      BY <1>2 DEF Reconcile
    <3> QED
      BY <3>1 DEF Computed, Status
  <2> QED
    BY <1>1, <2>1 DEF ApplyStatus, Changed
<1>4. Computed(work).byModel = work.counts /\ Computed(work).period = work.period
  BY <1>3 DEF Computed
<1> QED
  BY <1>1, <1>2, <1>4 DEF Coherent, FilterHeld, NamespacesOf, Workloads

\* However a filter is edited while pods are scraped, a report the server has
\* accepted attributes nothing outside the filter it holds.
THEOREM AttributionAlwaysFollowsSpec == Spec => AttributionFollowsSpec
<1>1. Coherent /\ [Next]_vars =>
        [\A r \in Reports :
           /\ server[r].exists
           /\ server'[r].exists
           /\ server'[r].status.byModel # server[r].status.byModel
           => /\ server'[r].spec.namespaces # {} =>
                    NamespacesOf(server'[r].status.byModel) \subseteq server'[r].spec.namespaces
              /\ server'[r].status.period <= Period(clock)]_vars
  BY StepFollowsSpec
<1> QED
  BY <1>1, AlwaysCoherent, PTL DEF Spec, AttributionFollowsSpec
=============================================================================
