------------------------- MODULE TokenMetricsProofs -------------------------
(***************************************************************************)
(* Proofs about TokenMetrics: its types, and that the rates it publishes   *)
(* are plausible whatever the pods, profiles and delays.  The invariant    *)
(* keeps, for every snapshot and for the answer being processed, what the  *)
(* counter of the pod can have become since: it went on from there, or it  *)
(* has been reset, by no more than the time that has passed.  A second     *)
(* invariant keeps the total of a scrape equal to the sum of its models.   *)
(***************************************************************************)
EXTENDS TokenMetrics, FiniteSums, TLAPS

\* From tok a counter has come to n in time e: it went on, or it was reset.
Near(n, tok, e) == (n >= tok /\ n - tok <= e) \/ n <= e

SnapshotsNear ==
    \A p \in Pods : snapshots[p] # None =>
        /\ snapshots[p].at <= clock
        /\ pods[p] # Down =>
              Near(pods[p], snapshots[p].tokens, clock - snapshots[p].at + AnswerDelay)

AnswerNear ==
    work.busy /\ work.answer.pending =>
        LET a == work.answer
        IN  /\ a.at <= clock
            /\ clock - a.at <= AnswerDelay
            /\ pods[a.pod] # Down => Near(pods[a.pod], a.tokens, clock - a.at)
            /\ snapshots[a.pod] # None =>
                  Near(a.tokens, snapshots[a.pod].tokens,
                       a.at - snapshots[a.pod].at + AnswerDelay)

Inv == TypeOK /\ SnapshotsNear /\ AnswerNear /\ RateIsPlausible

USE DEF Near

-----------------------------------------------------------------------------
(* Records and their sentinels *)

\* The sentinels are told from the values by their fields.
LEMMA Sentinels ==
    /\ None \notin Snapshot /\ None \notin Rate /\ None \notin [tokens : Nat]
    /\ NoAnswer.pending = FALSE /\ Idle.busy = FALSE
    /\ \A w \in Scraping : w.busy = TRUE
    /\ \A a \in Answer : a.pending = TRUE
<1>1. \A s \in Snapshot \cup Rate \cup [tokens : Nat] : "tokens" \in DOMAIN s
  BY DEF Snapshot, Rate
<1>2. "tokens" \notin DOMAIN None
  BY DEF None
<1> QED BY <1>1, <1>2 DEF NoAnswer, Idle, Scraping, Answer

\* A scrape in progress is a record of one.
LEMMA Busy ==
    ASSUME TypeOK, work.busy
    PROVE  work \in Scraping
BY Sentinels DEF TypeOK

\* An answer that is pending is a record of one.
LEMMA Pending ==
    ASSUME TypeOK, work.busy, work.answer.pending
    PROVE  work \in Scraping /\ work.answer \in Answer
<1>1. work \in Scraping
  BY Busy
<1> QED BY <1>1, Sentinels DEF Scraping

-----------------------------------------------------------------------------
\* The invariant holds initially.
LEMMA InitInv == Init => Inv
<1> SUFFICES ASSUME Init PROVE Inv
  OBVIOUS
<1>1. TypeOK
  BY DEF Init, TypeOK, Down
<1>2. SnapshotsNear /\ AnswerNear /\ RateIsPlausible
  BY DEF Init, SnapshotsNear, AnswerNear, RateIsPlausible, Idle
<1> QED BY <1>1, <1>2 DEF Inv

\* Time passes: a pending answer gets older, and no pod serves faster.
LEMMA TickInv ==
    ASSUME Inv, NEW serving \in SUBSET Pods, Tick(serving)
    PROVE  Inv'
<1> USE TimesAssumption, TokensAssumption
<1>1. TypeOK'
  BY DEF Inv, TypeOK, Tick, Down
<1>2. \A p \in Pods : pods'[p] # Down => pods[p] # Down /\ pods'[p] \in pods[p] .. pods[p] + 1
  BY DEF Inv, TypeOK, Tick, Down
<1>3. SnapshotsNear'
  <2> SUFFICES ASSUME NEW p \in Pods, snapshots[p] # None
               PROVE  /\ snapshots[p].at <= clock'
                      /\ pods'[p] # Down =>
                            Near(pods'[p], snapshots[p].tokens,
                                 clock' - snapshots[p].at + AnswerDelay)
    BY DEF SnapshotsNear, Tick
  <2>1. snapshots[p] \in Snapshot /\ pods[p] \in Nat \cup {Down} /\ clock \in Nat
    BY DEF Inv, TypeOK
  <2>2. clock' = clock + 1
    BY DEF Tick
  <2> QED BY <1>2, <2>1, <2>2 DEF Inv, SnapshotsNear, Snapshot, Down
<1>4. AnswerNear'
  <2> SUFFICES ASSUME work.busy, work.answer.pending PROVE AnswerNear'
    BY DEF AnswerNear, Tick
  <2> DEFINE a == work.answer
  <2>1. a \in Answer /\ clock \in Nat
    BY Pending DEF Inv, TypeOK
  <2>2. clock' = clock + 1 /\ clock - a.at < AnswerDelay /\ UNCHANGED <<work, snapshots>>
    BY DEF Tick
  <2>3. a.at <= clock' /\ clock' - a.at <= AnswerDelay
    <3>1. a.at \in Nat /\ a.at <= clock
      BY <2>1 DEF Inv, AnswerNear, Answer
    <3> HIDE DEF a
    <3> QED BY <2>1, <2>2, <3>1
  <2>4. pods'[a.pod] # Down => Near(pods'[a.pod], a.tokens, clock' - a.at)
    <3>1. a.pod \in Pods /\ pods[a.pod] \in Nat \cup {Down} /\ a.tokens \in Nat /\ a.at \in Nat
      BY <2>1 DEF Inv, TypeOK, Answer
    <3> QED BY <1>2, <2>1, <2>2, <3>1 DEF Inv, AnswerNear, Down
  <2> QED BY <2>2, <2>3, <2>4 DEF Inv, AnswerNear
<1>5. RateIsPlausible'
  BY DEF Inv, RateIsPlausible, Tick
<1> QED BY <1>1, <1>3, <1>4, <1>5 DEF Inv

\* Pods start and stop: a counter at zero exceeds nothing.
LEMMA PodInv ==
    ASSUME Inv, NEW p \in Pods, PodStarts(p) \/ PodStops(p)
    PROVE  Inv'
<1> USE TimesAssumption
<1>1. TypeOK'
  BY DEF Inv, TypeOK, PodStarts, PodStops, Down
<1>2. \A q \in Pods : pods'[q] # Down => pods'[q] = pods[q] \/ pods'[q] = 0
  BY DEF Inv, TypeOK, PodStarts, PodStops, Down
<1>3. UNCHANGED <<clock, snapshots, rates, work>>
  BY DEF PodStarts, PodStops
<1>4. SnapshotsNear'
  <2> SUFFICES ASSUME NEW q \in Pods, snapshots[q] # None
               PROVE  pods'[q] # Down =>
                            Near(pods'[q], snapshots[q].tokens,
                                 clock - snapshots[q].at + AnswerDelay)
    BY <1>3 DEF Inv, SnapshotsNear
  <2>1. snapshots[q] \in Snapshot /\ clock \in Nat /\ snapshots[q].at <= clock
    BY DEF Inv, TypeOK, SnapshotsNear
  <2> QED BY <1>2, <2>1 DEF Inv, SnapshotsNear, Snapshot
<1>5. AnswerNear'
  <2> SUFFICES ASSUME work.busy, work.answer.pending PROVE AnswerNear'
    BY <1>3 DEF AnswerNear
  <2> DEFINE a == work.answer
  <2>1. a \in Answer /\ clock \in Nat /\ a.at <= clock
    BY Pending DEF Inv, TypeOK, AnswerNear
  <2>2. pods'[a.pod] # Down => Near(pods'[a.pod], a.tokens, clock - a.at)
    <3>1. /\ a.pod \in Pods /\ a.tokens \in Nat /\ a.at \in Nat
          /\ pods[a.pod] # Down => Near(pods[a.pod], a.tokens, clock - a.at)
      BY <2>1 DEF Inv, AnswerNear, Answer
    <3> HIDE DEF a
    <3> QED BY <1>2, <2>1, <3>1
  <2> QED BY <1>3, <2>2 DEF Inv, AnswerNear
<1>6. RateIsPlausible'
  BY <1>3 DEF Inv, RateIsPlausible
<1> QED BY <1>1, <1>4, <1>5, <1>6 DEF Inv

\* A restart forgets all there was to relate.
LEMMA RestartInv ==
    ASSUME Inv, Restart
    PROVE  Inv'
<1>1. TypeOK'
  BY DEF Inv, TypeOK, Restart
<1>2. (SnapshotsNear /\ AnswerNear /\ RateIsPlausible)'
  BY DEF Restart, SnapshotsNear, AnswerNear, RateIsPlausible, Idle
<1> QED BY <1>1, <1>2 DEF Inv

\* A scrape begins without an answer.
LEMMA BeginInv ==
    ASSUME Inv, NEW c \in Profiles, Begin(c)
    PROVE  Inv'
<1>1. TypeOK'
  BY DEF Inv, TypeOK, Begin, Scraping
<1>2. (SnapshotsNear /\ AnswerNear /\ RateIsPlausible)'
  BY DEF Inv, Begin, SnapshotsNear, AnswerNear, RateIsPlausible, NoAnswer
<1> QED BY <1>1, <1>2 DEF Inv

\* An answer carries the counter of the present instant.
LEMMA PodAnswersInv ==
    ASSUME Inv, NEW p \in Pods, PodAnswers(p)
    PROVE  Inv'
<1> USE TimesAssumption
<1> DEFINE a == [pending |-> TRUE, pod |-> p, at |-> clock, tokens |-> pods[p]]
<1>1. work \in Scraping /\ clock \in Nat /\ pods[p] \in Nat
  BY Busy DEF Inv, TypeOK, PodAnswers
<1>2. a \in Answer /\ work'.answer = a
  BY <1>1 DEF Answer, PodAnswers, Scraping
<1>3. UNCHANGED <<clock, pods, snapshots, rates>>
  BY DEF PodAnswers
<1>4. TypeOK'
  <2>1. work' \in Scraping
    BY <1>1, <1>2 DEF PodAnswers, Scraping
  <2> QED BY <2>1 DEF Inv, TypeOK, PodAnswers
<1>5. AnswerNear'
  <2>1. snapshots[p] # None => Near(a.tokens, snapshots[p].tokens,
                                    a.at - snapshots[p].at + AnswerDelay)
    BY DEF Inv, SnapshotsNear, PodAnswers
  <2>2. clock <= clock /\ clock - clock <= AnswerDelay /\ Near(pods[p], pods[p], clock - clock)
    BY <1>1
  <2> QED BY <1>2, <1>3, <2>1, <2>2 DEF AnswerNear
<1>6. (SnapshotsNear /\ RateIsPlausible)'
  BY <1>3 DEF Inv, SnapshotsNear, RateIsPlausible
<1> QED BY <1>4, <1>5, <1>6 DEF Inv

\* A skipped pod leaves snapshots and rates alone.
LEMMA ScrapeFailsInv ==
    ASSUME Inv, NEW p \in Pods, ScrapeFails(p)
    PROVE  Inv'
<1>1. work \in Scraping
  BY Busy DEF Inv, ScrapeFails
<1>2. work' \in Scraping /\ work'.answer = NoAnswer
  BY <1>1 DEF ScrapeFails, Scraping
<1>3. TypeOK'
  BY <1>2 DEF Inv, TypeOK, ScrapeFails
<1>4. (SnapshotsNear /\ AnswerNear /\ RateIsPlausible)'
  BY <1>2 DEF Inv, ScrapeFails, SnapshotsNear, AnswerNear, RateIsPlausible, NoAnswer
<1> QED BY <1>3, <1>4 DEF Inv

-----------------------------------------------------------------------------
(* What an answer leads to *)

\* What counting a pod leaves as it was, and what it knows of the answer.
LEMMA CountedFacts ==
    ASSUME Inv, Counted
    PROVE  /\ work.answer \in Answer
           /\ work' \in Scraping
           /\ work'.answer = NoAnswer
           /\ tokens' \in [Models -> [tokens : Nat] \cup {None}]
           /\ UNCHANGED <<clock, pods, comparisons, models>>
<1>1. work \in Scraping /\ work.answer \in Answer
  BY Pending DEF Inv, Counted
<1>2. work' \in Scraping /\ work'.answer = NoAnswer
  <2> DEFINE a == work.answer
             total == work.total + a.tokens
             data == work.models \cup {[pod |-> a.pod, tokens |-> a.tokens]}
             left == work.left \ {a.pod}
  <2>1. total \in Nat /\ data \subseteq ModelData /\ left \in SUBSET Pods
    BY <1>1 DEF Scraping, Answer, ModelData
  <2>2. work' = [work EXCEPT !.left = left, !.answer = NoAnswer, !.total = total,
                             !.models = data]
    BY DEF Counted
  <2> HIDE DEF total, data, left
  <2> QED BY <1>1, <2>1, <2>2 DEF Scraping
<1>3. tokens' \in [Models -> [tokens : Nat] \cup {None}]
  BY <1>1 DEF Counted, Inv, TypeOK, Answer
<1> QED BY <1>1, <1>2, <1>3 DEF Counted

\* A debounced answer changes neither snapshot nor rate.
LEMMA DebounceInv ==
    ASSUME Inv, Debounce
    PROVE  Inv'
<1>1. Counted
  BY DEF Debounce
<1>2. TypeOK'
  BY <1>1, CountedFacts DEF Inv, TypeOK, Debounce
<1>3. (SnapshotsNear /\ AnswerNear /\ RateIsPlausible)'
  BY <1>1, CountedFacts
     DEF Inv, Debounce, SnapshotsNear, AnswerNear, RateIsPlausible, NoAnswer
<1> QED BY <1>2, <1>3 DEF Inv

\* A snapshot is filed under an instant no later than AnswerDelay after its counter.
LEMMA SnapshotFacts ==
    ASSUME Inv, Counted, TakeSnapshot
    PROVE  /\ snapshots' \in [Pods -> Snapshot \cup {None}]
           /\ SnapshotsNear'
           /\ AnswerNear'
<1> USE TimesAssumption
<1> DEFINE a == work.answer
<1>1. /\ a \in Answer /\ clock \in Nat
      /\ work'.answer = NoAnswer /\ UNCHANGED <<clock, pods>>
  BY CountedFacts DEF Inv, TypeOK
<1>2. snapshots' \in [Pods -> Snapshot \cup {None}]
  BY <1>1 DEF Inv, TypeOK, TakeSnapshot, Snapshot, Answer
<1>3. SnapshotsNear'
  <2> SUFFICES ASSUME NEW p \in Pods, snapshots'[p] # None
               PROVE  /\ snapshots'[p].at <= clock
                      /\ pods[p] # Down =>
                            Near(pods[p], snapshots'[p].tokens,
                                 clock - snapshots'[p].at + AnswerDelay)
    BY <1>1 DEF SnapshotsNear
  <2>1. CASE p # a.pod
    <3>1. snapshots'[p] = snapshots[p]
      BY <2>1 DEF Inv, TypeOK, TakeSnapshot
    <3> QED BY <3>1 DEF Inv, SnapshotsNear
  <2>2. CASE p = a.pod
    <3>1. snapshots'[p] = [at |-> clock, tokens |-> a.tokens]
      BY <2>2 DEF Inv, TypeOK, TakeSnapshot
    <3>2. /\ clock - a.at <= AnswerDelay
          /\ pods[p] # Down => Near(pods[p], a.tokens, clock - a.at)
          /\ a.at \in Nat /\ a.tokens \in Nat /\ pods[p] \in Nat \cup {Down}
      BY <1>1, <2>2 DEF Inv, TypeOK, AnswerNear, Answer, Counted
    <3>3. snapshots'[p].at = clock /\ snapshots'[p].tokens = a.tokens
      BY <3>1
    <3> HIDE DEF a
    <3> QED BY <1>1, <3>2, <3>3 DEF Down
  <2> QED BY <2>1, <2>2
<1>4. AnswerNear'
  BY <1>1 DEF AnswerNear, NoAnswer
<1> QED BY <1>2, <1>3, <1>4

\* The first snapshot of a pod publishes no rate.
LEMMA FirstSnapshotInv ==
    ASSUME Inv, FirstSnapshot
    PROVE  Inv'
<1>1. Counted /\ TakeSnapshot /\ UNCHANGED rates
  BY DEF FirstSnapshot
<1>2. TypeOK'
  BY <1>1, CountedFacts, SnapshotFacts DEF Inv, TypeOK
<1>3. RateIsPlausible'
  BY <1>1 DEF Inv, RateIsPlausible
<1> QED BY <1>1, <1>2, <1>3, SnapshotFacts DEF Inv

\* A rate computed past the debounce is plausible: what the counter gained is
\* bounded by the time since the last snapshot and the delay that blurs it, and
\* the delay is no longer than that time.
LEMMA ComputedRate ==
    ASSUME NEW prev \in Snapshot, NEW curr \in Snapshot,
           curr.at - prev.at >= SnapshotInterval,
           Near(curr.tokens, prev.tokens, curr.at - prev.at + AnswerDelay)
    PROVE  LET r == ComputeTokenRate(prev, curr) IN r \in Rate /\ r.tokens <= 2 * r.ticks
<1> USE TimesAssumption
<1> DEFINE pt == prev.tokens  pa == prev.at  ct == curr.tokens  ca == curr.at
           d == IF ct < pt THEN ct ELSE ct - pt
           r == IF ca <= pa THEN [tokens |-> 0, ticks |-> 1]
                            ELSE [tokens |-> d, ticks |-> ca - pa]
<1>1. pt \in Nat /\ pa \in Nat /\ ct \in Nat /\ ca \in Nat
  BY DEF Snapshot
<1>2. r = ComputeTokenRate(prev, curr)
  BY DEF ComputeTokenRate, Delta
<1>3. ca - pa >= SnapshotInterval /\ Near(ct, pt, ca - pa + AnswerDelay)
  OBVIOUS
<1> HIDE DEF pt, pa, ct, ca
<1>4. d \in Nat /\ d <= ca - pa + AnswerDelay
  BY <1>1, <1>3
<1>5. CASE ca <= pa
  BY <1>5, <1>2 DEF Rate
<1>6. CASE ~(ca <= pa)
  <2>1. r.tokens = d /\ r.ticks = ca - pa /\ ca - pa \in Nat \ {0}
    BY <1>1, <1>6
  <2>2. r = [tokens |-> d, ticks |-> ca - pa]
    BY <1>6
  <2>3. r \in Rate
    BY <2>1, <2>2, <1>4 DEF Rate
  <2>4. d <= 2 * (ca - pa)
    BY <1>1, <1>3, <1>4
  <2> QED BY <1>2, <2>1, <2>3, <2>4
<1> QED BY <1>5, <1>6

\* A rate that is published is plausible.
LEMMA PublishRateInv ==
    ASSUME Inv, PublishRate
    PROVE  Inv'
<1> USE TimesAssumption
<1> DEFINE a == work.answer
           prev == snapshots[a.pod]
           curr == [at |-> clock, tokens |-> a.tokens]
<1>1. Counted /\ TakeSnapshot /\ prev # None /\ ~TooSoon(a.pod)
  BY DEF PublishRate
<1>2. a \in Answer /\ a.pod \in Pods /\ clock \in Nat
  BY <1>1, CountedFacts DEF Inv, TypeOK, Answer
<1>3. prev \in Snapshot /\ curr \in Snapshot
  BY <1>1, <1>2 DEF Inv, TypeOK, Snapshot, Answer
<1>4. curr.at - prev.at >= SnapshotInterval
  BY <1>1, <1>2, <1>3 DEF TooSoon, Snapshot
<1>5. Near(curr.tokens, prev.tokens, curr.at - prev.at + AnswerDelay)
  <2>1. /\ Near(a.tokens, prev.tokens, a.at - prev.at + AnswerDelay)
        /\ a.at <= clock
    BY <1>1 DEF Inv, AnswerNear, Counted
  <2>2. a.at \in Nat /\ a.tokens \in Nat /\ prev.at \in Nat /\ prev.tokens \in Nat
    BY <1>2, <1>3 DEF Answer, Snapshot
  <2>3. curr.at = clock /\ curr.tokens = a.tokens
    OBVIOUS
  <2> HIDE DEF prev, a, curr
  <2> QED BY <1>2, <2>1, <2>2, <2>3
<1> DEFINE r == ComputeTokenRate(prev, curr)
<1>6. r \in Rate /\ r.tokens <= 2 * r.ticks
  BY <1>3, <1>4, <1>5, ComputedRate
<1>7. rates' = [rates EXCEPT ![ModelOf[a.pod]] = r]
  BY DEF PublishRate
<1>8. ModelOf[a.pod] \in Models
  BY <1>2 DEF Models
<1> HIDE DEF r
<1>9. RateIsPlausible'
  BY <1>6, <1>7, <1>8 DEF Inv, TypeOK, RateIsPlausible
<1>10. TypeOK'
  BY <1>1, <1>6, <1>7, <1>8, CountedFacts, SnapshotFacts DEF Inv, TypeOK
<1> QED BY <1>1, <1>9, <1>10, SnapshotFacts DEF Inv

\* The end of a scrape keeps the invariant.
LEMMA FinishInv ==
    ASSUME Inv, Finish
    PROVE  Inv'
<1>1. work \in Scraping
  BY Busy DEF Inv, Finish
<1>2. TypeOK'
  BY <1>1 DEF Inv, TypeOK, Finish, Scraping
<1>3. (SnapshotsNear /\ AnswerNear /\ RateIsPlausible)'
  BY DEF Inv, Finish, SnapshotsNear, AnswerNear, RateIsPlausible, Idle
<1> QED BY <1>2, <1>3 DEF Inv

\* The invariant survives a step that changes nothing.
LEMMA StutterInv ==
    ASSUME Inv, UNCHANGED vars
    PROVE  Inv'
BY DEF Inv, TypeOK, SnapshotsNear, AnswerNear, RateIsPlausible, vars

\* Every step keeps the invariant.
LEMMA NextInv == Inv /\ [Next]_vars => Inv'
<1> SUFFICES ASSUME Inv, [Next]_vars PROVE Inv'
  OBVIOUS
<1>1. CASE \E serving \in SUBSET Pods : Tick(serving)
  BY <1>1, TickInv
<1>2. CASE \E p \in Pods : PodStarts(p) \/ PodStops(p)
  BY <1>2, PodInv
<1>3. CASE \E p \in Pods : PodAnswers(p)
  BY <1>3, PodAnswersInv
<1>4. CASE \E p \in Pods : ScrapeFails(p)
  BY <1>4, ScrapeFailsInv
<1>5. CASE \E c \in Profiles : Begin(c)
  BY <1>5, BeginInv
<1>6. CASE Debounce
  BY <1>6, DebounceInv
<1>7. CASE FirstSnapshot
  BY <1>7, FirstSnapshotInv
<1>8. CASE PublishRate
  BY <1>8, PublishRateInv
<1>9. CASE Finish
  BY <1>9, FinishInv
<1>10. CASE Restart
  BY <1>10, RestartInv
<1>11. CASE UNCHANGED vars
  BY <1>11, StutterInv
<1> QED
  BY <1>1, <1>2, <1>3, <1>4, <1>5, <1>6, <1>7, <1>8, <1>9, <1>10, <1>11 DEF Next

-----------------------------------------------------------------------------
(* What is compared *)

\* The total of a scrape is the sum of its models, none of which is counted twice,
\* since a pod that has been counted is no longer left to scrape.
TotalIsOfModels ==
    work.busy =>
        /\ IsFiniteSet(work.models)
        /\ \A d \in work.models : d.pod \notin work.left
        /\ work.total = TokensOf(work.models)
        /\ work.answer.pending => work.answer.pod \in work.left

CompareInv == Inv /\ TotalIsOfModels /\ ModelsAreCompared

\* The sum of no models is zero.
LEMMA NoTokens == TokensOf({}) = 0
<1>1. SumOf(TokensIn, {}) = 0
  BY SumEmpty
<1> QED BY <1>1 DEF TokensOf, SumOf

\* Nothing is compared initially, and nothing is being scraped.
LEMMA InitCompareInv == Init => CompareInv
<1> SUFFICES ASSUME Init PROVE TotalIsOfModels /\ ModelsAreCompared
  BY InitInv DEF CompareInv
<1> QED BY NoTokens DEF Init, TotalIsOfModels, ModelsAreCompared, Idle

\* One more model adds its tokens.
LEMMA OneModelMore ==
    ASSUME NEW S \in SUBSET ModelData, IsFiniteSet(S), NEW d \in ModelData, d \notin S
    PROVE  TokensOf(S \cup {d}) = TokensOf(S) + d.tokens
<1> DEFINE T == S \cup {d}
<1>1. IsFiniteSet(T) /\ d \in T /\ T \ {d} = S
  BY FS_AddElement
<1>2. \A x \in ModelData : TokensIn[x] \in Int
  BY DEF TokensIn, ModelData
<1>3. \A x \in T : TokensIn[x] \in Int
  BY <1>2
<1> HIDE DEF T
<1>4. SumOf(TokensIn, T) = TokensIn[d] + SumOf(TokensIn, T \ {d})
  BY <1>1, <1>3, SumRemove
<1>5. SumOf(TokensIn, S) \in Int /\ TokensIn[d] \in Int
  BY <1>2, SumInt
<1>6. TokensIn[d] = d.tokens
  BY DEF TokensIn
<1> HIDE DEF ModelData
<1>7. SumOf(TokensIn, T) = SumOf(TokensIn, S) + d.tokens
  <2>1. SumOf(TokensIn, T \ {d}) = SumOf(TokensIn, S)
    BY <1>1
  <2> DEFINE whole == SumOf(TokensIn, T)
             part == SumOf(TokensIn, T \ {d})
             rest == SumOf(TokensIn, S)
             one == TokensIn[d]
  <2>2. whole = one + part /\ part = rest /\ rest \in Int /\ one \in Int
    BY <1>4, <1>5, <2>1
  <2> HIDE DEF whole, part, rest, one
  <2>3. whole = rest + one
    BY <2>2
  <2> QED BY <2>3, <1>6 DEF whole, rest, one
<1> QED BY <1>7 DEF TokensOf, SumOf, T

\* Counting a pod adds the same to the total and to the models.
LEMMA CountedTotal ==
    ASSUME CompareInv, Counted
    PROVE  (TotalIsOfModels /\ ModelsAreCompared)'
<1> DEFINE a == work.answer
           d == [pod |-> a.pod, tokens |-> a.tokens]
<1>1. /\ work \in Scraping /\ a \in Answer
      /\ work' = [work EXCEPT !.left = @ \ {a.pod}, !.answer = NoAnswer,
                              !.total = @ + a.tokens, !.models = @ \cup {d}]
      /\ UNCHANGED <<comparisons, models>>
  BY Pending DEF CompareInv, Inv, Counted
<1>2. /\ IsFiniteSet(work.models) /\ a.pod \in work.left
      /\ \A e \in work.models : e.pod \notin work.left
      /\ work.total = TokensOf(work.models)
  BY DEF CompareInv, TotalIsOfModels, Counted
<1>3. d \in ModelData /\ d \notin work.models /\ work.models \in SUBSET ModelData
  BY <1>1, <1>2 DEF Scraping, Answer, ModelData
<1>4. TokensOf(work.models \cup {d}) = TokensOf(work.models) + a.tokens
  BY <1>2, <1>3, OneModelMore
<1>5. /\ work'.models = work.models \cup {d} /\ work'.left = work.left \ {a.pod}
      /\ work'.total = work.total + a.tokens /\ work'.answer = NoAnswer
  BY <1>1 DEF Scraping
<1>6. IsFiniteSet(work.models \cup {d})
  BY <1>2, FS_AddElement
<1>7. \A e \in work.models \cup {d} : e.pod \notin work.left \ {a.pod}
  BY <1>2
<1> HIDE DEF d, a
<1>8. TotalIsOfModels'
  BY <1>2, <1>4, <1>5, <1>6, <1>7 DEF TotalIsOfModels, NoAnswer
<1>9. ModelsAreCompared'
  BY <1>1 DEF CompareInv, ModelsAreCompared
<1> QED BY <1>8, <1>9

\* A step of the scrape that counts nothing keeps the total and the models.
LEMMA ScrapeStepTotal ==
    ASSUME CompareInv, NEW p \in Pods, PodAnswers(p) \/ ScrapeFails(p)
    PROVE  (TotalIsOfModels /\ ModelsAreCompared)'
<1>1. work \in Scraping /\ work.busy /\ UNCHANGED <<comparisons, models>>
  BY Busy DEF CompareInv, Inv, PodAnswers, ScrapeFails
<1>2. /\ work'.models = work.models /\ work'.total = work.total
      /\ work'.left \subseteq work.left
      /\ work'.answer.pending => work'.answer.pod \in work'.left
  <2>1. CASE PodAnswers(p)
    BY <1>1, <2>1 DEF PodAnswers, Scraping
  <2>2. CASE ScrapeFails(p)
    BY <1>1, <2>2 DEF ScrapeFails, Scraping, NoAnswer
  <2> QED BY <2>1, <2>2
<1>3. TotalIsOfModels'
  BY <1>1, <1>2 DEF CompareInv, TotalIsOfModels
<1> QED BY <1>1, <1>3 DEF CompareInv, ModelsAreCompared

\* What a scrape publishes agrees: its total is the sum of its models.
LEMMA FinishTotal ==
    ASSUME CompareInv, Finish
    PROVE  (TotalIsOfModels /\ ModelsAreCompared)'
<1>1. work.total = TokensOf(work.models)
  BY DEF CompareInv, TotalIsOfModels, Finish
<1>2. models' = work.models /\ work' = Idle
      /\ comparisons' = IF work.total > 0 THEN [tokens |-> work.total] ELSE comparisons
  BY DEF Finish
<1> QED BY <1>1, <1>2 DEF TotalIsOfModels, ModelsAreCompared, Idle

\* Every step keeps total, models and comparisons in agreement.
LEMMA NextCompareInv == CompareInv /\ [Next]_vars => CompareInv'
<1> SUFFICES ASSUME CompareInv, [Next]_vars PROVE (TotalIsOfModels /\ ModelsAreCompared)'
  BY NextInv DEF CompareInv
<1>1. TokensOf({}) = 0
  BY NoTokens
<1>2. CASE UNCHANGED <<work, comparisons, models>>
  BY <1>2 DEF CompareInv, TotalIsOfModels, ModelsAreCompared
<1>3. CASE \E c \in Profiles : Begin(c)
  BY <1>1, <1>3, FS_EmptySet
     DEF CompareInv, Begin, TotalIsOfModels, ModelsAreCompared, NoAnswer
<1>4. CASE Restart
  BY <1>1, <1>4 DEF Restart, TotalIsOfModels, ModelsAreCompared, Idle
<1>5. CASE \E p \in Pods : PodAnswers(p) \/ ScrapeFails(p)
  BY <1>5, ScrapeStepTotal
<1>6. CASE Debounce \/ FirstSnapshot \/ PublishRate
  BY <1>6, CountedTotal DEF Debounce, FirstSnapshot, PublishRate
<1>7. CASE Finish
  BY <1>7, FinishTotal
<1>8. \/ UNCHANGED <<work, comparisons, models>>
      \/ \E c \in Profiles : Begin(c)
      \/ Restart
      \/ \E p \in Pods : PodAnswers(p) \/ ScrapeFails(p)
      \/ Debounce \/ FirstSnapshot \/ PublishRate
      \/ Finish
  <2>1. CASE UNCHANGED vars
    BY <2>1 DEF vars
  <2>2. CASE \E serving \in SUBSET Pods : Tick(serving)
    BY <2>2 DEF Tick
  <2>3. CASE \E p \in Pods : PodStarts(p) \/ PodStops(p)
    BY <2>3 DEF PodStarts, PodStops
  <2> QED BY <2>1, <2>2, <2>3 DEF Next
<1> QED BY <1>2, <1>3, <1>4, <1>5, <1>6, <1>7, <1>8

-----------------------------------------------------------------------------
(* The theorems *)

\* Every variable keeps its type: no counter reset makes a rate negative and no
\* two snapshots make one infinite.
THEOREM TypeCorrect == Spec => []TypeOK
<1>1. Init => Inv
  BY InitInv
<1>2. Inv /\ [Next]_vars => Inv'
  BY NextInv
<1>3. Inv => TypeOK
  BY DEF Inv
<1> QED BY <1>1, <1>2, <1>3, PTL DEF Spec

\* For every number of pods and profiles, and every debounce no shorter than the
\* delay of an answer, no published rate is more than twice what a pod can serve.
THEOREM RatesAlwaysPlausible == Spec => []RateIsPlausible
<1>1. Init => Inv
  BY InitInv
<1>2. Inv /\ [Next]_vars => Inv'
  BY NextInv
<1>3. Inv => RateIsPlausible
  BY DEF Inv
<1> QED BY <1>1, <1>2, <1>3, PTL DEF Spec

\* For every number of pods and profiles, however their nodes overlap: as long as
\* the store lists models with tokens, its comparisons are of those models.
THEOREM ModelsAlwaysCompared == Spec => []ModelsAreCompared
<1>1. Init => CompareInv
  BY InitCompareInv
<1>2. CompareInv /\ [Next]_vars => CompareInv'
  BY NextCompareInv
<1>3. CompareInv => ModelsAreCompared
  BY DEF CompareInv
<1> QED BY <1>1, <1>2, <1>3, PTL DEF Spec
=============================================================================
