---------------------------- MODULE PowerSampler ----------------------------
(***************************************************************************)
(* The power-sample history of internal/utilization: the in-memory window  *)
(* of the Sampler (sampler.go), the bbolt file behind it (store.go), and   *)
(* the start-up that hydrates one from the other (cmd/main.go).            *)
(*                                                                         *)
(* Time is an integer.  The CostProfile controller has one worker, so one  *)
(* Record call runs at a time; each call reads the clock once, commits its *)
(* sample to the file, prunes the file, and only then adds the sample to   *)
(* memory under the mutex.  The process can be killed between any two of   *)
(* these steps.  Readers (the UsageReport controller) hold the mutex for   *)
(* all of Summarize, so Summarize is an operator on one state.             *)
(***************************************************************************)
EXTENDS Integers, Sequences, FiniteSets, FiniteSetsExt

CONSTANTS
    Keys,           \* CostProfile keys "namespace/name"
    Readings,       \* what a reconcile can measure: [power, active] in watts
    HasStore,       \* --data-dir is set
    Retention,      \* Sampler.retention
    PruneInterval,  \* pruneInterval
    Faults,         \* environment faults to inject: "append", "prune", "kill"
    MaxStep,        \* bound: longest time between two readings of the clock
    MaxClock        \* bound: last instant explored

ASSUME KeysAssumption == IsFiniteSet(Keys)
ASSUME ReadingsAssumption == Readings \subseteq [power : Nat, active : Nat]
ASSUME StoreAssumption == HasStore \in BOOLEAN
ASSUME TimesAssumption ==
    /\ Retention \in Nat
    /\ PruneInterval \in Nat \ {0}
    /\ MaxStep \in Nat
    /\ MaxClock \in Nat
ASSUME FaultsAssumption == Faults \subseteq {"append", "prune", "kill"}

VARIABLES
    clock,      \* the latest instant at which anything read the clock
    running,    \* the manager process is up
    mem,        \* Sampler.samples: one sequence per key
    disk,       \* samples.db: one bucket per key, iterated in key order
    lastPrune,  \* Sampler.lastPrune; 0 is the zero time
    call        \* the Record call in progress, or NoCall

vars == <<clock, running, mem, disk, lastPrune, call>>

Sample == [at : Nat, power : Nat, active : Nat]
NoCall == [stage |-> "none"]
RecordCall == [stage : {"append", "prune", "remember"}, key : Keys, sample : Sample]

Empty == [k \in Keys |-> <<>>]
Cutoff(now) == now - Retention

\* Every variable holds what the declarations above say it holds.
TypeOK ==
    /\ clock \in Nat
    /\ running \in BOOLEAN
    /\ mem \in [Keys -> Seq(Sample)]
    /\ disk \in [Keys -> Seq(Sample)]
    /\ lastPrune \in Nat
    /\ call \in RecordCall \cup {NoCall}

-----------------------------------------------------------------------------
(* A bucket is a B-tree keyed by timestamp, a window a slice ordered by     *)
(* timestamp: both are sequences, and both are searched the same way.       *)

\* The index of the first sample at or after t; Len(b) + 1 when there is none.
Seek(b, t) == Min({i \in DOMAIN b : b[i].at >= t} \cup {Len(b) + 1})

\* The samples of b at or after t.
From(b, t) == SubSeq(b, Seek(b, t), Len(b))

\* The samples of b before t.
Before(b, t) == SubSeq(b, 1, Seek(b, t) - 1)

\* Mutant: mkKey in little-endian, so that later samples sort first.
PutLittleEndian(b, s) == <<s>> \o b

\* Put under the sample's timestamp; an entry with that timestamp is replaced.
Put(b, s) == Before(b, s.at) \o <<s>> \o From(b, s.at + 1)

\* Mutants: a lower bound that excludes its own instant; bounds swapped.
LoadRangeAfter(b, start, end) == From(Before(b, end), start + 1)
LoadRangeSwapped(b, start, end) == From(Before(b, start), end)

\* The samples with timestamps in [start, end).
LoadRange(b, start, end) == From(Before(b, end), start)

-----------------------------------------------------------------------------
(* Summarize: each sample stands for the time until the next one, the last  *)
(* one for the time until end, clipped to [start, end).                     *)

Larger(a, b) == IF a >= b THEN a ELSE b
Smaller(a, b) == IF a <= b THEN a ELSE b

IsActive(s) == s.power > s.active

Total(f, S) == MapThenSumSet(LAMBDA x : f[x], S)

\* Mutant: the interval is not clipped to the end of the period.
SpanUnclipped(samples, i, start, end) ==
    LET nextAt == IF i < Len(samples) THEN samples[i + 1].at ELSE end
    IN  Larger(0, nextAt - Larger(samples[i].at, start))

Span(samples, i, start, end) ==
    LET nextAt == IF i < Len(samples) THEN samples[i + 1].at ELSE end
    IN  Larger(0, Smaller(nextAt, end) - Larger(samples[i].at, start))

\* Mutant: every sample is classified by the threshold of the latest one.
SummarizeRelabelled(samples, start, end) ==
    LET all == DOMAIN samples
        active == {i \in all : samples[i].power > samples[Len(samples)].active}
        hours == [i \in all |-> Span(samples, i, start, end)]
        energy == [i \in all |-> samples[i].power * hours[i]]
    IN  [totalHours   |-> Total(hours, all),
         activeHours  |-> Total(hours, active),
         totalEnergy  |-> Total(energy, all),
         activeEnergy |-> Total(energy, active)]

Summarize(samples, start, end) ==
    LET all == DOMAIN samples
        active == {i \in all : IsActive(samples[i])}
        hours == [i \in all |-> Span(samples, i, start, end)]
        energy == [i \in all |-> samples[i].power * hours[i]]
    IN  [totalHours   |-> Total(hours, all),
         activeHours  |-> Total(hours, active),
         totalEnergy  |-> Total(energy, all),
         activeEnergy |-> Total(energy, active)]

-----------------------------------------------------------------------------
Init ==
    /\ clock = 1
    /\ running = TRUE
    /\ mem = Empty
    /\ disk = Empty
    /\ lastPrune = 0
    /\ call = NoCall

\* The clock is read: nanosecond time is later than at every earlier reading.
ReadClock(now) ==
    /\ now \in (clock + 1) .. (clock + MaxStep)
    /\ now <= MaxClock
    /\ clock' = now

\* A reconcile of profile k calls Record, which captures now and the threshold.
BeginRecord(k, r) ==
    /\ running
    /\ call = NoCall
    /\ \E now \in (clock + 1) .. (clock + MaxStep) :
          /\ ReadClock(now)
          /\ call' = [stage  |-> IF HasStore THEN "append" ELSE "remember",
                      key    |-> k,
                      sample |-> [at |-> now, power |-> r.power, active |-> r.active]]
    /\ UNCHANGED <<running, mem, disk, lastPrune>>

\* store.Append commits its transaction.
Persist ==
    /\ call.stage = "append"
    /\ disk' = [disk EXCEPT ![call.key] = Put(@, call.sample)]
    /\ call' = [call EXCEPT !.stage = "prune"]
    /\ UNCHANGED <<clock, running, mem, lastPrune>>

\* Mutant: the error is logged and the sample goes to memory all the same.
PersistFailsIgnored ==
    /\ "append" \in Faults
    /\ call.stage = "append"
    /\ call' = [call EXCEPT !.stage = "remember"]
    /\ UNCHANGED <<clock, running, mem, disk, lastPrune>>

\* store.Append fails: Record returns the error and memory keeps its window.
PersistFails ==
    /\ "append" \in Faults
    /\ call.stage = "append"
    /\ call' = NoCall
    /\ UNCHANGED <<clock, running, mem, disk, lastPrune>>

\* Mutant: the throttle also skips a prune that is exactly due.
PruneDueLater(now) == lastPrune = 0 \/ now - lastPrune > PruneInterval

PruneDue(now) == lastPrune = 0 \/ now - lastPrune >= PruneInterval

\* Mutants: the cutoff itself is pruned too; emptied buckets are dropped.
PruneAtCutoff(cutoff) == [k \in Keys |-> From(disk[k], cutoff + 1)]
PruneBuckets(cutoff) ==
    [k \in {q \in Keys : From(disk[q], cutoff) # <<>>} |-> From(disk[k], cutoff)]

Prune(cutoff) == [k \in Keys |-> From(disk[k], cutoff)]

\* pruneStore: throttled; the failure of a prune that is due is ignored, and
\* lastPrune has moved all the same.
PruneStore ==
    /\ call.stage = "prune"
    /\ \/ /\ PruneDue(call.sample.at)
          /\ lastPrune' = call.sample.at
          /\ \/ disk' = Prune(Cutoff(call.sample.at))
             \/ "prune" \in Faults /\ UNCHANGED disk
       \/ /\ ~PruneDue(call.sample.at)
          /\ UNCHANGED <<disk, lastPrune>>
    /\ call' = [call EXCEPT !.stage = "remember"]
    /\ UNCHANGED <<clock, running, mem>>

\* Mutant: the collection keeps only what is strictly after the cutoff.
RememberAfterCutoff ==
    /\ call.stage = "remember"
    /\ mem' = [mem EXCEPT ![call.key] =
                  From(Append(@, call.sample), Cutoff(call.sample.at) + 1)]
    /\ call' = NoCall
    /\ UNCHANGED <<clock, running, disk, lastPrune>>

\* Under the mutex: append to the window of the key and drop what expired.
Remember ==
    /\ call.stage = "remember"
    /\ mem' = [mem EXCEPT ![call.key] =
                  From(Append(@, call.sample), Cutoff(call.sample.at))]
    /\ call' = NoCall
    /\ UNCHANGED <<clock, running, disk, lastPrune>>

\* The process ends, between any two steps; what was only in memory is gone.
\* (Not at the last instant explored, so that a restart always follows.)
Kill ==
    /\ "kill" \in Faults
    /\ running
    /\ clock < MaxClock
    /\ running' = FALSE
    /\ mem' = Empty
    /\ lastPrune' = 0
    /\ call' = NoCall
    /\ UNCHANGED <<clock, disk>>

\* newPowerSampler: the window is loaded from the file, bucket by bucket.
Start ==
    /\ ~running
    /\ \E now \in (clock + 1) .. (clock + MaxStep) :
          /\ ReadClock(now)
          /\ mem' = [k \in Keys |->
                        IF HasStore THEN LoadRange(disk[k], Cutoff(now), now) ELSE <<>>]
    /\ running' = TRUE
    /\ UNCHANGED <<disk, lastPrune, call>>

\* The last instant explored: nothing is in progress and nothing more happens.
AtHorizon ==
    /\ clock = MaxClock
    /\ running
    /\ call = NoCall
    /\ UNCHANGED vars

Next ==
    \/ \E k \in Keys, r \in Readings : BeginRecord(k, r)
    \/ Persist
    \/ PersistFails
    \/ PruneStore
    \/ Remember
    \/ Kill
    \/ Start
    \/ AtHorizon

Spec == Init /\ [][Next]_vars

\* A reconcile that has begun runs on, and the kubelet restarts the container.
FairSpec ==
    /\ Spec
    /\ WF_vars(Persist \/ PersistFails)
    /\ WF_vars(PruneStore)
    /\ WF_vars(Remember)
    /\ WF_vars(Start)

-----------------------------------------------------------------------------
(* Properties *)

IsChronological(b) == \A i, j \in DOMAIN b : i < j => b[i].at < b[j].at

\* Windows and buckets stay ordered by timestamp without duplicates, through
\* failed writes, kills and hydration: Summarize and both searches rely on it.
Chronological == \A k \in Keys : IsChronological(mem[k]) /\ IsChronological(disk[k])

\* Every sample is timestamped by a past reading of the clock.
Past ==
    \A k \in Keys :
        /\ \A s \in Range(mem[k]) : s.at <= clock
        /\ \A s \in Range(disk[k]) : s.at <= clock

\* Write-ahead order of Record: the sample in flight carries the latest reading
\* of the clock, no window has it yet, and the file has it exactly from the
\* moment store.Append has committed.
CallInProgress ==
    call # NoCall =>
        /\ running
        /\ call.sample.at = clock
        /\ [power |-> call.sample.power, active |-> call.sample.active] \in Readings
        /\ \A k \in Keys : \A s \in Range(mem[k]) : s.at < clock
        /\ call.stage = "append" =>
              HasStore /\ \A k \in Keys : \A s \in Range(disk[k]) : s.at < clock
        /\ call.stage = "prune" => HasStore /\ call.sample \in Range(disk[call.key])
        /\ call.stage = "remember" /\ HasStore => call.sample \in Range(disk[call.key])

\* A process that is down has no window and no call.
Down == ~running => mem = Empty /\ call = NoCall

Retained(b) == {s \in Range(b) : s.at >= Cutoff(clock)}

InFlight(k) ==
    IF call.stage \in {"prune", "remember"} /\ call.key = k THEN {call.sample} ELSE {}

\* "A living window never diverges from what is durable" (Record's comment):
\* within the retention window, memory holds what the file holds, but for the
\* one sample that Record has committed and not yet added.
WindowMatchesStore ==
    running /\ HasStore =>
        \A k \in Keys : Retained(mem[k]) = Retained(disk[k]) \ InFlight(k)

\* Instant by instant: t is observed when some sample precedes or equals it, and
\* takes its power and its class from the latest such sample.
Observed(samples, start, end) ==
    {t \in start .. (end - 1) : \E i \in DOMAIN samples : samples[i].at <= t}

Current(samples, t) ==
    CHOOSE s \in Range(samples) :
        /\ s.at <= t
        /\ \A r \in Range(samples) : r.at <= t => r.at <= s.at

SummaryByInstant(samples, start, end) ==
    LET all == Observed(samples, start, end)
        active == {t \in all : IsActive(Current(samples, t))}
        power == [t \in all |-> Current(samples, t).power]
    IN  [totalHours   |-> Cardinality(all),
         activeHours  |-> Cardinality(active),
         totalEnergy  |-> Total(power, all),
         activeEnergy |-> Total(power, active)]

\* Summarize credits every instant of a report period once, with the reading
\* in effect at that instant and the threshold in effect at that reading.
SummaryIsByInstant ==
    \A k \in Keys : \A start, end \in 0 .. (clock + 1) :
        Summarize(mem[k], start, end) = SummaryByInstant(mem[k], start, end)

\* While the process lives, time and energy a report has credited are never
\* taken back, whether by later samples, by a changed threshold or by expiry,
\* in any period that starts no earlier than the samples that remain.
CreditNeverShrinks ==
    [][running /\ running' =>
         \A k \in Keys : \A start \in 0 .. clock :
            LET before == Summarize(mem[k], start, clock)
                after == Summarize(mem'[k], start, clock')
            IN  /\ mem[k] # <<>>
                /\ mem'[k] # <<>>
                /\ mem'[k][1].at <= start \/ mem'[k][1] = mem[k][1]
                => /\ before.totalHours <= after.totalHours
                   /\ before.activeHours <= after.activeHours
                   /\ before.totalEnergy <= after.totalEnergy
                   /\ before.activeEnergy <= after.activeEnergy]_vars

History == INSTANCE SampleHistory WITH
    now <- clock,
    history <- [k \in Keys |-> Retained(IF HasStore THEN disk[k] ELSE mem[k])],
    Durable <- HasStore

\* The file, or without one the window, is the history SampleHistory promises:
\* no step but a Record changes what the retention window holds.
RefinesHistory == History!Spec

\* A sample that reached the file is in the window readers see before it
\* expires, even if the process dies between the two writes.
DurableBecomesVisible ==
    \A k \in Keys, t \in 1 .. MaxClock :
        (\E s \in Range(disk[k]) : s.at = t)
            ~> \/ \E s \in Range(mem[k]) : s.at = t
               \/ t < Cutoff(clock)

\* pruneInterval's comment: once a Record has passed pruneStore, no bucket holds a
\* sample older than the retention window by pruneInterval or more, though most
\* Records skip the prune, a failed one is not tried again before its time, and a
\* restart forgets when the last one ran - unless the last prune itself has failed.
OverRetentionBounded ==
    call.stage = "remember" /\ HasStore =>
        \/ \E k \in Keys : \E s \in Range(disk[k]) : s.at < Cutoff(lastPrune)
        \/ \A k \in Keys : \A s \in Range(disk[k]) :
              call.sample.at - s.at < Retention + PruneInterval
=============================================================================
