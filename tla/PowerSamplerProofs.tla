------------------------- MODULE PowerSamplerProofs -------------------------
(***************************************************************************)
(* What PowerSampler guarantees for every set of keys and readings, every  *)
(* retention, prune interval and choice of faults.                         *)
(***************************************************************************)
EXTENDS PowerSampler, FiniteSums, SequenceTheorems, TLAPS

-----------------------------------------------------------------------------
(* The search and the slices it cuts.                                       *)

\* Samples are stamped with natural numbers.
LEMMA SampleTimes == \A s \in Sample : s.at \in Nat
BY DEF Sample

\* Seek finds the boundary between the samples before t and the others.
LEMMA SeekBoundary ==
    ASSUME NEW b \in Seq(Sample), NEW t \in Int, IsChronological(b)
    PROVE  /\ Seek(b, t) \in 1 .. (Len(b) + 1)
           /\ \A i \in 1 .. Len(b) : i < Seek(b, t) <=> b[i].at < t
<1> DEFINE S == {i \in DOMAIN b : b[i].at >= t} \cup {Len(b) + 1}
<1>1. /\ Len(b) \in Nat
      /\ DOMAIN b = 1 .. Len(b)
      /\ \A i \in 1 .. Len(b) : b[i] \in Sample
  BY LenProperties, ElementOfSeq
<1>2. S \subseteq Nat /\ S # {}
  BY <1>1
<1>3. PICK m \in S : \A n \in S : m <= n
  BY <1>2, LeastNatural
<1>4. \A x \in S : (\A n \in S : x <= n) => x = m
  <2> SUFFICES ASSUME NEW x \in S, \A n \in S : x <= n
               PROVE  x = m
    OBVIOUS
  <2>1. x <= m /\ m <= x
    BY <1>3
  <2> QED BY <2>1, <1>2
<1>5. Seek(b, t) = m
  BY <1>3, <1>4 DEF Seek, Min
<1>6. ASSUME NEW i \in 1 .. Len(b)
      PROVE  i < m <=> b[i].at < t
  <2>1. b[i].at \in Nat
    BY <1>1, SampleTimes
  <2>2. CASE i < m
    <3>1. i \notin S
      BY <2>2, <1>3, <1>2
    <3> QED BY <3>1, <2>1, <2>2, <1>1
  <2>3. CASE ~(i < m)
    <3>1. m \in 1 .. Len(b) /\ m <= i
      BY <2>3, <1>1, <1>2
    <3>2. b[m].at >= t
      BY <3>1, <1>1
    <3>3. b[m].at <= b[i].at
      BY <3>1, <1>1, SampleTimes DEF IsChronological
    <3>4. b[m].at \in Nat
      BY <3>1, <1>1, SampleTimes
    <3> QED BY <3>2, <3>3, <3>4, <2>1, <2>3
  <2> QED BY <2>2, <2>3
<1>7. m \in 1 .. (Len(b) + 1)
  BY <1>1
<1> QED BY <1>5, <1>6, <1>7

\* From(b, t) is an ordered sequence of exactly the samples at or after t.
LEMMA FromSlice ==
    ASSUME NEW b \in Seq(Sample), NEW t \in Int, IsChronological(b)
    PROVE  /\ From(b, t) \in Seq(Sample)
           /\ IsChronological(From(b, t))
           /\ Range(From(b, t)) = {s \in Range(b) : s.at >= t}
<1> DEFINE k == Seek(b, t)
           f == SubSeq(b, k, Len(b))
<1>1. /\ Len(b) \in Nat
      /\ DOMAIN b = 1 .. Len(b)
      /\ \A i \in 1 .. Len(b) : b[i] \in Sample /\ b[i].at \in Nat
  BY LenProperties, ElementOfSeq, SampleTimes
<1>2. /\ k \in 1 .. (Len(b) + 1)
      /\ \A i \in 1 .. Len(b) : i < k <=> b[i].at < t
  BY SeekBoundary
<1> HIDE DEF k
<1>3. /\ f \in Seq(Sample)
      /\ Len(f) = Len(b) - k + 1
      /\ DOMAIN f = 1 .. Len(f)
      /\ \A i \in 1 .. Len(f) : f[i] = b[k + i - 1]
  BY <1>1, <1>2, SubSeqProperties, LenProperties
<1> HIDE DEF f
<1>4. \A i \in 1 .. Len(f) : k + i - 1 \in 1 .. Len(b) /\ ~(k + i - 1 < k)
  BY <1>1, <1>2, <1>3
<1>5. IsChronological(f)
  <2> SUFFICES ASSUME NEW i \in 1 .. Len(f), NEW j \in 1 .. Len(f), i < j
               PROVE  f[i].at < f[j].at
    BY <1>3 DEF IsChronological
  <2>1. k + i - 1 < k + j - 1
    BY <1>1, <1>2, <1>3
  <2>2. b[k + i - 1].at < b[k + j - 1].at
    BY <2>1, <1>1, <1>4 DEF IsChronological
  <2> QED BY <2>2, <1>3
<1>6. ASSUME NEW s \in Range(f)
      PROVE  s \in Range(b) /\ s.at >= t
  <2>1. PICK i \in 1 .. Len(f) : s = f[i]
    BY <1>3 DEF Range
  <2>2. k + i - 1 \in 1 .. Len(b) /\ ~(k + i - 1 < k) /\ s = b[k + i - 1]
    BY <2>1, <1>3, <1>4
  <2>3. s \in Range(b)
    BY <2>2, <1>1 DEF Range
  <2>4. ~(s.at < t) /\ s.at \in Nat
    BY <2>2, <1>1, <1>2
  <2> QED BY <2>3, <2>4
<1>7. ASSUME NEW s \in Range(b), s.at >= t
      PROVE  s \in Range(f)
  <2>1. PICK i \in 1 .. Len(b) : s = b[i]
    BY <1>1 DEF Range
  <2>2. i >= k
    BY <2>1, <1>1, <1>2, <1>7
  <2>3. PICK j \in 1 .. Len(f) : k + j - 1 = i
    <3>1. i - k + 1 \in 1 .. Len(f) /\ k + (i - k + 1) - 1 = i
      BY <2>2, <1>1, <1>2, <1>3
    <3> QED BY <3>1
  <2>4. f[j] = s
    BY <2>1, <2>3, <1>3
  <2> QED BY <2>4, <1>3 DEF Range
<1>8. Range(f) = {s \in Range(b) : s.at >= t}
  BY <1>6, <1>7
<1> QED BY <1>3, <1>5, <1>8 DEF From, f, k

\* Before(b, t) is an ordered sequence of exactly the samples before t.
LEMMA BeforeSlice ==
    ASSUME NEW b \in Seq(Sample), NEW t \in Int, IsChronological(b)
    PROVE  /\ Before(b, t) \in Seq(Sample)
           /\ IsChronological(Before(b, t))
           /\ Range(Before(b, t)) = {s \in Range(b) : s.at < t}
<1> DEFINE k == Seek(b, t)
           f == SubSeq(b, 1, k - 1)
<1>1. /\ Len(b) \in Nat
      /\ DOMAIN b = 1 .. Len(b)
      /\ \A i \in 1 .. Len(b) : b[i] \in Sample /\ b[i].at \in Nat
  BY LenProperties, ElementOfSeq, SampleTimes
<1>2. /\ k \in 1 .. (Len(b) + 1)
      /\ \A i \in 1 .. Len(b) : i < k <=> b[i].at < t
  BY SeekBoundary
<1> HIDE DEF k
<1>3. /\ f \in Seq(Sample)
      /\ Len(f) = k - 1
      /\ DOMAIN f = 1 .. Len(f)
      /\ \A i \in 1 .. Len(f) : f[i] = b[i]
  BY <1>1, <1>2, SubSeqProperties, LenProperties
<1> HIDE DEF f
<1>4. IsChronological(f)
  BY <1>1, <1>2, <1>3 DEF IsChronological
<1>5. ASSUME NEW s \in Range(f)
      PROVE  s \in Range(b) /\ s.at < t
  <2>1. PICK i \in 1 .. Len(f) : s = f[i]
    BY <1>3 DEF Range
  <2>2. i \in 1 .. Len(b) /\ i < k /\ s = b[i]
    BY <2>1, <1>1, <1>2, <1>3
  <2> QED BY <2>2, <1>1, <1>2 DEF Range
<1>6. ASSUME NEW s \in Range(b), s.at < t
      PROVE  s \in Range(f)
  <2>1. PICK i \in 1 .. Len(b) : s = b[i]
    BY <1>1 DEF Range
  <2>2. i < k
    BY <2>1, <1>1, <1>2, <1>6
  <2>3. i \in 1 .. Len(f) /\ f[i] = b[i]
    BY <2>2, <1>1, <1>2, <1>3
  <2> QED BY <2>1, <2>3, <1>3 DEF Range
<1>7. Range(f) = {s \in Range(b) : s.at < t}
  BY <1>5, <1>6
<1> QED BY <1>3, <1>4, <1>7 DEF Before, f, k

\* A sample later than all of b goes to the end of b.
LEMMA AppendLatest ==
    ASSUME NEW b \in Seq(Sample), NEW s \in Sample, IsChronological(b),
           \A r \in Range(b) : r.at < s.at
    PROVE  /\ Append(b, s) \in Seq(Sample)
           /\ IsChronological(Append(b, s))
           /\ Range(Append(b, s)) = Range(b) \cup {s}
<1> DEFINE f == Append(b, s)
<1>1. /\ Len(b) \in Nat
      /\ DOMAIN b = 1 .. Len(b)
      /\ \A i \in 1 .. Len(b) : b[i] \in Range(b)
  BY LenProperties DEF Range
<1>2. /\ f \in Seq(Sample)
      /\ Len(f) = Len(b) + 1
      /\ DOMAIN f = 1 .. (Len(b) + 1)
      /\ \A i \in 1 .. Len(b) : f[i] = b[i]
      /\ f[Len(b) + 1] = s
  BY <1>1, AppendProperties, LenProperties
<1> HIDE DEF f
<1>3. IsChronological(f)
  <2> SUFFICES ASSUME NEW i \in 1 .. (Len(b) + 1), NEW j \in 1 .. (Len(b) + 1), i < j
               PROVE  f[i].at < f[j].at
    BY <1>2 DEF IsChronological
  <2>1. i \in 1 .. Len(b)
    BY <1>1
  <2>2. CASE j \in 1 .. Len(b)
    BY <2>1, <2>2, <1>1, <1>2 DEF IsChronological
  <2>3. CASE j = Len(b) + 1
    BY <2>1, <2>3, <1>1, <1>2
  <2> QED BY <2>2, <2>3, <1>1
<1>4. Range(f) = Range(b) \cup {s}
  <2>1. \A r \in Range(f) : r \in Range(b) \cup {s}
    BY <1>1, <1>2 DEF Range
  <2>2. \A r \in Range(b) \cup {s} : r \in Range(f)
    BY <1>1, <1>2 DEF Range
  <2> QED BY <2>1, <2>2
<1> QED BY <1>2, <1>3, <1>4 DEF f

\* Into a bucket whose samples are all earlier, Put is an append.
LEMMA PutLatest ==
    ASSUME NEW b \in Seq(Sample), NEW s \in Sample, IsChronological(b),
           \A r \in Range(b) : r.at < s.at
    PROVE  Put(b, s) = Append(b, s)
<1>1. /\ Len(b) \in Nat
      /\ DOMAIN b = 1 .. Len(b)
      /\ \A i \in 1 .. Len(b) : b[i] \in Range(b) /\ b[i] \in Sample /\ b[i].at \in Nat
      /\ s.at \in Nat
  BY LenProperties, ElementOfSeq, SampleTimes DEF Range
<1>2. ASSUME NEW t \in Int, t >= s.at
      PROVE  Seek(b, t) = Len(b) + 1
  <2>1. /\ Seek(b, t) \in 1 .. (Len(b) + 1)
        /\ \A i \in 1 .. Len(b) : i < Seek(b, t) <=> b[i].at < t
    BY SeekBoundary
  <2>2. \A i \in 1 .. Len(b) : b[i].at < t
    BY <1>1, <1>2
  <2>3. Seek(b, t) \notin 1 .. Len(b)
    BY <2>1, <2>2, <1>1
  <2> QED BY <2>1, <2>3, <1>1
<1>3. Seek(b, s.at) - 1 = Len(b) /\ Seek(b, s.at + 1) = Len(b) + 1
  BY <1>1, <1>2
<1>4. Before(b, s.at) = b
  BY <1>3, SubSeqFull DEF Before
<1>5. From(b, s.at + 1) = <<>>
  BY <1>1, <1>3, SubSeqEmpty DEF From
<1>6. Put(b, s) = b \o <<s>> \o <<>>
  BY <1>4, <1>5 DEF Put
<1>7. b \o <<s>> = Append(b, s) /\ Append(b, s) \in Seq(Sample)
  BY AppendIsConcat, AppendProperties
<1>8. Append(b, s) \o <<>> = Append(b, s)
  BY <1>7, ConcatEmptySeq
<1> QED BY <1>6, <1>7, <1>8

-----------------------------------------------------------------------------
(* The inductive invariant (PowerSampler defines its parts): types, order,  *)
(* and where the call in progress stands with respect to the clock, the     *)
(* file and the windows.                                                    *)

Ordered == TypeOK /\ Chronological /\ Past /\ CallInProgress /\ Down

\* The elements of a sequence of samples are samples.
LEMMA SamplesOf ==
    ASSUME NEW b \in Seq(Sample)
    PROVE  \A s \in Range(b) : s \in Sample /\ s.at \in Nat
BY LenProperties, ElementOfSeq, SampleTimes DEF Range

\* A call that has a stage of Record is a Record call.
LEMMA CallTypes ==
    ASSUME TypeOK
    PROVE  /\ call.stage \in {"append", "prune", "remember"} =>
                 call # NoCall /\ call \in RecordCall
           /\ call # NoCall => call \in RecordCall
<1>1. NoCall.stage = "none"
  BY DEF NoCall
<1> QED BY <1>1 DEF TypeOK

\* The samples of an empty sequence.
LEMMA EmptyRange == <<>> \in Seq(Sample) /\ IsChronological(<<>>) /\ Range(<<>>) = {}
<1>1. <<>> \in Seq(Sample) /\ DOMAIN <<>> = {}
  BY EmptySeq, LenProperties
<1> QED BY <1>1 DEF IsChronological, Range

\* The sampler starts in order.
LEMMA InitOrdered == Init => Ordered
<1> SUFFICES ASSUME Init
             PROVE  Ordered
  OBVIOUS
<1>1. TypeOK
  BY EmptyRange DEF Init, TypeOK, Empty
<1>2. Chronological /\ Past
  BY EmptyRange DEF Init, Chronological, Past, Empty
<1>3. CallInProgress /\ Down
  BY DEF Init, CallInProgress, Down
<1> QED BY <1>1, <1>2, <1>3 DEF Ordered

\* Record begins: only the clock and the call change, and the clock has passed
\* every sample.
LEMMA BeginRecordOrdered ==
    ASSUME Ordered, NEW k \in Keys, NEW r \in Readings, BeginRecord(k, r)
    PROVE  Ordered'
<1> USE DEF Ordered
<1>1. PICK now \in (clock + 1) .. (clock + MaxStep) :
         /\ clock' = now
         /\ call' = [stage  |-> IF HasStore THEN "append" ELSE "remember",
                     key    |-> k,
                     sample |-> [at |-> now, power |-> r.power, active |-> r.active]]
  BY DEF BeginRecord, ReadClock
<1>2. /\ running
      /\ UNCHANGED <<running, mem, disk, lastPrune>>
  BY DEF BeginRecord
<1>3. /\ clock \in Nat
      /\ clock' \in Nat
      /\ clock' > clock
  BY <1>1, TimesAssumption DEF TypeOK
<1>4. /\ r.power \in Nat
      /\ r.active \in Nat
      /\ [power |-> r.power, active |-> r.active] = r
  BY ReadingsAssumption
<1>5. call' \in RecordCall
  BY <1>1, <1>3, <1>4 DEF RecordCall, Sample
<1>6. TypeOK'
  BY <1>2, <1>3, <1>5 DEF TypeOK
<1>7. Chronological'
  BY <1>2 DEF Chronological
<1>8. \A q \in Keys :
         /\ mem'[q] = mem[q] /\ disk'[q] = disk[q]
         /\ \A s \in Range(mem[q]) : s.at < clock'
         /\ \A s \in Range(disk[q]) : s.at < clock'
  <2> SUFFICES ASSUME NEW q \in Keys
               PROVE  /\ \A s \in Range(mem[q]) : s.at < clock'
                      /\ \A s \in Range(disk[q]) : s.at < clock'
    BY <1>2
  <2>1. \A s \in Range(mem[q]) \cup Range(disk[q]) : s.at \in Nat
    BY SampleTimes, SamplesOf DEF TypeOK
  <2> QED BY <2>1, <1>3 DEF Past
<1>9. Past'
  <2>1. \A q \in Keys :
           /\ \A s \in Range(mem'[q]) : s.at < clock' /\ s.at \in Nat
           /\ \A s \in Range(disk'[q]) : s.at < clock' /\ s.at \in Nat
    BY <1>6, <1>8, SamplesOf DEF TypeOK
  <2>2. \A q \in Keys :
           /\ \A s \in Range(mem'[q]) : s.at <= clock'
           /\ \A s \in Range(disk'[q]) : s.at <= clock'
    BY <2>1, <1>3
  <2> QED BY <2>2 DEF Past
<1>10. CallInProgress'
  <2>1. /\ call'.sample.at = clock'
        /\ [power |-> call'.sample.power, active |-> call'.sample.active] \in Readings
    BY <1>1, <1>4
  <2>2. call'.stage = "append" => HasStore
    BY <1>1
  <2>3. call'.stage # "prune"
    BY <1>1
  <2>4. ~(call'.stage = "remember" /\ HasStore)
    BY <1>1
  <2> QED BY <2>1, <2>2, <2>3, <2>4, <1>2, <1>8 DEF CallInProgress
<1>11. Down'
  BY <1>2 DEF Down
<1> QED BY <1>6, <1>7, <1>9, <1>10, <1>11

\* The append commits: the sample is the latest of its bucket.
LEMMA PersistOrdered ==
    ASSUME Ordered, Persist
    PROVE  /\ Ordered'
           /\ \A q \in Keys : Range(disk'[q]) =
                 IF q = call.key THEN Range(disk[q]) \cup {call.sample} ELSE Range(disk[q])
<1> USE DEF Ordered
<1> DEFINE k == call.key
           s == call.sample
<1>1. /\ call.stage = "append"
      /\ disk' = [disk EXCEPT ![k] = Put(@, s)]
      /\ call' = [call EXCEPT !.stage = "prune"]
      /\ UNCHANGED <<clock, running, mem, lastPrune>>
  BY DEF Persist
<1>2. call # NoCall /\ call \in RecordCall /\ k \in Keys /\ s \in Sample
  BY <1>1, CallTypes DEF RecordCall
<1>3. /\ call' \in RecordCall
      /\ call'.stage = "prune" /\ call'.key = k /\ call'.sample = s
  BY <1>1, <1>2 DEF RecordCall
<1>4. /\ running /\ HasStore /\ s.at = clock
      /\ [power |-> s.power, active |-> s.active] \in Readings
      /\ \A q \in Keys : \A r \in Range(mem[q]) : r.at < clock
      /\ \A r \in Range(disk[k]) : r.at < s.at
  BY <1>1, <1>2 DEF CallInProgress
<1>5. disk[k] \in Seq(Sample) /\ IsChronological(disk[k])
  BY <1>2 DEF TypeOK, Chronological
<1>6. /\ Append(disk[k], s) \in Seq(Sample)
      /\ IsChronological(Append(disk[k], s))
      /\ Range(Append(disk[k], s)) = Range(disk[k]) \cup {s}
  BY <1>2, <1>4, <1>5, AppendLatest
<1>7. /\ disk' \in [Keys -> Seq(Sample)]
      /\ disk'[k] = Append(disk[k], s)
      /\ \A q \in Keys : q # k => disk'[q] = disk[q]
  <2>1. Put(disk[k], s) = Append(disk[k], s)
    BY <1>2, <1>4, <1>5, PutLatest
  <2> QED BY <2>1, <1>1, <1>2, <1>6 DEF TypeOK
<1>8. \A q \in Keys : Range(disk'[q]) =
         IF q = k THEN Range(disk[q]) \cup {s} ELSE Range(disk[q])
  BY <1>6, <1>7
<1>9. TypeOK'
  BY <1>1, <1>3, <1>7 DEF TypeOK
<1>10. Chronological'
  BY <1>1, <1>6, <1>7 DEF Chronological
<1>11. Past'
  <2>1. \A q \in Keys : \A r \in Range(mem'[q]) : r.at <= clock'
    BY <1>1 DEF Past
  <2>2. \A q \in Keys : \A r \in Range(disk'[q]) : r.at <= clock'
    <3>1. s.at <= clock
      BY <1>4 DEF TypeOK
    <3>2. \A q \in Keys : \A r \in Range(disk[q]) : r.at <= clock
      BY DEF Past
    <3>3. ASSUME NEW q \in Keys, NEW r \in Range(disk'[q])
          PROVE  r.at <= clock
      <4>1. r \in Range(disk[q]) \/ r = s
        BY <3>3, <1>8
      <4> QED BY <4>1, <3>1, <3>2
    <3> QED BY <3>3, <1>1
  <2> QED BY <2>1, <2>2 DEF Past
<1>12. CallInProgress'
  <2>1. call'.sample \in Range(disk'[call'.key])
    BY <1>2, <1>3, <1>8
  <2> QED BY <2>1, <1>1, <1>3, <1>4 DEF CallInProgress
<1>13. Down'
  BY <1>1, <1>4 DEF Down
<1> QED BY <1>8, <1>9, <1>10, <1>11, <1>12, <1>13

\* A failed append: the call ends with nothing changed.
LEMMA PersistFailsOrdered ==
    ASSUME Ordered, PersistFails
    PROVE  Ordered'
<1>1. call' = NoCall /\ UNCHANGED <<clock, running, mem, disk, lastPrune>>
  BY DEF PersistFails
<1> QED BY <1>1 DEF Ordered, TypeOK, Chronological, Past, CallInProgress, Down

\* A prune keeps what the retention window at the sample's instant holds.
LEMMA PruneStoreOrdered ==
    ASSUME Ordered, PruneStore
    PROVE  /\ Ordered'
           /\ \A q \in Keys :
                 /\ Range(disk'[q]) \subseteq Range(disk[q])
                 /\ \A r \in Range(disk[q]) : r.at >= Cutoff(clock) => r \in Range(disk'[q])
<1> USE DEF Ordered
<1> DEFINE k == call.key
           s == call.sample
<1>1. /\ call.stage = "prune"
      /\ call' = [call EXCEPT !.stage = "remember"]
      /\ UNCHANGED <<clock, running, mem>>
      /\ lastPrune' = s.at \/ lastPrune' = lastPrune
      /\ disk' = Prune(Cutoff(s.at)) \/ disk' = disk
  BY DEF PruneStore
<1>2. call # NoCall /\ call \in RecordCall /\ k \in Keys /\ s \in Sample
  BY <1>1, CallTypes DEF RecordCall
<1>3. /\ call' \in RecordCall
      /\ call'.stage = "remember" /\ call'.key = k /\ call'.sample = s
  BY <1>1, <1>2 DEF RecordCall
<1>4. /\ running /\ s.at = clock /\ clock \in Nat
      /\ [power |-> s.power, active |-> s.active] \in Readings
      /\ \A q \in Keys : \A r \in Range(mem[q]) : r.at < clock
      /\ s \in Range(disk[k])
  BY <1>1, <1>2 DEF CallInProgress, TypeOK
<1>5. Cutoff(clock) \in Int /\ clock >= Cutoff(clock)
  BY <1>4, TimesAssumption DEF Cutoff
<1>6. ASSUME NEW q \in Keys
      PROVE  /\ disk'[q] \in Seq(Sample)
             /\ IsChronological(disk'[q])
             /\ Range(disk'[q]) \subseteq Range(disk[q])
             /\ \A r \in Range(disk[q]) : r.at >= Cutoff(clock) => r \in Range(disk'[q])
  <2>1. disk[q] \in Seq(Sample) /\ IsChronological(disk[q])
    BY DEF TypeOK, Chronological
  <2>2. CASE disk' = disk
    BY <2>1, <2>2
  <2>3. CASE disk' = Prune(Cutoff(s.at))
    <3>1. disk'[q] = From(disk[q], Cutoff(clock))
      BY <2>3, <1>4 DEF Prune
    <3> QED BY <3>1, <2>1, <1>5, FromSlice
  <2> QED BY <2>2, <2>3, <1>1
<1>7. disk' \in [Keys -> Seq(Sample)]
  <2>1. CASE disk' = disk
    BY <2>1 DEF TypeOK
  <2>2. CASE disk' = Prune(Cutoff(s.at))
    BY <2>2, <1>6 DEF Prune
  <2> QED BY <2>1, <2>2, <1>1
<1>8. TypeOK'
  <2>1. lastPrune' \in Nat
    BY <1>1, <1>4 DEF TypeOK
  <2> QED BY <2>1, <1>1, <1>3, <1>7 DEF TypeOK
<1>9. Chronological'
  BY <1>1, <1>6 DEF Chronological
<1>10. Past'
  BY <1>1, <1>6 DEF Past
<1>11. CallInProgress'
  <2>1. s \in Range(disk'[k])
    BY <1>2, <1>4, <1>5, <1>6
  <2> QED BY <2>1, <1>1, <1>3, <1>4 DEF CallInProgress
<1>12. Down'
  BY <1>1, <1>4 DEF Down
<1> QED BY <1>6, <1>8, <1>9, <1>10, <1>11, <1>12

\* The window takes the sample and drops what is older than the retention.
LEMMA RememberOrdered ==
    ASSUME Ordered, Remember
    PROVE  /\ Ordered'
           /\ \A q \in Keys : q # call.key => mem'[q] = mem[q]
           /\ Range(mem'[call.key]) =
                 {r \in Range(mem[call.key]) \cup {call.sample} : r.at >= Cutoff(clock)}
<1> USE DEF Ordered
<1> DEFINE k == call.key
           s == call.sample
<1>1. /\ call.stage = "remember"
      /\ mem' = [mem EXCEPT ![k] = From(Append(@, s), Cutoff(s.at))]
      /\ call' = NoCall
      /\ UNCHANGED <<clock, running, disk, lastPrune>>
  BY DEF Remember
<1>2. call # NoCall /\ call \in RecordCall /\ k \in Keys /\ s \in Sample
  BY <1>1, CallTypes DEF RecordCall
<1>3. /\ running /\ s.at = clock /\ clock \in Nat
      /\ \A r \in Range(mem[k]) : r.at < s.at
  BY <1>2 DEF CallInProgress, TypeOK
<1>4. Cutoff(s.at) \in Int
  BY <1>3, TimesAssumption DEF Cutoff
<1>5. mem[k] \in Seq(Sample) /\ IsChronological(mem[k])
  BY <1>2 DEF TypeOK, Chronological
<1>6. /\ Append(mem[k], s) \in Seq(Sample)
      /\ IsChronological(Append(mem[k], s))
      /\ Range(Append(mem[k], s)) = Range(mem[k]) \cup {s}
  BY <1>2, <1>3, <1>5, AppendLatest
<1>7. /\ From(Append(mem[k], s), Cutoff(s.at)) \in Seq(Sample)
      /\ IsChronological(From(Append(mem[k], s), Cutoff(s.at)))
      /\ Range(From(Append(mem[k], s), Cutoff(s.at)))
            = {r \in Range(mem[k]) \cup {s} : r.at >= Cutoff(s.at)}
  BY <1>4, <1>6, FromSlice
<1>8. /\ mem' \in [Keys -> Seq(Sample)]
      /\ IsChronological(mem'[k])
      /\ Range(mem'[k]) = {r \in Range(mem[k]) \cup {s} : r.at >= Cutoff(clock)}
      /\ \A q \in Keys : q # k => mem'[q] = mem[q]
  BY <1>1, <1>2, <1>3, <1>7 DEF TypeOK
<1>9. TypeOK'
  BY <1>1, <1>8 DEF TypeOK
<1>10. Chronological'
  BY <1>1, <1>8 DEF Chronological
<1>11. Past'
  <2>1. \A r \in Range(mem'[k]) : r.at <= clock
    <3>1. \A r \in Range(mem[k]) : r.at <= clock
      BY <1>2 DEF Past
    <3>2. s.at <= clock
      BY <1>3
    <3> QED BY <3>1, <3>2, <1>8
  <2> QED BY <2>1, <1>1, <1>8 DEF Past
<1>12. CallInProgress'
  BY <1>1 DEF CallInProgress
<1>13. Down'
  BY <1>1, <1>3 DEF Down
<1> QED BY <1>8, <1>9, <1>10, <1>11, <1>12, <1>13

\* The process ends: windows and call are gone, the file is as it was.
LEMMA KillOrdered ==
    ASSUME Ordered, Kill
    PROVE  Ordered'
<1>1. /\ mem' = Empty /\ call' = NoCall /\ lastPrune' = 0 /\ running' = FALSE
      /\ UNCHANGED <<clock, disk>>
  BY DEF Kill
<1>2. /\ mem' \in [Keys -> Seq(Sample)]
      /\ \A q \in Keys : IsChronological(mem'[q]) /\ Range(mem'[q]) = {}
  BY <1>1, EmptyRange DEF Empty
<1>3. TypeOK'
  BY <1>1, <1>2 DEF Ordered, TypeOK
<1>4. Chronological' /\ Past'
  BY <1>1, <1>2 DEF Ordered, Chronological, Past
<1>5. CallInProgress' /\ Down'
  BY <1>1 DEF CallInProgress, Down
<1> QED BY <1>3, <1>4, <1>5 DEF Ordered

\* Hydration reads back exactly the retention window, all of it in the past.
LEMMA StartOrdered ==
    ASSUME Ordered, Start
    PROVE  /\ Ordered'
           /\ HasStore => \A q \in Keys :
                 Range(mem'[q]) = {r \in Range(disk[q]) : r.at >= Cutoff(clock')}
           /\ ~HasStore => \A q \in Keys : Range(mem'[q]) = {}
<1> USE DEF Ordered
<1>1. PICK now \in (clock + 1) .. (clock + MaxStep) :
         /\ clock' = now
         /\ mem' = [k \in Keys |->
                        IF HasStore THEN LoadRange(disk[k], Cutoff(now), now) ELSE <<>>]
  BY DEF Start, ReadClock
<1>2. running' = TRUE /\ UNCHANGED <<disk, lastPrune, call>> /\ ~running
  BY DEF Start
<1>3. /\ clock \in Nat /\ now \in Nat /\ now > clock
      /\ Cutoff(now) \in Int
  BY <1>1, TimesAssumption DEF TypeOK, Cutoff
<1>4. call = NoCall
  BY <1>2 DEF CallInProgress
<1>5. ASSUME NEW q \in Keys, HasStore
      PROVE  /\ mem'[q] \in Seq(Sample)
             /\ IsChronological(mem'[q])
             /\ Range(mem'[q]) = {r \in Range(disk[q]) : r.at >= Cutoff(now)}
  <2> DEFINE b == Before(disk[q], now)
  <2>1. disk[q] \in Seq(Sample) /\ IsChronological(disk[q])
    BY DEF TypeOK, Chronological
  <2>2. /\ b \in Seq(Sample) /\ IsChronological(b)
        /\ Range(b) = {r \in Range(disk[q]) : r.at < now}
    <3>1. now \in Int
      BY <1>3
    <3> QED BY <2>1, <3>1, BeforeSlice
  <2>3. Range(b) = Range(disk[q])
    <3>1. \A r \in Range(disk[q]) : r.at <= clock /\ r.at \in Nat
      BY <2>1, SamplesOf DEF Past
    <3>2. \A r \in Range(disk[q]) : r.at < now
      BY <3>1, <1>3
    <3> QED BY <3>2, <2>2
  <2> HIDE DEF b
  <2>4. /\ From(b, Cutoff(now)) \in Seq(Sample)
        /\ IsChronological(From(b, Cutoff(now)))
        /\ Range(From(b, Cutoff(now))) = {r \in Range(b) : r.at >= Cutoff(now)}
    BY <2>2, <1>3, FromSlice
  <2>5. mem'[q] = From(b, Cutoff(now))
    BY <1>1, <1>5 DEF LoadRange, b
  <2> QED BY <2>3, <2>4, <2>5
<1>6. ASSUME NEW q \in Keys, ~HasStore
      PROVE  mem'[q] \in Seq(Sample) /\ IsChronological(mem'[q]) /\ Range(mem'[q]) = {}
  BY <1>1, <1>6, EmptyRange
<1>7. TypeOK'
  <2>1. mem' \in [Keys -> Seq(Sample)]
    BY <1>1, <1>5, <1>6
  <2> QED BY <2>1, <1>1, <1>2, <1>3 DEF TypeOK
<1>8. Chronological'
  BY <1>2, <1>5, <1>6 DEF Chronological
<1>9. Past'
  <2>1. \A q \in Keys : \A r \in Range(disk[q]) : r.at <= clock /\ r.at \in Nat
    BY SamplesOf DEF Past, TypeOK
  <2>2. \A q \in Keys : \A r \in Range(disk[q]) : r.at <= now
    BY <2>1, <1>3
  <2>3. \A q \in Keys : \A r \in Range(mem'[q]) : r \in Range(disk[q])
    BY <1>5, <1>6
  <2> QED BY <2>2, <2>3, <1>1, <1>2 DEF Past
<1>10. CallInProgress'
  BY <1>2, <1>4 DEF CallInProgress
<1>11. Down'
  BY <1>2 DEF Down
<1> QED BY <1>1, <1>5, <1>6, <1>7, <1>8, <1>9, <1>10, <1>11

\* Order survives a step that changes nothing.
LEMMA StutterOrdered ==
    ASSUME Ordered, UNCHANGED vars
    PROVE  Ordered'
BY DEF vars, Ordered, TypeOK, Chronological, Past, CallInProgress, Down

\* Every step keeps the types, the order and the write-ahead discipline.
LEMMA StepOrdered ==
    ASSUME Ordered, [Next]_vars
    PROVE  Ordered'
<1>1. ASSUME NEW k \in Keys, NEW r \in Readings, BeginRecord(k, r)
      PROVE  Ordered'
  BY <1>1, BeginRecordOrdered
<1>2. CASE Persist
  BY <1>2, PersistOrdered
<1>3. CASE PersistFails
  BY <1>3, PersistFailsOrdered
<1>4. CASE PruneStore
  BY <1>4, PruneStoreOrdered
<1>5. CASE Remember
  BY <1>5, RememberOrdered
<1>6. CASE Kill
  BY <1>6, KillOrdered
<1>7. CASE Start
  BY <1>7, StartOrdered
<1>8. CASE AtHorizon
  BY <1>8, StutterOrdered DEF AtHorizon
<1>9. CASE UNCHANGED vars
  BY <1>9, StutterOrdered
<1> QED BY <1>1, <1>2, <1>3, <1>4, <1>5, <1>6, <1>7, <1>8, <1>9 DEF Next

\* Types, order, timestamps and the write-ahead order hold together in every state.
THEOREM OrderedInvariant == Spec => []Ordered
<1>1. Init => Ordered
  BY InitOrdered
<1>2. Ordered /\ [Next]_vars => Ordered'
  BY StepOrdered
<1> QED BY <1>1, <1>2, PTL DEF Spec

\* Whatever the clock, the faults and the restarts, the variables keep their types.
THEOREM TypeCorrect == Spec => []TypeOK
BY OrderedInvariant, PTL DEF Ordered

\* Windows and buckets are always in timestamp order, so that the binary search
\* of gcLocked, the cursor of LoadRange and Summarize read them correctly.
THEOREM AlwaysChronological == Spec => []Chronological
BY OrderedInvariant, PTL DEF Ordered

\* Record writes ahead: file first, window last.
THEOREM WriteAhead == Spec => []CallInProgress
BY OrderedInvariant, PTL DEF Ordered

-----------------------------------------------------------------------------
(* Memory agrees with the file.                                             *)

\* An empty window matches an empty file.
LEMMA InitMatches == Init => WindowMatchesStore
BY EmptyRange DEF Init, WindowMatchesStore, Retained, InFlight, Empty, NoCall

\* The cutoff moves with the clock.
LEMMA CutoffMonotone ==
    ASSUME NEW t \in Nat, NEW u \in Nat, u >= t
    PROVE  Cutoff(t) \in Int /\ Cutoff(u) \in Int /\ Cutoff(u) >= Cutoff(t)
BY TimesAssumption DEF Cutoff

\* The retention window only narrows as the clock advances.
LEMMA RetainedNarrows ==
    ASSUME NEW b \in Seq(Sample), clock \in Nat, clock' \in Nat, clock' >= clock
    PROVE  {r \in Range(b) : r.at >= Cutoff(clock')}
             = {r \in Retained(b) : r.at >= Cutoff(clock')}
<1>1. \A r \in Range(b) : r.at \in Nat
  BY SamplesOf
<1>2. Cutoff(clock) \in Int /\ Cutoff(clock') \in Int /\ Cutoff(clock') >= Cutoff(clock)
  BY CutoffMonotone
<1>3. \A r \in Range(b) : r.at >= Cutoff(clock') => r.at >= Cutoff(clock)
  BY <1>1, <1>2
<1> QED BY <1>3 DEF Retained

\* No step takes window and file apart within the retention window.
LEMMA StepMatches ==
    ASSUME Ordered, WindowMatchesStore, [Next]_vars
    PROVE  WindowMatchesStore'
<1>1. ASSUME NEW k \in Keys, NEW r \in Readings, BeginRecord(k, r)
      PROVE  WindowMatchesStore'
  <2>1. /\ UNCHANGED <<running, mem, disk>> /\ call = NoCall
        /\ call'.stage \in {"append", "remember"}
        /\ HasStore => call'.stage = "append"
        /\ clock \in Nat /\ clock' \in Nat /\ clock' >= clock
    <3>1. PICK now \in (clock + 1) .. (clock + MaxStep) :
             /\ clock' = now
             /\ call'.stage = IF HasStore THEN "append" ELSE "remember"
      BY <1>1 DEF BeginRecord, ReadClock
    <3>2. UNCHANGED <<running, mem, disk>> /\ call = NoCall
      BY <1>1 DEF BeginRecord
    <3> QED BY <3>1, <3>2, TimesAssumption DEF Ordered, TypeOK
  <2>2. SUFFICES ASSUME running, HasStore, NEW q \in Keys
                 PROVE  Retained(mem[q])' = Retained(disk[q])' \ InFlight(q)'
    BY <2>1 DEF WindowMatchesStore
  <2>3. InFlight(q) = {} /\ InFlight(q)' = {}
    BY <2>1, <2>2 DEF InFlight, NoCall
  <2>4. Retained(mem[q]) = Retained(disk[q])
    BY <2>2, <2>3 DEF WindowMatchesStore
  <2>5. mem[q] \in Seq(Sample) /\ disk[q] \in Seq(Sample)
    BY DEF Ordered, TypeOK
  <2>6. /\ Retained(mem[q])' = {s \in Retained(mem[q]) : s.at >= Cutoff(clock')}
        /\ Retained(disk[q])' = {s \in Retained(disk[q]) : s.at >= Cutoff(clock')}
    BY <2>1, <2>5, RetainedNarrows DEF Retained
  <2> QED BY <2>3, <2>4, <2>6
<1>2. CASE Persist
  <2>1. /\ call.stage = "append" /\ call # NoCall
        /\ UNCHANGED <<clock, running, mem>>
        /\ call'.stage = "prune" /\ call'.key = call.key /\ call'.sample = call.sample
    BY <1>2, CallTypes DEF Persist, Ordered, RecordCall
  <2>2. \A q \in Keys : Range(disk'[q]) =
           IF q = call.key THEN Range(disk[q]) \cup {call.sample} ELSE Range(disk[q])
    BY <1>2, PersistOrdered
  <2>3. SUFFICES ASSUME running, HasStore, NEW q \in Keys
                 PROVE  Retained(mem[q])' = Retained(disk[q])' \ InFlight(q)'
    BY <2>1 DEF WindowMatchesStore
  <2>4. Retained(mem[q])' = Retained(mem[q]) /\ Retained(mem[q]) = Retained(disk[q])
    BY <2>1, <2>3 DEF WindowMatchesStore, Retained, InFlight
  <2>5. call.sample \notin Range(disk[q])
    <3>1. \A s \in Range(disk[q]) : s.at < clock /\ s.at \in Nat
      BY <2>1, SamplesOf DEF Ordered, CallInProgress, TypeOK
    <3>2. call.sample.at = clock /\ clock \in Nat
      BY <2>1 DEF Ordered, CallInProgress, TypeOK
    <3> QED BY <3>1, <3>2
  <2>6. Retained(disk[q])' \ InFlight(q)' = Retained(disk[q])
    BY <2>1, <2>2, <2>5 DEF Retained, InFlight
  <2> QED BY <2>4, <2>6
<1>3. CASE PersistFails
  BY <1>3 DEF PersistFails, WindowMatchesStore, Retained, InFlight, NoCall
<1>4. CASE PruneStore
  <2>1. /\ call.stage = "prune" /\ call # NoCall
        /\ UNCHANGED <<clock, running, mem>>
        /\ call'.stage = "remember" /\ call'.key = call.key /\ call'.sample = call.sample
    BY <1>4, CallTypes DEF PruneStore, Ordered, RecordCall
  <2>2. ASSUME NEW q \in Keys
        PROVE  /\ Retained(mem[q])' = Retained(mem[q])
               /\ Retained(disk[q])' = Retained(disk[q])
               /\ InFlight(q)' = InFlight(q)
    BY <1>4, <2>1, PruneStoreOrdered DEF Retained, InFlight
  <2> QED BY <2>1, <2>2 DEF WindowMatchesStore
<1>5. CASE Remember
  <2>1. /\ call.stage = "remember" /\ call # NoCall /\ call' = NoCall
        /\ UNCHANGED <<clock, running, disk>>
        /\ call.key \in Keys
    BY <1>5, CallTypes DEF Remember, Ordered, RecordCall
  <2>2. SUFFICES ASSUME running, HasStore, NEW q \in Keys
                 PROVE  Retained(mem[q])' = Retained(disk[q])' \ InFlight(q)'
    BY <2>1 DEF WindowMatchesStore
  <2>3. /\ InFlight(q)' = {} /\ Retained(disk[q])' = Retained(disk[q])
        /\ Retained(mem[q]) = Retained(disk[q]) \ InFlight(q)
    BY <2>1, <2>2 DEF InFlight, NoCall, Retained, WindowMatchesStore
  <2>4. CASE q # call.key
    <3>1. mem'[q] = mem[q]
      BY <1>5, <2>4, RememberOrdered
    <3> QED BY <3>1, <2>1, <2>3, <2>4 DEF Retained, InFlight
  <2>5. CASE q = call.key
    <3>1. Range(mem'[q]) = {r \in Range(mem[q]) \cup {call.sample} : r.at >= Cutoff(clock)}
      BY <1>5, <2>5, RememberOrdered
    <3>2. call.sample \in Retained(disk[q])
      <4>1. call.sample \in Range(disk[q]) /\ call.sample.at = clock /\ clock \in Nat
        BY <2>1, <2>2, <2>5 DEF Ordered, CallInProgress, TypeOK
      <4>2. clock >= Cutoff(clock)
        BY <4>1, TimesAssumption DEF Cutoff
      <4> QED BY <4>1, <4>2 DEF Retained
    <3>3. InFlight(q) = {call.sample}
      BY <2>1, <2>5 DEF InFlight
    <3>4. Retained(mem[q])' = {r \in Range(mem[q]) \cup {call.sample} : r.at >= Cutoff(clock)}
      BY <3>1, <2>1 DEF Retained
    <3>5. Retained(mem[q])' = Retained(mem[q]) \cup {call.sample}
      BY <3>2, <3>4 DEF Retained
    <3> QED BY <3>2, <3>3, <3>5, <2>3
  <2> QED BY <2>4, <2>5
<1>6. CASE Kill
  BY <1>6 DEF Kill, WindowMatchesStore
<1>7. CASE Start
  <2>1. call = NoCall /\ UNCHANGED <<disk, call>>
    BY <1>7 DEF Start, Ordered, CallInProgress
  <2>2. SUFFICES ASSUME HasStore, NEW q \in Keys
                 PROVE  Retained(mem[q])' = Retained(disk[q])' \ InFlight(q)'
    BY DEF WindowMatchesStore
  <2>3. InFlight(q)' = {}
    BY <2>1 DEF InFlight, NoCall
  <2>4. Range(mem'[q]) = {r \in Range(disk[q]) : r.at >= Cutoff(clock')}
    BY <1>7, <2>2, StartOrdered
  <2> QED BY <2>1, <2>3, <2>4 DEF Retained
<1>8. CASE UNCHANGED vars
  BY <1>8 DEF vars, WindowMatchesStore, Retained, InFlight
<1> QED BY <1>1, <1>2, <1>3, <1>4, <1>5, <1>6, <1>7, <1>8 DEF Next, AtHorizon

\* "A living window never diverges from what is durable": what readers see of the
\* retention window is what a restart would read back, at every step of Record.
THEOREM WindowAlwaysMatchesStore == Spec => []WindowMatchesStore
<1>1. Init => WindowMatchesStore
  BY InitMatches
<1>2. Ordered /\ WindowMatchesStore /\ [Next]_vars => WindowMatchesStore'
  BY StepMatches
<1> QED BY <1>1, <1>2, OrderedInvariant, PTL DEF Spec

-----------------------------------------------------------------------------
(* The sampler implements SampleHistory.                                    *)

\* The history the sampler stands for: the retained samples of the file, or of
\* memory when there is no file.
Kept(k) == Retained(IF HasStore THEN disk[k] ELSE mem[k])

\* The sampler starts as the empty history.
LEMMA InitRefines == Init => History!Init
BY EmptyRange DEF Init, Empty, History!Init, Retained

\* A reading of the clock is an Advance when files and windows stand still.
LEMMA ClockRefines ==
    ASSUME Ordered, clock' \in Nat, clock' > clock,
           \A k \in Keys : Range(IF HasStore THEN disk'[k] ELSE mem'[k])
                             = Range(IF HasStore THEN disk[k] ELSE mem[k])
    PROVE  History!Advance
<1>1. ASSUME NEW k \in Keys
      PROVE  Kept(k)' = {s \in Kept(k) : s.at >= Cutoff(clock')}
  <2> DEFINE b == IF HasStore THEN disk[k] ELSE mem[k]
  <2>1. b \in Seq(Sample) /\ clock \in Nat /\ clock' >= clock
    BY DEF Ordered, TypeOK
  <2>2. Kept(k)' = {r \in Range(b) : r.at >= Cutoff(clock')}
    BY DEF Kept, Retained
  <2> HIDE DEF b
  <2>3. {r \in Range(b) : r.at >= Cutoff(clock')}
          = {r \in Retained(b) : r.at >= Cutoff(clock')}
    BY <2>1, RetainedNarrows
  <2> QED BY <2>2, <2>3 DEF Kept, b
<1> QED BY <1>1 DEF History!Advance, Kept, Cutoff

\* The step that puts a sample into the history: the commit of the append with a
\* file, the append to the window without one.
LEMMA ObserveRefines ==
    ASSUME Ordered, call # NoCall, UNCHANGED clock,
           \A s \in Kept(call.key) : s.at < clock,
           \A q \in Keys : Kept(q)' =
               IF q = call.key THEN Kept(q) \cup {call.sample} ELSE Kept(q)
    PROVE  \E k \in Keys, r \in Readings : History!Observe(k, r)
<1> DEFINE k == call.key
           r == [power |-> call.sample.power, active |-> call.sample.active]
<1>1. /\ k \in Keys
      /\ call.sample \in Sample
      /\ call.sample.at = clock
      /\ r \in Readings
  BY CallTypes DEF Ordered, CallInProgress, RecordCall
<1>2. call.sample = [at |-> clock, power |-> r.power, active |-> r.active]
  BY <1>1 DEF Sample
<1>3. [q \in Keys |-> Kept(q)'] = [[q \in Keys |-> Kept(q)] EXCEPT ![k] = @ \cup {call.sample}]
  BY <1>1
<1>4. History!Observe(k, r)
  BY <1>1, <1>2, <1>3 DEF History!Observe, Kept
<1> QED BY <1>1, <1>4

\* A step that changes nothing is a stutter of the history.
LEMMA StutterRefines ==
    ASSUME UNCHANGED clock, \A q \in Keys : Kept(q)' = Kept(q)
    PROVE  UNCHANGED History!vars
BY DEF History!vars, Kept

\* Every step is a step of the history or a stutter.
LEMMA StepRefines ==
    ASSUME Ordered, [Next]_vars
    PROVE  [History!Next]_(History!vars)
<1>1. ASSUME NEW k \in Keys, NEW r \in Readings, BeginRecord(k, r)
      PROVE  History!Advance
  <2>1. /\ clock' \in Nat /\ clock' > clock
        /\ UNCHANGED <<mem, disk>>
    BY <1>1, TimesAssumption DEF BeginRecord, ReadClock, Ordered, TypeOK
  <2> QED BY <2>1, ClockRefines
<1>2. ASSUME Persist
      PROVE  \E k \in Keys, r \in Readings : History!Observe(k, r)
  <2>1. /\ call # NoCall /\ HasStore /\ UNCHANGED clock
        /\ call.key \in Keys /\ call.sample.at = clock /\ clock \in Nat
        /\ \A s \in Range(disk[call.key]) : s.at < clock
    BY <1>2, CallTypes DEF Persist, Ordered, CallInProgress, RecordCall, TypeOK
  <2>2. \A q \in Keys : Range(disk'[q]) =
           IF q = call.key THEN Range(disk[q]) \cup {call.sample} ELSE Range(disk[q])
    BY <1>2, PersistOrdered
  <2>3. call.sample.at >= Cutoff(clock)
    BY <2>1, TimesAssumption DEF Cutoff
  <2>4. \A q \in Keys : Kept(q)' =
           IF q = call.key THEN Kept(q) \cup {call.sample} ELSE Kept(q)
    BY <2>1, <2>2, <2>3 DEF Kept, Retained
  <2>5. \A s \in Kept(call.key) : s.at < clock
    BY <2>1 DEF Kept, Retained
  <2> QED BY <2>1, <2>4, <2>5, ObserveRefines
<1>3. ASSUME PersistFails
      PROVE  UNCHANGED History!vars
  BY <1>3, StutterRefines DEF PersistFails, Kept, Retained
<1>4. ASSUME PruneStore
      PROVE  UNCHANGED History!vars
  <2>1. UNCHANGED <<clock, mem>>
    BY <1>4 DEF PruneStore
  <2>2. \A q \in Keys : Kept(q)' = Kept(q)
    BY <1>4, <2>1, PruneStoreOrdered DEF Kept, Retained
  <2> QED BY <2>1, <2>2, StutterRefines
<1>5. ASSUME Remember
      PROVE  \/ UNCHANGED History!vars
             \/ \E k \in Keys, r \in Readings : History!Observe(k, r)
  <2>1. /\ call # NoCall /\ UNCHANGED <<clock, disk>>
        /\ call.key \in Keys /\ call.sample.at = clock /\ clock \in Nat
        /\ \A s \in Range(mem[call.key]) : s.at < clock
    BY <1>5, CallTypes DEF Remember, Ordered, CallInProgress, RecordCall, TypeOK
  <2>2. CASE HasStore
    BY <2>1, <2>2, StutterRefines DEF Kept, Retained
  <2>3. CASE ~HasStore
    <3>1. call.sample.at >= Cutoff(clock)
      BY <2>1, TimesAssumption DEF Cutoff
    <3>2. /\ \A q \in Keys : q # call.key => mem'[q] = mem[q]
          /\ Range(mem'[call.key]) =
                {r \in Range(mem[call.key]) \cup {call.sample} : r.at >= Cutoff(clock)}
      BY <1>5, RememberOrdered
    <3>3. \A q \in Keys : Kept(q)' =
             IF q = call.key THEN Kept(q) \cup {call.sample} ELSE Kept(q)
      BY <2>1, <2>3, <3>1, <3>2 DEF Kept, Retained
    <3>4. \A s \in Kept(call.key) : s.at < clock
      BY <2>1, <2>3 DEF Kept, Retained
    <3> QED BY <2>1, <3>3, <3>4, ObserveRefines
  <2> QED BY <2>2, <2>3
<1>6. ASSUME Kill
      PROVE  UNCHANGED History!vars \/ History!Forget
  <2>1. mem' = Empty /\ UNCHANGED <<clock, disk>>
    BY <1>6 DEF Kill
  <2>2. CASE HasStore
    BY <2>1, <2>2, StutterRefines DEF Kept, Retained
  <2>3. CASE ~HasStore
    <3>1. \A q \in Keys : Kept(q)' = {}
      BY <2>1, <2>3, EmptyRange DEF Kept, Retained, Empty
    <3> QED BY <2>1, <2>3, <3>1 DEF History!Forget, Kept
  <2> QED BY <2>2, <2>3
<1>7. ASSUME Start
      PROVE  UNCHANGED History!vars \/ History!Next
  <2>1. /\ clock' \in Nat /\ clock' > clock
        /\ UNCHANGED disk /\ ~running
    BY <1>7, TimesAssumption DEF Start, ReadClock, Ordered, TypeOK
  <2>2. CASE HasStore
    <3>1. History!Advance
      BY <2>1, <2>2, ClockRefines
    <3> QED BY <3>1 DEF History!Next
  <2>3. CASE ~HasStore
    <3>1. \A q \in Keys : Range(mem'[q]) = {} /\ Range(mem[q]) = {}
      BY <1>7, <2>3, <2>1, StartOrdered, EmptyRange DEF Ordered, Down, Empty
    <3> QED BY <3>1, <2>1, <2>3, ClockRefines DEF History!Next
  <2> QED BY <2>2, <2>3
<1>8. ASSUME UNCHANGED vars
      PROVE  UNCHANGED History!vars
  BY <1>8, StutterRefines DEF vars, Kept, Retained
<1> QED
  BY <1>1, <1>2, <1>3, <1>4, <1>5, <1>6, <1>7, <1>8 DEF Next, AtHorizon, History!Next

\* The sampler with a file is a durable history: no kill, failed write or prune
\* takes a retained sample away or changes it.  Without a file it is a history
\* that can only be forgotten as a whole.
THEOREM ImplementsHistory == Spec => RefinesHistory
<1>1. Init => History!Init
  BY InitRefines
<1>2. Ordered /\ [Next]_vars => [History!Next]_(History!vars)
  BY StepRefines
<1> QED BY <1>1, <1>2, OrderedInvariant, PTL DEF Spec, RefinesHistory, History!Spec

-----------------------------------------------------------------------------
(* The bound on what is stored *)

\* Once a Record has passed pruneStore the last prune is younger than its interval.
PruneIsRecent == call.stage = "remember" /\ HasStore => clock - lastPrune < PruneInterval

\* Every step keeps the last prune recent for the Records that have passed it.
LEMMA StepPruneIsRecent ==
    ASSUME Ordered, PruneIsRecent, [Next]_vars
    PROVE  PruneIsRecent'
<1>1. CASE PruneStore
  <2>1. call.stage = "prune" /\ clock' = clock
    BY <1>1 DEF PruneStore
  <2>2. call # NoCall
    BY <2>1, CallTypes DEF Ordered
  <2>3. call.sample.at = clock /\ clock \in Nat /\ lastPrune \in Nat /\ PruneInterval > 0
    BY <2>2, TimesAssumption DEF Ordered, CallInProgress, TypeOK
  <2>4. \/ lastPrune' = clock
        \/ lastPrune' = lastPrune /\ ~PruneDue(clock)
    BY <1>1, <2>3 DEF PruneStore
  <2> QED BY <2>1, <2>3, <2>4, TimesAssumption DEF PruneIsRecent, PruneDue
<1>2. CASE \E k \in Keys, r \in Readings : BeginRecord(k, r)
  <2>1. call'.stage = IF HasStore THEN "append" ELSE "remember"
    BY <1>2 DEF BeginRecord
  <2> QED BY <2>1 DEF PruneIsRecent
<1>3. CASE Persist
  <2>1. call # NoCall /\ call \in RecordCall
    BY <1>3, CallTypes DEF Persist, Ordered
  <2>2. call'.stage = "prune"
    BY <1>3, <2>1 DEF Persist, RecordCall
  <2> QED BY <2>2 DEF PruneIsRecent
<1>4. CASE PersistFails \/ Remember \/ Kill
  BY <1>4 DEF PersistFails, Remember, Kill, NoCall, PruneIsRecent
<1>5. CASE Start
  BY <1>5 DEF Start, Ordered, Down, NoCall, PruneIsRecent
<1>6. CASE UNCHANGED vars
  BY <1>6 DEF vars, PruneIsRecent
<1> QED
  BY <1>1, <1>2, <1>3, <1>4, <1>5, <1>6 DEF Next, AtHorizon

\* A recent prune that kept nothing older than its cutoff bounds the age of all.
LEMMA RecentPruneBounds ==
    ASSUME Ordered, PruneIsRecent
    PROVE  OverRetentionBounded
<1> SUFFICES ASSUME call.stage = "remember", HasStore,
                    NEW k \in Keys, NEW s \in Range(disk[k]), ~(s.at < Cutoff(lastPrune))
             PROVE  call.sample.at - s.at < Retention + PruneInterval
  BY DEF OverRetentionBounded
<1>1. call # NoCall
  BY CallTypes DEF Ordered
<1>2. call.sample.at = clock /\ clock \in Nat /\ lastPrune \in Nat
  BY <1>1 DEF Ordered, CallInProgress, TypeOK
<1>3. s.at \in Nat
  BY SamplesOf, SampleTimes DEF Ordered, TypeOK
<1>4. clock - lastPrune < PruneInterval
  BY DEF PruneIsRecent
<1> QED
  BY <1>2, <1>3, <1>4, TimesAssumption DEF Cutoff

\* In every behaviour no file holds a sample older than the retention window by the
\* prune interval or more once a Record has passed pruneStore, but for prunes that
\* failed: neither the throttle nor a restart lets more pile up.
THEOREM AlwaysOverRetentionBounded == Spec => []OverRetentionBounded
<1>1. Init => PruneIsRecent
  BY DEF Init, NoCall, PruneIsRecent
<1>2. Ordered /\ PruneIsRecent /\ [Next]_vars => PruneIsRecent'
  BY StepPruneIsRecent
<1>3. Ordered /\ PruneIsRecent => OverRetentionBounded
  BY RecentPruneBounds
<1> QED
  BY <1>1, <1>2, <1>3, OrderedInvariant, PTL DEF Spec

-----------------------------------------------------------------------------
(* Summaries, instant by instant: the instants of a period fall into parts,  *)
(* one for each sample that is in effect at them, and a part has as many     *)
(* instants as Span credits the sample with.                                 *)

\* The instants of a period at which sample i is in effect.
InEffect(b, i, start, end) ==
    {t \in start .. (end - 1) : b[i].at <= t /\ (i < Len(b) => t < b[i + 1].at)}

\* A window is indexed from 1 and stamped with naturals.
LEMMA Window ==
    ASSUME NEW b \in Seq(Sample)
    PROVE  /\ Len(b) \in Nat /\ DOMAIN b = 1 .. Len(b) /\ IsFiniteSet(DOMAIN b)
           /\ \A i \in DOMAIN b : b[i] \in Sample /\ b[i].at \in Nat /\ b[i].power \in Nat
<1>1. Len(b) \in Nat /\ DOMAIN b = 1 .. Len(b)
  BY LenProperties
<1>2. IsFiniteSet(DOMAIN b)
  BY <1>1, FS_Interval
<1>3. \A i \in DOMAIN b : b[i] \in Sample
  BY <1>1, ElementOfSeq
<1> QED BY <1>1, <1>2, <1>3 DEF Sample

\* A part is an interval, as long as the span of its sample.
LEMMA PartSpan ==
    ASSUME NEW b \in Seq(Sample), NEW start \in Nat, NEW end \in Nat, NEW i \in DOMAIN b
    PROVE  /\ IsFiniteSet(InEffect(b, i, start, end))
           /\ Cardinality(InEffect(b, i, start, end)) = Span(b, i, start, end)
<1> DEFINE nextAt == IF i < Len(b) THEN b[i + 1].at ELSE end
           lo == Larger(b[i].at, start)
           hi == Smaller(nextAt, end) - 1
<1>1. b[i].at \in Nat /\ nextAt \in Nat /\ (i < Len(b) => i + 1 \in DOMAIN b)
  BY Window
<1>2. lo \in Nat /\ hi \in Int
  BY <1>1 DEF Larger, Smaller
<1>3. InEffect(b, i, start, end) = lo .. hi
  <2>1. \A t \in Int : t >= lo <=> t >= start /\ t >= b[i].at
    BY <1>1 DEF Larger
  <2>2. \A t \in Int : t <= hi <=> t <= end - 1 /\ (i < Len(b) => t < b[i + 1].at)
    BY <1>1 DEF Smaller
  <2> HIDE DEF lo, hi
  <2> QED BY <1>1, <1>2, <2>1, <2>2 DEF InEffect
<1>4. Span(b, i, start, end) = Larger(0, (hi + 1) - lo)
  BY <1>1 DEF Span, Smaller
<1> HIDE DEF lo, hi
<1>5. /\ IsFiniteSet(lo .. hi)
      /\ Cardinality(lo .. hi) = IF lo > hi THEN 0 ELSE hi - lo + 1
  BY <1>2, FS_Interval
<1> QED BY <1>2, <1>3, <1>4, <1>5 DEF Larger

\* The latest sample at or before an instant is the current one.
LEMMA CurrentIs ==
    ASSUME NEW b \in Seq(Sample), IsChronological(b), NEW t \in Int,
           NEW x \in Range(b), x.at <= t, \A r \in Range(b) : r.at <= t => r.at <= x.at
    PROVE  Current(b, t) = x
<1>1. ASSUME NEW s \in Range(b), s.at <= t, \A r \in Range(b) : r.at <= t => r.at <= s.at
      PROVE  s = x
  <2>1. PICK i \in DOMAIN b, j \in DOMAIN b : s = b[i] /\ x = b[j]
    BY DEF Range
  <2>2. b[i].at <= b[j].at /\ b[j].at <= b[i].at
    BY <1>1, <2>1
  <2>3. ~(i < j) /\ ~(j < i)
    BY <2>2, Window DEF IsChronological
  <2> QED BY <2>1, <2>3, Window
<1> QED BY <1>1 DEF Current

\* In its part a sample is the current one.
LEMMA PartCurrent ==
    ASSUME NEW b \in Seq(Sample), IsChronological(b), NEW start \in Nat, NEW end \in Nat,
           NEW i \in DOMAIN b, NEW t \in InEffect(b, i, start, end)
    PROVE  /\ Current(b, t) = b[i]
           /\ b[i] \in Range(b) /\ b[i].at <= t
           /\ \A r \in Range(b) : r.at <= t => r.at <= b[i].at
<1>1. t \in Int /\ b[i].at <= t /\ (i < Len(b) => t < b[i + 1].at)
  BY DEF InEffect
<1>2. ASSUME NEW j \in DOMAIN b, b[j].at <= t
      PROVE  b[j].at <= b[i].at
  <2>1. j <= i
    <3> SUFFICES ASSUME i < j
                 PROVE  FALSE
      BY Window
    <3>1. i < Len(b) /\ i + 1 \in DOMAIN b /\ i + 1 <= j
      BY Window
    <3>2. b[i + 1].at <= b[j].at
      BY <3>1, Window DEF IsChronological
    <3> QED BY <1>1, <1>2, <3>1, <3>2, Window
  <2>2. j < i => b[j].at < b[i].at
    BY DEF IsChronological
  <2> QED BY <2>1, <2>2, Window
<1>3. /\ b[i] \in Range(b) /\ b[i].at <= t
      /\ \A r \in Range(b) : r.at <= t => r.at <= b[i].at
  BY <1>1, <1>2 DEF Range
<1> QED BY <1>1, <1>3, CurrentIs

\* The parts have no instant in common, and are all that is observed.
LEMMA PartsPartition ==
    ASSUME NEW b \in Seq(Sample), IsChronological(b), NEW start \in Nat, NEW end \in Nat
    PROVE  /\ \A i, j \in DOMAIN b :
                 i # j => InEffect(b, i, start, end) \cap InEffect(b, j, start, end) = {}
           /\ \A t \in Observed(b, start, end) :
                 \E i \in DOMAIN b : t \in InEffect(b, i, start, end)
           /\ \A i \in DOMAIN b : InEffect(b, i, start, end) \subseteq Observed(b, start, end)
<1>1. ASSUME NEW i \in DOMAIN b, NEW j \in DOMAIN b, i < j,
             NEW t \in InEffect(b, i, start, end), t \in InEffect(b, j, start, end)
      PROVE  FALSE
  <2>1. t \in Int /\ b[j].at <= t /\ t < b[i + 1].at /\ i + 1 \in DOMAIN b /\ i + 1 <= j
    BY <1>1, Window DEF InEffect
  <2>2. b[i + 1].at <= b[j].at
    BY <2>1, Window DEF IsChronological
  <2> QED BY <2>1, <2>2, Window
<1>2. \A i, j \in DOMAIN b :
         i # j => InEffect(b, i, start, end) \cap InEffect(b, j, start, end) = {}
  BY <1>1, Window
<1>3. ASSUME NEW t \in Observed(b, start, end)
      PROVE  \E i \in DOMAIN b : t \in InEffect(b, i, start, end)
  <2> DEFINE Back == {d \in 0 .. Len(b) : Len(b) - d \in DOMAIN b /\ b[Len(b) - d].at <= t}
  <2>1. PICK j \in DOMAIN b : b[j].at <= t
    BY <1>3 DEF Observed
  <2>2. Len(b) - j \in Back
    BY <2>1, Window
  <2>3. PICK d \in Back : \A e \in Back : d <= e
    <3>1. Back \in SUBSET Nat /\ Back # {}
      BY <2>2, Window
    <3> HIDE DEF Back
    <3> QED BY <3>1, LeastNatural
  <2> DEFINE i == Len(b) - d
  <2>4. i \in DOMAIN b /\ b[i].at <= t
    BY <2>3
  <2>5. ASSUME i < Len(b)
        PROVE  t < b[i + 1].at
    <3>1. d - 1 \in 0 .. Len(b) /\ i + 1 \in DOMAIN b /\ Len(b) - (d - 1) = i + 1
      BY <2>3, <2>4, <2>5, Window
    <3>2. d - 1 \notin Back
      <4>1. d \in Nat /\ ~(d <= d - 1)
        BY <2>3, Window
      <4> HIDE DEF Back
      <4> QED BY <2>3, <4>1
    <3>3. ~(b[i + 1].at <= t)
      BY <3>1, <3>2
    <3> QED BY <1>3, <3>1, <3>3, Window DEF Observed
  <2> QED BY <1>3, <2>4, <2>5 DEF InEffect, Observed
<1>4. \A i \in DOMAIN b : InEffect(b, i, start, end) \subseteq Observed(b, start, end)
  BY DEF InEffect, Observed
<1> QED BY <1>2, <1>3, <1>4

\* A total is the sum that the lemmas are about.
LEMMA TotalIsSum == \A f, S : Total(f, S) = SumOf(f, S)
BY DEF Total, SumOf

\* The instants observed are finitely many.
LEMMA ObservedFinite ==
    ASSUME NEW b, NEW start \in Int, NEW end \in Int
    PROVE  IsFiniteSet(Observed(b, start, end))
<1>1. IsFiniteSet(start .. (end - 1))
  BY FS_Interval
<1> QED BY <1>1, FS_Subset DEF Observed

\* Summarize is the sum over instants.
LEMMA SummaryOfWindow ==
    ASSUME NEW b, b \in Seq(Sample), IsChronological(b), NEW start \in Nat, NEW end \in Nat
    PROVE  Summarize(b, start, end) = SummaryByInstant(b, start, end)
<1> DEFINE all == DOMAIN b
           active == {i \in all : IsActive(b[i])}
           hours == [i \in all |-> Span(b, i, start, end)]
           energy == [i \in all |-> b[i].power * hours[i]]
           instants == Observed(b, start, end)
           actives == {t \in instants : IsActive(Current(b, t))}
           power == [t \in instants |-> Current(b, t).power]
           one == [t \in instants |-> 1]
<1>1. instants = UNION {InEffect(b, i, start, end) : i \in all}
  BY PartsPartition
<1>2. actives = UNION {InEffect(b, i, start, end) : i \in active}
  <2>1. ASSUME NEW t \in actives
        PROVE  \E i \in active : t \in InEffect(b, i, start, end)
    <3>1. PICK i \in all : t \in InEffect(b, i, start, end)
      BY PartsPartition
    <3> QED BY <3>1, PartCurrent
  <2>2. ASSUME NEW i \in active, NEW t \in InEffect(b, i, start, end)
        PROVE  t \in actives
    <3>1. t \in instants
      BY PartsPartition
    <3>2. Current(b, t) = b[i]
      BY PartCurrent
    <3> QED BY <3>1, <3>2
  <2> QED BY <2>1, <2>2
<1>3. \A i \in all : /\ b[i].power \in Int
                     /\ \A t \in InEffect(b, i, start, end) :
                           t \in instants /\ power[t] = b[i].power /\ one[t] = 1
  BY Window, PartsPartition, PartCurrent
<1>4. \A i \in all : /\ energy[i] = b[i].power * Span(b, i, start, end)
                     /\ hours[i] = 1 * Span(b, i, start, end)
  <2>1. \A i \in all : Span(b, i, start, end) \in Int
    BY PartSpan, FS_CardinalityType
  <2> QED BY <2>1
<1>5. IsFiniteSet(instants) /\ IsFiniteSet(actives)
  BY ObservedFinite, FS_Subset
<1> DEFINE v == [i \in all |-> b[i].power]
           u == [i \in all |-> 1]
<1>6. active \in SUBSET all /\ actives \in SUBSET instants
  OBVIOUS
<1>7. /\ \A i \in all : v[i] \in Int /\ u[i] \in Int
      /\ \A i \in all : \A t \in InEffect(b, i, start, end) : power[t] = v[i] /\ one[t] = u[i]
      /\ \A i \in all : /\ energy[i] = v[i] * Span(b, i, start, end)
                        /\ hours[i] = u[i] * Span(b, i, start, end)
      /\ \A t \in instants : one[t] = 1
  <2>1. \A i \in all : v[i] \in Int /\ u[i] \in Int
    BY <1>3
  <2>2. \A i \in all : v[i] = b[i].power /\ u[i] = 1
    OBVIOUS
  <2>3. \A t \in instants : one[t] = 1
    OBVIOUS
  <2> HIDE DEF instants, power, one, hours, energy, u, v
  <2> QED BY <1>3, <1>4, <2>1, <2>2, <2>3
<1>8. Summarize(b, start, end) =
        [totalHours   |-> Total(hours, all),
         activeHours  |-> Total(hours, active),
         totalEnergy  |-> Total(energy, all),
         activeEnergy |-> Total(energy, active)]
  BY DEF Summarize
<1>9. SummaryByInstant(b, start, end) =
        [totalHours   |-> Cardinality(instants),
         activeHours  |-> Cardinality(actives),
         totalEnergy  |-> Total(power, instants),
         activeEnergy |-> Total(power, actives)]
  BY DEF SummaryByInstant
<1> HIDE DEF active, hours, energy, instants, actives, power, one, u, v
<1> DEFINE P == [i \in all |-> InEffect(b, i, start, end)]
<1>10. /\ \A i \in all : P[i] \in SUBSET instants
       /\ \A i, j \in all : i # j => P[i] \cap P[j] = {}
       /\ \A i \in all : \A t \in P[i] : power[t] = v[i] /\ one[t] = u[i]
       /\ \A i \in all : /\ hours[i] = u[i] * Cardinality(P[i])
                         /\ energy[i] = v[i] * Cardinality(P[i])
       /\ instants = UNION {P[i] : i \in all} /\ actives = UNION {P[i] : i \in active}
  <2>1. \A i \in all : P[i] = InEffect(b, i, start, end)
    OBVIOUS
  <2>2. \A i, j \in all : i # j => P[i] \cap P[j] = {}
    BY PartsPartition
  <2>3. \A i \in all : P[i] \in SUBSET instants
    BY PartsPartition DEF instants
  <2>4. \A i \in all : Cardinality(P[i]) = Span(b, i, start, end)
    BY PartSpan
  <2>5. instants = UNION {P[i] : i \in all}
    BY <1>1
  <2>6. actives = UNION {P[i] : i \in active}
    BY <1>2, <1>6
  <2> HIDE DEF P
  <2> QED BY <1>7, <2>1, <2>2, <2>3, <2>4, <2>5, <2>6
<1>11. IsFiniteSet(all) /\ IsFiniteSet(active)
  BY <1>6, Window, FS_Subset
<1> HIDE DEF P, all
<1>12. ASSUME NEW J, J \in SUBSET all, IsFiniteSet(J)
       PROVE  /\ SumOf(hours, J) = SumOf(one, UNION {P[i] : i \in J})
              /\ SumOf(energy, J) = SumOf(power, UNION {P[i] : i \in J})
  <2>1. /\ \A i \in J : P[i] \in SUBSET instants
        /\ \A i, j \in J : i # j => P[i] \cap P[j] = {}
    BY ONLY <1>10, <1>12
  <2>2. /\ \A i \in J : u[i] \in Int
        /\ \A i \in J : \A t \in P[i] : one[t] = u[i]
        /\ \A i \in J : hours[i] = u[i] * Cardinality(P[i])
    BY ONLY <1>7, <1>10, <1>12
  <2>3. /\ \A i \in J : v[i] \in Int
        /\ \A i \in J : \A t \in P[i] : power[t] = v[i]
        /\ \A i \in J : energy[i] = v[i] * Cardinality(P[i])
    BY ONLY <1>7, <1>10, <1>12
  <2>4. SumOf(hours, J) = SumOf(one, UNION {P[i] : i \in J})
    BY ONLY <1>5, <1>12, <2>1, <2>2, SumConstantParts
  <2>5. SumOf(energy, J) = SumOf(power, UNION {P[i] : i \in J})
    BY ONLY <1>5, <1>12, <2>1, <2>3, SumConstantParts
  <2> QED BY <2>4, <2>5
<1>13. /\ SumOf(hours, all) = SumOf(one, instants)
       /\ SumOf(energy, all) = SumOf(power, instants)
       /\ SumOf(hours, active) = SumOf(one, actives)
       /\ SumOf(energy, active) = SumOf(power, actives)
  BY <1>6, <1>10, <1>11, <1>12
<1>14. ASSUME NEW S \in SUBSET instants
       PROVE  SumOf(one, S) = Cardinality(S)
  <2>1. IsFiniteSet(S) /\ \A t \in S : one[t] = 1
    BY <1>5, <1>7, FS_Subset
  <2>2. SumOf(one, S) = 1 * Cardinality(S) /\ Cardinality(S) \in Nat
    BY <2>1, SumConstant, FS_CardinalityType
  <2> QED BY <2>2
<1>15. /\ Total(hours, all) = Cardinality(instants)
       /\ Total(hours, active) = Cardinality(actives)
       /\ Total(energy, all) = Total(power, instants)
       /\ Total(energy, active) = Total(power, actives)
  BY <1>6, <1>13, <1>14, TotalIsSum
<1> QED BY <1>8, <1>9, <1>15

\* Every period a report can ask for is summarized instant by instant: none is credited
\* twice, outside the period, or with another reading or threshold than the one that
\* was in effect (SummaryIsByInstant).
THEOREM SummaryAlwaysByInstant == Spec => []SummaryIsByInstant
<1>1. Ordered => SummaryIsByInstant
  <2> SUFFICES ASSUME Ordered, NEW k \in Keys, NEW start \in 0 .. (clock + 1),
                      NEW end \in 0 .. (clock + 1)
               PROVE  Summarize(mem[k], start, end) = SummaryByInstant(mem[k], start, end)
    BY DEF SummaryIsByInstant
  <2>1. mem[k] \in Seq(Sample) /\ IsChronological(mem[k])
    BY DEF Ordered, TypeOK, Chronological
  <2> QED BY <2>1, SummaryOfWindow
<1> QED BY <1>1, OrderedInvariant, PTL


-----------------------------------------------------------------------------
(* Credit: a window that extends another one is credited with no less.      *)

\* At an instant that is observed there is a current sample, the latest one.
LEMMA CurrentLatest ==
    ASSUME NEW b \in Seq(Sample), IsChronological(b), NEW start \in Nat, NEW end \in Nat,
           NEW t \in Observed(b, start, end)
    PROVE  /\ Current(b, t) \in Range(b) /\ Current(b, t).at <= t
           /\ \A r \in Range(b) : r.at <= t => r.at <= Current(b, t).at
<1>1. PICK i \in DOMAIN b : t \in InEffect(b, i, start, end)
  BY PartsPartition
<1> QED BY <1>1, PartCurrent

\* A window that gives the instants of another one the same current samples is credited
\* with what the other one is credited with, and with whatever it observes besides.
LEMMA CreditGrows ==
    ASSUME NEW b \in Seq(Sample), IsChronological(b),
           NEW c \in Seq(Sample), IsChronological(c),
           NEW start \in Nat, NEW end \in Nat, NEW final \in Nat,
           \A t \in Observed(b, start, end) :
              t \in Observed(c, start, final) /\ Current(c, t) = Current(b, t)
    PROVE  LET before == Summarize(b, start, end)
               after == Summarize(c, start, final)
           IN  /\ before.totalHours <= after.totalHours
               /\ before.activeHours <= after.activeHours
               /\ before.totalEnergy <= after.totalEnergy
               /\ before.activeEnergy <= after.activeEnergy
<1> DEFINE B == Observed(b, start, end)
           C == Observed(c, start, final)
           BA == {t \in B : IsActive(Current(b, t))}
           CA == {t \in C : IsActive(Current(c, t))}
           p == [t \in B |-> Current(b, t).power]
           q == [t \in C |-> Current(c, t).power]
<1>1. /\ Summarize(b, start, end) =
           [totalHours |-> Cardinality(B), activeHours |-> Cardinality(BA),
            totalEnergy |-> SumOf(p, B), activeEnergy |-> SumOf(p, BA)]
      /\ Summarize(c, start, final) =
           [totalHours |-> Cardinality(C), activeHours |-> Cardinality(CA),
            totalEnergy |-> SumOf(q, C), activeEnergy |-> SumOf(q, CA)]
  BY SummaryOfWindow, TotalIsSum DEF SummaryByInstant
<1>2. IsFiniteSet(C) /\ IsFiniteSet(CA)
  BY ObservedFinite, FS_Subset
<1>3. B \in SUBSET C /\ BA \in SUBSET CA /\ BA \in SUBSET B
  OBVIOUS
<1>4. \A t \in B : p[t] = q[t]
  OBVIOUS
<1>5. \A t \in C : q[t] \in Nat
  BY CurrentLatest, SamplesOf DEF Sample
<1>6. CA \in SUBSET C
  OBVIOUS
<1> HIDE DEF B, C, BA, CA, p, q
<1>7. Cardinality(B) <= Cardinality(C) /\ Cardinality(BA) <= Cardinality(CA)
  BY <1>2, <1>3, FS_Subset
<1>8. SumOf(p, B) = SumOf(q, B) /\ SumOf(p, BA) = SumOf(q, BA)
  BY <1>2, <1>3, <1>4, FS_Subset, SumEqual
<1>9. SumOf(q, B) <= SumOf(q, C) /\ SumOf(q, BA) <= SumOf(q, CA)
  BY <1>2, <1>3, <1>5, <1>6, SumSubset
<1> QED BY <1>1, <1>7, <1>8, <1>9

\* The first sample of a window is its oldest.
LEMMA FirstIsOldest ==
    ASSUME NEW b \in Seq(Sample), IsChronological(b), b # <<>>
    PROVE  b[1] \in Range(b) /\ b[1].at \in Nat /\ \A r \in Range(b) : b[1].at <= r.at
<1>1. Len(b) # 0
  BY EmptySeq
<1>2. 1 \in DOMAIN b
  BY <1>1, Window
<1>3. \A i \in DOMAIN b : b[1].at <= b[i].at
  BY <1>2, Window DEF IsChronological
<1> QED BY <1>2, <1>3, Window DEF Range

\* Remember adds a sample at the latest instant and drops the oldest ones: where the
\* first one left is in effect, what was current stays current.
LEMMA CurrentKept ==
    ASSUME NEW b \in Seq(Sample), IsChronological(b),
           NEW c \in Seq(Sample), IsChronological(c),
           NEW s \in Sample, NEW cutoff \in Int,
           Range(c) = {r \in Range(b) \cup {s} : r.at >= cutoff},
           NEW start \in Nat, s.at >= start, NEW x \in Range(c),
           NEW t \in Observed(b, start, s.at), x.at <= t
    PROVE  t \in Observed(c, start, s.at) /\ Current(c, t) = Current(b, t)
<1> DEFINE y == Current(b, t)
<1>1. t \in Int /\ t >= start /\ t < s.at /\ s.at \in Nat
  BY DEF Observed, Sample
<1>2. /\ y \in Range(b) /\ y.at <= t
      /\ \A r \in Range(b) : r.at <= t => r.at <= y.at
  BY CurrentLatest, <1>1
<1> HIDE DEF y
<1>3. /\ \A r \in Range(b) : r.at \in Nat
      /\ \A r \in Range(c) : r.at \in Nat
  BY SamplesOf
<1>4. x \in Range(b) /\ x.at >= cutoff
  BY <1>1
<1>5. y.at >= x.at /\ y.at \in Nat /\ x.at \in Nat
  BY <1>2, <1>3, <1>4
<1>6. y \in Range(c)
  <2>1. y.at >= cutoff
    BY <1>4, <1>5
  <2> QED BY <1>2, <2>1
<1>7. \A r \in Range(c) : r.at <= t => r.at <= y.at
  BY <1>1, <1>2
<1>8. Current(c, t) = y
  BY <1>1, <1>2, <1>6, <1>7, CurrentIs
<1>9. t \in Observed(c, start, s.at)
  <2>1. t \in start .. (s.at - 1)
    BY <1>1
  <2>2. \E i \in DOMAIN c : c[i].at <= t
    BY <1>2, <1>6 DEF Range
  <2> QED BY <2>1, <2>2 DEF Observed
<1> QED BY <1>8, <1>9 DEF y

\* No step of a living process takes back time or energy that a report has credited:
\* not a later sample, not another threshold, and not the expiry of older samples
\* (CreditNeverShrinks).
THEOREM CreditIsKept == Spec => CreditNeverShrinks
<1> DEFINE Credit(k, start) ==
               LET before == Summarize(mem[k], start, clock)
                   after == Summarize(mem'[k], start, clock')
               IN  /\ before.totalHours <= after.totalHours
                   /\ before.activeHours <= after.activeHours
                   /\ before.totalEnergy <= after.totalEnergy
                   /\ before.activeEnergy <= after.activeEnergy
           NothingLost == running /\ running' =>
                     \A k \in Keys : \A start \in 0 .. clock :
                        /\ mem[k] # <<>>
                        /\ mem'[k] # <<>>
                        /\ mem'[k][1].at <= start \/ mem'[k][1] = mem[k][1]
                        => Credit(k, start)
<1>1. Ordered /\ Ordered' /\ [Next]_vars => NothingLost
  <2> SUFFICES ASSUME Ordered, Ordered', [Next]_vars, running, running',
                      NEW k \in Keys, NEW start \in 0 .. clock,
                      mem[k] # <<>>, mem'[k] # <<>>,
                      mem'[k][1].at <= start \/ mem'[k][1] = mem[k][1]
               PROVE  Credit(k, start)
    OBVIOUS
  <2> DEFINE b == mem[k]
             c == mem'[k]
  <2>1. /\ clock \in Nat /\ clock' \in Nat /\ start \in Nat
        /\ b \in Seq(Sample) /\ IsChronological(b)
        /\ c \in Seq(Sample) /\ IsChronological(c)
    BY DEF Ordered, TypeOK, Chronological
  <2>2. clock <= clock'
    BY <2>1, TimesAssumption DEF Next, vars, BeginRecord, ReadClock, Persist, PersistFails,
       PruneStore, Remember, Kill, Start, AtHorizon
  <2>3. CASE c = b
    <3>1. \A t \in Observed(b, start, clock) : t \in Observed(c, start, clock')
      BY <2>1, <2>2, <2>3 DEF Observed
    <3> HIDE DEF b, c
    <3> QED BY <2>1, <2>3, <3>1, CreditGrows DEF b, c
  <2>4. CASE c # b
    <3> DEFINE s == call.sample
               cutoff == Cutoff(s.at)
    <3>1. Remember
      BY <2>4 DEF Next, vars, BeginRecord, Persist, PersistFails, PruneStore, Kill, Start,
         AtHorizon
    <3>2. call.stage = "remember" /\ call.key = k /\ c = From(Append(b, s), cutoff)
          /\ clock' = clock
      BY <2>4, <3>1 DEF Remember, Ordered, TypeOK
    <3>3. s \in Sample /\ s.at = clock /\ \A r \in Range(b) : r.at < s.at
      BY <3>2, CallTypes DEF Ordered, CallInProgress, RecordCall
    <3>4. cutoff \in Int
      BY <2>1, <3>3, TimesAssumption DEF Cutoff
    <3>5. Range(c) = {r \in Range(b) \cup {s} : r.at >= cutoff}
      <4> DEFINE longer == Append(b, s)
      <4>1. /\ longer \in Seq(Sample) /\ IsChronological(longer)
            /\ Range(longer) = Range(b) \cup {s} /\ c = From(longer, cutoff)
        BY <2>1, <3>2, <3>3, AppendLatest
      <4> HIDE DEF b, c, s, cutoff, longer
      <4> QED BY <3>4, <4>1, FromSlice
    <3>6. c[1] \in Range(c) /\ \A r \in Range(b) : b[1].at <= r.at
      BY <2>1, FirstIsOldest
    <3>7. \A t \in Observed(b, start, clock) : c[1].at <= t
      <4>1. ASSUME NEW t \in Observed(b, start, clock)
            PROVE  c[1].at <= t
        <5>1. t \in Int /\ start <= t /\ \E r \in Range(b) : r.at <= t
          BY DEF Observed, Range
        <5>2. c[1].at \in Nat /\ \A r \in Range(b) : r.at \in Nat
          BY <2>1, <3>6, SamplesOf
        <5>3. b[1].at \in Nat
          BY <2>1, FirstIsOldest
        <5> QED BY <2>1, <3>6, <5>1, <5>2, <5>3
      <4> QED BY <4>1
    <3> HIDE DEF b, c, s, cutoff
    <3>8. \A t \in Observed(b, start, clock) :
             t \in Observed(c, start, clock') /\ Current(c, t) = Current(b, t)
      BY <2>1, <3>2, <3>3, <3>4, <3>5, <3>6, <3>7, CurrentKept
    <3> QED BY <2>1, <3>8, CreditGrows DEF b, c
  <2> QED BY <2>3, <2>4
<1> QED BY <1>1, OrderedInvariant, PTL DEF Spec, CreditNeverShrinks
=============================================================================
