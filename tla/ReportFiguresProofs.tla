------------------------ MODULE ReportFiguresProofs ------------------------
(***************************************************************************)
(* The figures of a report, for every catalogue, every set of readings,    *)
(* models and namespaces, and without a bound on tokens or time; and what  *)
(* is exported and published of them, for every cost and period.           *)
(***************************************************************************)
EXTENDS ReportFigures, FocusRows, FiniteSums

-----------------------------------------------------------------------------
(* Types *)

\* There are finitely many pairs of a model and a namespace.
LEMMA WorkloadFinite == IsFiniteSet(Workload)
<1> DEFINE Pairs == Models \X Namespaces
           g == [p \in Pairs |-> [model |-> p[1], namespace |-> p[2]]]
<1>1. IsFiniteSet(Pairs)
  BY SetsAssumption, FS_Product
<1>2. Workload = {g[p] : p \in Pairs}
  <2>1. ASSUME NEW w \in Workload
        PROVE  w \in {g[p] : p \in Pairs}
    <3>1. <<w.model, w.namespace>> \in Pairs /\ w = [model |-> w.model, namespace |-> w.namespace]
      BY DEF Workload
    <3> QED BY <3>1
  <2>2. ASSUME NEW p \in Pairs
        PROVE  g[p] \in Workload
    BY DEF Workload
  <2> QED BY <2>1, <2>2
<1> HIDE DEF Pairs, g
<1> QED BY <1>1, <1>2, FiniteImage

\* The variables keep their types through every step.
LEMMA StepTyped == TypeOK /\ [Next]_vars => TypeOK'
<1> SUFFICES ASSUME TypeOK, [Next]_vars
             PROVE  TypeOK'
  OBVIOUS
<1> USE DEF TypeOK, Counts, Workloads, NotScraped
<1>1. ASSUME NEW reading \in Watts, Tick(reading)
      PROVE  TypeOK'
  <2>1. watts \in Nat
    BY CostsAssumption
  <2>2. ticks' \in Nat /\ watts' \in Watts /\ activeEnergy' \in Nat
    BY <1>1, <2>1 DEF Tick
  <2>3. activeTicks' \in 0 .. ticks'
    BY <1>1 DEF Tick
  <2> QED BY <1>1, <2>2, <2>3 DEF Tick
<1>2. CASE PeriodEnds
  BY <1>2 DEF PeriodEnds
<1>3. ASSUME NEW w \in Workload, PodStarts(w)
      PROVE  TypeOK'
  BY <1>3 DEF PodStarts
<1>4. ASSUME NEW w \in Workload, PodStops(w)
      PROVE  TypeOK'
  BY <1>4 DEF PodStops
<1>5. ASSUME NEW w \in Workload, PodServes(w)
      PROVE  TypeOK'
  <2>1. input[w] \in Nat /\ output[w] \in Nat
    BY <1>5 DEF PodServes, ServesInput, ServesOutput
  <2>2. /\ input' \in Counts /\ output' \in Counts
        /\ Workloads(input') = Workloads(input) /\ Workloads(output') = Workloads(output)
    <3>1. CASE ServesInput(w)
      BY <2>1, <3>1 DEF ServesInput
    <3>2. CASE ServesOutput(w)
      BY <2>1, <3>2 DEF ServesOutput
    <3> QED BY <1>5, <3>1, <3>2 DEF PodServes
  <2> QED BY <1>5, <2>2 DEF PodServes
<1>6. CASE UNCHANGED vars
  BY <1>6 DEF vars
<1> QED BY <1>1, <1>2, <1>3, <1>4, <1>5, <1>6 DEF Next

\* Every variable keeps its type: in particular the active time of a period is never
\* longer than the period, and input and output are counted for the same workloads.
THEOREM TypeCorrect == Spec => []TypeOK
<1>1. Init => TypeOK
  BY DEF Init, TypeOK, Counts, NoCounts, Workloads, NotScraped
<1> QED BY <1>1, StepTyped, PTL DEF Spec

-----------------------------------------------------------------------------
(* Token counts *)

\* The workloads are finitely many, and what they count are naturals.
LEMMA CountsFacts ==
    ASSUME NEW c \in Counts
    PROVE  /\ Workloads(c) \in SUBSET Workload
           /\ IsFiniteSet(Workloads(c)) /\ IsFiniteSet(NamespacesOf(c))
           /\ \A w \in Workloads(c) : c[w] \in Nat
           /\ Sum(c) \in Nat /\ Sum(c) = SumOf(c, Workloads(c))
<1> DEFINE W == Workloads(c)
<1>1. W \in SUBSET Workload /\ \A w \in W : c[w] \in Nat
  BY DEF Workloads, Counts
<1>2. IsFiniteSet(W)
  BY <1>1, WorkloadFinite, FS_Subset
<1>3. IsFiniteSet(NamespacesOf(c))
  <2>1. NamespacesOf(c) \in SUBSET Namespaces
    BY <1>1 DEF NamespacesOf, Workload
  <2> QED BY <2>1, SetsAssumption, FS_Subset
<1>4. Sum(c) = SumOf(c, W)
  BY DEF Sum, SumOf, TokensOf
<1> HIDE DEF W
<1>5. SumOf(c, W) \in Nat
  BY <1>1, <1>2, SumNat
<1> QED BY <1>1, <1>2, <1>3, <1>4, <1>5 DEF W

\* Input and output together are counts of the same workloads, and their total is that
\* of both.
LEMMA AddedFacts ==
    ASSUME NEW in \in Counts, NEW out \in Counts, Workloads(in) = Workloads(out)
    PROVE  /\ Added(in, out) \in Counts /\ Workloads(Added(in, out)) = Workloads(in)
           /\ NamespacesOf(Added(in, out)) = NamespacesOf(in)
           /\ \A w \in Workloads(in) : Added(in, out)[w] = in[w] + out[w]
           /\ Sum(Added(in, out)) = Sum(in) + Sum(out)
<1> DEFINE t == Added(in, out)
           W == Workloads(in)
<1>1. /\ W \in SUBSET Workload /\ IsFiniteSet(W)
      /\ \A w \in W : in[w] \in Nat /\ out[w] \in Nat
  BY CountsFacts
<1>2. \A w \in Workload : t[w] = IF w \in W THEN in[w] + out[w] ELSE NotScraped
  BY DEF Added
<1>3. t \in Counts
  BY <1>1, <1>2 DEF Added, Counts
<1>4. Workloads(t) = W
  <2>1. \A w \in Workload : t[w] # NotScraped <=> w \in W
    BY <1>1, <1>2 DEF NotScraped
  <2> QED BY <1>1, <2>1 DEF Workloads
<1>5. NamespacesOf(t) = NamespacesOf(in)
  BY <1>4 DEF NamespacesOf
<1>6. \A w \in W : t[w] = in[w] + out[w]
  BY <1>1, <1>2
<1>7. Sum(t) = SumOf(t, W) /\ Sum(in) = SumOf(in, W) /\ Sum(out) = SumOf(out, W)
  BY <1>3, <1>4, CountsFacts
<1> HIDE DEF t, W
<1>8. SumOf(t, W) = SumOf(in, W) + SumOf(out, W)
  BY <1>1, <1>6, SumPlus
<1> QED BY <1>3, <1>4, <1>5, <1>6, <1>7, <1>8 DEF t, W

\* The total over the counts of buildBreakdowns is that of input and output.
LEMMA TotalIsOfBoth ==
    ASSUME TypeOK
    PROVE  /\ TotalIn \in Nat /\ TotalOut \in Nat
           /\ Tokens \in Counts /\ Sum(Tokens) = TotalTokens
           /\ TotalTokens = TotalIn + TotalOut
<1>1. input \in Counts /\ output \in Counts /\ Workloads(input) = Workloads(output)
  BY DEF TypeOK
<1>2. Tokens \in Counts /\ Sum(Tokens) = Sum(input) + Sum(output)
  BY <1>1, AddedFacts DEF Tokens
<1>3. TotalIn = Sum(input) /\ TotalOut = Sum(output)
  BY DEF TotalIn, TotalOut, Sum
<1> QED BY <1>1, <1>2, <1>3, CountsFacts DEF TotalTokens

\* Costs and the length of a period are naturals.
LEMMA CostTypes ==
    ASSUME TypeOK
    PROVE  /\ watts \in Nat /\ Amortization \in Nat /\ EnergyPrice \in Nat
           /\ HourlyCost \in Nat /\ HoursInPeriod \in Nat /\ HoursInPeriod > 0
           /\ ticks <= HoursInPeriod /\ TotalCost \in Nat
<1>1. watts \in Nat /\ Amortization \in Nat /\ EnergyPrice \in Nat
  BY CostsAssumption DEF TypeOK
<1>2. HourlyCost \in Nat
  BY <1>1 DEF HourlyCost
<1>3. HoursInPeriod \in Nat /\ HoursInPeriod > 0 /\ ticks <= HoursInPeriod
  BY DEF TypeOK, HoursInPeriod
<1> QED BY <1>1, <1>2, <1>3 DEF TotalCost

-----------------------------------------------------------------------------
(* The cost figures *)

\* The active time is never longer than the period, so its cost is not above the cost
\* of the period; and its energy is at most what the last reading costs all along.
LEMMA FiguresOrdered == TypeOK => FiguresAreOrdered
<1> SUFFICES ASSUME TypeOK
             PROVE  FiguresAreOrdered
  OBVIOUS
<1>1. activeTicks \in Nat /\ activeTicks <= HoursInPeriod /\ activeEnergy \in Nat
  BY CostTypes DEF TypeOK
<1>2. Min({activeTicks, HoursInPeriod}) = activeTicks
  <2>1. \A y \in {activeTicks, HoursInPeriod} : activeTicks <= y
    BY <1>1, CostTypes
  <2>2. ASSUME NEW x \in {activeTicks, HoursInPeriod},
               \A y \in {activeTicks, HoursInPeriod} : x <= y
        PROVE  x = activeTicks
    BY <1>1, <2>2, CostTypes
  <2> QED BY <2>1, <2>2 DEF Min
<1>3. ASSUME TotalTokens > 0
      PROVE  ActiveHoursCost = HourlyCost * activeTicks
  BY <1>2, <1>3 DEF ActiveHoursCost
<1>4. HourlyCost * activeTicks <= HourlyCost * HoursInPeriod
  <2>1. \A a, b, c \in Nat : b <= c => a * b <= a * c
    OBVIOUS
  <2> QED BY <1>1, <2>1, CostTypes
<1>5. ASSUME activeEnergy <= watts * activeTicks
      PROVE  MarginalCost <= HourlyCost * activeTicks
  <2>1. HourlyCost * activeTicks
            = Amortization * activeTicks + (watts * activeTicks) * EnergyPrice
    BY <1>1, CostTypes DEF HourlyCost
  <2>2. activeEnergy * EnergyPrice <= (watts * activeTicks) * EnergyPrice
    <3>1. \A a, b, c \in Nat : a <= b => a * c <= b * c
      OBVIOUS
    <3>2. watts * activeTicks \in Nat
      BY <1>1, CostTypes
    <3> QED BY <1>1, <1>5, <3>1, <3>2, CostTypes
  <2>3. Amortization * activeTicks \in Nat /\ (watts * activeTicks) * EnergyPrice \in Nat
        /\ activeEnergy * EnergyPrice \in Nat
    BY <1>1, CostTypes
  <2> QED BY <2>1, <2>2, <2>3 DEF MarginalCost
<1> QED BY <1>3, <1>4, <1>5 DEF FiguresAreOrdered, TotalCost

\* A report's cost figures always keep their order.
THEOREM FiguresAlwaysOrdered == Spec => []FiguresAreOrdered
BY TypeCorrect, FiguresOrdered, PTL

-----------------------------------------------------------------------------
(* Shares *)

\* The tokens of the namespaces.
NamespaceTokens(c) ==
    [ns \in NamespacesOf(c) |-> TokensOf(c, {w \in Workloads(c) : w.namespace = ns})]

\* What the shares of a cost are when tokens have been counted,
LEMMA SharesFacts ==
    ASSUME NEW c \in Counts, NEW cost \in Nat, Sum(c) > 0
    PROVE  /\ DOMAIN NamespaceCosts(c, cost) = NamespacesOf(c)
           /\ DOMAIN ModelCosts(c, cost) = Workloads(c)
           /\ \A ns \in NamespacesOf(c) :
                 NamespaceCosts(c, cost)[ns] = (cost * NamespaceTokens(c)[ns]) \div Sum(c)
           /\ \A w \in Workloads(c) : ModelCosts(c, cost)[w] = (cost * c[w]) \div Sum(c)
<1>1. /\ DOMAIN NamespaceCosts(c, cost) = NamespacesOf(c)
      /\ \A ns \in NamespacesOf(c) :
            NamespaceCosts(c, cost)[ns] = (cost * NamespaceTokens(c)[ns]) \div Sum(c)
  BY DEF NamespaceCosts, Share, NamespaceTokens, Sum
<1>2. /\ DOMAIN ModelCosts(c, cost) = Workloads(c)
      /\ \A w \in Workloads(c) : ModelCosts(c, cost)[w] = (cost * c[w]) \div Sum(c)
  BY DEF ModelCosts, Share, Sum
<1> QED BY <1>1, <1>2

\* and what they are when none have.
LEMMA NothingShared ==
    ASSUME NEW c \in Counts, NEW cost, Sum(c) = 0
    PROVE  /\ \A ns \in NamespacesOf(c) : NamespaceCosts(c, cost)[ns] = 0
           /\ \A S \in SUBSET Workloads(c) : SumOf(ModelCosts(c, cost), S) = 0
<1>1. \A ns \in NamespacesOf(c) : NamespaceCosts(c, cost)[ns] = 0
  BY DEF NamespaceCosts, Share, Sum
<1>2. ASSUME NEW S \in SUBSET Workloads(c)
      PROVE  SumOf(ModelCosts(c, cost), S) = 0
  <2> DEFINE s == ModelCosts(c, cost)
  <2>1. IsFiniteSet(S)
    BY CountsFacts, FS_Subset
  <2>2. \A x \in S : s[x] = 0
    BY DEF ModelCosts, Share, Sum
  <2> HIDE DEF s
  <2>3. SumOf(s, S) = 0 * Cardinality(S)
    BY <2>1, <2>2, SumConstant
  <2>4. Cardinality(S) \in Nat
    BY <2>1, FS_CardinalityType
  <2> QED BY <2>3, <2>4 DEF s
<1> QED BY <1>1, <1>2

\* The namespaces part the workloads, so their tokens add up to all.
LEMMA NamespaceTokensAddUp ==
    ASSUME NEW c \in Counts
    PROVE  /\ SumOf(NamespaceTokens(c), NamespacesOf(c)) = Sum(c)
           /\ \A ns \in NamespacesOf(c) :
                 /\ NamespaceTokens(c)[ns] \in Nat
                 /\ NamespaceTokens(c)[ns]
                      = SumOf(c, {w \in Workloads(c) : w.namespace = ns})
<1> DEFINE W == Workloads(c)
           K == NamespacesOf(c)
           g == NamespaceTokens(c)
           Part == [ns \in K |-> {w \in W : w.namespace = ns}]
<1>1. IsFiniteSet(W) /\ IsFiniteSet(K) /\ (\A w \in W : c[w] \in Nat) /\ Sum(c) = SumOf(c, W)
  BY CountsFacts
<1>2. Part \in [K -> SUBSET W] /\ \A k, l \in K : k # l => Part[k] \cap Part[l] = {}
  OBVIOUS
<1>3. UNION {Part[k] : k \in K} = W
  <2>1. ASSUME NEW w \in W
        PROVE  w.namespace \in K /\ w \in Part[w.namespace]
    BY DEF NamespacesOf
  <2>2. \A k \in K : Part[k] \subseteq W
    OBVIOUS
  <2> HIDE DEF Part, W, K
  <2> QED BY <2>1, <2>2
<1>4. ASSUME NEW ns \in K
      PROVE  g[ns] = SumOf(c, Part[ns])
  BY DEF NamespaceTokens, SumOf, TokensOf
<1>5. ASSUME NEW ns \in K
      PROVE  SumOf(c, Part[ns]) \in Nat
  <2>1. IsFiniteSet(Part[ns]) /\ Part[ns] \subseteq W
    BY <1>1, FS_Subset
  <2> HIDE DEF Part, W
  <2> QED BY <1>1, <2>1, SumNat
<1>6. SumOf(g, K) = SumOf(c, UNION {Part[k] : k \in K})
  <2> HIDE DEF Part, W, K, g
  <2>1. \A w \in W : c[w] \in Int
    BY <1>1
  <2> QED BY <1>1, <1>2, <1>4, <2>1, SumParts
<1> QED BY <1>1, <1>3, <1>4, <1>5, <1>6

\* Namespaces bear the cost, but for what divisions drop.
LEMMA NamespacesAddUp ==
    ASSUME NEW c \in Counts, NEW cost \in Nat, Sum(c) > 0
    PROVE  LET byNamespace == NamespaceCosts(c, cost)
               whole == SumOf(byNamespace, DOMAIN byNamespace)
           IN  whole <= cost
               /\ (DOMAIN byNamespace # {}
                   => cost - whole < Cardinality(DOMAIN byNamespace))
<1> DEFINE total == Sum(c)
           t == NamespaceTokens(c)
           s == NamespaceCosts(c, cost)
           K == NamespacesOf(c)
<1>1. total \in Nat /\ total > 0 /\ IsFiniteSet(K)
  BY CountsFacts
<1>2. \A x \in K : t[x] \in Nat /\ s[x] = (cost * t[x]) \div total
  BY NamespaceTokensAddUp, SharesFacts
<1>3. SumOf(t, K) = total
  BY NamespaceTokensAddUp
<1>4. total * cost <= cost * SumOf(t, K) /\ cost * SumOf(t, K) < total * (cost + 1)
  <2> HIDE DEF total, t, K
  <2>1. total * cost = cost * total /\ total * (cost + 1) = cost * total + total
        /\ cost * total \in Nat
    BY <1>1
  <2> QED BY <1>1, <1>3, <2>1
<1>5. DOMAIN s = K
  BY SharesFacts
<1> HIDE DEF total, t, s, K
<1>6. SumOf(s, K) <= cost /\ (K # {} => cost - SumOf(s, K) < Cardinality(K))
  BY <1>1, <1>2, <1>4, SharesAddUp
<1> QED BY <1>5, <1>6 DEF s

\* So do models,
LEMMA ModelsAddUp ==
    ASSUME NEW c \in Counts, NEW cost \in Nat, Sum(c) > 0
    PROVE  LET byModel == ModelCosts(c, cost)
               whole == SumOf(byModel, Workloads(c))
           IN  whole <= cost
               /\ (Workloads(c) # {} => cost - whole < Cardinality(Workloads(c)))
<1> DEFINE total == Sum(c)
           s == ModelCosts(c, cost)
           K == Workloads(c)
<1>1. total \in Nat /\ total > 0 /\ IsFiniteSet(K)
  BY CountsFacts
<1>2. \A x \in K : c[x] \in Nat /\ s[x] = (cost * c[x]) \div total
  BY CountsFacts, SharesFacts
<1>3. SumOf(c, K) = total
  BY CountsFacts
<1>4. total * cost <= cost * SumOf(c, K) /\ cost * SumOf(c, K) < total * (cost + 1)
  <2> HIDE DEF total, K
  <2>1. total * cost = cost * total /\ total * (cost + 1) = cost * total + total
        /\ cost * total \in Nat
    BY <1>1
  <2> QED BY <1>1, <1>3, <2>1
<1> HIDE DEF total, s, K
<1>5. SumOf(s, K) <= cost /\ (K # {} => cost - SumOf(s, K) < Cardinality(K))
  BY <1>1, <1>2, <1>4, SharesAddUp
<1> QED BY <1>5 DEF s, K

\* and a namespace bears what its models bear.
LEMMA ModelsOfNamespaceAddUp ==
    ASSUME NEW c \in Counts, NEW cost \in Nat, Sum(c) > 0, NEW ns \in NamespacesOf(c)
    PROVE  LET whole == NamespaceCosts(c, cost)[ns]
               byModel == ModelCosts(c, cost)
               models == {w \in Workloads(c) : w.namespace = ns}
           IN  SumOf(byModel, models) <= whole
               /\ (models # {} => whole - SumOf(byModel, models) < Cardinality(models))
<1> DEFINE total == Sum(c)
           s == ModelCosts(c, cost)
           S == {w \in Workloads(c) : w.namespace = ns}
           a == cost * NamespaceTokens(c)[ns]
           whole == NamespaceCosts(c, cost)[ns]
<1>1. total \in Nat /\ total > 0
  BY CountsFacts
<1>2. IsFiniteSet(S)
  BY CountsFacts, FS_Subset
<1>3. \A x \in S : c[x] \in Nat /\ s[x] = (cost * c[x]) \div total
  BY CountsFacts, SharesFacts
<1>4. cost * SumOf(c, S) = a /\ a \in Nat
  BY NamespaceTokensAddUp
<1>5. whole = a \div total
  BY SharesFacts
<1> HIDE DEF total, s, S, a, whole
<1>6. whole \in Nat /\ total * whole <= a /\ a <= total * whole + (total - 1)
  BY <1>1, <1>4, <1>5, Quotient
<1>7. total * (whole + 1) = total * whole + total /\ total * whole \in Nat
  BY <1>1, <1>6
<1>8. total * whole <= cost * SumOf(c, S) /\ cost * SumOf(c, S) < total * (whole + 1)
  BY <1>1, <1>4, <1>6, <1>7
<1>9. SumOf(s, S) <= whole /\ (S # {} => whole - SumOf(s, S) < Cardinality(S))
  BY <1>1, <1>2, <1>3, <1>6, <1>8, SharesAddUp
<1> QED BY <1>9 DEF s, S, whole

\* The parts of a report's cost add up to it, at every instant.
LEMMA ShareSums == TypeOK => CostsAddUp
<1> SUFFICES ASSUME TypeOK, TotalTokens > 0
             PROVE  CostsAddUp
  BY DEF CostsAddUp
<1> DEFINE byNamespace == NamespaceCosts(Tokens, TotalCost)
           byModel == ModelCosts(Tokens, TotalCost)
<1>1. Tokens \in Counts /\ TotalCost \in Nat /\ Sum(Tokens) > 0
  BY TotalIsOfBoth, CostTypes
<1>2. DOMAIN byNamespace = NamespacesOf(Tokens) /\ DOMAIN byModel = Workloads(Tokens)
  BY <1>1, SharesFacts
<1>3. /\ SumOf(byNamespace, DOMAIN byNamespace) <= TotalCost
      /\ DOMAIN byNamespace # {} =>
            TotalCost - SumOf(byNamespace, DOMAIN byNamespace) < Cardinality(DOMAIN byNamespace)
  BY <1>1, NamespacesAddUp
<1>4. /\ SumOf(byModel, DOMAIN byModel) <= TotalCost
      /\ DOMAIN byModel # {} =>
            TotalCost - SumOf(byModel, DOMAIN byModel) < Cardinality(DOMAIN byModel)
  BY <1>1, <1>2, ModelsAddUp
<1>5. ASSUME NEW ns \in DOMAIN byNamespace
      PROVE  LET models == {w \in DOMAIN byModel : w.namespace = ns}
             IN  /\ SumOf(byModel, models) <= byNamespace[ns]
                 /\ models # {} =>
                       byNamespace[ns] - SumOf(byModel, models) < Cardinality(models)
  BY <1>1, <1>2, ModelsOfNamespaceAddUp
<1> QED BY <1>3, <1>4, <1>5 DEF CostsAddUp, SumOf

\* No dollar is attributed twice and none is lost, ever.
THEOREM CostsAlwaysAddUp == Spec => []CostsAddUp
BY TypeCorrect, ShareSums, PTL

-----------------------------------------------------------------------------
(* The verdict *)

\* A quotient of naturals grows with its numerator over its denominator.
LEMMA QuotientMonotone ==
    ASSUME NEW x \in Nat, NEW y \in Nat, NEW u \in Nat, NEW v \in Nat, y > 0, v > 0,
           x * v >= u * y
    PROVE  u \div v <= x \div y
<1> DEFINE p == x \div y
           q == u \div v
<1>1. p \in Nat /\ x <= y * p + (y - 1)
  BY Quotient
<1>2. q \in Nat /\ v * q <= u
  BY Quotient
<1> HIDE DEF p, q
<1> SUFFICES ASSUME q > p
             PROVE  FALSE
  BY <1>1, <1>2 DEF p, q
<1>3. y * p + y <= y * q
  <2>1. \A a, b, c \in Nat : b < c => a * b + a <= a * c
    <3>1. ASSUME NEW a \in Nat, NEW b \in Nat, NEW c \in Nat, b < c
          PROVE  a * b + a <= a * c
      <4>1. PICK d \in Nat : c = b + 1 + d
        <5>1. c - b - 1 \in Nat /\ c = b + 1 + (c - b - 1)
          BY <3>1
        <5> QED BY <5>1
      <4>2. a * c = a * b + a + a * d /\ a * d \in Nat /\ a * b \in Nat
        BY <4>1
      <4> QED BY <4>2
    <3> QED BY <3>1
  <2> QED BY <1>1, <1>2, <2>1
<1>4. x < y * q
  BY <1>1, <1>2, <1>3
<1>5. x * v < (y * q) * v
  <2>1. \A a, b, c \in Nat : a < b /\ c > 0 => a * c < b * c
    OBVIOUS
  <2>2. y * q \in Nat
    BY <1>2
  <2> QED BY <1>4, <2>1, <2>2
<1>6. (y * q) * v = y * (v * q) /\ y * (v * q) <= y * u
  <2>1. \A a, b, c \in Nat : a <= b => c * a <= c * b
    OBVIOUS
  <2>2. v * q \in Nat
    BY <1>2
  <2>3. y * (v * q) <= y * u
    BY <1>2, <2>1, <2>2
  <2>4. (y * q) * v = y * (v * q)
    BY <1>2
  <2> QED BY <2>3, <2>4
<1>7. x * v \in Nat /\ y * u \in Nat /\ u * y = y * u /\ (y * q) * v \in Nat
  BY <1>2
<1> QED BY <1>5, <1>6, <1>7

Fraction == [num : Nat, den : Nat \ {0}]

\* Rounding keeps the order.
LEMMA RoundMonotone ==
    ASSUME NEW a \in Fraction, NEW b \in Fraction, AtLeast(a, b)
    PROVE  Round(a) >= Round(b)
<1> DEFINE x == 2 * a.num + a.den
           y == 2 * a.den
           u == 2 * b.num + b.den
           v == 2 * b.den
<1>1. /\ a.num \in Nat /\ a.den \in Nat /\ a.den > 0
      /\ b.num \in Nat /\ b.den \in Nat /\ b.den > 0
      /\ a.num * b.den >= b.num * a.den
  BY DEF Fraction, AtLeast
<1>2. x \in Nat /\ y \in Nat /\ u \in Nat /\ v \in Nat /\ y > 0 /\ v > 0
  BY <1>1
<1>3. x * v >= u * y
  <2>1. /\ x * v = 4 * (a.num * b.den) + 2 * (a.den * b.den)
        /\ u * y = 4 * (b.num * a.den) + 2 * (a.den * b.den)
    <3>1. \A m, n, d \in Nat : (2 * m + n) * (2 * d) = 4 * (m * d) + 2 * (n * d)
      OBVIOUS
    <3>2. a.den * b.den = b.den * a.den
      BY <1>1
    <3> QED BY <1>1, <3>1, <3>2
  <2>2. a.num * b.den \in Nat /\ b.num * a.den \in Nat /\ a.den * b.den \in Nat
    BY <1>1
  <2> HIDE DEF x, y, u, v
  <2> QED BY <1>1, <2>1, <2>2
<1>4. u \div v <= x \div y
  <2> HIDE DEF x, y, u, v
  <2> QED BY <1>2, <1>3, QuotientMonotone
<1>5. u \div v \in Nat /\ x \div y \in Nat
  <2> HIDE DEF x, y, u, v
  <2> QED BY <1>2, Quotient
<1>6. Round(a) = x \div y /\ Round(b) = u \div v
  BY DEF Round
<1> HIDE DEF x, y, u, v
<1> QED BY <1>4, <1>5, <1>6

\* A positive factor may be cancelled.
LEMMA Cancel ==
    ASSUME NEW a \in Nat, NEW b \in Nat, NEW c \in Nat, c > 0
    PROVE  (a * c >= b * c) <=> (a >= b)
<1>1. ASSUME a >= b
      PROVE  a * c >= b * c
  BY <1>1
<1>2. ASSUME a < b
      PROVE  a * c < b * c
  BY <1>2
<1>3. a * c \in Nat /\ b * c \in Nat
  OBVIOUS
<1> QED BY <1>1, <1>2, <1>3

\* What the cloud charges for the tokens of the report.
Bill(price) == TotalIn * price.input + TotalOut * price.output

\* The break-even figures, case by case.
LEMMA BreakEvenFacts ==
    ASSUME TypeOK, DailyHardwareCost \in Nat, DailyHardwareCost > 0,
           NEW price \in [input : Nat, output : Nat]
    PROVE  /\ Bill(price) \in Nat
           /\ CurrentTokensPerDay \in Fraction
           /\ BreakEvenTokensPerDay(price) \in Fraction
           /\ OnPremCheaper(price)
                 <=> Bill(price) * TicksPerDay >= DailyHardwareCost * HoursInPeriod
           /\ OnPremCheaper(price)
                 <=> AtLeast(PercentOfBreakEven(price), [num |-> 100, den |-> 1])
           /\ OnPremCheaper(price) => AtLeast(CurrentTokensPerDay, BreakEvenTokensPerDay(price))
<1> DEFINE T == TotalTokens
           H == HoursInPeriod
           D == DailyHardwareCost
           K == TicksPerDay
           B == Bill(price)
           cpt == CloudCostPerToken(price)
           b == BreakEvenTokensPerDay(price)
           c == CurrentTokensPerDay
           pct == PercentOfBreakEven(price)
<1>1. /\ TotalIn \in Nat /\ TotalOut \in Nat /\ T = TotalIn + TotalOut /\ T \in Nat
      /\ H \in Nat /\ H > 0 /\ D \in Nat /\ D > 0 /\ K \in Nat /\ K > 0
      /\ price.input \in Nat /\ price.output \in Nat
  BY TotalIsOfBoth, CostTypes, BoundsAssumption
<1>2. B \in Nat
  <2>1. TotalIn * price.input \in Nat /\ TotalOut * price.output \in Nat
    BY <1>1
  <2> QED BY <2>1 DEF Bill
<1>3. c.num = T * K /\ c.den = H /\ c \in Fraction
  BY <1>1 DEF CurrentTokensPerDay, Fraction
<1>4. /\ OnPremCheaper(price) <=> b.num > 0 /\ c.num * b.den >= b.num * c.den
      /\ b.num > 0 => pct.num = c.num * b.den * 100 /\ pct.den = c.den * b.num
      /\ b.num = 0 => pct.num = 0 /\ pct.den = 1
      /\ AtLeast(pct, [num |-> 100, den |-> 1]) <=> pct.num * 1 >= 100 * pct.den
      /\ AtLeast(c, b) <=> c.num * b.den >= b.num * c.den
  BY DEF OnPremCheaper, PercentOfBreakEven, AtLeast, Zero
<1>5. /\ cpt.num = 0 => b.num = 0 /\ b.den = 1 /\ b = Zero
      /\ cpt.num # 0 => b.num = D * cpt.den /\ b.den = cpt.num
                        /\ b = [num |-> D * cpt.den, den |-> cpt.num]
  BY DEF BreakEvenTokensPerDay, Zero
<1>6. CASE T = 0
  <2>1. TotalIn = 0 /\ TotalOut = 0 /\ B = 0 /\ cpt.num \in Nat /\ cpt.den = 2
    BY <1>1, <1>6 DEF Bill, CloudCostPerToken
  <2>2. b \in Fraction
    BY <1>1, <1>5, <2>1 DEF Fraction, Zero
  <2>3. c.num = 0
    BY <1>1, <1>3, <1>6
  <2>4. D * H > 0 /\ B * K = 0
    <3>1. \A m, n \in Nat : m > 0 /\ n > 0 => m * n > 0
      OBVIOUS
    <3> QED BY <1>1, <2>1, <3>1
  <2>5. ~OnPremCheaper(price)
    <3>1. SUFFICES ASSUME b.num > 0, c.num * b.den >= b.num * c.den
                   PROVE  FALSE
      BY <1>4
    <3>2. \A m, n \in Nat : m > 0 /\ n > 0 => m * n > 0
      OBVIOUS
    <3>3. b.num * c.den \in Nat /\ b.num * c.den > 0 /\ c.num * b.den = 0
      BY <1>1, <1>3, <2>2, <2>3, <3>1, <3>2 DEF Fraction
    <3> HIDE DEF b, c
    <3> QED BY <3>1, <3>3
  <2>6. pct.num = 0 /\ pct.den \in Nat /\ pct.den > 0
    <3>1. CASE b.num = 0
      BY <1>4, <3>1
    <3>2. CASE b.num # 0
      <4>1. b.num \in Nat /\ b.den \in Nat /\ b.num > 0
        BY <2>2, <3>2 DEF Fraction
      <4>2. \A m, n \in Nat : m > 0 /\ n > 0 => m * n \in Nat /\ m * n > 0
        OBVIOUS
      <4> QED BY <1>1, <1>3, <1>4, <2>3, <4>1, <4>2
    <3> QED BY <3>1, <3>2
  <2> HIDE DEF T, H, D, K, B, cpt, b, c, pct
  <2>7. ~(B * K >= D * H) /\ ~(pct.num * 1 >= 100 * pct.den)
    <3>1. D * H \in Nat
      BY <1>1
    <3> QED BY <2>4, <2>6, <3>1
  <2> QED BY <1>2, <1>3, <1>4, <2>2, <2>5, <2>7 DEF T, H, D, K, B, b, c, pct
<1>7. CASE T # 0
  <2>1. cpt.num = B /\ cpt.den = T
    BY <1>7 DEF CloudCostPerToken, Bill
  <2>2. CASE B = 0
    <3>1. b.num = 0 /\ b.den = 1 /\ b \in Fraction
      BY <1>5, <2>1, <2>2 DEF Fraction, Zero
    <3>2. ~OnPremCheaper(price) /\ pct.num = 0 /\ pct.den = 1
      BY <1>4, <3>1
    <3>3. ~(B * K >= D * H)
      <4>1. \A m, n \in Nat : m > 0 /\ n > 0 => m * n > 0 /\ 0 * m = 0 /\ m * n \in Nat
        OBVIOUS
      <4> HIDE DEF T, H, D, K, B
      <4> QED BY <1>1, <2>2, <4>1
    <3> HIDE DEF T, H, D, K, B, cpt, b, c, pct
    <3> QED BY <1>2, <1>3, <1>4, <3>1, <3>2, <3>3 DEF T, H, D, K, B, b, c, pct
  <2>3. CASE B # 0
    <3>1. b.num = D * T /\ b.den = B /\ b = [num |-> D * T, den |-> B]
      BY <1>5, <2>1, <2>3
    <3>2. b.num > 0 /\ b \in Fraction
      <4>1. \A m, n \in Nat : m > 0 /\ n > 0 => m * n > 0 /\ m * n \in Nat
        OBVIOUS
      <4>2. D * T > 0 /\ D * T \in Nat
        <5> HIDE DEF T, D
        <5> QED BY <1>1, <1>7, <4>1
      <4> HIDE DEF T, D, B, b
      <4> QED BY <1>2, <2>3, <3>1, <4>2 DEF Fraction
    <3> HIDE DEF T, H, D, K, B, cpt, b, c, pct
    <3>3. c.num * b.den >= b.num * c.den <=> B * K >= D * H
      <4>1. c.num * b.den = (B * K) * T /\ b.num * c.den = (D * H) * T
        BY <1>1, <1>2, <1>3, <3>1
      <4>2. B * K \in Nat /\ D * H \in Nat /\ T > 0
        BY <1>1, <1>2, <1>7
      <4> QED BY <1>1, <4>1, <4>2, Cancel
    <3>4. pct.num * 1 >= 100 * pct.den <=> c.num * b.den >= b.num * c.den
      <4>1. c.num * b.den \in Nat /\ b.num * c.den \in Nat /\ c.den * b.num = b.num * c.den
        BY <1>3, <3>2 DEF Fraction
      <4>2. pct.num = c.num * b.den * 100 /\ pct.den = b.num * c.den
        BY <1>4, <3>2, <4>1
      <4> QED BY <4>1, <4>2
    <3> QED BY <1>2, <1>3, <1>4, <3>2, <3>3, <3>4 DEF T, H, D, K, B, b, c, pct
  <2> QED BY <2>2, <2>3
<1> QED BY <1>6, <1>7

\* The verdict is the cheaper bill at every instant.
LEMMA VerdictCheaper == TypeOK => VerdictIsCheaper
<1> SUFFICES ASSUME TypeOK, DailyHardwareCost > 0, NEW t \in DOMAIN BreakEvenAnalysis
             PROVE  LET e == BreakEvenAnalysis[t]
                        bill == TotalIn * Catalogue[t].input + TotalOut * Catalogue[t].output
                    IN  /\ e.onPremCheaper
                              <=> bill * TicksPerDay >= DailyHardwareCost * HoursInPeriod
                        /\ e.onPremCheaper <=> AtLeast(e.percent, [num |-> 100, den |-> 1])
                        /\ e.onPremCheaper => e.current >= e.breakEven
  BY DEF VerdictIsCheaper
<1> DEFINE price == Catalogue[t]
<1>1. t \in DOMAIN Catalogue /\ BreakEvenAnalysis[t] = Entry(t)
  BY DEF BreakEvenAnalysis, KnownTargets
<1>2. price \in [input : Nat, output : Nat]
  BY <1>1, PricesAssumption
<1>3. DailyHardwareCost \in Nat
  <2>1. IdleWatts \in Nat /\ TicksPerDay \in Nat /\ Amortization \in Nat /\ EnergyPrice \in Nat
    BY CostsAssumption, BoundsAssumption
  <2>2. IdleWatts * EnergyPrice \in Nat
    BY <2>1
  <2> QED BY <2>1, <2>2 DEF DailyHardwareCost
<1>4. /\ Entry(t).onPremCheaper = OnPremCheaper(price)
      /\ Entry(t).percent = PercentOfBreakEven(price)
      /\ Entry(t).current = Round(CurrentTokensPerDay)
      /\ Entry(t).breakEven = Round(BreakEvenTokensPerDay(price))
  BY DEF Entry
<1> HIDE DEF price
<1>5. /\ CurrentTokensPerDay \in Fraction
      /\ BreakEvenTokensPerDay(price) \in Fraction
      /\ OnPremCheaper(price) <=> Bill(price) * TicksPerDay >= DailyHardwareCost * HoursInPeriod
      /\ OnPremCheaper(price) <=> AtLeast(PercentOfBreakEven(price), [num |-> 100, den |-> 1])
      /\ OnPremCheaper(price) => AtLeast(CurrentTokensPerDay, BreakEvenTokensPerDay(price))
  BY <1>2, <1>3, BreakEvenFacts
<1>6. OnPremCheaper(price) => Round(CurrentTokensPerDay) >= Round(BreakEvenTokensPerDay(price))
  BY <1>5, RoundMonotone
<1>7. Bill(price) = TotalIn * Catalogue[t].input + TotalOut * Catalogue[t].output
  BY DEF Bill, price
<1> QED BY <1>1, <1>4, <1>5, <1>6, <1>7

\* Hardware is called cheaper just when it is, in every report.
THEOREM VerdictAlwaysCheaper == Spec => []VerdictIsCheaper
BY TypeCorrect, VerdictCheaper, PTL

-----------------------------------------------------------------------------
(* What is stored and published of a report *)

\* A status as Reconcile computes it: its costs by model are the shares of its cost.
IsReport(s) ==
    /\ DOMAIN s = {"ready", "period", "input", "output", "cost", "costs"}
    /\ s.input \in Counts /\ s.output \in Counts /\ Workloads(s.input) = Workloads(s.output)
    /\ s.cost \in Nat
    /\ s.costs = ModelCosts(Added(s.input, s.output), s.cost)

\* Whatever was skipped, lost or restarted, a status has the shares of the cost it was
\* written with, and the namespace costs are shares, though of another cost, by the very
\* counts of the status that their Reconcile left behind.
ExportInv ==
    /\ counters \in Scrapes
    /\ IsReport(status) /\ IsReport(copy) /\ IsReport(published.report)
    /\ published.total \in Nat
    /\ published.costs
         = NamespaceCosts(Added(published.report.input, published.report.output),
                          published.total)

\* What a Reconcile computes is a report,
LEMMA FoundIsReport == counters \in Scrapes => \A new \in Found : IsReport(new)
<1> SUFFICES ASSUME counters \in Scrapes, NEW cost \in PeriodCosts
             PROVE  IsReport(Computed(counters, cost, now))
  BY DEF Found
<1>1. /\ counters.input \in Counts /\ counters.output \in Counts
      /\ Workloads(counters.input) = Workloads(counters.output) /\ cost \in Nat
  BY ScrapesAssumption, ExploredAssumption
<1> QED BY <1>1 DEF IsReport, Computed

\* and so is the status of a report that none has seen yet.
LEMMA ZeroIsReport ==
    /\ IsReport(ZeroStatus)
    /\ NothingPublished.costs = NamespaceCosts(Added(NoCounts, NoCounts), 0)
<1>1. NoCounts \in Counts
  BY DEF NoCounts, Counts
<1>2. Added(NoCounts, NoCounts) = NoCounts
  <2>1. Workloads(NoCounts) = {}
    BY DEF Workloads, NoCounts
  <2> QED BY <2>1 DEF Added, NoCounts
<1> QED BY <1>1, <1>2 DEF ZeroStatus, NothingPublished, IsReport

\* Every step keeps this.
LEMMA ExportStep == ExportInv /\ [ExportNext]_exportVars => ExportInv'
<1> SUFFICES ASSUME ExportInv, [ExportNext]_exportVars
             PROVE  ExportInv'
  OBVIOUS
<1> USE DEF ExportInv
<1>1. ASSUME NEW new \in Found, Refreshes(new)
      PROVE  ExportInv'
  <2>1. IsReport(new)
    BY FoundIsReport
  <2>2. copy.input = new.input /\ copy.output = new.output
    BY <1>1 DEF Refreshes, Unchanged, SameWork
  <2>3. /\ published'.costs = NamespaceCosts(Added(new.input, new.output), new.cost)
        /\ published'.total = new.cost /\ published'.report = copy
    BY <1>1 DEF Refreshes, Publish
  <2>4. new.cost \in Nat
    BY <2>1 DEF IsReport
  <2>5. status' = status /\ copy' = copy /\ counters' = counters
    BY <1>1 DEF Refreshes
  <2> QED BY <2>2, <2>3, <2>4, <2>5
<1>2. ASSUME NEW new \in Found, Writes(new)
      PROVE  ExportInv'
  <2>1. IsReport(new)
    BY FoundIsReport
  <2>2. /\ published'.costs = NamespaceCosts(Added(new.input, new.output), new.cost)
        /\ published'.total = new.cost /\ published'.report = new
    BY <1>2 DEF Writes, Publish
  <2>3. new.cost \in Nat
    BY <2>1 DEF IsReport
  <2>4. status' = new /\ copy' = copy /\ counters' = counters
    BY <1>2 DEF Writes, Update
  <2> QED BY <2>1, <2>2, <2>3, <2>4
<1>3. ASSUME NEW new \in Found, WriteAnswerLost(new)
      PROVE  ExportInv'
  BY <1>3, FoundIsReport DEF WriteAnswerLost, Update
<1>4. CASE ProfileMissing
  <2>1. IsReport([copy EXCEPT !.ready = FALSE])
    BY DEF IsReport
  <2> QED BY <1>4, <2>1 DEF ProfileMissing, Update
<1>5. CASE Observe
  BY <1>5 DEF Observe
<1>6. CASE Restart
  <2>1. published'.report = ZeroStatus /\ published'.total = 0
        /\ published'.costs = NothingPublished.costs
    BY <1>6 DEF Restart, NothingPublished
  <2>2. ZeroStatus.input = NoCounts /\ ZeroStatus.output = NoCounts
    BY DEF ZeroStatus
  <2> QED BY <1>6, <2>1, <2>2, ZeroIsReport DEF Restart
<1>7. CASE WorldMoves
  BY <1>7 DEF WorldMoves
<1>8. CASE UNCHANGED exportVars
  BY <1>8 DEF exportVars
<1> QED BY <1>1, <1>2, <1>3, <1>4, <1>5, <1>6, <1>7, <1>8 DEF ExportNext, Reconcile

\* So it always holds.
LEMMA ExportInductive == ExportSpec => []ExportInv
<1>1. ExportInit => ExportInv
  <2> SUFFICES ASSUME ExportInit
               PROVE  ExportInv
    OBVIOUS
  <2>1. /\ published.report = ZeroStatus /\ published.total = 0
        /\ published.costs = NothingPublished.costs
        /\ status = ZeroStatus /\ copy = ZeroStatus /\ counters \in Scrapes
    BY DEF ExportInit, NothingPublished
  <2>2. ZeroStatus.input = NoCounts /\ ZeroStatus.output = NoCounts
    BY DEF ZeroStatus
  <2> QED BY <2>1, <2>2, ZeroIsReport DEF ExportInv
<1> QED BY <1>1, ExportStep, PTL DEF ExportSpec

-----------------------------------------------------------------------------
(* The export *)

\* The counts of the stored status: input and output together.
StoredTokens == Added(status.input, status.output)

\* What the stored status is made of.
LEMMA StoredFacts ==
    ASSUME ExportInv
    PROVE  /\ StoredTokens \in Counts /\ status.cost \in Nat
           /\ status.costs = ModelCosts(StoredTokens, status.cost)
           /\ Workloads(StoredTokens) = Workloads(status.input)
           /\ NamespacesOf(StoredTokens) = NamespacesOf(status.input)
           /\ Sum(StoredTokens) = Sum(status.input) + Sum(status.output)
           /\ \A w \in Workloads(status.input) :
                 StoredTokens[w] = status.input[w] + status.output[w]
<1>1. /\ status.input \in Counts /\ status.output \in Counts
      /\ Workloads(status.input) = Workloads(status.output) /\ status.cost \in Nat
      /\ status.costs = ModelCosts(StoredTokens, status.cost)
  BY DEF ExportInv, IsReport, StoredTokens
<1> QED BY <1>1, AddedFacts DEF StoredTokens

\* A column of the rows by model is what the report has for the model,
LEMMA ModelColumns ==
    ASSUME ExportInv, Workloads(status.input) # {}
    PROVE  /\ DOMAIN Rows = Workloads(StoredTokens)
           /\ \A w \in Workloads(StoredTokens) :
                 /\ Column("usageQuantity")[w] = StoredTokens[w]
                 /\ Column("billedCost")[w] = ModelCosts(StoredTokens, status.cost)[w]
                 /\ Rows[w].subAccountId = w.namespace
<1> DEFINE W == Workloads(StoredTokens)
<1>1. Rows = ModelRows /\ W = Workloads(status.input)
  BY StoredFacts DEF Rows
<1>2. DOMAIN Rows = W /\ \A w \in W : Rows[w] = RowFromModel(w)
  BY <1>1 DEF ModelRows
<1>3. ASSUME NEW w \in W
      PROVE  /\ RowFromModel(w).usageQuantity = status.input[w] + status.output[w]
             /\ RowFromModel(w).billedCost = status.costs[w]
             /\ RowFromModel(w).subAccountId = w.namespace
  BY DEF RowFromModel, BuildRow
<1>4. ASSUME NEW w \in W
      PROVE  /\ Column("usageQuantity")[w] = RowFromModel(w).usageQuantity
             /\ Column("billedCost")[w] = RowFromModel(w).billedCost
  BY <1>2 DEF Column
<1>5. status.costs = ModelCosts(StoredTokens, status.cost)
      /\ \A w \in W : StoredTokens[w] = status.input[w] + status.output[w]
  BY <1>1, StoredFacts
<1> HIDE DEF W
<1> QED BY <1>2, <1>3, <1>4, <1>5 DEF W

\* and so are its totals.
LEMMA ModelTotals ==
    ASSUME ExportInv, Workloads(status.input) # {}, NEW S \in SUBSET Workloads(StoredTokens)
    PROVE  /\ ColumnTotal("billedCost", S) = SumOf(ModelCosts(StoredTokens, status.cost), S)
           /\ ColumnTotal("usageQuantity", S) = SumOf(StoredTokens, S)
<1> DEFINE f == Column("billedCost")
           g == Column("usageQuantity")
           s == ModelCosts(StoredTokens, status.cost)
           t == StoredTokens
<1>1. IsFiniteSet(S)
  BY StoredFacts, CountsFacts, FS_Subset
<1>2. \A x \in S : f[x] = s[x] /\ g[x] = t[x]
  BY ModelColumns
<1>3. ColumnTotal("billedCost", S) = SumOf(f, S) /\ ColumnTotal("usageQuantity", S) = SumOf(g, S)
  BY DEF ColumnTotal, SumOf
<1> HIDE DEF f, g, s, t
<1>4. SumOf(f, S) = SumOf(s, S) /\ SumOf(g, S) = SumOf(t, S)
  BY <1>1, <1>2, SumEqual
<1> QED BY <1>3, <1>4 DEF s, t

\* A report without a breakdown has one row, of its totals.
LEMMA TotalsMatch ==
    ASSUME ExportInv, Workloads(status.input) = {}
    PROVE  ExportMatchesReport
<1> DEFINE q == Column("usageQuantity")
           c == Column("billedCost")
           tokens == Sum(status.input) + Sum(status.output)
<1>1. DOMAIN Rows = {Home} /\ Rows[Home] = RowFromTotals
  BY DEF Rows
<1>2. q[Home] = tokens /\ c[Home] = status.cost
  BY <1>1 DEF Column, RowFromTotals, BuildRow
<1>3. tokens \in Nat /\ status.cost \in Nat
  BY CountsFacts, StoredFacts
<1>4. IsFiniteSet({Home}) /\ Cardinality({Home}) = 1
  BY FS_Singleton
<1>5. /\ ColumnTotal("usageQuantity", {Home}) = SumOf(q, {Home})
      /\ ColumnTotal("billedCost", {Home}) = SumOf(c, {Home})
  BY DEF ColumnTotal, SumOf
<1>6. SumOf(q, {Home}) = tokens /\ SumOf(c, {Home}) = status.cost
  <2> HIDE DEF q, c, tokens
  <2>1. SumOf(q, {Home}) = tokens * Cardinality({Home})
    BY <1>2, <1>3, <1>4, SumConstant
  <2>2. SumOf(c, {Home}) = status.cost * Cardinality({Home})
    BY <1>2, <1>3, <1>4, SumConstant
  <2> QED BY <1>3, <1>4, <2>1, <2>2
<1> HIDE DEF q, c
<1> QED BY <1>1, <1>3, <1>4, <1>5, <1>6 DEF ExportMatchesReport

\* One with a breakdown has a row for each model and namespace.
LEMMA ModelsMatch ==
    ASSUME ExportInv, Workloads(status.input) # {}
    PROVE  ExportMatchesReport
<1> DEFINE W == Workloads(StoredTokens)
           tokens == Sum(status.input) + Sum(status.output)
           byModel == ModelCosts(StoredTokens, status.cost)
<1>1. /\ DOMAIN Rows = W /\ StoredTokens \in Counts /\ status.cost \in Nat
      /\ W # {} /\ Sum(StoredTokens) = tokens
  BY ModelColumns, StoredFacts
<1>2. ColumnTotal("usageQuantity", W) = tokens
  BY <1>1, ModelTotals, CountsFacts
<1>3. ColumnTotal("billedCost", W) = SumOf(byModel, W)
  BY ModelTotals
<1>4. ASSUME tokens > 0
      PROVE  SumOf(byModel, W) <= status.cost /\ status.cost - SumOf(byModel, W) < Cardinality(W)
  BY <1>1, <1>4, ModelsAddUp
<1> HIDE DEF W, byModel
<1> QED BY <1>1, <1>2, <1>3, <1>4 DEF ExportMatchesReport

\* Whatever finance adds up over the export is what the stored report says, at every
\* cost, and whatever writes were skipped or lost.
THEOREM ExportAlwaysMatches == ExportSpec => []ExportMatchesReport
<1>1. ExportInv => ExportMatchesReport
  BY TotalsMatch, ModelsMatch
<1> QED BY <1>1, ExportInductive, PTL

-----------------------------------------------------------------------------
(* The export beside the budgets *)

\* Two shares of the same tokens, one rounded down as a whole and the other in n parts,
\* are in the proportion of what they are shares of.
LEMMA InProportion ==
    ASSUME NEW a \in Nat, NEW b \in Nat, NEW t \in Nat, NEW total \in Nat, total > 0,
           NEW held \in Nat, total * held <= a * t, a * t <= total * held + (total - 1),
           NEW spend \in Nat, NEW n \in Nat,
           total * spend <= b * t, b * t <= total * spend + (total - 1) * n
    PROVE  held * b <= (spend + n) * a /\ spend * a <= (held + 1) * b
<1>1. \A x, y, z \in Nat : y <= z => x * y <= x * z /\ x * y \in Nat /\ x * z \in Nat
  OBVIOUS
<1>2. \A x, y, z \in Nat : x * (y * z) = y * (x * z) /\ x * (y * z) = (x * y) * z
                           /\ x * y = y * x /\ x * (y + z) = x * y + x * z
  OBVIOUS
<1>3. /\ total * held \in Nat /\ a * t \in Nat /\ total * spend \in Nat /\ b * t \in Nat
      /\ (total - 1) * n \in Nat /\ total * n \in Nat /\ (total - 1) * n <= total * n
      /\ spend + n \in Nat /\ held + 1 \in Nat
  <2>1. (total - 1) * n = total * n - n /\ total - 1 \in Nat
    OBVIOUS
  <2> QED BY <2>1
<1>4. held * b <= (spend + n) * a
  <2>1. b * t <= total * (spend + n)
    BY <1>2, <1>3
  <2>2. b * (total * held) <= b * (a * t)
    BY <1>1, <1>3
  <2>3. a * (b * t) <= a * (total * (spend + n))
    BY <1>1, <1>3, <2>1
  <2>4. b * (a * t) = a * (b * t)
    BY <1>2
  <2>5. b * (total * held) = (held * b) * total
    BY <1>2
  <2>6. a * (total * (spend + n)) = ((spend + n) * a) * total
    BY <1>2, <1>3
  <2>7. held * b \in Nat /\ (spend + n) * a \in Nat
    BY <1>3
  <2>8. (held * b) * total \in Nat /\ ((spend + n) * a) * total \in Nat /\ a * (b * t) \in Nat
    BY <1>3, <2>7
  <2>9. (held * b) * total <= ((spend + n) * a) * total
    BY <2>2, <2>3, <2>4, <2>5, <2>6, <2>8
  <2> QED BY <2>7, <2>9, Cancel
<1>5. spend * a <= (held + 1) * b
  <2>1. a * t <= total * (held + 1)
    BY <1>2, <1>3
  <2>2. a * (total * spend) <= a * (b * t)
    BY <1>1, <1>3
  <2>3. b * (a * t) <= b * (total * (held + 1))
    BY <1>1, <1>3, <2>1
  <2>4. b * (a * t) = a * (b * t)
    BY <1>2
  <2>5. a * (total * spend) = (spend * a) * total
    BY <1>2
  <2>6. b * (total * (held + 1)) = ((held + 1) * b) * total
    BY <1>2, <1>3
  <2>7. spend * a \in Nat /\ (held + 1) * b \in Nat
    BY <1>3
  <2>8. (spend * a) * total \in Nat /\ ((held + 1) * b) * total \in Nat /\ a * (b * t) \in Nat
    BY <1>3, <2>7
  <2>9. (spend * a) * total <= ((held + 1) * b) * total
    BY <2>2, <2>3, <2>4, <2>5, <2>6, <2>8
  <2> QED BY <2>7, <2>9, Cancel
<1> QED BY <1>4, <1>5

\* What a namespace is billed at one cost, and its budget held against at another.
LEMMA BilledAndHeld ==
    ASSUME NEW c \in Counts, NEW a \in Nat, NEW b \in Nat, NEW ns \in NamespacesOf(c)
    PROVE  LET held == NamespaceCosts(c, a)[ns]
               models == {w \in Workloads(c) : w.namespace = ns}
               spend == SumOf(ModelCosts(c, b), models)
               n == Cardinality(models)
           IN  /\ a = b => spend <= held /\ held - spend < n
               /\ held * b <= (spend + n) * a
               /\ spend * a <= (held + 1) * b
<1> DEFINE total == Sum(c)
           models == {w \in Workloads(c) : w.namespace = ns}
           s == ModelCosts(c, b)
           held == NamespaceCosts(c, a)[ns]
           t == NamespaceTokens(c)[ns]
           spend == SumOf(s, models)
           n == Cardinality(models)
<1>1. total \in Nat /\ IsFiniteSet(models) /\ models # {}
  BY CountsFacts, FS_Subset DEF NamespacesOf
<1>2. n \in Nat /\ n > 0
  BY <1>1, FS_CardinalityType, FS_EmptySet
<1>3. CASE total = 0
  <2>1. held = 0 /\ spend = 0
    BY <1>3, NothingShared
  <2>2. n * a \in Nat
    BY <1>2
  <2> HIDE DEF total, held, spend, n
  <2>3. /\ a = b => spend <= held /\ held - spend < n
        /\ held * b <= (spend + n) * a
        /\ spend * a <= (held + 1) * b
    BY <1>2, <2>1, <2>2
  <2> QED BY <2>3 DEF held, spend, n
<1>4. CASE total # 0
  <2>1. total > 0
    BY <1>1, <1>4
  <2>2. a = b => spend <= held /\ held - spend < n
    BY <1>1, <2>1, ModelsOfNamespaceAddUp
  <2>3. t \in Nat /\ t = SumOf(c, models) /\ held = (a * t) \div total
    BY <2>1, NamespaceTokensAddUp, SharesFacts
  <2>4. \A x \in models : c[x] \in Nat /\ s[x] = (b * c[x]) \div total
    BY <2>1, CountsFacts, SharesFacts
  <2>5. \A x \in models : s[x] \in Nat
    <3> HIDE DEF total, models, s
    <3>1. ASSUME NEW x \in models
          PROVE  s[x] \in Nat
      <4>1. b * c[x] \in Nat
        BY <2>4
      <4> QED BY <1>1, <2>1, <2>4, <4>1, Quotient
    <3> QED BY <3>1
  <2> HIDE DEF total, models, s, held, t
  <2>6. spend \in Nat
    BY <1>1, <2>5, SumNat
  <2>7. total * spend <= b * t /\ b * t <= total * spend + (total - 1) * n
    BY <1>1, <2>1, <2>3, <2>4, SharesBound
  <2>8. held \in Nat /\ total * held <= a * t /\ a * t <= total * held + (total - 1)
    <3>1. a * t \in Nat
      BY <2>3
    <3> QED BY <1>1, <2>1, <2>3, <3>1, Quotient
  <2> HIDE DEF spend, n
  <2>9. held * b <= (spend + n) * a /\ spend * a <= (held + 1) * b
    BY <1>1, <1>2, <2>1, <2>3, <2>6, <2>7, <2>8, InProportion
  <2> QED BY <2>2, <2>9 DEF held, spend, n, s, models
<1> QED BY <1>3, <1>4

\* A report of no pods charges its own namespace, and holds no budget against a cost;
\* otherwise rows and namespace costs are shares by the same counts.
LEMMA RowsFollowBudgets == ExportInv => ExportFollowsBudgets
<1> SUFFICES ASSUME ExportInv, PublishedReport
             PROVE  ExportFollowsBudgets
  BY DEF ExportFollowsBudgets
<1> DEFINE c == StoredTokens
           table == published.costs
           a == published.total
           b == status.cost
<1>1. published.report.input = status.input /\ published.report.output = status.output
  <2>1. DOMAIN status = {"ready", "period", "input", "output", "cost", "costs"}
    BY DEF ExportInv, IsReport
  <2>2. [status EXCEPT !.ready = TRUE].input = status.input
        /\ [status EXCEPT !.ready = TRUE].output = status.output
    BY <2>1
  <2> QED BY <2>2 DEF PublishedReport
<1>2. table = NamespaceCosts(c, a) /\ a \in Nat
  BY <1>1 DEF ExportInv, StoredTokens
<1>3. c \in Counts /\ b \in Nat /\ Workloads(c) = Workloads(status.input)
  BY StoredFacts
<1>4. DOMAIN table = NamespacesOf(c)
  BY <1>2 DEF NamespaceCosts
<1>5. ASSUME Workloads(status.input) # {}
      PROVE  {Rows[x].subAccountId : x \in DOMAIN Rows} = DOMAIN table
  <2>1. DOMAIN Rows = Workloads(c) /\ \A w \in Workloads(c) : Rows[w].subAccountId = w.namespace
    BY <1>5, ModelColumns
  <2> QED BY <1>4, <2>1 DEF NamespacesOf
<1>6. ASSUME NEW ns \in DOMAIN table
      PROVE  LET rows == RowsOf(ns)
                 spend == ColumnTotal("billedCost", rows)
                 held == table[ns]
             IN  /\ a = b => spend <= held /\ held - spend < Cardinality(rows)
                 /\ held * b <= (spend + Cardinality(rows)) * a
                 /\ spend * a <= (held + 1) * b
  <2>1. ns \in NamespacesOf(c) /\ Workloads(status.input) # {}
    BY <1>3, <1>4, <1>6 DEF NamespacesOf
  <2>2. RowsOf(ns) = {w \in Workloads(c) : w.namespace = ns}
    BY <2>1, ModelColumns DEF RowsOf
  <2>3. ColumnTotal("billedCost", RowsOf(ns)) = SumOf(ModelCosts(c, b), RowsOf(ns))
    <3>1. RowsOf(ns) \in SUBSET Workloads(c)
      BY <2>2
    <3> QED BY <2>1, <3>1, ModelTotals
  <2> HIDE DEF c, table, a, b
  <2> QED BY <1>2, <1>3, <2>1, <2>2, <2>3, BilledAndHeld
<1> HIDE DEF c
<1> QED BY <1>5, <1>6 DEF ExportFollowsBudgets

\* Once published, namespace costs are in proportion to the rows that finance adds up,
\* for as long as nothing is written that is not published, at any costs.
THEOREM ExportAlwaysFollowsBudgets == ExportSpec => []ExportFollowsBudgets
BY RowsFollowBudgets, ExportInductive, PTL
=============================================================================
