---------------------------- MODULE ReportFigures ----------------------------
(***************************************************************************)
(* The figures of a UsageReport (Reconcile and computeBreakEven in         *)
(* usagereport_controller.go, with internal/calculator): what they are in  *)
(* any state of the power readings and token counters they are made of.    *)
(* UsageReports models how a report is put together step by step; here it  *)
(* is computed at one instant, which lets periods, power and traffic vary. *)
(*                                                                         *)
(* One tick is 0.001 hours, the least period length, and costs are per     *)
(* tick.  A division is a pair of numbers, so nothing is rounded but where *)
(* the code rounds.  Figures "per million tokens" share their divisor and  *)
(* are given without it.                                                   *)
(***************************************************************************)
EXTENDS Attribution

CONSTANTS
    Amortization,  \* amortizationPerHour, per tick
    EnergyPrice,   \* ratePerKWh times pueFactor: the price of a watt for a tick
    IdleWatts,     \* idleWattsThreshold
    Watts,         \* the power readings explored
    Catalogue,     \* the pricing catalogue: cloud model -> [input, output] prices
    Targets,       \* cloudComparison.targets, or the default targets: a set of cloud models
    TicksPerDay,   \* 24 hours
    MaxTicks,      \* bound: ticks of a period
    MaxTokens      \* bound: tokens counted in all

ASSUME CostsAssumption ==
    Amortization \in Nat /\ EnergyPrice \in Nat /\ IdleWatts \in Nat /\ Watts \subseteq Nat
ASSUME PricesAssumption ==
    \A t \in DOMAIN Catalogue : Catalogue[t] \in [input : Nat, output : Nat]
ASSUME BoundsAssumption == TicksPerDay \in Nat \ {0} /\ MaxTicks \in Nat /\ MaxTokens \in Nat

VARIABLES
    ticks,        \* the time since the period began
    watts,        \* the last power reading, which the CostProfile's status shows
    activeTicks,  \* Summarize: time of the period at an active reading
    activeEnergy, \* Summarize: watts times ticks of that time
    input,        \* the counters of input tokens, by model and namespace
    output,       \* and of output tokens
    served        \* the tokens served since the period began

vars == <<ticks, watts, activeTicks, activeEnergy, input, output, served>>

\* Every variable holds what the declarations above say it holds; the readings are
\* those of the period.
TypeOK ==
    /\ ticks \in Nat
    /\ watts \in Watts
    /\ activeTicks \in 0 .. ticks
    /\ activeEnergy \in Nat
    /\ input \in Counts /\ output \in Counts /\ Workloads(input) = Workloads(output)
    /\ served \in Nat

-----------------------------------------------------------------------------
(* Costs *)

HoursInPeriod == IF ticks < 1 THEN 1 ELSE ticks

\* The counts of buildBreakdowns: input and output together.
Tokens == Added(input, output)
TotalIn == TokensOf(input, Workloads(input))
TotalOut == TokensOf(output, Workloads(output))
TotalTokens == TotalIn + TotalOut

\* ComputeHourlyCost at the last reading.
HourlyCost == Amortization + watts * EnergyPrice

TotalCost == HourlyCost * HoursInPeriod

\* Mutant of MarginalCost: the energy of the whole period at its last reading.
PeriodEnergyCost == IF TotalTokens > 0 THEN watts * ticks * EnergyPrice ELSE 0

\* marginalCostPerMillionTokens: the electricity of active serving.
MarginalCost == IF TotalTokens > 0 /\ activeEnergy > 0 THEN activeEnergy * EnergyPrice ELSE 0

\* ActiveHoursCostPerMillionTokens: the full cost of the active hours, capped.
ActiveHoursCost ==
    IF TotalTokens > 0 THEN HourlyCost * Min({activeTicks, HoursInPeriod}) ELSE 0

-----------------------------------------------------------------------------
(* Break-even *)

AtLeast(a, b) == a.num * b.den >= b.num * a.den
Zero == [num |-> 0, den |-> 1]
Round(a) == (2 * a.num + a.den) \div (2 * a.den)

DailyHardwareCost == (Amortization + IdleWatts * EnergyPrice) * TicksPerDay

\* Mutant of CloudCostPerToken: input and output weigh the same.
EvenBlend(price) == [num |-> price.input + price.output, den |-> 2]

\* Input and output prices weigh as the tokens counted; the same without any.
CloudCostPerToken(price) ==
    IF TotalTokens = 0 THEN [num |-> price.input + price.output, den |-> 2]
    ELSE [num |-> TotalIn * price.input + TotalOut * price.output, den |-> TotalTokens]

BreakEvenTokensPerDay(price) ==
    LET cpt == CloudCostPerToken(price)
    IN  IF cpt.num = 0 THEN Zero ELSE [num |-> DailyHardwareCost * cpt.den, den |-> cpt.num]

CurrentTokensPerDay == [num |-> TotalTokens * TicksPerDay, den |-> HoursInPeriod]

PercentOfBreakEven(price) ==
    LET b == BreakEvenTokensPerDay(price)
        c == CurrentTokensPerDay
    IN  IF b.num = 0 THEN Zero ELSE [num |-> c.num * b.den * 100, den |-> c.den * b.num]

OnPremCheaper(price) ==
    LET b == BreakEvenTokensPerDay(price)
    IN  b.num > 0 /\ AtLeast(CurrentTokensPerDay, b)

\* Targets that the catalogue does not have are skipped.
KnownTargets == Targets \cap DOMAIN Catalogue

\* computeBreakEven
Entry(t) ==
    LET price == Catalogue[t]
    IN  [breakEven |-> Round(BreakEvenTokensPerDay(price)),
         current |-> Round(CurrentTokensPerDay),
         percent |-> PercentOfBreakEven(price),
         onPremCheaper |-> OnPremCheaper(price)]
BreakEvenAnalysis == [t \in KnownTargets |-> Entry(t)]

-----------------------------------------------------------------------------
Init ==
    /\ ticks = 0
    /\ watts \in Watts
    /\ activeTicks = 0
    /\ activeEnergy = 0
    /\ input = NoCounts
    /\ output = NoCounts
    /\ served = 0

IsActive(w) == w > IdleWatts

\* A tick passes at the power last read, and the power is read again.
Tick(reading) ==
    /\ ticks < MaxTicks
    /\ ticks' = ticks + 1
    /\ activeTicks' = IF IsActive(watts) THEN activeTicks + 1 ELSE activeTicks
    /\ activeEnergy' = IF IsActive(watts) THEN activeEnergy + watts ELSE activeEnergy
    /\ watts' = reading
    /\ UNCHANGED <<input, output, served>>

\* Mutant of PeriodEnds: the window is summarized from the start of the one before.
PeriodKept ==
    /\ ticks > 0
    /\ ticks' = 0
    /\ served' = 0
    /\ UNCHANGED <<watts, activeTicks, activeEnergy, input, output>>

\* The next period begins: Summarize looks at readings since then; counters go on.
PeriodEnds ==
    /\ ticks > 0
    /\ ticks' = 0
    /\ activeTicks' = 0
    /\ activeEnergy' = 0
    /\ served' = 0
    /\ UNCHANGED <<watts, input, output>>

\* A pod starts, or starts again with its counters at zero.
PodStarts(w) ==
    /\ input' = [input EXCEPT ![w] = 0]
    /\ output' = [output EXCEPT ![w] = 0]
    /\ UNCHANGED <<ticks, watts, activeTicks, activeEnergy, served>>

PodStops(w) ==
    /\ w \in Workloads(input)
    /\ input' = [input EXCEPT ![w] = NotScraped]
    /\ output' = [output EXCEPT ![w] = NotScraped]
    /\ UNCHANGED <<ticks, watts, activeTicks, activeEnergy, served>>

ServesInput(w) ==
    /\ w \in Workloads(input)
    /\ input' = [input EXCEPT ![w] = @ + 1]
    /\ UNCHANGED output

ServesOutput(w) ==
    /\ w \in Workloads(output)
    /\ output' = [output EXCEPT ![w] = @ + 1]
    /\ UNCHANGED input

PodServes(w) ==
    /\ TotalTokens < MaxTokens
    /\ served < MaxTokens
    /\ ServesInput(w) \/ ServesOutput(w)
    /\ served' = served + 1
    /\ UNCHANGED <<ticks, watts, activeTicks, activeEnergy>>

Next ==
    \/ \E reading \in Watts : Tick(reading)
    \/ PeriodEnds
    \/ \E w \in Workload : PodStarts(w) \/ PodStops(w) \/ PodServes(w)

Spec == Init /\ [][Next]_vars

-----------------------------------------------------------------------------
(* Properties *)

\* No dollar is attributed twice and none is lost, to namespaces as to models: the
\* parts add up to the cost of the period, but for less than a dollar each that a
\* division drops; and a namespace bears what its models bear, though the two are
\* computed in loops of their own.
CostsAddUp ==
    LET byNamespace == NamespaceCosts(Tokens, TotalCost)
        byModel == ModelCosts(Tokens, TotalCost)
        modelsOf(ns) == {w \in DOMAIN byModel : w.namespace = ns}
        sum(costs, S) == MapThenSumSet(LAMBDA x : costs[x], S)
        partsOf(whole, costs, S) ==
            /\ sum(costs, S) <= whole
            /\ S # {} => whole - sum(costs, S) < Cardinality(S)
    IN  TotalTokens > 0 =>
          /\ partsOf(TotalCost, byNamespace, DOMAIN byNamespace)
          /\ partsOf(TotalCost, byModel, DOMAIN byModel)
          /\ \A ns \in DOMAIN byNamespace : partsOf(byNamespace[ns], byModel, modelsOf(ns))

\* "It sits between marginalCostPerMillionTokens (electricity only) and
\* costPerMillionTokens" (activeHoursCostPerMillionTokens): below the full cost
\* always, above the marginal cost as long as the last reading is not below the mean
\* of the active ones.
FiguresAreOrdered ==
    TotalTokens > 0 =>
        /\ ActiveHoursCost <= TotalCost
        /\ activeEnergy <= watts * activeTicks => MarginalCost <= ActiveHoursCost

\* The verdict is the cheaper side of the bills: hardware is called cheaper just when
\* the cloud would charge at least the cost of the hardware for the tokens and time of
\* the report; it is at 100 percent of break-even then and at no other time, and the
\* whole numbers shown beside it do not contradict it.
VerdictIsCheaper ==
    DailyHardwareCost > 0 =>
        \A t \in DOMAIN BreakEvenAnalysis :
            LET e == BreakEvenAnalysis[t]
                bill == TotalIn * Catalogue[t].input + TotalOut * Catalogue[t].output
            IN  /\ e.onPremCheaper <=> bill * TicksPerDay >= DailyHardwareCost * HoursInPeriod
                /\ e.onPremCheaper <=> AtLeast(e.percent, [num |-> 100, den |-> 1])
                /\ e.onPremCheaper => e.current >= e.breakEven

\* "your current throughput extrapolated to a full day" (docs/cloud-comparison.md:25):
\* not more than the tokens served since the period began, over its length.
ThroughputIsOfThePeriod ==
    AtLeast([num |-> served * TicksPerDay, den |-> HoursInPeriod], CurrentTokensPerDay)
=============================================================================
