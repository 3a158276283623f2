---------------------------- MODULE CellPricing ------------------------------
(***************************************************************************)
(* cross_tariff_calc.py: the recommended price of one cell (category x     *)
(* duration) of the cross tariff, from the totals of the providers.        *)
(* A total is a number of units, Euro units to the euro and Cent to the    *)
(* cent, chosen so that every quotient of whole-euro totals of up to four  *)
(* providers and even percentages is exact, as it is in Decimal.           *)
(***************************************************************************)
EXTENDS Integers, FiniteSets, FiniteSetsExt, Functions

Euro == 600
Cent == 6

Bases == {"min", "med", "avg", "max"}
RoundModes == {"0", "1", "0.50", "0.99", "0.90"}
RuleConfigs == [op : {"sub", "add"}, val : Nat, mode : {"pct", "abs"},
                floor : {"auto", "cost", "none"}, ceiling : {"max", "none"}]
CONSTANT Missing      \* no price, no bound
ASSUME MissingAssumption == Missing \notin Int

\* The cheapest group of each provider stands for it.
CollapseIntraProvider(groups) == [p \in DOMAIN groups |-> Min(groups[p])]

\* k-th smallest value of f, counted with repetitions.
Ranked(f, k) ==
    CHOOSE v \in Range(f) :
        /\ Cardinality({p \in DOMAIN f : f[p] < v}) < k
        /\ Cardinality({p \in DOMAIN f : f[p] <= v}) >= k
Median(f) ==
    LET n == Cardinality(DOMAIN f)
    IN (Ranked(f, (n + 1) \div 2) + Ranked(f, n \div 2 + 1)) \div 2

\* A direct price comes from a season whose representative date is the
\* master's.  AnomaliesOfEveryone may discard the master.
Outlying(value, witnesses) ==
    /\ Cardinality(DOMAIN witnesses) >= 2
    /\ LET med == Median(witnesses)
       IN med # 0 /\ (100 * value < 40 * med \/ 100 * value > 250 * med)
AnomaliesOfEveryone(totals, inferred, master) ==
    {p \in DOMAIN totals :
        Outlying(totals[p], Restrict(totals, DOMAIN totals \ (inferred \cup {p})))}
DetectAnomalies(totals, inferred, master) ==
    {p \in DOMAIN totals \ {master} :
        Outlying(totals[p], Restrict(totals, DOMAIN totals \ (inferred \cup {p})))}

AggregateCrossProvider(totals, base) ==
    CASE base = "min" -> Min(Range(totals))
      [] base = "max" -> Max(Range(totals))
      [] base = "med" -> Median(totals)
      [] base = "avg" -> SumFunction(totals) \div Cardinality(DOMAIN totals)

ApplyRule(base, rule) ==
    LET amount == IF rule.mode = "pct" THEN (base * rule.val) \div 100 ELSE rule.val * Euro
    IN IF rule.op = "sub" THEN base - amount ELSE base + amount

Floor(totals, rule) ==
    CASE rule.floor = "auto" -> (82 * Min(Range(totals))) \div 100
      [] rule.floor = "cost" -> (55 * Max(Range(totals))) \div 100
      [] rule.floor = "none" -> Missing
Ceiling(totals, rule) ==
    IF rule.ceiling = "max" THEN Max(Range(totals)) ELSE Missing

Raised(value, floor) == IF floor # Missing /\ value < floor THEN floor ELSE value
Lowered(value, ceiling) == IF ceiling # Missing /\ value > ceiling THEN ceiling ELSE value
ApplyClamp(value, floor, ceiling) == Lowered(Raised(value, floor), ceiling)
ClampFired(value, floor, ceiling) ==
    CASE ceiling # Missing /\ Raised(value, floor) > ceiling -> "ceiling"
      [] floor # Missing /\ value < floor -> "floor"
      [] OTHER -> "none"

\* Nearest multiple of a step, halves away from zero.
HalfUp(value, step) ==
    IF value >= 0 THEN step * ((2 * value + step) \div (2 * step))
    ELSE -(step * ((2 * (-value) + step) \div (2 * step)))

RoundStep(mode) == IF mode = "0.50" THEN Euro \div 2 ELSE Euro
RoundOffset(mode) ==
    CASE mode = "0.99" -> 99 * Cent [] mode = "0.90" -> 90 * Cent [] OTHER -> 0
Snap(value, mode) ==
    HalfUp(value - RoundOffset(mode), RoundStep(mode)) + RoundOffset(mode)

\* The loops of the directional guard: the first value under (over) the base,
\* in steps.
Under(value, base, step) ==
    IF value < base THEN value ELSE value - step * ((value - base) \div step + 1)
Over(value, base, step) ==
    IF value > base THEN value ELSE value + step * ((base - value) \div step + 1)
Directed(value, base, op, step) ==
    IF op = "sub" THEN Under(value, base, step) ELSE Over(value, base, step)

\* UnguardedRounding forgets the guard.
Unrounded(rule, mode) == mode = "0" \/ rule.val = 0
UnguardedRounding(value, base, rule, mode) ==
    IF Unrounded(rule, mode) THEN HalfUp(value, Cent) ELSE Snap(value, mode)
ApplyRoundingDirectional(value, base, rule, mode) ==
    IF Unrounded(rule, mode) THEN HalfUp(value, Cent)
    ELSE HalfUp(Directed(Snap(value, mode), base, rule.op, RoundStep(mode)), Cent)

\* provider_groups (totals per provider), the providers whose price is
\* inferred and the master, to the CellResult; providers without a group are
\* reported as missing by the caller's row set.
EmptyCell(dropped, rule) ==
    [present |-> {}, dropped |-> dropped, base |-> Missing, clamped |-> Missing,
     rec |-> Missing, isBase |-> {}, fired |-> "none", inferred |-> FALSE, rule |-> rule]
ComputeCell(groups, inferred, master, rule, base, mode) ==
    LET collapsed == CollapseIntraProvider(groups)
        anomalies == DetectAnomalies(collapsed, inferred, master)
        valid == Restrict(collapsed, DOMAIN collapsed \ anomalies)
        baseTotal == AggregateCrossProvider(valid, base)
        adjusted == ApplyRule(baseTotal, rule)
        floor == Floor(valid, rule)
        ceiling == Ceiling(valid, rule)
        clamped == ApplyClamp(adjusted, floor, ceiling)
    IN IF DOMAIN valid = {} THEN EmptyCell(anomalies, rule)
       ELSE [present |-> DOMAIN valid,
             dropped |-> anomalies,
             base |-> baseTotal,
             clamped |-> clamped,
             rec |-> ApplyRoundingDirectional(clamped, baseTotal, rule, mode),
             isBase |-> IF base \in {"min", "max"}
                        THEN {p \in DOMAIN valid : valid[p] = baseTotal} ELSE {},
             fired |-> ClampFired(adjusted, floor, ceiling),
             inferred |-> DOMAIN valid \cap inferred # {},
             rule |-> rule]
=============================================================================
