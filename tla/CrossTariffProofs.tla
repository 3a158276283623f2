-------------------------- MODULE CrossTariffProofs ---------------------------
(***************************************************************************)
(* Proofs about CrossTariff and the price of its cells, for any market,    *)
(* calendars, totals and formulas.                                         *)
(***************************************************************************)
EXTENDS CrossTariff, FiniteSetTheorems, SequenceTheorems, TLAPS

-----------------------------------------------------------------------------
(* Least and greatest numbers. *)

LEMMA MinOfNaturals ==
    ASSUME NEW S \in SUBSET Nat, S # {}
    PROVE  Min(S) \in S /\ \A y \in S : Min(S) <= y
<1> DEFINE R == {p \in Nat \X Nat : p[1] < p[2]}
<1>1. IsWellFoundedOn(R, Nat)
  BY NatLessThanWellFounded DEF OpToRel
<1> HIDE DEF R
<1>2. PICK x \in S : \A y \in S : ~ (<<y, x>> \in R)
  BY <1>1, WFMin
<1>3. ASSUME NEW y \in S, y < x PROVE FALSE
  <2>1. <<y, x>> \in Nat \X Nat /\ <<y, x>>[1] < <<y, x>>[2]
    BY <1>3
  <2> QED BY <2>1, <1>2 DEF R
<1>4. \A y \in S : x <= y
  BY <1>3
<1> QED BY <1>4 DEF Min

LEMMA MaxOfBounded ==
    ASSUME NEW S \in SUBSET Int, S # {}, NEW bound \in Int, \A y \in S : y <= bound
    PROVE  Max(S) \in S /\ \A y \in S : y <= Max(S)
<1> DEFINE T == {bound - y : y \in S}
<1>1. T \in SUBSET Nat /\ T # {}
  <2>1. \A y \in S : bound - y \in Nat
    OBVIOUS
  <2>2. T \subseteq Nat
    BY <2>1
  <2>3. PICK y \in S : TRUE
    OBVIOUS
  <2>4. bound - y \in T
    BY <2>3
  <2> HIDE DEF T
  <2> QED BY <2>2, <2>4
<1> HIDE DEF T
<1>2. Min(T) \in T /\ \A y \in T : Min(T) <= y
  BY <1>1, MinOfNaturals
<1> USE DEF T
<1>3. PICK x \in S : Min(T) = bound - x
  BY <1>2
<1>4. \A y \in S : bound - x <= bound - y
  BY <1>2, <1>3
<1>5. \A y \in S : y <= x
  BY <1>4
<1> QED BY <1>5 DEF Max

\* Induction, over the set of the numbers that have the property.
LEMMA InductionOverNat ==
    ASSUME NEW T \in SUBSET Nat, 0 \in T, \A n \in T : n + 1 \in T
    PROVE  T = Nat
<1> SUFFICES ASSUME Nat \ T # {} PROVE FALSE
  OBVIOUS
<1> DEFINE m == Min(Nat \ T)
<1>1. m \in Nat \ T /\ \A y \in Nat \ T : m <= y
  BY MinOfNaturals
<1> HIDE DEF m
<1>2. m # 0 /\ m - 1 \in Nat
  BY <1>1
<1>3. m - 1 \in T
  BY <1>1, <1>2
<1> QED BY <1>1, <1>3

\* A finite set of numbers has a greatest one.
LEMMA FiniteHasMax ==
    ASSUME NEW S \in SUBSET Int, IsFiniteSet(S), S # {}
    PROVE  \E x \in S : \A y \in S : y <= x
<1> DEFINE Maximal(U) == \E x \in U : \A y \in U : y <= x
           T == {n \in Nat : \A U \in SUBSET Int :
                    IsFiniteSet(U) /\ U # {} /\ Cardinality(U) <= n => Maximal(U)}
<1>1. 0 \in T
  BY FS_EmptySet, FS_CardinalityType
<1>2. ASSUME NEW n \in T PROVE n + 1 \in T
  <2> SUFFICES ASSUME NEW U \in SUBSET Int, IsFiniteSet(U), U # {}, Cardinality(U) <= n + 1
               PROVE  Maximal(U)
    BY DEF T
  <2>1. PICK e \in U : TRUE
    OBVIOUS
  <2> DEFINE V == U \ {e}
  <2>2. IsFiniteSet(V) /\ Cardinality(V) = Cardinality(U) - 1 /\ V \in SUBSET Int
    BY FS_RemoveElement
  <2>3. Cardinality(V) <= n
    BY <2>2, FS_CardinalityType
  <2>4. CASE V = {}
    <3>1. U = {e}
      BY <2>4
    <3> QED BY <3>1
  <2>5. CASE V # {}
    <3>1. Maximal(V)
      BY <2>2, <2>3, <2>5
    <3>2. PICK x \in V : \A y \in V : y <= x
      BY <3>1
    <3>3. CASE e <= x
      BY <3>2, <3>3
    <3>4. CASE e > x
      <4>1. \A y \in U : y <= e
        BY <3>2, <3>4
      <4> QED BY <4>1
    <3> QED BY <3>3, <3>4
  <2> QED BY <2>4, <2>5
<1> HIDE DEF T
<1>3. T \in SUBSET Nat
  BY DEF T
<1>4. Cardinality(S) \in T
  BY <1>1, <1>2, <1>3, InductionOverNat, FS_CardinalityType
<1> QED BY <1>4, FS_CardinalityType DEF T

\* The sum of the values of a function lies between the multiples of their bounds.
LEMMA SumOfFunction ==
    ASSUME NEW D, IsFiniteSet(D), NEW f \in [D -> Int],
           NEW low \in Int, NEW high \in Int, \A d \in D : low <= f[d] /\ f[d] <= high
    PROVE  /\ SumFunction(f) \in Int
           /\ Cardinality(D) * low <= SumFunction(f)
           /\ SumFunction(f) <= Cardinality(D) * high
<1> DEFINE pick(s) == CHOOSE x \in s : TRUE
           Body(g, s) == IF s = {} THEN 0 ELSE f[pick(s)] + g[s \ {pick(s)}]
           Level(n) == {s \in SUBSET D : Cardinality(s) <= n}
           Sums(n) == \E g : g = [s \in Level(n) |-> Body(g, s)]
           iter == CHOOSE g : g = [s \in SUBSET D |-> Body(g, s)]
<1>1. SumFunction(f) = iter[D]
  BY DEF SumFunction, SumFunctionOnSet, FoldFunctionOnSet, MapThenFoldSet
<1>2. \A s \in SUBSET D : IsFiniteSet(s) /\ Cardinality(s) \in Nat /\ (Cardinality(s) = 0 <=> s = {})
  BY FS_Subset, FS_CardinalityType, FS_EmptySet
<1>3. ASSUME NEW s \in SUBSET D, s # {}
      PROVE  /\ pick(s) \in D /\ s \ {pick(s)} \in SUBSET D
             /\ Cardinality(s \ {pick(s)}) = Cardinality(s) - 1
  BY <1>2, <1>3, FS_RemoveElement
<1> HIDE DEF pick
<1>4. \A n \in Nat : Sums(n)
  <2> DEFINE T == {n \in Nat : Sums(n)}
  <2>1. Sums(0)
    <3> DEFINE h == [s \in Level(0) |-> 0]
    <3>1. \A s \in Level(0) : s = {}
      BY <1>2
    <3>2. h = [s \in Level(0) |-> Body(h, s)]
      BY <3>1
    <3> QED BY <3>2
  <2>2. ASSUME NEW n \in Nat, Sums(n) PROVE Sums(n + 1)
    <3>1. PICK g : g = [s \in Level(n) |-> Body(g, s)]
      BY <2>2
    <3> DEFINE h == [s \in Level(n + 1) |-> Body(g, s)]
    <3>2. ASSUME NEW s \in Level(n + 1), s # {}
          PROVE  s \ {pick(s)} \in Level(n) /\ s \ {pick(s)} \in Level(n + 1)
      BY <3>2, <1>2, <1>3
    <3>3. ASSUME NEW s \in Level(n) PROVE s \in Level(n + 1) /\ h[s] = g[s]
      <4>1. s \in Level(n + 1)
        BY <1>2
      <4> QED BY <4>1, <3>1
    <3> HIDE DEF Level
    <3>4. ASSUME NEW s \in Level(n + 1) PROVE Body(h, s) = Body(g, s)
      <4>1. CASE s = {}
        BY <4>1
      <4>2. CASE s # {}
        <5>1. h[s \ {pick(s)}] = g[s \ {pick(s)}]
          BY <4>2, <3>2, <3>3
        <5> QED BY <5>1, <4>2
      <4> QED BY <4>1, <4>2
    <3>5. h = [s \in Level(n + 1) |-> Body(h, s)]
      BY <3>4
    <3> QED BY <3>5
  <2> HIDE DEF Sums
  <2>3. T \in SUBSET Nat /\ 0 \in T /\ \A n \in T : n + 1 \in T
    BY <2>1, <2>2
  <2> HIDE DEF T
  <2>4. T = Nat
    BY <2>3, InductionOverNat
  <2> QED BY <2>4 DEF T
<1>5. iter = [s \in SUBSET D |-> Body(iter, s)]
  <2>1. Cardinality(D) \in Nat /\ \A s \in SUBSET D : Cardinality(s) <= Cardinality(D)
    BY FS_Subset, FS_CardinalityType
  <2>2. Level(Cardinality(D)) = SUBSET D
    BY <2>1
  <2>3. Sums(Cardinality(D))
    BY <2>1, <1>4
  <2>4. \E g : g = [s \in SUBSET D |-> Body(g, s)]
    <3> HIDE DEF Level
    <3> QED BY <2>2, <2>3
  <2> QED BY <2>4
<1> HIDE DEF iter, Level, Sums
<1>6. iter[{}] = 0
  BY <1>5
<1>7. ASSUME NEW s \in SUBSET D, s # {} PROVE iter[s] = f[pick(s)] + iter[s \ {pick(s)}]
  BY <1>5, <1>7
<1> DEFINE Between(s) == /\ iter[s] \in Int
                         /\ Cardinality(s) * low <= iter[s] /\ iter[s] <= Cardinality(s) * high
           T == {n \in Nat : \A s \in SUBSET D : Cardinality(s) = n => Between(s)}
<1>8. 0 \in T
  BY <1>2, <1>6
<1>9. ASSUME NEW n \in T PROVE n + 1 \in T
  <2> SUFFICES ASSUME NEW s \in SUBSET D, Cardinality(s) = n + 1 PROVE Between(s)
    OBVIOUS
  <2> DEFINE t == s \ {pick(s)}
             x == f[pick(s)]
  <2>1. s # {}
    BY <1>2
  <2>2. pick(s) \in D /\ t \in SUBSET D /\ Cardinality(t) = n
    BY <1>3, <2>1
  <2>3. x \in Int /\ low <= x /\ x <= high
    BY <2>2
  <2>4. iter[s] = x + iter[t]
    BY <1>7, <2>1
  <2>5. iter[t] \in Int /\ n * low <= iter[t] /\ iter[t] <= n * high
    BY <2>2
  <2>6. (n + 1) * low = n * low + low /\ (n + 1) * high = n * high + high
    OBVIOUS
  <2>7. n * low \in Int /\ n * high \in Int
    OBVIOUS
  <2> HIDE DEF x, t
  <2> QED BY <2>3, <2>4, <2>5, <2>6, <2>7
<1>10. T \in SUBSET Nat
  OBVIOUS
<1> HIDE DEF T
<1>11. Cardinality(D) \in T
  BY <1>2, <1>8, <1>9, <1>10, InductionOverNat
<1> QED BY <1>1, <1>11 DEF T
-----------------------------------------------------------------------------
(* The directional guard of the rounding: its docstring promises a result  *)
(* strictly on the rule's side of the base (cross_tariff_calc.py:285).  It *)
(* keeps the promise for every value, base and rounding mode that rounds,  *)
(* whatever the circuit breakers did to the value before.                  *)

Rounding == RoundModes \ {"0"}

\* A snapped price is a whole number of cents.
LEMMA SnapIsInCents ==
  ASSUME NEW value \in Int, NEW mode \in Rounding
  PROVE  Snap(value, mode) \in Int /\ Snap(value, mode) % Cent = 0
<1>1. CASE mode = "1"
  BY <1>1 DEF Snap, HalfUp, RoundStep, RoundOffset, Euro, Cent
<1>2. CASE mode = "0.50"
  BY <1>2 DEF Snap, HalfUp, RoundStep, RoundOffset, Euro, Cent
<1>3. CASE mode = "0.99"
  BY <1>3 DEF Snap, HalfUp, RoundStep, RoundOffset, Euro, Cent
<1>4. CASE mode = "0.90"
  BY <1>4 DEF Snap, HalfUp, RoundStep, RoundOffset, Euro, Cent
<1> QED
  BY <1>1, <1>2, <1>3, <1>4 DEF Rounding, RoundModes

\* The loops of the guard end strictly under (over) the base, a whole number
\* of steps away from where they started.
LEMMA DirectedIsDirected ==
  ASSUME NEW value \in Int, value % Cent = 0, NEW base \in Int, NEW mode \in Rounding
  PROVE  /\ Under(value, base, RoundStep(mode)) \in Int
         /\ Under(value, base, RoundStep(mode)) < base
         /\ Under(value, base, RoundStep(mode)) % Cent = 0
         /\ Over(value, base, RoundStep(mode)) \in Int
         /\ Over(value, base, RoundStep(mode)) > base
         /\ Over(value, base, RoundStep(mode)) % Cent = 0
<1>1. CASE RoundStep(mode) = 600
  BY <1>1 DEF Under, Over, Cent
<1>2. CASE RoundStep(mode) = 300
  BY <1>2 DEF Under, Over, Cent
<1> QED
  BY <1>1, <1>2 DEF RoundStep, Euro

\* Rounding a whole number of cents to the cent changes nothing.
LEMMA CentsStay ==
  ASSUME NEW value \in Int, value % Cent = 0
  PROVE  HalfUp(value, Cent) = value
BY DEF HalfUp, Cent

\* A rounded recommendation ends strictly under the base for a rule that
\* subtracts and strictly over it for a rule that adds.
THEOREM RoundingIsDirectional ==
  ASSUME NEW value \in Int, NEW base \in Int, NEW rule \in RuleConfigs,
         NEW mode \in RoundModes, ~Unrounded(rule, mode)
  PROVE  /\ rule.op = "sub" => ApplyRoundingDirectional(value, base, rule, mode) < base
         /\ rule.op = "add" => ApplyRoundingDirectional(value, base, rule, mode) > base
<1>1. mode \in Rounding
  BY DEF Unrounded, Rounding
<1> DEFINE snapped == Snap(value, mode)
<1>2. snapped \in Int /\ snapped % Cent = 0
  BY <1>1, SnapIsInCents
<1> HIDE DEF snapped
<1>3. /\ Under(snapped, base, RoundStep(mode)) \in Int
      /\ Under(snapped, base, RoundStep(mode)) < base
      /\ Under(snapped, base, RoundStep(mode)) % Cent = 0
      /\ Over(snapped, base, RoundStep(mode)) \in Int
      /\ Over(snapped, base, RoundStep(mode)) > base
      /\ Over(snapped, base, RoundStep(mode)) % Cent = 0
  BY <1>1, <1>2, DirectedIsDirected
<1>4. CASE rule.op = "sub"
  <2>1. ApplyRoundingDirectional(value, base, rule, mode)
          = HalfUp(Under(snapped, base, RoundStep(mode)), Cent)
    BY <1>4 DEF ApplyRoundingDirectional, Directed, snapped
  <2> QED
    BY <2>1, <1>3, <1>4, CentsStay
<1>5. CASE rule.op = "add"
  <2>1. ApplyRoundingDirectional(value, base, rule, mode)
          = HalfUp(Over(snapped, base, RoundStep(mode)), Cent)
    BY <1>5 DEF ApplyRoundingDirectional, Directed, snapped
  <2> QED
    BY <2>1, <1>3, <1>5, CentsStay
<1> QED
  BY <1>4, <1>5 DEF RuleConfigs

-----------------------------------------------------------------------------
(* The totals of a cell: one natural number for each of finitely many      *)
(* providers, and what is computed from them.                              *)

\* The values are finitely many numbers, with a least and a greatest one.
LEMMA RangeHasBounds ==
    ASSUME NEW D, IsFiniteSet(D), D # {}, NEW f \in [D -> Nat]
    PROVE  /\ Range(f) \in SUBSET Nat /\ Range(f) # {} /\ IsFiniteSet(Range(f))
           /\ Min(Range(f)) \in Range(f) /\ Max(Range(f)) \in Range(f)
           /\ \A v \in Range(f) : Min(Range(f)) <= v /\ v <= Max(Range(f))
<1>1. Range(f) \in SUBSET Nat /\ Range(f) # {}
  BY DEF Range
<1>2. f \in Surjection(D, Range(f))
  BY DEF Surjection, Range
<1>3. IsFiniteSet(Range(f))
  BY <1>2, FS_Surjection
<1>4. PICK x \in Range(f) : \A v \in Range(f) : v <= x
  BY <1>1, <1>3, FiniteHasMax
<1>5. Max(Range(f)) \in Range(f) /\ \A v \in Range(f) : v <= Max(Range(f))
  BY <1>4 DEF Max
<1> QED BY <1>1, <1>3, <1>5, MinOfNaturals

\* There is a k-th smallest value.
LEMMA RankedExists ==
    ASSUME NEW D, IsFiniteSet(D), D # {}, NEW f \in [D -> Nat], NEW k \in 1..Cardinality(D)
    PROVE  Ranked(f, k) \in Range(f)
<1> DEFINE below(v) == {p \in D : f[p] < v}
           upTo(v) == {p \in D : f[p] <= v}
           T == {v \in Range(f) : Cardinality(upTo(v)) >= k}
           max == Max(Range(f))
           v == Min(T)
<1>1. /\ Range(f) \in SUBSET Nat /\ max \in Range(f) /\ \A w \in Range(f) : w <= max
  BY RangeHasBounds
<1>2. upTo(max) = D
  BY <1>1 DEF Range
<1>3. T \in SUBSET Nat /\ T # {}
  BY <1>1, <1>2
<1> HIDE DEF max, T
<1>4. v \in T /\ \A w \in T : v <= w
  BY <1>3, MinOfNaturals
<1> HIDE DEF v
<1>5. v \in Range(f) /\ Cardinality(upTo(v)) >= k
  BY <1>4 DEF T
<1>6. Cardinality(below(v)) < k
  <2>1. CASE below(v) = {}
    BY <2>1, FS_EmptySet
  <2>2. CASE below(v) # {}
    <3> DEFINE W == {f[p] : p \in below(v)}
    <3>1. W \in SUBSET Range(f) /\ W # {}
      BY <2>2 DEF Range
    <3>2. W \in SUBSET Int /\ IsFiniteSet(W)
      BY <3>1, <1>1, FS_Subset, RangeHasBounds
    <3> HIDE DEF W
    <3>3. PICK w \in W : \A u \in W : u <= w
      BY <3>1, <3>2, FiniteHasMax
    <3>4. w \in Range(f) /\ w < v /\ upTo(w) = below(v)
      <4> USE DEF W
      <4>1. w \in Range(f) /\ w \in Nat /\ v \in Nat /\ w < v
        BY <3>1, <1>1, <1>5
      <4>2. \A p \in D : f[p] < v => f[p] <= w
        BY <3>3
      <4>3. \A p \in D : f[p] \in Nat /\ (f[p] <= w => f[p] < v)
        BY <4>1
      <4> QED BY <4>1, <4>2, <4>3
    <3>5. w \notin T
      BY <1>1, <1>4, <1>5, <3>4
    <3>6. ~(Cardinality(upTo(w)) >= k)
      BY <3>4, <3>5 DEF T
    <3>7. Cardinality(upTo(w)) \in Nat
      BY FS_Subset, FS_CardinalityType
    <3> QED BY <3>4, <3>6, <3>7
  <2> QED BY <2>1, <2>2
<1>7. DOMAIN f = D
  OBVIOUS
<1> QED BY <1>5, <1>6, <1>7 DEF Ranked

\* The base lies between the cheapest and the dearest provider.
LEMMA BaseIsBetween ==
    ASSUME NEW D, IsFiniteSet(D), D # {}, NEW f \in [D -> Nat], NEW base \in Bases
    PROVE  /\ AggregateCrossProvider(f, base) \in Int
           /\ Min(Range(f)) <= AggregateCrossProvider(f, base)
           /\ AggregateCrossProvider(f, base) <= Max(Range(f))
<1> DEFINE n == Cardinality(D)
           low == Min(Range(f))
           high == Max(Range(f))
<1>1. /\ Range(f) \in SUBSET Nat /\ low \in Range(f) /\ high \in Range(f)
      /\ \A v \in Range(f) : low <= v /\ v <= high
  BY RangeHasBounds
<1>2. n \in Nat \ {0} /\ DOMAIN f = D
  BY FS_CardinalityType, FS_EmptySet
<1> HIDE DEF low, high, n
<1>3. CASE base = "min"
  <2>1. AggregateCrossProvider(f, base) = low
    BY <1>3 DEF AggregateCrossProvider, low
  <2> QED BY <2>1, <1>1 DEF low, high
<1>4. CASE base = "max"
  <2>1. AggregateCrossProvider(f, base) = high
    BY <1>4 DEF AggregateCrossProvider, high
  <2> QED BY <2>1, <1>1 DEF low, high
<1>5. CASE base = "med"
  <2> DEFINE x == Ranked(f, (n + 1) \div 2)
             y == Ranked(f, n \div 2 + 1)
  <2>1. (n + 1) \div 2 \in 1..n /\ n \div 2 + 1 \in 1..n
    BY <1>2
  <2>2. x \in Range(f) /\ y \in Range(f)
    BY <2>1, RankedExists DEF n
  <2> HIDE DEF x, y
  <2>3. low \in Nat /\ x \in Nat /\ y \in Nat /\ high \in Nat
    BY <1>1, <2>2
  <2>4. low <= x /\ x <= high /\ low <= y /\ y <= high
    BY <1>1, <2>2
  <2>5. (x + y) \div 2 \in Int /\ low <= (x + y) \div 2 /\ (x + y) \div 2 <= high
    BY <2>3, <2>4
  <2>6. AggregateCrossProvider(f, base) = (x + y) \div 2
    BY <1>2, <1>5 DEF AggregateCrossProvider, Median, x, y, n
  <2> QED BY <2>5, <2>6 DEF low, high
<1>6. CASE base = "avg"
  <2> DEFINE sum == SumFunction(f)
  <2>1. \A d \in D : low <= f[d] /\ f[d] <= high
    BY <1>1, <1>2 DEF Range
  <2>2. low \in Int /\ high \in Int /\ f \in [D -> Int]
    BY <1>1
  <2>3. sum \in Int /\ n * low <= sum /\ sum <= n * high
    BY <2>1, <2>2, SumOfFunction DEF n
  <2>4. AggregateCrossProvider(f, base) = sum \div n
    BY <1>2, <1>6 DEF AggregateCrossProvider, n
  <2> HIDE DEF sum
  <2>5. sum \div n \in Int /\ low <= sum \div n /\ sum \div n <= high
    BY <2>2, <2>3, <1>2
  <2> QED BY <2>4, <2>5 DEF low, high
<1> QED BY <1>3, <1>4, <1>5, <1>6 DEF Bases

-----------------------------------------------------------------------------
(* From the base to the recommended price. *)

LEMMA HalfUpStaysNear ==
    ASSUME NEW value \in Int, NEW step \in Int, step = 6 \/ step = 300 \/ step = 600
    PROVE  HalfUp(value, step) \in (value - (step \div 2))..(value + (step \div 2))
<1>1. CASE step = 6
  BY <1>1 DEF HalfUp
<1>2. CASE step = 300
  BY <1>2 DEF HalfUp
<1>3. CASE step = 600
  BY <1>3 DEF HalfUp
<1> QED BY <1>1, <1>2, <1>3

\* Snapping moves a price by half a step at most, and the guard either leaves
\* it alone or puts it within a step of the base.
StepOf(rule, mode) == IF Unrounded(rule, mode) THEN Cent ELSE RoundStep(mode)
Near(rounded, value, base, step) ==
    /\ rounded \in Int
    /\ 2 * rounded <= 2 * value + step \/ rounded <= base + step
    /\ 2 * rounded >= 2 * value - step \/ rounded >= base - step

LEMMA StepIsPositive ==
    ASSUME NEW rule, NEW mode
    PROVE  /\ StepOf(rule, mode) \in Int
           /\ StepOf(rule, mode) = 6 \/ StepOf(rule, mode) = 300 \/ StepOf(rule, mode) = 600
BY DEF StepOf, RoundStep, Euro, Cent

LEMMA RoundingStaysNear ==
    ASSUME NEW value \in Int, NEW base \in Int, NEW rule \in RuleConfigs, NEW mode \in RoundModes
    PROVE  Near(ApplyRoundingDirectional(value, base, rule, mode), value, base, StepOf(rule, mode))
<1> PICK step \in Int : step = StepOf(rule, mode)
  BY StepIsPositive
<1> SUFFICES Near(ApplyRoundingDirectional(value, base, rule, mode), value, base, step)
  OBVIOUS
<1>0. step = 6 \/ step = 300 \/ step = 600
  BY StepIsPositive
<1> DEFINE rounded == ApplyRoundingDirectional(value, base, rule, mode)
<1>1. CASE Unrounded(rule, mode)
  <2>1. rounded = HalfUp(value, step) /\ step = 6
    BY <1>1 DEF ApplyRoundingDirectional, StepOf, Cent
  <2>2. HalfUp(value, step) \in (value - (step \div 2))..(value + (step \div 2))
    BY <1>0, HalfUpStaysNear
  <2> HIDE DEF rounded
  <2>3. Near(rounded, value, base, step)
    BY <2>1, <2>2 DEF Near
  <2> QED BY <2>3 DEF rounded
<1>2. CASE ~Unrounded(rule, mode)
  <2> DEFINE snapped == Snap(value, mode)
  <2>1. mode \in Rounding /\ step = RoundStep(mode)
    BY <1>2 DEF Unrounded, Rounding, StepOf
  <2>2. step = 300 \/ step = 600
    BY <2>1 DEF RoundStep, Euro
  <2>3. snapped \in Int /\ snapped % Cent = 0
    BY <2>1, SnapIsInCents
  <2>4. 2 * snapped <= 2 * value + step /\ 2 * snapped >= 2 * value - step
    <3> DEFINE offset == RoundOffset(mode)
    <3>1. offset \in Int /\ snapped = HalfUp(value - offset, step) + offset
      BY <2>1 DEF Snap, RoundOffset, Cent, Rounding, RoundModes
    <3> HIDE DEF offset, snapped
    <3> DEFINE start == value - offset
               moved == HalfUp(start, step)
    <3>2. moved \in (start - (step \div 2))..(start + (step \div 2))
      <4>1. start \in Int
        BY <3>1
      <4> HIDE DEF start
      <4> QED BY <1>0, <4>1, HalfUpStaysNear
    <3>3. snapped = moved + offset
      BY <3>1
    <3>4. start = value - offset
      OBVIOUS
    <3> HIDE DEF moved, start
    <3> QED BY <2>2, <3>1, <3>2, <3>3, <3>4
  <2> HIDE DEF snapped
  <2> DEFINE under == Under(snapped, base, step)
             over == Over(snapped, base, step)
  <2>5. /\ under \in Int /\ over \in Int /\ under % Cent = 0 /\ over % Cent = 0
        /\ under < base /\ over > base
    <3>1. /\ Under(snapped, base, RoundStep(mode)) \in Int
          /\ Under(snapped, base, RoundStep(mode)) < base
          /\ Under(snapped, base, RoundStep(mode)) % Cent = 0
          /\ Over(snapped, base, RoundStep(mode)) \in Int
          /\ Over(snapped, base, RoundStep(mode)) > base
          /\ Over(snapped, base, RoundStep(mode)) % Cent = 0
      BY <2>1, <2>3, DirectedIsDirected
    <3> QED BY <3>1, <2>1
  <2>6. /\ under <= snapped /\ (under = snapped \/ under >= base - step)
        /\ over >= snapped /\ (over = snapped \/ over <= base + step)
    <3>1. CASE step = 300
      BY <3>1, <2>3 DEF Under, Over
    <3>2. CASE step = 600
      BY <3>2, <2>3 DEF Under, Over
    <3> QED BY <3>1, <3>2, <2>2
  <2>7. rounded \in {under, over}
    <3>1. rounded = HalfUp(Directed(snapped, base, rule.op, step), Cent)
      BY <1>2, <2>1 DEF ApplyRoundingDirectional, snapped
    <3>2. Directed(snapped, base, rule.op, step) \in {under, over}
      BY DEF Directed
    <3> HIDE DEF under, over, rounded
    <3> QED BY <3>1, <3>2, <2>5, CentsStay
  <2> HIDE DEF under, over, rounded
  <2>8. Near(rounded, value, base, step)
    BY <2>2, <2>3, <2>4, <2>5, <2>6, <2>7 DEF Near
  <2> QED BY <2>8 DEF rounded
<1> QED BY <1>1, <1>2

\* The circuit breakers keep the adjusted price over the floor, up to the cent
\* lost to the division, and under the ceiling.
LEMMA ClampIsBounded ==
    ASSUME NEW D, IsFiniteSet(D), D # {}, NEW f \in [D -> Nat], NEW rule \in RuleConfigs,
           NEW adjusted \in Int,
           NEW clamped, clamped = ApplyClamp(adjusted, Floor(f, rule), Ceiling(f, rule))
    PROVE  /\ clamped \in Int
           /\ rule.ceiling = "max" => clamped <= Max(Range(f))
           /\ rule.floor = "auto" => 100 * clamped + 99 >= 82 * Min(Range(f))
           /\ rule.floor = "cost" => 100 * clamped + 99 >= 55 * Max(Range(f))
<1> DEFINE low == Min(Range(f))
           high == Max(Range(f))
           floor == Floor(f, rule)
           ceiling == Ceiling(f, rule)
<1>1. low \in Nat /\ high \in Nat /\ low <= high
  BY RangeHasBounds
<1>2. rule.ceiling \in {"max", "none"} /\ rule.floor \in {"auto", "cost", "none"}
  BY DEF RuleConfigs
<1>3. ceiling = IF rule.ceiling = "max" THEN high ELSE Missing
  BY DEF Ceiling
<1>4. /\ rule.floor = "auto" => floor = (82 * low) \div 100
      /\ rule.floor = "cost" => floor = (55 * high) \div 100
      /\ rule.floor = "none" => floor = Missing
  BY DEF Floor
<1>5. high # Missing /\ (82 * low) \div 100 # Missing /\ (55 * high) \div 100 # Missing
  BY <1>1, MissingAssumption
<1> HIDE DEF low, high, floor, ceiling
<1>6. clamped = Lowered(Raised(adjusted, floor), ceiling)
  BY DEF ApplyClamp, floor, ceiling
<1> DEFINE raised == Raised(adjusted, floor)
<1>7. /\ raised \in Int
      /\ rule.floor = "auto" => 100 * raised + 99 >= 82 * low
      /\ rule.floor = "cost" => 100 * raised + 99 >= 55 * high
  BY <1>1, <1>2, <1>4, <1>5 DEF Raised
<1> HIDE DEF raised
<1>8. clamped = IF rule.ceiling = "max" /\ raised > high THEN high ELSE raised
  BY <1>2, <1>3, <1>5, <1>6 DEF Lowered, raised
<1> QED BY <1>1, <1>7, <1>8 DEF low, high

\* What RecommendationBounded says of one cell, whose providers' totals go from
\* low to high.
WithinBounds(rec, base, rule, low, high, mode) ==
    /\ ~Unrounded(rule, mode) => IF rule.op = "sub" THEN rec < base ELSE rec > base
    /\ rule.ceiling = "max" => rec <= high + StepOf(rule, mode)
    /\ rule.floor = "auto" => 100 * (rec + StepOf(rule, mode)) >= 82 * low
    /\ (rule.floor = "cost" /\ 55 * high <= 100 * base) =>
           100 * (rec + StepOf(rule, mode)) >= 55 * high

LEMMA PriceIsWithinBounds ==
    ASSUME NEW D, IsFiniteSet(D), D # {}, NEW f \in [D -> Nat], NEW base \in Bases,
           NEW rule \in RuleConfigs, NEW mode \in RoundModes,
           NEW total, total = AggregateCrossProvider(f, base),
           NEW clamped, clamped = ApplyClamp(ApplyRule(total, rule), Floor(f, rule), Ceiling(f, rule)),
           NEW rec, rec = ApplyRoundingDirectional(clamped, total, rule, mode)
    PROVE  WithinBounds(rec, total, rule, Min(Range(f)), Max(Range(f)), mode)
<1> DEFINE low == Min(Range(f))
           high == Max(Range(f))
<1>1. low \in Nat /\ high \in Nat
  BY RangeHasBounds
<1>2. total \in Int /\ low <= total /\ total <= high
  BY BaseIsBetween
<1>3. ApplyRule(total, rule) \in Int
  BY <1>2 DEF ApplyRule, RuleConfigs, Euro
<1> HIDE DEF low, high
<1>4. /\ clamped \in Int
      /\ rule.ceiling = "max" => clamped <= high
      /\ rule.floor = "auto" => 100 * clamped + 99 >= 82 * low
      /\ rule.floor = "cost" => 100 * clamped + 99 >= 55 * high
  BY <1>3, ClampIsBounded DEF low, high
<1>5. Near(rec, clamped, total, StepOf(rule, mode))
  BY <1>2, <1>4, RoundingStaysNear
<1>6. PICK step \in Int : step = StepOf(rule, mode)
  BY StepIsPositive
<1>7. /\ rec \in Int
      /\ 2 * rec <= 2 * clamped + step \/ rec <= total + step
      /\ 2 * rec >= 2 * clamped - step \/ rec >= total - step
      /\ step = 6 \/ step = 300 \/ step = 600
  BY <1>5, <1>6, StepIsPositive DEF Near
<1>8. ~Unrounded(rule, mode) => IF rule.op = "sub" THEN rec < total ELSE rec > total
  BY <1>2, <1>4, RoundingIsDirectional DEF RuleConfigs
<1>9. rule.ceiling = "max" => rec <= high + step
  BY <1>1, <1>2, <1>4, <1>7
<1>10. rule.floor = "auto" => 100 * (rec + step) >= 82 * low
  BY <1>1, <1>2, <1>4, <1>7
<1>11. (rule.floor = "cost" /\ 55 * high <= 100 * total) => 100 * (rec + step) >= 55 * high
  BY <1>1, <1>2, <1>4, <1>7
<1> QED BY <1>6, <1>8, <1>9, <1>10, <1>11 DEF WithinBounds, low, high

IsGroups(groups, P) == groups \in [P -> SUBSET Nat] /\ \A p \in P : groups[p] # {}
CheapestOf(groups, present) == {Min(groups[p]) : p \in present}

\* What a cell says of the groups of its providers P.
CellSound(cell, P, groups, master, rule, mode) ==
    /\ cell.rule = rule /\ master \notin cell.dropped
    /\ cell.present = P \ cell.dropped
    /\ cell.rec # Missing =>
          /\ cell.present # {}
          /\ WithinBounds(cell.rec, cell.base, rule, Min(CheapestOf(groups, cell.present)),
                          Max(CheapestOf(groups, cell.present)), mode)

\* A cell counts the providers that are no anomaly, the master among them, and
\* its recommendation is within the bounds of their cheapest groups.
LEMMA CellIsSound ==
    ASSUME NEW P, IsFiniteSet(P), NEW groups, IsGroups(groups, P),
           NEW inferred, NEW master, NEW rule \in RuleConfigs, NEW base \in Bases,
           NEW mode \in RoundModes,
           NEW cell, cell = ComputeCell(groups, inferred, master, rule, base, mode)
    PROVE  CellSound(cell, P, groups, master, rule, mode)
<1> DEFINE collapsed == CollapseIntraProvider(groups)
           anomalies == DetectAnomalies(collapsed, inferred, master)
           V == P \ anomalies
           valid == Restrict(collapsed, V)
           total == AggregateCrossProvider(valid, base)
           adjusted == ApplyRule(total, rule)
           clamped == ApplyClamp(adjusted, Floor(valid, rule), Ceiling(valid, rule))
           rec == ApplyRoundingDirectional(clamped, total, rule, mode)
<1>1. DOMAIN collapsed = P /\ collapsed = [p \in P |-> Min(groups[p])]
  BY DEF CollapseIntraProvider, IsGroups
<1>2. anomalies \subseteq P /\ master \notin anomalies
  BY <1>1 DEF DetectAnomalies
<1>3. valid = [p \in V |-> Min(groups[p])] /\ DOMAIN valid = V
  BY <1>1 DEF Restrict
<1>4. valid \in [V -> Nat]
  BY <1>3, MinOfNaturals DEF IsGroups
<1>5. Range(valid) = CheapestOf(groups, V)
  BY <1>3 DEF Range, CheapestOf
<1>6. IsFiniteSet(V)
  BY FS_Subset
<1>7. CASE V = {}
  <2>1. cell = EmptyCell(anomalies, rule)
    BY <1>7, <1>1, <1>3 DEF ComputeCell
  <2> HIDE DEF anomalies
  <2> QED BY <2>1, <1>2, <1>7 DEF EmptyCell, CellSound
<1>8. CASE V # {}
  <2>1. /\ cell.present = V /\ cell.dropped = anomalies /\ cell.rule = rule
        /\ cell.base = total /\ cell.rec = rec
    BY <1>8, <1>1, <1>3 DEF ComputeCell
  <2> HIDE DEF collapsed, anomalies
  <2>2. WithinBounds(rec, total, rule, Min(Range(valid)), Max(Range(valid)), mode)
    <3> HIDE DEF V, valid
    <3> QED BY <1>4, <1>6, <1>8, PriceIsWithinBounds
  <2> HIDE DEF rec, total
  <2> QED BY <2>1, <2>2, <1>2, <1>5, <1>8 DEF CellSound
<1> QED BY <1>7, <1>8

-----------------------------------------------------------------------------
(* The market, the nearest season and the seasons in order. *)

LEMMA ProvidersAreFinite == IsFiniteSet(Providers) /\ Len(Market) \in Nat /\ DOMAIN Market = 1..Len(Market)
<1>1. Len(Market) \in Nat /\ Market \in [1..Len(Market) -> Providers] /\ DOMAIN Market = 1..Len(Market)
  BY TariffAssumption, LenProperties
<1>2. Market \in Surjection(1..Len(Market), Providers)
  BY <1>1 DEF Surjection, Providers, Range
<1> QED BY <1>1, <1>2, FS_Interval, FS_Surjection

\* Among days there is one no further from a day than the others are, and the
\* first of those.
LEMMA NearestDay ==
    ASSUME NEW R \in SUBSET Nat, R # {}, NEW day \in Nat
    PROVE  \E d \in R : \A e \in R : Nearer(day, d, e)
<1> DEFINE T == {Distance(d, day) : d \in R}
<1>0. ASSUME NEW d \in R PROVE Distance(d, day) \in Nat
  BY DEF Distance
<1>1. T \in SUBSET Nat /\ T # {}
  BY <1>0
<1> HIDE DEF T
<1>2. Min(T) \in T /\ \A t \in T : Min(T) <= t
  BY <1>1, MinOfNaturals
<1> DEFINE U == {d \in R : Distance(d, day) = Min(T)}
<1>3. U \in SUBSET Nat /\ U # {}
  BY <1>2 DEF T
<1> HIDE DEF U
<1>4. Min(U) \in U /\ \A u \in U : Min(U) <= u
  BY <1>3, MinOfNaturals
<1>5. ASSUME NEW e \in R PROVE Nearer(day, Min(U), e)
  <2>1. Min(U) \in R /\ Distance(Min(U), day) = Min(T) /\ Min(T) <= Distance(e, day)
    BY <1>2, <1>4 DEF U, T
  <2>2. Distance(e, day) = Distance(Min(U), day) => Min(U) <= e
    BY <1>4, <2>1 DEF U
  <2>3. Distance(Min(U), day) \in Nat /\ Distance(e, day) \in Nat
    BY <1>0, <2>1
  <2> QED BY <2>1, <2>2, <2>3 DEF Nearer
<1> QED BY <1>4, <1>5 DEF U

\* Finitely many seasons can be put in order.
LEMMA SortingExists ==
    ASSUME NEW S, IsFiniteSet(S), \A z \in S : z.from \in Int
    PROVE  SortedBySpan(S) # {}
<1> DEFINE Sortable(U) == SortedBySpan(U) # {}
           T == {n \in Nat : \A U \in SUBSET S : Cardinality(U) = n => Sortable(U)}
<1>0. \A U \in SUBSET S : IsFiniteSet(U) /\ Cardinality(U) \in Nat
  BY FS_Subset, FS_CardinalityType
<1>1. 0 \in T
  <2> SUFFICES ASSUME NEW U \in SUBSET S, Cardinality(U) = 0 PROVE Sortable(U)
    OBVIOUS
  <2>1. U = {} /\ 1..Cardinality(U) = {}
    BY <1>0, FS_EmptySet
  <2>2. [i \in 1..Cardinality(U) |-> i] \in SortedBySpan(U)
    BY <2>1 DEF SortedBySpan
  <2> QED BY <2>2
<1>2. ASSUME NEW n \in T PROVE n + 1 \in T
  <2> SUFFICES ASSUME NEW U \in SUBSET S, Cardinality(U) = n + 1 PROVE Sortable(U)
    BY DEF T
  <2> DEFINE W == {z.from : z \in U}
             f == [z \in U |-> z.from]
  <2>1. U # {} /\ IsFiniteSet(U) /\ n \in Nat
    BY <1>0, FS_EmptySet
  <2>2. f \in Surjection(U, W)
    BY DEF Surjection
  <2>3. W \in SUBSET Int /\ W # {} /\ IsFiniteSet(W)
    BY <2>1, <2>2, FS_Surjection
  <2> HIDE DEF W
  <2>4. PICK w \in W : \A v \in W : v <= w
    BY <2>3, FiniteHasMax
  <2>5. PICK last \in U : \A z \in U : z.from <= last.from
    BY <2>4 DEF W
  <2> DEFINE V == U \ {last}
  <2>6. V \in SUBSET S /\ Cardinality(V) = n
    <3>1. Cardinality(V) = Cardinality(U) - 1
      BY <2>1, <2>5, FS_RemoveElement
    <3> QED BY <3>1, <2>1
  <2>7. PICK q : q \in SortedBySpan(V)
    BY <2>6
  <2>8. /\ q \in [1..n -> V]
        /\ \A i, j \in 1..n : i < j => q[i] # q[j] /\ q[i].from <= q[j].from
    BY <2>6, <2>7 DEF SortedBySpan
  <2> HIDE DEF T
  <2> DEFINE p == [i \in 1..(n + 1) |-> IF i = n + 1 THEN last ELSE q[i]]
  <2>9. p \in [1..(n + 1) -> U]
    BY <2>1, <2>8
  <2>10. ASSUME NEW i \in 1..(n + 1), NEW j \in 1..(n + 1), i < j
         PROVE  p[i] # p[j] /\ p[i].from <= p[j].from
    <3>1. i \in 1..n /\ p[i] = q[i] /\ q[i] \in V
      BY <2>1, <2>8, <2>10
    <3>2. CASE j = n + 1
      <4>1. p[j] = last
        BY <3>2
      <4> QED BY <3>1, <4>1, <2>5
    <3>3. CASE j # n + 1
      <4>1. j \in 1..n /\ p[j] = q[j]
        BY <3>3, <2>1
      <4> QED BY <3>1, <4>1, <2>8, <2>10
    <3> QED BY <3>2, <3>3
  <2>11. p \in SortedBySpan(U)
    BY <2>9, <2>10 DEF SortedBySpan
  <2> QED BY <2>11
<1>3. T \in SUBSET Nat
  OBVIOUS
<1> HIDE DEF T
<1>4. Cardinality(S) \in T
  BY <1>0, <1>1, <1>2, <1>3, InductionOverNat
<1> QED BY <1>4 DEF T

-----------------------------------------------------------------------------
(* A grid assembled from any rows of the frame's type. *)

FrameRows == [provider : Providers, office : Offices, key : {c.key : c \in Categories},
              code : Codes, from : Days, to : Days, rep : Days, total : Totals]
IsFrame(frame) == \A r \in frame : r \in FrameRows /\ r.from <= r.rep /\ r.rep <= r.to

LEMMA SpansAreFinite ==
    ASSUME NEW S \in SUBSET [from : Days, to : Days]
    PROVE  IsFiniteSet(S)
<1> DEFINE f == [z \in S |-> <<z.from, z.to>>]
<1>1. IsFiniteSet(Days)
  BY TariffAssumption, FS_Interval DEF Days
<1>2. IsFiniteSet(Days \X Days)
  BY <1>1, FS_Product
<1>3. f \in [S -> Days \X Days]
  OBVIOUS
<1>4. ASSUME NEW y \in S, NEW z \in S, f[y] = f[z] PROVE y = z
  <2>1. y.from = z.from /\ y.to = z.to
    BY <1>4
  <2> QED BY <2>1
<1>5. f \in Injection(S, Days \X Days)
  BY <1>3, <1>4 DEF Injection, IsInjective
<1> QED BY <1>2, <1>5, FS_Injection

SpansOf(frame, master) == {Span(r) : r \in {q \in frame : q.provider = master}}

\* The seasons of the master are in order, one per span, and there are none only
\* if the master has no row.
LEMMA ZonesInOrder ==
    ASSUME NEW frame, IsFrame(frame), NEW master,
           NEW zones, zones = MasterZones(frame, master)
    PROVE  /\ Len(zones) = Cardinality(SpansOf(frame, master)) /\ Len(zones) \in Nat
           /\ zones \in [1..Len(zones) -> SpansOf(frame, master)]
           /\ zones = <<>> <=> Len(zones) = 0
           /\ \A i, j \in 1..Len(zones) : i < j => zones[i] # zones[j] /\ zones[i].from <= zones[j].from
           /\ Len(zones) = 0 => SpansOf(frame, master) = {}
<1> DEFINE spans == SpansOf(frame, master)
           n == Cardinality(spans)
<1>1. spans \in SUBSET [from : Days, to : Days]
  BY DEF SpansOf, Span, IsFrame, FrameRows
<1>2. IsFiniteSet(spans) /\ n \in Nat /\ (n = 0 => spans = {})
  BY <1>1, SpansAreFinite, FS_CardinalityType, FS_EmptySet
<1>3. \A z \in spans : z.from \in Int
  BY <1>1, TariffAssumption DEF Days
<1>4. zones = CHOOSE q \in SortedBySpan(spans) : TRUE
  BY DEF MasterZones, SpansOf
<1> HIDE DEF spans
<1>5. zones \in SortedBySpan(spans)
  BY <1>2, <1>3, <1>4, SortingExists
<1>6. zones \in [1..n -> spans]
  BY <1>5 DEF SortedBySpan
<1>7. zones \in Seq(spans)
  BY <1>2, <1>6, SeqDef
<1>8. Len(zones) = n
  BY <1>2, <1>6, <1>7, LenProperties
<1>9. zones = <<>> <=> n = 0
  BY <1>7, <1>8, EmptySeq
<1>10. \A i, j \in 1..n : i < j => zones[i] # zones[j] /\ zones[i].from <= zones[j].from
  BY <1>5 DEF SortedBySpan
<1> QED BY <1>2, <1>6, <1>8, <1>9, <1>10 DEF spans

LEMMA ZoneIndexIsValid ==
    ASSUME NEW index \in Nat, today \in Days, NEW zones, Len(zones) \in Nat \ {0},
           DOMAIN zones = 1..Len(zones)
    PROVE  /\ ClampZone(index, Len(zones)) \in 1..Len(zones)
           /\ index \in 1..Len(zones) => ClampZone(index, Len(zones)) = index
           /\ DefaultZone(zones) \in 1..Len(zones)
<1> DEFINE n == Len(zones)
<1>1. n \in Nat \ {0}
  OBVIOUS
<1> HIDE DEF n
<1>2. Min({index, n}) = IF index <= n THEN index ELSE n
  BY <1>1 DEF Min
<1>3. \A m \in Nat : Max({1, m}) = IF m >= 1 THEN m ELSE 1
  BY DEF Max
<1>4. ClampZone(index, n) = IF index > n THEN n ELSE IF index >= 1 THEN index ELSE 1
  <2> DEFINE m == Min({index, n})
  <2>1. ClampZone(index, n) = Max({1, m})
    BY DEF ClampZone
  <2>2. m = (IF index <= n THEN index ELSE n) /\ m \in Nat
    BY <1>1, <1>2
  <2> HIDE DEF m
  <2>3. Max({1, m}) = IF m >= 1 THEN m ELSE 1
    BY <1>3, <2>2
  <2> QED BY <1>1, <2>1, <2>2, <2>3
<1>5. DefaultZone(zones) \in 1..n
  <2> DEFINE T == {i \in DOMAIN zones : Covers(zones[i], today)}
  <2>1. CASE T = {}
    BY <2>1, <1>1 DEF DefaultZone
  <2>2. CASE T # {}
    <3>1. T \in SUBSET Nat
      OBVIOUS
    <3> HIDE DEF T
    <3>2. Min(T) \in T
      BY <2>2, <3>1, MinOfNaturals
    <3> QED BY <3>2, <2>2 DEF DefaultZone, T, n
  <2> QED BY <2>1, <2>2
<1>6. ClampZone(index, n) \in 1..n /\ (index \in 1..n => ClampZone(index, n) = index)
  BY <1>1, <1>4
<1> QED BY <1>5, <1>6 DEF n

\* The grid shows one season of the master: the rows it keeps hold every row
\* of the master in that season, and all of them cover the day compared.
Shows(view, frame, cfg, zones, i, rep, rows) ==
    /\ view.zone.total = Len(zones) /\ view.zone.rep = rep
    /\ view.zone.from = zones[i].from /\ view.zone.to = zones[i].to
    /\ MasterRows(frame, cfg.master, zones[i]) \subseteq rows
    /\ \A r \in rows : Covers(r, rep)
    /\ view.cells = BuildCellResults(rows, cfg, rep)
    /\ view.rows = [code \in DOMAIN view.cells |->
                       ProviderRows({r \in rows : r.code = code}, view.cells[code])]

LEMMA NearestSeason ==
    ASSUME NEW group, group # {}, \A r \in group : r.rep \in Nat, NEW day \in Nat
    PROVE  \E r \in group : \A q \in group : Nearer(day, r.rep, q.rep)
<1> DEFINE R == {r.rep : r \in group}
<1>1. R \in SUBSET Nat /\ R # {}
  OBVIOUS
<1> HIDE DEF R
<1>2. PICK d \in R : \A e \in R : Nearer(day, d, e)
  BY <1>1, NearestDay
<1> QED BY <1>2 DEF R

LEMMA GridShowsOneSeason ==
    ASSUME NEW frame, IsFrame(frame), NEW cfg, NEW index \in Nat, today \in Days,
           NEW zones, zones = MasterZones(frame, cfg.master), zones # <<>>,
           NEW view, view = AssembleCrossTariff(frame, cfg, index)
    PROVE  \E i \in 1..Len(zones), rep \in Nat, rows \in SUBSET frame :
               Shows(view, frame, cfg, zones, i, rep, rows)
<1> DEFINE i == IF index = 0 THEN DefaultZone(zones) ELSE ClampZone(index, Len(zones))
           z == zones[i]
           own == MasterRows(frame, cfg.master, z)
           reps == {r.rep : r \in own}
           rep == Min(reps)
           rows == FilterZone(frame, cfg.master, z, rep)
           cells == BuildCellResults(rows, cfg, rep)
<1>1. /\ Len(zones) \in Nat \ {0} /\ DOMAIN zones = 1..Len(zones)
      /\ zones \in [1..Len(zones) -> SpansOf(frame, cfg.master)]
  BY ZonesInOrder
<1>2. i \in 1..Len(zones)
  BY <1>1, ZoneIndexIsValid
<1>3. view = [zone |-> [index |-> i, total |-> Len(zones), from |-> z.from, to |-> z.to,
                        covers |-> Covers(z, today), rep |-> rep],
              cells |-> cells,
              rows |-> [code \in DOMAIN cells |->
                           ProviderRows({r \in rows : r.code = code}, cells[code])]]
  BY DEF AssembleCrossTariff
<1> HIDE DEF i
<1>4. z \in SpansOf(frame, cfg.master)
  BY <1>1, <1>2
<1> HIDE DEF z
<1>5. PICK held \in frame : held.provider = cfg.master /\ z = Span(held)
  BY <1>4 DEF SpansOf
<1>6. own # {} /\ own \subseteq frame
  BY <1>5 DEF MasterRows, Span
<1>7. \A q \in frame : q.rep \in Nat /\ q.from \in Nat /\ q.to \in Nat /\ q.from <= q.rep /\ q.rep <= q.to
  BY DEF IsFrame, FrameRows, Days
<1>8. reps \in SUBSET Nat /\ reps # {}
  BY <1>6, <1>7
<1>9. rep \in reps /\ rep \in Nat
  <2> HIDE DEF reps
  <2> QED BY <1>8, MinOfNaturals
<1>10. \A q \in own : Covers(q, rep)
  <2>1. PICK m \in own : rep = m.rep
    BY <1>9
  <2>2. m.from <= rep /\ rep <= m.to
    BY <2>1, <1>6, <1>7
  <2> HIDE DEF rep
  <2> QED BY <2>2 DEF MasterRows, Covers
<1> HIDE DEF own, reps, rep
<1> DEFINE others == {r \in frame : r.provider # cfg.master /\ Covers(r, rep)}
           pick(s) == LET group == {r \in others : SameGroup(r, s)}
                      IN CHOOSE r \in group : \A q \in group : Nearer(rep, r.rep, q.rep)
<1>11. rows = own \cup {pick(s) : s \in others}
  BY DEF FilterZone, own
<1>12. ASSUME NEW s \in others PROVE pick(s) \in others
  <2> DEFINE group == {r \in others : SameGroup(r, s)}
  <2>1. s \in group /\ \A r \in group : r.rep \in Nat
    BY <1>7 DEF SameGroup
  <2> HIDE DEF group
  <2>2. \E r \in group : \A q \in group : Nearer(rep, r.rep, q.rep)
    BY <2>1, <1>9, NearestSeason
  <2>3. (CHOOSE r \in group : \A q \in group : Nearer(rep, r.rep, q.rep)) \in group
    BY <2>2
  <2> QED BY <2>3 DEF group
<1> HIDE DEF pick
<1>13. rows \subseteq frame /\ own \subseteq rows /\ \A r \in rows : Covers(r, rep)
  BY <1>6, <1>10, <1>11, <1>12
<1> HIDE DEF rows, cells
<1>14. Shows(view, frame, cfg, zones, i, rep, rows)
  BY <1>3, <1>13 DEF Shows, z, own, cells
<1> QED BY <1>2, <1>9, <1>13, <1>14

\* What an assembled grid says of one category, the seasons aside: its rows
\* and its cell come from the same providers, and its price keeps the rule.
CategorySound(rows, cell, cfg) ==
    LET counted == {q \in rows : ~q.anomaly}
        shown == {Min({q.total : q \in {s \in counted : s.provider = p}}) :
                     p \in {q.provider : q \in counted}}
    IN /\ cell.rule = cfg.rule
       /\ cell.present = {q.provider : q \in counted}
       /\ cell.rec # Missing => WithinBounds(cell.rec, cell.base, cfg.rule, Min(shown), Max(shown), cfg.round)

LEMMA CategoryIsSound ==
    ASSUME NEW rows, IsFrame(rows), NEW cfg \in Configs, NEW rep,
           NEW cell, cell = BuildCell(rows, cfg, rep)
    PROVE  /\ ProviderRows(rows, cell) \subseteq Rows
           /\ cfg.master \notin cell.dropped
           /\ CategorySound(ProviderRows(rows, cell), cell, cfg)
<1> DEFINE P == {r.provider : r \in rows}
           groups == [p \in P |-> {r.total : r \in {q \in rows : q.provider = p}}]
           inferred == Inferred(rows, cfg.master, rep)
           line(r) == [provider |-> r.provider, key |-> r.key, total |-> r.total,
                       anomaly |-> r.provider \in cell.dropped,
                       isBase |-> /\ r.provider \in cell.isBase
                                  /\ \A q \in rows : q.provider = r.provider => r.total <= q.total]
           lines == ProviderRows(rows, cell)
           counted == {q \in lines : ~q.anomaly}
<1>1. /\ cfg.rule \in RuleConfigs /\ cfg.base \in Bases /\ cfg.round \in RoundModes
  BY DEF Configs
<1>2. \A r \in rows : r.provider \in Providers /\ r.key \in {c.key : c \in Categories} /\ r.total \in Totals
  BY DEF IsFrame, FrameRows
<1>3. P \subseteq Providers /\ IsFiniteSet(P)
  BY <1>2, ProvidersAreFinite, FS_Subset
<1>4. IsGroups(groups, P)
  <2>1. \A r \in rows : r.total \in Nat
    BY <1>2, TariffAssumption
  <2>2. ASSUME NEW p \in P
        PROVE  {r.total : r \in {q \in rows : q.provider = p}} \in (SUBSET Nat) \ {{}}
    <3>1. PICK r \in rows : r.provider = p
      OBVIOUS
    <3> QED BY <2>1, <3>1
  <2> QED BY <2>2 DEF IsGroups
<1>5. cell = ComputeCell(groups, inferred, cfg.master, cfg.rule, cfg.base, cfg.round)
  BY DEF BuildCell
<1> HIDE DEF groups, P, inferred
<1>6. /\ cell.rule = cfg.rule /\ cfg.master \notin cell.dropped
      /\ cell.present = P \ cell.dropped
      /\ cell.rec # Missing =>
            WithinBounds(cell.rec, cell.base, cfg.rule, Min(CheapestOf(groups, cell.present)),
                         Max(CheapestOf(groups, cell.present)), cfg.round)
  <2>1. CellSound(cell, P, groups, cfg.master, cfg.rule, cfg.round)
    BY <1>1, <1>3, <1>4, <1>5, CellIsSound
  <2> QED BY <2>1 DEF CellSound
<1>7. lines = {line(r) : r \in rows}
  BY DEF ProviderRows
<1>8. \A r \in rows : /\ line(r).provider = r.provider /\ line(r).total = r.total
                      /\ line(r).anomaly = (r.provider \in cell.dropped)
                      /\ line(r) \in Rows
  BY <1>2 DEF Rows
<1> HIDE DEF line, lines
<1>9. lines \subseteq Rows
  BY <1>7, <1>8
<1> HIDE DEF counted
<1>20. \A q : q \in counted <=> \E r \in rows : q = line(r) /\ r.provider \notin cell.dropped
  BY <1>7, <1>8 DEF counted
<1>10. cell.present = {q.provider : q \in counted}
  BY <1>6, <1>8, <1>20 DEF P
<1>11. ASSUME NEW p \in cell.present
       PROVE  {q.total : q \in {s \in counted : s.provider = p}} = groups[p]
  <2>1. p \in P /\ p \notin cell.dropped
    BY <1>6
  <2>2. groups[p] = {r.total : r \in {q \in rows : q.provider = p}}
    BY <2>1 DEF groups
  <2>3. ASSUME NEW t
        PROVE  t \in {q.total : q \in {s \in counted : s.provider = p}}
                 <=> \E r \in rows : r.provider = p /\ r.total = t
    BY <2>1, <1>8, <1>20
  <2> QED BY <2>2, <2>3
<1>12. {Min({q.total : q \in {s \in counted : s.provider = p}}) : p \in {q.provider : q \in counted}}
         = CheapestOf(groups, cell.present)
  <2> DEFINE seen(p) == {q.total : q \in {s \in counted : s.provider = p}}
  <2>1. \A p \in cell.present : seen(p) = groups[p]
    BY <1>11
  <2> HIDE DEF seen
  <2>2. {Min(seen(p)) : p \in {q.provider : q \in counted}} = CheapestOf(groups, cell.present)
    BY <1>10, <2>1 DEF CheapestOf
  <2> QED BY <2>2 DEF seen
<1>13. CategorySound(lines, cell, cfg)
  <2> USE DEF counted
  <2> DEFINE shown == {Min({q.total : q \in {s \in counted : s.provider = p}}) :
                          p \in {q.provider : q \in counted}}
  <2>1. shown = CheapestOf(groups, cell.present)
    BY <1>12
  <2>2. cell.rec # Missing => WithinBounds(cell.rec, cell.base, cfg.rule, Min(shown), Max(shown), cfg.round)
    BY <1>6, <2>1
  <2> HIDE DEF shown
  <2>3. CategorySound(lines, cell, cfg)
            <=> /\ cell.rule = cfg.rule
                /\ cell.present = {q.provider : q \in counted}
                /\ cell.rec # Missing =>
                     WithinBounds(cell.rec, cell.base, cfg.rule, Min(shown), Max(shown), cfg.round)
    BY DEF CategorySound, shown
  <2> QED BY <2>2, <2>3, <1>6, <1>10
<1> QED BY <1>6, <1>9, <1>13 DEF lines

\* What a grid says of its categories, for a configuration whose radar holds
\* the providers of the frame.
\* The configuration a category is priced with differs in its rule only.
LEMMA RuleOfCategory ==
    ASSUME NEW cfg \in Configs, NEW k \in Codes
    PROVE  /\ OfCategory(cfg, k) \in Configs
           /\ OfCategory(cfg, k).master = cfg.master
           /\ OfCategory(cfg, k).round = cfg.round
BY DEF OfCategory, Configs

GridSound(view, cfg) ==
    /\ DOMAIN view.rows = DOMAIN view.cells
    /\ \A k \in DOMAIN view.rows :
          /\ k \in Codes
          /\ view.rows[k] \subseteq Rows
          /\ \A r \in view.rows[k] : r.provider \in cfg.radar
          /\ CategorySound(view.rows[k], view.cells[k], OfCategory(cfg, k))

LEMMA GridIsSound ==
    ASSUME NEW frame, IsFrame(frame), NEW cfg \in Configs, \A r \in frame : r.provider \in cfg.radar,
           NEW index \in Nat, today \in Days,
           NEW view, view = AssembleCrossTariff(frame, cfg, index)
    PROVE  GridSound(view, cfg)
<1> DEFINE zones == MasterZones(frame, cfg.master)
<1>1. CASE zones = <<>>
  <2>1. view = EmptyPayload
    BY <1>1 DEF AssembleCrossTariff
  <2> QED BY <2>1 DEF EmptyPayload, GridSound
<1>2. CASE zones # <<>>
  <2>1. PICK i \in 1..Len(zones), rep \in Nat, rows \in SUBSET frame :
           Shows(view, frame, cfg, zones, i, rep, rows)
    <3> HIDE DEF zones
    <3>1. zones = MasterZones(frame, cfg.master)
      BY DEF zones
    <3> QED BY <1>2, <3>1, GridShowsOneSeason
  <2> HIDE DEF zones
  <2> DEFINE of(k) == {r \in rows : r.code = k}
  <2>2. /\ view.cells = BuildCellResults(rows, cfg, rep)
        /\ view.rows = [k \in DOMAIN view.cells |-> ProviderRows(of(k), view.cells[k])]
    BY <2>1 DEF Shows
  <2>3. view.cells = [k \in {r.code : r \in rows} |-> BuildCell(of(k), OfCategory(cfg, k), rep)]
    BY <2>2 DEF BuildCellResults
  <2>4. DOMAIN view.rows = DOMAIN view.cells
    BY <2>2
  <2>5. ASSUME NEW k \in DOMAIN view.rows
        PROVE  /\ k \in Codes
               /\ view.rows[k] \subseteq Rows
               /\ \A r \in view.rows[k] : r.provider \in cfg.radar
               /\ CategorySound(view.rows[k], view.cells[k], OfCategory(cfg, k))
    <3>1. view.cells[k] = BuildCell(of(k), OfCategory(cfg, k), rep) /\ view.rows[k] = ProviderRows(of(k), view.cells[k])
      BY <2>2, <2>3, <2>4
    <3>2. IsFrame(of(k)) /\ of(k) \subseteq frame
      BY DEF IsFrame
    <3>0. k \in Codes
      BY <2>3, <2>4 DEF IsFrame, FrameRows
    <3> HIDE DEF of
    <3>3. /\ ProviderRows(of(k), view.cells[k]) \subseteq Rows
          /\ CategorySound(ProviderRows(of(k), view.cells[k]), view.cells[k], OfCategory(cfg, k))
      BY <3>0, <3>1, <3>2, CategoryIsSound, RuleOfCategory
    <3>4. \A r \in ProviderRows(of(k), view.cells[k]) : r.provider \in cfg.radar
      BY <3>2 DEF ProviderRows
    <3> QED BY <3>0, <3>1, <3>3, <3>4
  <2> QED BY <2>4, <2>5 DEF GridSound
<1> QED BY <1>1, <1>2

-----------------------------------------------------------------------------
(* The frame holds what was observed. *)

DataTyped ==
    /\ calendar \in [Offices -> Calendars \cup {{}}]
    /\ latest \in [Categories -> [Days -> Totals \cup {Missing}]]

\* The row of category c in season z.
RowOf(c, z) == [provider |-> ProviderOf[c.office], office |-> c.office, key |-> c.key,
                code |-> c.code, from |-> z.from, to |-> z.to, rep |-> z.rep,
                total |-> BackingTotal(c, z)]
Backed(c) == {z \in calendar[c.office] : BackingDays(c, z) # {}}
Read(radar, location) == {c \in Categories : ProviderOf[c.office] \in radar /\ InMarket(c.office, location)}

LEMMA RowsOfTheFrame ==
    ASSUME NEW radar, NEW location, NEW r
    PROVE  r \in Frame(radar, location) <=> \E c \in Read(radar, location) : \E z \in Backed(c) : r = RowOf(c, z)
BY DEF Frame, Read, Backed, RowOf

LEMMA ZonesAreTyped ==
    ASSUME DataTyped, NEW c \in Categories, NEW z \in calendar[c.office]
    PROVE  z \in Zones /\ z.from \in Nat /\ z.to \in Nat /\ z.rep \in Nat /\ c.office \in Offices
<1>1. c.office \in Offices /\ calendar[c.office] \in Calendars \cup {{}}
  BY TariffAssumption DEF DataTyped
<1>2. z \in Zones
  BY <1>1, TariffAssumption
<1> QED BY <1>1, <1>2 DEF Zones, Days

LEMMA BackingIsObserved ==
    ASSUME DataTyped, NEW c \in Categories, NEW z \in Backed(c)
    PROVE  BackingTotal(c, z) \in Totals /\ \E d \in z.from..z.to : latest[c][d] = BackingTotal(c, z)
<1> DEFINE D == BackingDays(c, z)
           d == CHOOSE d \in D : \A e \in D : Nearer(z.rep, d, e)
<1>1. z \in Zones /\ z.from \in Nat /\ z.to \in Nat /\ z.rep \in Nat /\ z.from >= 1 /\ z.to <= MaxDay
  BY ZonesAreTyped, TariffAssumption DEF Backed, Zones, Days
<1>2. D # {} /\ D \subseteq z.from..z.to /\ D \in SUBSET Nat
  BY <1>1 DEF Backed, BackingDays
<1> HIDE DEF D
<1>3. \E e \in D : \A f \in D : Nearer(z.rep, e, f)
  BY <1>1, <1>2, NearestDay
<1>4. d \in D /\ BackingTotal(c, z) = latest[c][d]
  BY <1>3 DEF BackingTotal, D
<1> HIDE DEF d
<1>5. d \in z.from..z.to /\ latest[c][d] # Missing
  BY <1>4 DEF D, BackingDays
<1>6. d \in Days
  BY <1>1, <1>5, TariffAssumption DEF Days
<1>7. latest[c][d] \in Totals
  BY <1>5, <1>6 DEF DataTyped
<1> QED BY <1>4, <1>5, <1>7

LEMMA FrameIsTyped ==
    ASSUME DataTyped, NEW radar, NEW location
    PROVE  IsFrame(Frame(radar, location)) /\ \A r \in Frame(radar, location) : r.provider \in radar
<1> SUFFICES ASSUME NEW r \in Frame(radar, location)
             PROVE  r \in FrameRows /\ r.from <= r.rep /\ r.rep <= r.to /\ r.provider \in radar
  BY DEF IsFrame
<1>1. PICK c \in Read(radar, location) : \E z \in Backed(c) : r = RowOf(c, z)
  BY RowsOfTheFrame
<1>2. PICK z \in Backed(c) : r = RowOf(c, z)
  BY <1>1
<1>3. c \in Categories /\ ProviderOf[c.office] \in radar /\ z \in calendar[c.office]
  BY <1>1, <1>2 DEF Read, Backed
<1>4. z \in Zones /\ c.office \in Offices
  BY <1>3, ZonesAreTyped
<1>5. BackingTotal(c, z) \in Totals
  BY <1>2, <1>3, BackingIsObserved
<1>6. ProviderOf[c.office] \in Providers
  BY <1>4, TariffAssumption
<1> QED BY <1>2, <1>3, <1>4, <1>5, <1>6 DEF RowOf, FrameRows, Codes, Zones

-----------------------------------------------------------------------------
(* The two promises about a grid that has just been read: its seasons are  *)
(* those of the master, its totals those observed in them.                 *)

GridAnchored(view, cfg, location) ==
    LET own == OwnCategories(cfg.master, location)
    IN /\ view.zone.total = Cardinality({Span(z) : z \in UNION {Backed(c) : c \in own}})
       /\ \A c \in own : \A z \in Backed(c) :
             z.from = view.zone.from /\ z.to = view.zone.to =>
                 /\ c.code \in DOMAIN view.cells
                 /\ cfg.master \in view.cells[c.code].present

LEMMA SpansOfTheMaster ==
    ASSUME NEW radar, NEW location, NEW master \in radar
    PROVE  SpansOf(Frame(radar, location), master)
              = {Span(z) : z \in UNION {Backed(c) : c \in OwnCategories(master, location)}}
<1> DEFINE frame == Frame(radar, location)
           own == OwnCategories(master, location)
<1>1. ASSUME NEW s \in SpansOf(frame, master)
      PROVE  s \in {Span(z) : z \in UNION {Backed(c) : c \in own}}
  <2>1. PICK r \in frame : r.provider = master /\ s = Span(r)
    BY DEF SpansOf
  <2>2. PICK c \in Read(radar, location) : \E z \in Backed(c) : r = RowOf(c, z)
    BY <2>1, RowsOfTheFrame
  <2>5. PICK z \in Backed(c) : r = RowOf(c, z)
    BY <2>2
  <2>3. c \in own
    BY <2>1, <2>5 DEF Read, RowOf, OwnCategories
  <2>4. s = Span(z)
    BY <2>1, <2>5 DEF Span, RowOf
  <2> QED BY <2>3, <2>4
<1>2. ASSUME NEW c \in own, NEW z \in Backed(c) PROVE Span(z) \in SpansOf(frame, master)
  <2>1. c \in Read(radar, location) /\ ProviderOf[c.office] = master
    BY DEF Read, OwnCategories
  <2>2. RowOf(c, z) \in frame
    BY <2>1, RowsOfTheFrame
  <2>3. RowOf(c, z).provider = master /\ Span(RowOf(c, z)) = Span(z)
    BY <2>1 DEF RowOf, Span
  <2> QED BY <2>2, <2>3 DEF SpansOf
<1> QED BY <1>1, <1>2

LEMMA GridIsAnchored ==
    ASSUME DataTyped, NEW cfg \in Configs, cfg.master \in cfg.radar, NEW location,
           NEW index \in Nat, today \in Days,
           NEW view, view = AssembleCrossTariff(Frame(cfg.radar, location), cfg, index)
    PROVE  GridAnchored(view, cfg, location)
<1> DEFINE frame == Frame(cfg.radar, location)
           zones == MasterZones(frame, cfg.master)
           own == OwnCategories(cfg.master, location)
<1>1. IsFrame(frame) /\ \A r \in frame : r.provider \in cfg.radar
  BY FrameIsTyped
<1>2. SpansOf(frame, cfg.master) = {Span(z) : z \in UNION {Backed(c) : c \in own}}
  BY SpansOfTheMaster
<1>3. \A c \in own : \A z \in Backed(c) : RowOf(c, z) \in frame
  BY RowsOfTheFrame DEF Read, OwnCategories
<1> HIDE DEF frame
<1>4. /\ Len(zones) = Cardinality(SpansOf(frame, cfg.master)) /\ Len(zones) \in Nat
      /\ zones = <<>> <=> Len(zones) = 0
      /\ Len(zones) = 0 => SpansOf(frame, cfg.master) = {}
  BY <1>1, ZonesInOrder
<1>5. view = AssembleCrossTariff(frame, cfg, index)
  BY DEF frame
<1>6. CASE zones = <<>>
  <2>1. view = EmptyPayload
    BY <1>5, <1>6 DEF AssembleCrossTariff
  <2>2. view.zone.total = 0
    BY <2>1 DEF EmptyPayload, NoZone
  <2>3. \A c \in own : Backed(c) = {}
    BY <1>2, <1>4, <1>6
  <2> QED BY <1>2, <1>4, <1>6, <2>2, <2>3 DEF GridAnchored
<1>7. CASE zones # <<>>
  <2>1. PICK i \in 1..Len(zones), rep \in Nat, rows \in SUBSET frame :
           Shows(view, frame, cfg, zones, i, rep, rows)
    <3> HIDE DEF zones
    <3>1. zones = MasterZones(frame, cfg.master)
      BY DEF zones
    <3> QED BY <1>1, <1>5, <1>7, <3>1, GridShowsOneSeason
  <2> HIDE DEF zones
  <2>2. view.zone.total = Cardinality(SpansOf(frame, cfg.master))
    BY <1>4, <2>1 DEF Shows
  <2>3. ASSUME NEW c \in own, NEW z \in Backed(c), z.from = view.zone.from, z.to = view.zone.to
        PROVE  c.code \in DOMAIN view.cells /\ cfg.master \in view.cells[c.code].present
    <3> DEFINE k == c.code
               of == {q \in rows : q.code = k}
               cell == view.cells[k]
    <3>1. RowOf(c, z) \in frame
      BY <1>3
    <3>2. /\ RowOf(c, z).provider = cfg.master /\ RowOf(c, z).code = k
          /\ RowOf(c, z).from = view.zone.from /\ RowOf(c, z).to = view.zone.to
      BY <2>3 DEF RowOf, OwnCategories
    <3>3. PICK r \in frame : r = RowOf(c, z)
      BY <3>1
    <3>4. r \in MasterRows(frame, cfg.master, zones[i])
      BY <2>1, <3>2, <3>3 DEF MasterRows, Shows
    <3>5. r \in of
      BY <2>1, <3>2, <3>3, <3>4 DEF Shows
    <3>6. k \in DOMAIN view.cells /\ cell = BuildCell(of, OfCategory(cfg, k), rep)
      <4>1. view.cells = [code \in {q.code : q \in rows} |->
                             BuildCell({q \in rows : q.code = code}, OfCategory(cfg, code), rep)]
        BY <2>1 DEF Shows, BuildCellResults
      <4>2. k \in {q.code : q \in rows}
        BY <3>5
      <4> QED BY <4>1, <4>2
    <3>7. IsFrame(of)
      BY <1>1 DEF IsFrame
    <3> HIDE DEF cell, of
    <3>8. /\ cfg.master \notin cell.dropped
          /\ CategorySound(ProviderRows(of, cell), cell, OfCategory(cfg, k))
      <4>1. k \in Codes /\ cfg \in Configs
        BY DEF Codes, OwnCategories
      <4> QED BY <4>1, <3>6, <3>7, CategoryIsSound, RuleOfCategory
    <3>9. \E q \in ProviderRows(of, cell) : q.provider = cfg.master /\ ~q.anomaly
      <4> DEFINE line == [provider |-> r.provider, key |-> r.key, total |-> r.total,
                          anomaly |-> r.provider \in cell.dropped,
                          isBase |-> /\ r.provider \in cell.isBase
                                     /\ \A q \in of : q.provider = r.provider => r.total <= q.total]
      <4>1. line \in ProviderRows(of, cell)
        BY <3>5 DEF ProviderRows
      <4>2. line.provider = r.provider /\ line.anomaly = (r.provider \in cell.dropped)
        OBVIOUS
      <4> HIDE DEF line
      <4> QED BY <4>1, <4>2, <3>2, <3>3, <3>8
    <3>10. cell.present = {q.provider : q \in {s \in ProviderRows(of, cell) : ~s.anomaly}}
      BY <3>8 DEF CategorySound
    <3> QED BY <3>6, <3>9, <3>10 DEF cell
  <2> QED BY <1>2, <2>2, <2>3 DEF GridAnchored
<1> QED BY <1>6, <1>7

GridObserved(view, location) ==
    \A k \in DOMAIN view.rows : \A r \in view.rows[k] :
        \E c \in Categories : \E z \in calendar[c.office] :
           /\ ProviderOf[c.office] = r.provider /\ c.key = r.key /\ c.code = k
           /\ InMarket(c.office, location)
           /\ Covers(z, view.zone.rep)
           /\ \E d \in z.from..z.to : latest[c][d] = r.total

LEMMA GridIsObserved ==
    ASSUME DataTyped, NEW cfg \in Configs, NEW location, NEW index \in Nat, today \in Days,
           NEW view, view = AssembleCrossTariff(Frame(cfg.radar, location), cfg, index)
    PROVE  GridObserved(view, location)
<1> DEFINE frame == Frame(cfg.radar, location)
           zones == MasterZones(frame, cfg.master)
<1>1. IsFrame(frame)
  BY FrameIsTyped
<1>2. \A r \in frame : \E c \in Read(cfg.radar, location) : \E z \in Backed(c) : r = RowOf(c, z)
  BY RowsOfTheFrame
<1> HIDE DEF frame
<1>3. view = AssembleCrossTariff(frame, cfg, index)
  BY DEF frame
<1>4. CASE zones = <<>>
  <2>1. view = EmptyPayload
    BY <1>3, <1>4 DEF AssembleCrossTariff
  <2> QED BY <2>1 DEF EmptyPayload, GridObserved
<1>5. CASE zones # <<>>
  <2>1. PICK i \in 1..Len(zones), rep \in Nat, rows \in SUBSET frame :
           Shows(view, frame, cfg, zones, i, rep, rows)
    <3> HIDE DEF zones
    <3>1. zones = MasterZones(frame, cfg.master)
      BY DEF zones
    <3> QED BY <1>1, <1>3, <1>5, <3>1, GridShowsOneSeason
  <2> HIDE DEF zones
  <2> SUFFICES ASSUME NEW k \in DOMAIN view.rows, NEW line \in view.rows[k]
               PROVE  \E c \in Categories : \E z \in calendar[c.office] :
                         /\ ProviderOf[c.office] = line.provider /\ c.key = line.key /\ c.code = k
                         /\ InMarket(c.office, location)
                         /\ Covers(z, view.zone.rep)
                         /\ \E d \in z.from..z.to : latest[c][d] = line.total
    BY DEF GridObserved
  <2>2. line \in ProviderRows({q \in rows : q.code = k}, view.cells[k])
    BY <2>1 DEF Shows
  <2>3. PICK r \in rows : /\ r.code = k /\ line.provider = r.provider /\ line.key = r.key
                          /\ line.total = r.total
    BY <2>2 DEF ProviderRows
  <2>9. PICK c \in Read(cfg.radar, location) : \E z \in Backed(c) : r = RowOf(c, z)
    BY <1>2
  <2>4. PICK z \in Backed(c) : r = RowOf(c, z)
    BY <2>9
  <2>5. /\ r.provider = ProviderOf[c.office] /\ r.key = c.key /\ r.code = c.code
        /\ r.from = z.from /\ r.to = z.to /\ r.total = BackingTotal(c, z)
    BY <2>4 DEF RowOf
  <2>6. c \in Categories /\ InMarket(c.office, location) /\ z \in calendar[c.office]
    BY <2>4 DEF Read, Backed
  <2>7. Covers(z, view.zone.rep)
    BY <2>1, <2>5 DEF Shows, Covers
  <2>8. \E d \in z.from..z.to : latest[c][d] = BackingTotal(c, z)
    BY <2>4, <2>6, BackingIsObserved
  <2> QED BY <2>3, <2>5, <2>6, <2>7, <2>8
<1> QED BY <1>4, <1>5

-----------------------------------------------------------------------------
(* The inductive invariant.  A configuration that reaches a grid names     *)
(* listed providers and a master among them; a grid keeps its prices sound *)
(* whatever is published later, and is what its inputs give until then.    *)

Configured(cfg) == cfg \in Configs /\ cfg.radar \subseteq listed /\ cfg.master \in cfg.radar

Exported(frame, cfg, from, to) ==
    IF MasterZones(frame, cfg.master) = <<>> THEN {} ELSE ExportRows(frame, cfg, from, to)

PageInv ==
    /\ page.kind \in {"none", "assembled", "page", "export"}
    /\ page.kind \in {"assembled", "page"} =>
          /\ page = [kind |-> page.kind, cfg |-> page.cfg, location |-> page.location,
                     asked |-> page.asked, gap |-> page.gap, view |-> page.view]
          /\ Configured(page.cfg) /\ page.asked \in Nat
          /\ GridSound(page.view, page.cfg)
    /\ Fresh => page.view = AssembleCrossTariff(Frame(page.cfg.radar, page.location),
                                                page.cfg, page.asked)
    /\ page.kind = "export" =>
          /\ page.from \in Nat /\ page.to \in Nat
          /\ page.rows = Exported(Frame(page.cfg.radar, page.location), page.cfg, page.from, page.to)
    /\ page.kind = "export" => Configured(page.cfg)

IInv ==
    /\ DataTyped
    /\ listed \in Listings /\ today \in Days
    /\ PageInv

LEMMA FormulasAreConfigs ==
    ASSUME NEW f \in Formulas \cup {DefaultFormula}
    PROVE  f \in Configs
<1>1. DefaultFormula \in Configs
  <2>1. DefaultRule \in RuleConfigs
    BY DEF DefaultRule, RuleConfigs
  <2> QED BY <2>1 DEF DefaultFormula, Configs, Bases, RoundModes
<1> QED BY <1>1, TariffAssumption

\* The saved formula, clamped: the radar keeps listed providers only, never
\* none, and the master is one of them.
LEMMA SavedConfigIsClamped ==
    ASSUME listed \in Listings, NEW f \in Configs
    PROVE  Configured(ResolveSavedConfig(f))
<1> DEFINE radar == IF f.radar \cap listed = {} THEN listed ELSE f.radar \cap listed
           master == IF f.master \in radar THEN f.master ELSE FirstListed(radar)
<1>1. listed \subseteq Providers /\ listed # {}
  BY TariffAssumption
<1>2. radar \subseteq listed /\ radar # {} /\ radar \in SUBSET Providers
  BY <1>1
<1>3. ResolveSavedConfig(f) = [f EXCEPT !.radar = radar, !.master = master]
  BY DEF ResolveSavedConfig
<1> HIDE DEF radar
<1>4. FirstListed(radar) \in radar
  <2> DEFINE I == {i \in DOMAIN Market : Market[i] \in radar}
  <2>1. PICK p \in radar : p \in Range(Market)
    BY <1>2 DEF Providers
  <2>2. I \in SUBSET Nat /\ I # {}
    BY <2>1, ProvidersAreFinite DEF Range
  <2> HIDE DEF I
  <2>3. Min(I) \in I
    BY <2>2, MinOfNaturals
  <2> QED BY <2>3 DEF FirstListed, I
<1>5. master \in radar /\ master \in Providers
  BY <1>2, <1>4
<1> HIDE DEF master
<1>6. [f EXCEPT !.radar = radar, !.master = master] \in Configs
  BY <1>2, <1>5 DEF Configs
<1>7. /\ [f EXCEPT !.radar = radar, !.master = master].radar = radar
      /\ [f EXCEPT !.radar = radar, !.master = master].master = master
  BY DEF Configs
<1> QED BY <1>2, <1>3, <1>5, <1>6, <1>7 DEF Configured

LEMMA AcceptedBodyIsCoherent ==
    ASSUME listed \in Listings, NEW f \in Configs, AcceptableBody(f)
    PROVE  Configured(f)
BY DEF AcceptableBody, Configured

\* What is read and assembled only depends on the data and on the day.
LEMMA SameDataSameFrame ==
    ASSUME UNCHANGED <<calendar, latest>>, NEW radar, NEW location
    PROVE  Frame(radar, location)' = Frame(radar, location)
<1>1. \A c, z : BackingDays(c, z)' = BackingDays(c, z)
  BY DEF BackingDays
<1>2. \A c, z : BackingTotal(c, z)' = BackingTotal(c, z)
  BY <1>1 DEF BackingTotal
<1> QED BY <1>1, <1>2 DEF Frame

LEMMA SameDaySameGrid ==
    ASSUME UNCHANGED today, NEW frame, NEW cfg, NEW index
    PROVE  AssembleCrossTariff(frame, cfg, index)' = AssembleCrossTariff(frame, cfg, index)
<1>1. \A zones : DefaultZone(zones)' = DefaultZone(zones)
  BY DEF DefaultZone
<1> QED BY <1>1 DEF AssembleCrossTariff

LEMMA RenderKeepsInv ==
    ASSUME IInv, NEW cfg, Configured(cfg), NEW location, NEW index \in Nat,
           Render(cfg, location, index)
    PROVE  IInv'
<1> DEFINE place == SelectedLocation(location)
           view == AssembleCrossTariff(Frame(cfg.radar, place), cfg, index)
<1>1. page' = [kind |-> "assembled", cfg |-> cfg, location |-> place,
               asked |-> index, gap |-> FALSE, view |-> view]
  BY DEF Render
<1>2. UNCHANGED <<calendar, latest, listed, today, published>>
  BY DEF Render
<1>3. DataTyped' /\ listed' \in Listings /\ today' \in Days
  BY <1>2 DEF IInv, DataTyped
<1>4. GridSound(view, cfg)
  <2> DEFINE frame == Frame(cfg.radar, place)
  <2>1. IsFrame(frame) /\ \A r \in frame : r.provider \in cfg.radar
    BY FrameIsTyped DEF IInv
  <2>2. view = AssembleCrossTariff(frame, cfg, index)
    OBVIOUS
  <2> HIDE DEF frame, view
  <2> QED BY <2>1, <2>2, GridIsSound DEF IInv, Configured
<1>5. view = AssembleCrossTariff(Frame(cfg.radar, place), cfg, index)'
  <2>1. Frame(cfg.radar, place)' = Frame(cfg.radar, place)
    BY <1>2, SameDataSameFrame
  <2> QED BY <1>2, <2>1, SameDaySameGrid
<1> HIDE DEF view, place
<1>6. /\ page'.kind = "assembled" /\ page'.cfg = cfg /\ page'.location = place
      /\ page'.asked = index /\ page'.view = view
      /\ page' = [kind |-> page'.kind, cfg |-> page'.cfg, location |-> page'.location,
                  asked |-> page'.asked, gap |-> page'.gap, view |-> page'.view]
  BY <1>1
<1>7. Configured(cfg)'
  BY <1>2 DEF Configured
<1>8. (Fresh => page.view = AssembleCrossTariff(Frame(page.cfg.radar, page.location),
                                                page.cfg, page.asked))'
  BY <1>5, <1>6
<1>9. PageInv'
  BY <1>4, <1>6, <1>7, <1>8 DEF PageInv, Configured
<1> QED BY <1>3, <1>9 DEF IInv

\* A publication may happen before a grid or while one is assembled, which it
\* marks as torn: nothing more is promised of its seasons.
LEMMA PublishKeepsInv ==
    ASSUME IInv, NEW o \in Offices, Publish(o)
    PROVE  IInv'
<1> DEFINE own == {c \in Categories : c.office = o}
<1>1. PICK cal \in Calendars : \E read \in [own -> [{z.rep : z \in cal} -> Totals \cup {Missing}]] :
         /\ calendar' = [calendar EXCEPT ![o] = cal]
         /\ latest' = [c \in Categories |->
               IF c \notin own THEN latest[c]
               ELSE [d \in Days |-> IF d \in DOMAIN read[c] /\ read[c][d] # Missing
                                    THEN read[c][d] ELSE latest[c][d]]]
  BY DEF Publish
<1>2. PICK read \in [own -> [{z.rep : z \in cal} -> Totals \cup {Missing}]] :
         /\ calendar' = [calendar EXCEPT ![o] = cal]
         /\ latest' = [c \in Categories |->
               IF c \notin own THEN latest[c]
               ELSE [d \in Days |-> IF d \in DOMAIN read[c] /\ read[c][d] # Missing
                                    THEN read[c][d] ELSE latest[c][d]]]
  BY <1>1
<1>3. /\ page.kind \in {"none", "assembled"} /\ torn' = (page.kind = "assembled")
      /\ UNCHANGED <<listed, today, page>>
  BY DEF Publish
<1>4. calendar' \in [Offices -> Calendars \cup {{}}]
  BY <1>2 DEF IInv, DataTyped
<1>5. latest' \in [Categories -> [Days -> Totals \cup {Missing}]]
  <2> SUFFICES ASSUME NEW c \in Categories
               PROVE  (IF c \notin own THEN latest[c]
                       ELSE [d \in Days |-> IF d \in DOMAIN read[c] /\ read[c][d] # Missing
                                            THEN read[c][d] ELSE latest[c][d]])
                         \in [Days -> Totals \cup {Missing}]
    BY <1>2
  <2>1. latest[c] \in [Days -> Totals \cup {Missing}]
    BY DEF IInv, DataTyped
  <2>2. CASE c \notin own
    BY <2>1, <2>2
  <2>3. CASE c \in own
    <3>1. read[c] \in [{z.rep : z \in cal} -> Totals \cup {Missing}]
      BY <2>3
    <3>2. \A d \in DOMAIN read[c] : read[c][d] \in Totals \cup {Missing}
      BY <3>1
    <3> QED BY <2>1, <2>3, <3>2
  <2> QED BY <2>2, <2>3
<1>6. ~Fresh'
  BY <1>3 DEF Fresh
<1>7. PageInv'
  BY <1>3, <1>6 DEF IInv, PageInv, Configured
<1> QED BY <1>3, <1>4, <1>5, <1>7 DEF IInv, DataTyped

LEMMA LabelKeepsInv ==
    ASSUME IInv, LabelGap
    PROVE  IInv'
<1>1. /\ page = [kind |-> page.kind, cfg |-> page.cfg, location |-> page.location,
                 asked |-> page.asked, gap |-> page.gap, view |-> page.view]
      /\ Configured(page.cfg) /\ page.asked \in Nat /\ GridSound(page.view, page.cfg)
  BY DEF IInv, PageInv, LabelGap
<1>2. PICK gap : page' = [page EXCEPT !.kind = "page", !.gap = gap]
  BY DEF LabelGap
<1>3. page' = [kind |-> "page", cfg |-> page.cfg, location |-> page.location,
               asked |-> page.asked, gap |-> gap, view |-> page.view]
  BY <1>1, <1>2
<1>4. page.kind = "assembled" /\ UNCHANGED <<calendar, latest, listed, today, published, torn>>
  BY DEF LabelGap
<1> PICK cfg, location, asked, view : /\ cfg = page.cfg /\ location = page.location
                                      /\ asked = page.asked /\ view = page.view
  OBVIOUS
<1>5. /\ page'.kind = "page" /\ page'.cfg = cfg /\ page'.location = location
      /\ page'.asked = asked /\ page'.view = view
      /\ page' = [kind |-> page'.kind, cfg |-> page'.cfg, location |-> page'.location,
                  asked |-> page'.asked, gap |-> page'.gap, view |-> page'.view]
  BY <1>3
<1>6. (Fresh => page.view = AssembleCrossTariff(Frame(page.cfg.radar, page.location),
                                                page.cfg, page.asked))'
  <2>1. Frame(cfg.radar, location)' = Frame(cfg.radar, location)
    BY <1>4, SameDataSameFrame
  <2>2. AssembleCrossTariff(Frame(cfg.radar, location), cfg, asked)'
          = AssembleCrossTariff(Frame(cfg.radar, location), cfg, asked)
    BY <1>4, <2>1, SameDaySameGrid
  <2>3. Fresh' => view = AssembleCrossTariff(Frame(cfg.radar, location), cfg, asked)
    BY <1>4, <1>5 DEF IInv, PageInv, Fresh
  <2> QED BY <1>5, <2>2, <2>3
<1>7. Configured(cfg)' /\ GridSound(view, cfg)
  BY <1>1, <1>4 DEF Configured
<1>8. PageInv'
  BY <1>1, <1>5, <1>6, <1>7 DEF PageInv
<1> QED BY <1>4, <1>8 DEF IInv, DataTyped

LEMMA ExportKeepsInv ==
    ASSUME IInv, Export
    PROVE  IInv'
<1>1. PICK f \in Formulas \cup {DefaultFormula}, location \in CanonicalLocations \cup {Missing},
           range \in Ranges :
         page' = [kind |-> "export", cfg |-> ResolveSavedConfig(f), location |-> location,
                  from |-> range[1], to |-> range[2],
                  rows |-> Exported(Frame(ResolveSavedConfig(f).radar, location),
                                    ResolveSavedConfig(f), range[1], range[2])]
  BY DEF Export, Exported
<1>2. UNCHANGED <<calendar, latest, listed, today, published, torn>>
  BY DEF Export
<1> PICK cfg : cfg = ResolveSavedConfig(f)
  OBVIOUS
<1>3. Configured(cfg)'
  <2>1. Configured(cfg)
    BY FormulasAreConfigs, SavedConfigIsClamped DEF IInv
  <2> QED BY <1>2, <2>1 DEF Configured
<1>4. range[1] \in Nat /\ range[2] \in Nat
  BY TariffAssumption
<1> DEFINE rows == Exported(Frame(cfg.radar, location), cfg, range[1], range[2])
<1>5. rows' = rows
  <2>1. Frame(cfg.radar, location)' = Frame(cfg.radar, location)
    BY <1>2, SameDataSameFrame
  <2> PICK frame : frame = Frame(cfg.radar, location)
    OBVIOUS
  <2>2. \A i : AssembleCrossTariff(frame, cfg, i)' = AssembleCrossTariff(frame, cfg, i)
    BY <1>2, SameDaySameGrid
  <2>3. ExportRows(frame, cfg, range[1], range[2])' = ExportRows(frame, cfg, range[1], range[2])
    BY <2>2 DEF ExportRows
  <2>4. Exported(frame, cfg, range[1], range[2])' = Exported(frame, cfg, range[1], range[2])
    BY <2>3 DEF Exported
  <2> QED BY <2>1, <2>4
<1> HIDE DEF rows
<1>6. /\ page'.kind = "export" /\ page'.cfg = cfg /\ page'.location = location
      /\ page'.from = range[1] /\ page'.to = range[2] /\ page'.rows = rows
  BY <1>1 DEF rows
<1>7. ~Fresh'
  BY <1>6 DEF Fresh
<1>8. page'.rows = Exported(Frame(page.cfg.radar, page.location), page.cfg, page.from, page.to)'
  BY <1>5, <1>6 DEF rows
<1>9. PageInv'
  BY <1>3, <1>4, <1>6, <1>7, <1>8 DEF PageInv
<1> QED BY <1>2, <1>9 DEF IInv, DataTyped

LEMMA InitHolds == Init => IInv
<1> SUFFICES ASSUME Init PROVE IInv
  OBVIOUS
<1>1. DataTyped
  BY DEF Init, DataTyped
<1>2. page.kind = "none"
  BY DEF Init, None
<1> QED BY <1>1, <1>2 DEF Init, IInv, PageInv, Fresh

LEMMA StepHolds == IInv /\ [Next]_vars => IInv'
<1> SUFFICES ASSUME IInv, [Next]_vars PROVE IInv'
  OBVIOUS
<1>1. ASSUME NEW o \in Offices, Publish(o) PROVE IInv'
  BY <1>1, PublishKeepsInv
<1>2. CASE GetCrossTariff
  <2>1. PICK f \in Formulas \cup {DefaultFormula}, l \in CanonicalLocations \cup {Missing}, i \in 0..MaxDay :
           Render(ResolveSavedConfig(f), l, i)
    BY <1>2 DEF GetCrossTariff
  <2>2. Configured(ResolveSavedConfig(f))
    BY FormulasAreConfigs, SavedConfigIsClamped DEF IInv
  <2>3. i \in Nat
    BY TariffAssumption
  <2> PICK cfg : cfg = ResolveSavedConfig(f)
    OBVIOUS
  <2> QED BY <2>1, <2>2, <2>3, RenderKeepsInv
<1>3. CASE PreviewCrossTariff
  <2>1. PICK f \in Formulas, l \in CanonicalLocations \cup {Missing}, i \in 0..MaxDay :
           AcceptableBody(f) /\ Render(f, l, i)
    BY <1>3 DEF PreviewCrossTariff
  <2>2. Configured(f) /\ i \in Nat
    BY <2>1, TariffAssumption, AcceptedBodyIsCoherent DEF IInv
  <2> QED BY <2>1, <2>2, RenderKeepsInv
<1>4. CASE LabelGap
  BY <1>4, LabelKeepsInv
<1>5. CASE Export
  BY <1>5, ExportKeepsInv
<1>6. CASE Respond
  <2>1. page'.kind = "none" /\ UNCHANGED <<calendar, latest, listed, today>>
    BY <1>6 DEF Respond, None
  <2>2. PageInv'
    BY <2>1 DEF PageInv, Fresh
  <2> QED BY <2>1, <2>2 DEF IInv, DataTyped
<1>7. CASE UNCHANGED vars
  <2>1. UNCHANGED <<calendar, latest, listed, today, page, torn>>
    BY <1>7 DEF vars
  <2> PICK cfg, location, asked, from, to : /\ cfg = page.cfg /\ location = page.location
                                            /\ asked = page.asked /\ from = page.from /\ to = page.to
    OBVIOUS
  <2>2. Frame(cfg.radar, location)' = Frame(cfg.radar, location)
    BY <2>1, SameDataSameFrame
  <2> PICK frame : frame = Frame(cfg.radar, location)
    OBVIOUS
  <2>3. \A i : AssembleCrossTariff(frame, cfg, i)' = AssembleCrossTariff(frame, cfg, i)
    BY <2>1, SameDaySameGrid
  <2>4. Exported(frame, cfg, from, to)' = Exported(frame, cfg, from, to)
    <3>1. ExportRows(frame, cfg, from, to)' = ExportRows(frame, cfg, from, to)
      BY <2>3 DEF ExportRows
    <3> QED BY <3>1 DEF Exported
  <2>5. (Fresh => page.view = AssembleCrossTariff(Frame(page.cfg.radar, page.location),
                                                  page.cfg, page.asked))'
    <3>1. Fresh' => page.view = AssembleCrossTariff(frame, cfg, asked)
      BY <2>1 DEF IInv, PageInv, Fresh
    <3> QED BY <2>1, <2>2, <2>3, <3>1
  <2>6. (page.kind = "export" =>
           page.rows = Exported(Frame(page.cfg.radar, page.location), page.cfg, page.from, page.to))'
    <3>1. page'.kind = "export" => page.rows = Exported(frame, cfg, from, to)
      BY <2>1 DEF IInv, PageInv
    <3> QED BY <2>1, <2>2, <2>4, <3>1
  <2>7. PageInv'
    <3>1. page'.kind \in {"assembled", "page"} => GridSound(page.view, page.cfg)'
      BY <2>1 DEF IInv, PageInv, GridSound
    <3> QED BY <2>1, <2>5, <2>6, <3>1 DEF IInv, PageInv, Configured
  <2> QED BY <2>1, <2>7 DEF IInv, DataTyped
<1> QED BY <1>1, <1>2, <1>3, <1>4, <1>5, <1>6, <1>7 DEF Next

\* The inductive invariant holds in every reachable state.
THEOREM Invariant == Spec => []IInv
BY InitHolds, StepHolds, PTL DEF Spec

-----------------------------------------------------------------------------
(* What follows from it. *)

\* Every variable keeps its type; rows and cells speak of the same categories
\* (cross_tariff_assembler.py:191).
THEOREM TypeCorrect == Spec => []TypeOK
<1>1. IInv => TypeOK
  <2>1. Listings \subseteq SUBSET Providers
    BY TariffAssumption
  <2> QED BY <2>1 DEF IInv, DataTyped, PageInv, GridSound, TypeOK
<1> QED BY <1>1, Invariant, PTL

\* Every season of the master with a price can be navigated to, and the master
\* counts in each of its cells there (cross_tariff_calc.py:130).
THEOREM MasterAnchors == Spec => []MasterAnchorsGrid
<1>1. IInv => MasterAnchorsGrid
  <2> SUFFICES ASSUME IInv, Fresh PROVE MasterAnchorsGrid
    BY DEF MasterAnchorsGrid
  <2> PICK cfg, location, asked, view : /\ cfg = page.cfg /\ location = page.location
                                        /\ asked = page.asked /\ view = page.view
    OBVIOUS
  <2>1. Configured(cfg) /\ asked \in Nat
    BY DEF IInv, PageInv, Fresh
  <2>2. view = AssembleCrossTariff(Frame(cfg.radar, location), cfg, asked)
    BY DEF IInv, PageInv
  <2>3. GridAnchored(view, cfg, location)
    BY <2>1, <2>2, GridIsAnchored DEF IInv, Configured
  <2> QED BY <2>3 DEF MasterAnchorsGrid, GridAnchored, Backed
<1> QED BY <1>1, Invariant, PTL

\* A total on the grid was observed within a season of its own provider that
\* contains the day the master is compared on (cross_tariff_assembler.py:177).
THEOREM SameSeason == Spec => []PricesOfTheSameSeason
<1>1. IInv => PricesOfTheSameSeason
  <2> SUFFICES ASSUME IInv, Fresh PROVE PricesOfTheSameSeason
    BY DEF PricesOfTheSameSeason
  <2> PICK cfg, location, asked, view : /\ cfg = page.cfg /\ location = page.location
                                        /\ asked = page.asked /\ view = page.view
    OBVIOUS
  <2>1. Configured(cfg) /\ asked \in Nat
    BY DEF IInv, PageInv, Fresh
  <2>2. view = AssembleCrossTariff(Frame(cfg.radar, location), cfg, asked)
    BY DEF IInv, PageInv
  <2>3. GridObserved(view, location)
    BY <2>1, <2>2, GridIsObserved DEF IInv, Configured
  <2> QED BY <2>3 DEF PricesOfTheSameSeason, GridObserved
<1> QED BY <1>1, Invariant, PTL

\* No price of a provider that left the market is shown, compared or used as
\* the reference, whatever was saved before (routes/cross_tariff.py:123).
THEOREM OnlyListedArePriced == Spec => []DelistedNeverPriced
<1>1. IInv => DelistedNeverPriced
  <2> SUFFICES ASSUME IInv, page.kind \in {"assembled", "page"}, NEW k \in DOMAIN page.view.rows
               PROVE  /\ \A r \in page.view.rows[k] : r.provider \in listed
                      /\ page.view.cells[k].present \subseteq listed
    BY DEF DelistedNeverPriced
  <2>1. /\ \A r \in page.view.rows[k] : r.provider \in listed
        /\ CategorySound(page.view.rows[k], page.view.cells[k], OfCategory(page.cfg, k))
    BY DEF IInv, PageInv, Configured, GridSound
  <2>2. page.view.cells[k].present = {q.provider : q \in {s \in page.view.rows[k] : ~s.anomaly}}
    BY <2>1 DEF CategorySound
  <2> QED BY <2>1, <2>2
<1> QED BY <1>1, Invariant, PTL

\* Rule, circuit breakers, directional guard and rounding keep a recommendation
\* on the rule's side of the base and within a step of its bounds
\* (cross_tariff_calc.py:182-322).
THEOREM RecommendationIsBounded == Spec => []RecommendationBounded
<1>1. IInv => RecommendationBounded
  <2> SUFFICES ASSUME IInv, page.kind \in {"assembled", "page"} PROVE RecommendationBounded
    BY DEF RecommendationBounded
  <2>1. \A k \in DOMAIN page.view.cells :
          k \in Codes /\ CategorySound(page.view.rows[k], page.view.cells[k], OfCategory(page.cfg, k))
    BY DEF IInv, PageInv, GridSound
  <2> DEFINE Counted(k) == {q \in page.view.rows[k] : ~q.anomaly}
             Shown(k) == {Min({q.total : q \in {s \in Counted(k) : s.provider = p}}) :
                            p \in {q.provider : q \in Counted(k)}}
  <2>2. ASSUME NEW k \in DOMAIN page.view.cells, page.view.cells[k].rec # Missing
        PROVE  WithinBounds(page.view.cells[k].rec, page.view.cells[k].base, page.view.cells[k].rule,
                            Min(Shown(k)), Max(Shown(k)), page.cfg.round)
    <3> DEFINE mine == OfCategory(page.cfg, k)
    <3>1. CategorySound(page.view.rows[k], page.view.cells[k], mine)
      BY <2>1
    <3>2. mine.round = page.cfg.round
      BY <2>1, RuleOfCategory DEF IInv, PageInv, Configured
    <3> HIDE DEF mine
    <3>3. page.view.cells[k].rule = mine.rule
      BY <3>1 DEF CategorySound
    <3>4. WithinBounds(page.view.cells[k].rec, page.view.cells[k].base, mine.rule,
                       Min(Shown(k)), Max(Shown(k)), mine.round)
      BY <2>2, <3>1, Zenon DEF CategorySound
    <3> QED BY <3>2, <3>3, <3>4, Zenon
  <2> QED BY <2>2, Zenon DEF RecommendationBounded, WithinBounds, StepOf
<1> QED BY <1>1, Invariant, PTL

\* An export of seasons first..last, both in range, holds exactly the priced,
\* not silenced categories of their grids (export_service.py:192).
THEOREM ExportIsTheGrids == Spec => []ExportFollowsGrid
<1>1. IInv => ExportFollowsGrid
  <2> SUFFICES ASSUME IInv, page.kind = "export" PROVE ExportFollowsGrid
    BY DEF ExportFollowsGrid
  <2> PICK cfg, location, from, to, exported :
         /\ cfg = page.cfg /\ location = page.location /\ from = page.from /\ to = page.to
         /\ exported = page.rows
    OBVIOUS
  <2>1. from \in Nat /\ to \in Nat /\ Configured(cfg)
    BY DEF IInv, PageInv
  <2>2. exported = Exported(Frame(cfg.radar, location), cfg, from, to)
    BY DEF IInv, PageInv
  <2> PICK frame : frame = Frame(cfg.radar, location)
    OBVIOUS
  <2> DEFINE zones == MasterZones(frame, cfg.master)
             n == Len(zones)
             first == IF from = 0 THEN 1 ELSE from
             last == IF to = 0 THEN n ELSE to
             grid(i) == AssembleCrossTariff(frame, cfg, i)
             priced(i) == {k \in DOMAIN grid(i).cells \ cfg.muted : grid(i).cells[k].rec # Missing}
             rows(i) == {[zone |-> grid(i).zone.from, code |-> k, rec |-> grid(i).cells[k].rec] :
                            k \in priced(i)}
  <2> SUFFICES ASSUME first <= last, last <= n
               PROVE  UNION {rows(i) : i \in first..last}
                        = {[zone |-> r.zone, code |-> r.code, rec |-> r.rec] : r \in exported}
    BY DEF ExportFollowsGrid
  <2>3. n \in Nat /\ (zones = <<>> <=> n = 0) /\ zones \in [1..n -> SpansOf(frame, cfg.master)]
    BY FrameIsTyped, ZonesInOrder DEF IInv
  <2> HIDE DEF zones
  <2>4. n \in Nat \ {0} /\ zones # <<>> /\ first \in 1..n /\ last \in 1..n
    BY <2>1, <2>3
  <2>5. SeasonRange(from, to, n) = first..last
    <3>1. \A i \in 1..n : ClampZone(i, n) = i
      BY <2>3, <2>4, ZoneIndexIsValid DEF IInv
    <3>2. (IF from = 0 THEN 1 ELSE ClampZone(from, n)) = first
      BY <2>4, <3>1
    <3>3. (IF to = 0 THEN n ELSE ClampZone(to, n)) = last
      BY <2>4, <3>1
    <3> HIDE DEF first, last
    <3>4. ~(first > last)
      BY <2>4
    <3> QED BY <3>2, <3>3, <3>4 DEF SeasonRange
  <2>6. exported = UNION {{ExportRow(cfg, grid(i), k) : k \in priced(i)} : i \in first..last}
    BY <2>2, <2>4, <2>5 DEF Exported, ExportRows, zones
  <2> HIDE DEF grid, priced, first, last
  <2>7. ASSUME NEW i, NEW k
        PROVE  LET r == ExportRow(cfg, grid(i), k)
               IN r.zone = grid(i).zone.from /\ r.code = k /\ r.rec = grid(i).cells[k].rec
    BY DEF ExportRow
  <2> QED BY <2>6, <2>7
<1> QED BY <1>1, Invariant, PTL
=============================================================================
