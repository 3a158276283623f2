-------------------------- MODULE TenantPricesProofs --------------------------
(***************************************************************************)
(* Proofs about TenantPrices and the arithmetic of its tariffs, for any    *)
(* configurations, catalogue, scrapes, prices and number of runs.          *)
(***************************************************************************)
EXTENDS TenantPrices, FiniteSetTheorems, TLAPS

(* Least and greatest numbers, and induction.                              *)

LEMMA MinOfNaturals ==
    ASSUME NEW S \in SUBSET Nat, S # {}
    PROVE  Min(S) \in S /\ \A y \in S : Min(S) <= y
<1> DEFINE R == {p \in Nat \X Nat : p[1] < p[2]}
<1>1. IsWellFoundedOn(R, Nat)
  BY NatLessThanWellFounded DEF OpToRel
<1> HIDE DEF R
<1>2. PICK x \in S : \A y \in S : ~ (<<y, x>> \in R)
  BY <1>1, WFMin
<1>3. ASSUME NEW y \in S, y < x PROVE FALSE
  <2>1. <<y, x>> \in Nat \X Nat /\ <<y, x>>[1] < <<y, x>>[2]
    BY <1>3
  <2> QED BY <2>1, <1>2 DEF R
<1>4. \A y \in S : x <= y
  BY <1>3
<1> QED BY <1>4 DEF Min

LEMMA MaxOfBounded ==
    ASSUME NEW S \in SUBSET Int, S # {}, NEW bound \in Int, \A y \in S : y <= bound
    PROVE  Max(S) \in S /\ \A y \in S : y <= Max(S)
<1> DEFINE T == {bound - y : y \in S}
<1>1. T \in SUBSET Nat /\ T # {}
  <2>1. \A y \in S : bound - y \in Nat
    OBVIOUS
  <2> QED BY <2>1
<1> HIDE DEF T
<1>2. Min(T) \in T /\ \A y \in T : Min(T) <= y
  BY <1>1, MinOfNaturals
<1> USE DEF T
<1>3. PICK x \in S : Min(T) = bound - x
  BY <1>2
<1>4. \A y \in S : bound - x <= bound - y
  BY <1>2, <1>3
<1>5. \A y \in S : y <= x
  BY <1>4
<1> QED BY <1>5 DEF Max

\* Induction, over the set of the numbers that have the property.
LEMMA InductionOverNat ==
    ASSUME NEW T \in SUBSET Nat, 0 \in T, \A n \in T : n + 1 \in T
    PROVE  T = Nat
<1> SUFFICES ASSUME Nat \ T # {} PROVE FALSE
  OBVIOUS
<1> DEFINE m == Min(Nat \ T)
<1>1. m \in Nat \ T /\ \A y \in Nat \ T : m <= y
  BY MinOfNaturals
<1> HIDE DEF m
<1>2. m # 0 /\ m - 1 \in Nat
  BY <1>1
<1>3. m - 1 \in T
  BY <1>1, <1>2
<1> QED BY <1>1, <1>3

-----------------------------------------------------------------------------
(* What onboarding leaves of a tenant: everything, nothing, or the bare    *)
(* root row; and a tenant that is complete stays as it is.                 *)

Bare == [NoTenant EXCEPT !.row = TRUE]

GroupsOf(mappings) == {m[1] : m \in mappings}

(* The rows of steps 4 to 6 are those of a configuration.                   *)
Faithful(mapped, f) ==
    /\ GroupsOf(mapped) = GroupsOf(f.mappings)
    /\ Cardinality(mapped) = Cardinality(f.mappings)

Complete ==
    /\ tenant = [row |-> TRUE, groups |-> Groups, mapped |-> tenant.mapped, status |-> tenant.status]
    /\ \E f \in Configs : DOMAIN tenant.status = f.tuples /\ Faithful(tenant.mapped, f)

(* A run that is under way owns a bare tenant, and knows its configuration. *)
Running ==
    /\ tenant = Bare
    /\ onboarding = [step |-> onboarding.step, config |-> onboarding.config,
                     left |-> onboarding.left, staged |-> onboarding.staged]
    /\ onboarding.config \in Configs
    /\ onboarding.step = "setup" => Faithful(onboarding.staged, onboarding.config)

TenantInv ==
    \/ onboarding = Idle /\ (tenant = NoTenant \/ tenant = Bare \/ Complete)
    \/ onboarding.step # "idle" /\ Running

LEMMA InitTenant == Init => TenantInv
  BY DEF Init, TenantInv

(* A mapping keeps its client group when its category is replaced by a code. *)
LEMMA StagedIsFaithful ==
    ASSUME NEW f, Cardinality(Staged(f)) = Cardinality(f.mappings)
    PROVE  Faithful(Staged(f), f)
<1>1. \A m \in f.mappings : <<m[1], code[m[2]]>>[1] = m[1]
  OBVIOUS
<1>2. GroupsOf(Staged(f)) = GroupsOf(f.mappings)
  <2>1. ASSUME NEW g \in GroupsOf(Staged(f)) PROVE g \in GroupsOf(f.mappings)
    <3>1. PICK m \in f.mappings : g = <<m[1], code[m[2]]>>[1]
      BY <2>1, Zenon DEF GroupsOf, Staged
    <3> QED
      BY <1>1, <3>1 DEF GroupsOf
  <2>2. ASSUME NEW g \in GroupsOf(f.mappings) PROVE g \in GroupsOf(Staged(f))
    <3>1. PICK m \in f.mappings : g = m[1]
      BY <2>2 DEF GroupsOf
    <3>2. <<m[1], code[m[2]]>> \in Staged(f)
      BY Zenon DEF Staged
    <3> QED
      BY <1>1, <3>1, <3>2 DEF GroupsOf
  <2> QED
    BY <2>1, <2>2
<1> QED
  BY <1>2 DEF Faithful

LEMMA CreateTenantStep == TenantInv /\ CreateTenant => TenantInv'
<1> SUFFICES ASSUME TenantInv, CreateTenant PROVE TenantInv'
  OBVIOUS
<1>1. onboarding = Idle /\ (tenant = NoTenant \/ tenant = Bare \/ Complete)
  BY DEF TenantInv, CreateTenant, Step
<1>2. CASE tenant.row
  <2>1. onboarding' = Idle /\ tenant' = tenant
    BY <1>2 DEF CreateTenant, End
  <2> QED
    BY <1>1, <2>1 DEF TenantInv, Complete
<1>3. CASE ~tenant.row
  <2>1. tenant = NoTenant
    BY <1>1, <1>3 DEF Bare, NoTenant, Complete
  <2>2. tenant' = Bare
    BY <1>3, <2>1 DEF CreateTenant, Bare
  <2>3. PICK f \in Configs :
          onboarding' = [step |-> "discovery", config |-> f, left |-> f.tuples, staged |-> <<>>]
    BY <1>3 DEF CreateTenant
  <2> QED
    BY <2>2, <2>3 DEF TenantInv, Running
<1> QED
  BY <1>2, <1>3

(* The steps of a run under way that leave the tenant's rows alone.          *)
LEMMA RunningStep ==
    ASSUME TenantInv, (\E t \in Tuples : Discover(t)) \/ CreateMappings
    PROVE  TenantInv' /\ tenant' = tenant
<1>1. onboarding.step = "discovery"
  BY DEF Discover, CreateMappings, Step
<1>2. Running
  BY <1>1 DEF TenantInv, Idle
<1>3. tenant' = tenant
  BY DEF Discover, CreateMappings
<1>4. ASSUME NEW s \in {"discovery", "rollback"}, NEW l,
             onboarding' = [onboarding EXCEPT !.step = s, !.left = l]
      PROVE  TenantInv'
  BY <1>2, <1>3, <1>4 DEF Running, TenantInv
<1>5. CASE onboarding' = [onboarding EXCEPT !.step = "rollback"]
  BY <1>2, <1>3, <1>5 DEF Running, TenantInv
<1>6. CASE \E l : onboarding' = [onboarding EXCEPT !.left = l]
  BY <1>1, <1>2, <1>3, <1>6 DEF Running, TenantInv
<1>7. CASE \E t \in Tuples : Discover(t)
  BY <1>5, <1>6, <1>7 DEF Discover, Undo
<1>8. CASE CreateMappings
  <2> DEFINE f == onboarding.config
  <2>1. CASE Resolved(f) = f.mappings /\ Cardinality(Staged(f)) = Cardinality(f.mappings)
    <3>1. onboarding' = [onboarding EXCEPT !.step = "setup", !.staged = Staged(f)]
      BY <1>8, <2>1 DEF CreateMappings
    <3>2. Faithful(Staged(f), f)
      BY <2>1, StagedIsFaithful
    <3> HIDE DEF f
    <3>3. /\ onboarding'.step = "setup" /\ onboarding'.staged = Staged(f)
          /\ onboarding'.config = onboarding.config
          /\ onboarding' = [step |-> onboarding'.step, config |-> onboarding'.config,
                            left |-> onboarding'.left, staged |-> onboarding'.staged]
      BY <3>1, <1>2 DEF Running
    <3> QED
      BY <3>3, <3>2, <1>2, <1>3 DEF Running, TenantInv, f
  <2>2. CASE ~(Resolved(f) = f.mappings /\ Cardinality(Staged(f)) = Cardinality(f.mappings))
    BY <1>5, <1>8, <2>2 DEF CreateMappings, Undo
  <2> QED
    BY <2>1, <2>2
<1> QED
  BY <1>3, <1>7, <1>8

LEMMA ActivateStep == TenantInv /\ ActivateSubscriptions => TenantInv'
<1> SUFFICES ASSUME TenantInv, ActivateSubscriptions PROVE TenantInv'
  OBVIOUS
<1>1. Running /\ onboarding.step = "setup"
  BY DEF ActivateSubscriptions, Step, TenantInv, Idle
<1>2. CASE Undo /\ UNCHANGED <<tenant, outcome>>
  BY <1>1, <1>2 DEF Undo, Running, TenantInv
<1>3. CASE ~(Undo /\ UNCHANGED <<tenant, outcome>>)
  <2>1. /\ onboarding' = Idle
        /\ tenant' = [row |-> TRUE, groups |-> Groups, mapped |-> onboarding.staged,
                      status |-> [t \in onboarding.config.tuples |->
                                    IF Active(t, onboarding.staged) THEN "active"
                                    ELSE "pending_mapping"]]
    BY <1>3 DEF ActivateSubscriptions, End
  <2>2. tenant'.mapped = onboarding.staged /\ DOMAIN tenant'.status = onboarding.config.tuples
    BY <2>1
  <2>3. tenant' = [row |-> TRUE, groups |-> Groups, mapped |-> tenant'.mapped,
                   status |-> tenant'.status]
    BY <2>1
  <2>4. Complete'
    BY <1>1, <2>2, <2>3 DEF Running, Complete
  <2> QED
    BY <2>1, <2>4 DEF TenantInv
<1> QED
  BY <1>2, <1>3

LEMMA EndStep == TenantInv /\ (RollbackTenant \/ Kill) => TenantInv'
<1> SUFFICES ASSUME TenantInv, RollbackTenant \/ Kill PROVE TenantInv'
  OBVIOUS
<1>1. tenant = Bare
  <2>1. CASE RollbackTenant
    <3>1. onboarding.step = "rollback"
      BY <2>1 DEF RollbackTenant, Step
    <3>2. onboarding # Idle
      BY <3>1 DEF Idle
    <3> QED
      BY <3>2 DEF TenantInv, Running
  <2>2. CASE Kill
    BY <2>2 DEF Kill, TenantInv, Running
  <2> QED
    BY <2>1, <2>2
<1>2. onboarding' = Idle /\ (tenant' = tenant \/ tenant' = NoTenant)
  BY DEF RollbackTenant, Kill, End
<1> QED
  BY <1>1, <1>2 DEF TenantInv

(* Scrapes, classifications and queries leave tenant and onboarding alone.   *)
LEMMA OthersLeaveTheTenant ==
    ASSUME [Next]_vars
    PROVE  \/ UNCHANGED <<tenant, onboarding>>
           \/ CreateTenant \/ (\E t \in Tuples : Discover(t)) \/ CreateMappings
           \/ ActivateSubscriptions \/ RollbackTenant \/ Kill
<1>1. CASE UNCHANGED vars
  BY <1>1 DEF vars
<1>2. CASE (\E t \in Tuples : PersistPvcs(t)) \/ PersistZones \/ PersistObservations
           \/ MarkSuccess \/ StopScrape \/ \E c \in Categories : Reclassify(c)
  BY <1>2 DEF PersistPvcs, PersistZones, PersistObservations, MarkSuccess, StopScrape, Reclassify
<1>3. CASE Ask \/ Answer
           \/ \E t \in Tuples : ResolveMappings(t) \/ LoadZones(t) \/ FetchObservations(t)
  BY <1>3 DEF Ask, Answer, ResolveMappings, LoadZones, FetchObservations
<1> QED
  BY <1>1, <1>2, <1>3 DEF Next

LEMMA NextTenant == TenantInv /\ [Next]_vars => TenantInv'
<1> SUFFICES ASSUME TenantInv, [Next]_vars PROVE TenantInv'
  OBVIOUS
<1>1. CASE UNCHANGED <<tenant, onboarding>>
  BY <1>1 DEF TenantInv, Running, Complete
<1> QED
  BY <1>1, OthersLeaveTheTenant, CreateTenantStep, RunningStep, ActivateStep, EndStep

(* A tenant whose onboarding has ended, in whatever way, is complete, absent *)
(* or a bare root row (cli.py, rollback.py).                                *)
THEOREM OnboardingIsAllOrNothing == Spec => []OnboardingAllOrNothing
<1>1. TenantInv => OnboardingAllOrNothing
  <2> SUFFICES ASSUME TenantInv, onboarding = Idle, tenant # NoTenant, tenant # Bare
               PROVE  \E f \in Configs :
                        /\ tenant.groups = Groups /\ DOMAIN tenant.status = f.tuples
                        /\ {m[1] : m \in tenant.mapped} = {m[1] : m \in f.mappings}
                        /\ Cardinality(tenant.mapped) = Cardinality(f.mappings)
    BY DEF OnboardingAllOrNothing, Bare
  <2>1. Complete
    BY DEF TenantInv, Idle
  <2>2. tenant.groups = Groups
    BY <2>1 DEF Complete
  <2> QED
    BY <2>1, <2>2 DEF Complete, Faithful, GroupsOf
<1> QED
  BY InitTenant, NextTenant, <1>1, PTL DEF Spec

(* No run of onboarding changes a tenant an earlier one completed.           *)
THEOREM RerunsSpareTheTenant == Spec => RerunSparesTenant
<1>1. TenantInv /\ [Next]_vars => [tenant.groups # {} => tenant' = tenant]_vars
  <2> SUFFICES ASSUME TenantInv, [Next]_vars, tenant.groups # {} PROVE tenant' = tenant
    OBVIOUS
  <2>1. tenant # NoTenant /\ tenant # Bare
    BY DEF NoTenant, Bare
  <2>2. onboarding = Idle /\ Complete
    BY <2>1 DEF TenantInv, Running
  <2>3. tenant.row
    BY <2>2 DEF Complete
  <2>4. onboarding.step = "idle"
    BY <2>2 DEF Idle
  <2>5. CASE CreateTenant
    BY <2>3, <2>5 DEF CreateTenant
  <2> QED
    BY <2>2, <2>4, <2>5, OthersLeaveTheTenant
       DEF Discover, CreateMappings, ActivateSubscriptions, RollbackTenant, Kill, Step
<1> QED
  BY InitTenant, NextTenant, <1>1, PTL DEF Spec, RerunSparesTenant

-----------------------------------------------------------------------------
(* The precondition of _find_representative (service.py:537): a period of  *)
(* the intersected grid lies entirely within a season or outside of it,    *)
(* for any seasons of any number of subscriptions and any date range.      *)

Zone == [from : Int, to : Int, rep : Int]

\* Every cut point is a day of the range or the day after it.
LEMMA CutPointsInRange ==
  ASSUME NEW zones, NEW d1 \in Int, NEW d2 \in Int, d1 <= d2
  PROVE  CutPoints(zones, d1, d2) \subseteq d1..(d2 + 1)
BY DEF CutPoints

\* A period of the grid is a nonempty part of the range between two
\* consecutive cut points.
LEMMA PeriodIsBetweenCuts ==
  ASSUME NEW zones, NEW d1 \in Int, NEW d2 \in Int, d1 <= d2,
         NEW p \in ComputeIntersectedGrid(zones, d1, d2)
  PROVE  /\ p.from \in Int /\ p.to \in Int
         /\ d1 <= p.from /\ p.from <= p.to /\ p.to <= d2
         /\ \A r \in CutPoints(zones, d1, d2) : r <= p.from \/ p.to + 1 <= r
<1> DEFINE cuts == CutPoints(zones, d1, d2)
<1>1. PICK q \in cuts \X cuts :
           /\ q[1] < q[2]
           /\ \A r \in cuts : r <= q[1] \/ q[2] <= r
           /\ p = [from |-> q[1], to |-> q[2] - 1]
  BY DEF ComputeIntersectedGrid
<1>2. cuts \subseteq d1..(d2 + 1)
  BY CutPointsInRange
<1>3. q[1] \in d1..(d2 + 1) /\ q[2] \in d1..(d2 + 1)
  BY <1>1, <1>2
<1> HIDE DEF cuts
<1>4. p.from = q[1] /\ p.to = q[2] - 1
  BY <1>1
<1>5. p.to + 1 = q[2]
  BY <1>3, <1>4
<1>6. \A r \in cuts : r <= p.from \/ p.to + 1 <= r
  BY <1>1, <1>4, <1>5
<1>7. p.from \in Int /\ p.to \in Int /\ d1 <= p.from /\ p.from <= p.to /\ p.to <= d2
  BY <1>1, <1>3, <1>4
<1> QED
  BY <1>6, <1>7 DEF cuts

LEMMA PeriodEndsAreCuts ==
  ASSUME NEW zones, NEW d1 \in Int, NEW d2 \in Int, d1 <= d2,
         NEW p \in ComputeIntersectedGrid(zones, d1, d2)
  PROVE  p.from \in CutPoints(zones, d1, d2) /\ p.to + 1 \in CutPoints(zones, d1, d2)
<1> DEFINE cuts == CutPoints(zones, d1, d2)
<1>1. PICK q \in cuts \X cuts : p = [from |-> q[1], to |-> q[2] - 1]
  BY DEF ComputeIntersectedGrid
<1>2. q[1] \in cuts /\ q[2] \in cuts /\ q[2] \in Int
  BY <1>1, CutPointsInRange
<1> HIDE DEF cuts
<1>3. p.from = q[1] /\ p.to + 1 = q[2]
  BY <1>1, <1>2
<1> QED
  BY <1>2, <1>3 DEF cuts

\* A season that overlaps the range cuts it where it starts and after it ends.
LEMMA SeasonsCut ==
  ASSUME NEW zones \in SUBSET Zone, NEW d1 \in Int, NEW d2 \in Int, d1 <= d2,
         NEW z \in zones, z.from <= z.to, z.from <= d2, d1 <= z.to
  PROVE  /\ z.from >= d1 => z.from \in CutPoints(zones, d1, d2)
         /\ z.to <= d2 => z.to + 1 \in CutPoints(zones, d1, d2)
<1>1. z.from \in Int /\ z.to \in Int
  BY DEF Zone
<1>2. z.from >= d1 => z.from \in CutPoints(zones, d1, d2)
  BY <1>1 DEF CutPoints
<1>3. z.to <= d2 => z.to + 1 \in CutPoints(zones, d1, d2)
  BY <1>1 DEF CutPoints
<1> QED
  BY <1>2, <1>3

\* A period of the grid that shares a day with a season lies inside it, so
\* _find_representative never meets a period that crosses a season.
THEOREM GridRefinesSeasons ==
  ASSUME NEW zones \in SUBSET Zone, NEW d1 \in Int, NEW d2 \in Int, d1 <= d2,
         NEW z \in zones, z.from <= z.to,
         NEW p \in ComputeIntersectedGrid(zones, d1, d2),
         NEW day \in Int, p.from <= day, day <= p.to, z.from <= day, day <= z.to
  PROVE  z.from <= p.from /\ p.to <= z.to
<1>1. z.from \in Int /\ z.to \in Int
  BY DEF Zone
<1>2. /\ p.from \in Int /\ p.to \in Int
      /\ d1 <= p.from /\ p.to <= d2
      /\ \A r \in CutPoints(zones, d1, d2) : r <= p.from \/ p.to + 1 <= r
  BY PeriodIsBetweenCuts
<1>3. z.from <= d2 /\ d1 <= z.to
  BY <1>1, <1>2
<1>4. /\ z.from >= d1 => z.from \in CutPoints(zones, d1, d2)
      /\ z.to <= d2 => z.to + 1 \in CutPoints(zones, d1, d2)
  BY <1>3, SeasonsCut
<1>5. z.from <= p.from
  <2>1. CASE z.from < d1
    BY <2>1, <1>1, <1>2
  <2>2. CASE z.from >= d1
    <3>1. z.from <= p.from \/ p.to + 1 <= z.from
      BY <2>2, <1>2, <1>4
    <3> QED
      BY <3>1, <1>1, <1>2
  <2> QED
    BY <2>1, <2>2, <1>1
<1>6. p.to <= z.to
  <2>1. CASE z.to > d2
    BY <2>1, <1>1, <1>2
  <2>2. CASE z.to <= d2
    <3>1. z.to + 1 <= p.from \/ p.to + 1 <= z.to + 1
      BY <2>2, <1>2, <1>4
    <3> QED
      BY <3>1, <1>1, <1>2
  <2> QED
    BY <2>1, <2>2, <1>1
<1> QED
  BY <1>5, <1>6

\* No day lies in two periods of the grid: no row of a client group is priced
\* twice.
THEOREM PeriodsAreDisjoint ==
  ASSUME NEW zones, NEW d1 \in Int, NEW d2 \in Int, d1 <= d2,
         NEW p \in ComputeIntersectedGrid(zones, d1, d2),
         NEW q \in ComputeIntersectedGrid(zones, d1, d2),
         NEW day \in Int, p.from <= day, day <= p.to, q.from <= day, day <= q.to
  PROVE  p = q
<1> DEFINE cuts == CutPoints(zones, d1, d2)
<1>1. /\ p.from \in Int /\ p.to \in Int /\ p.from \in cuts /\ p.to + 1 \in cuts
      /\ \A r \in cuts : r <= p.from \/ p.to + 1 <= r
  BY PeriodIsBetweenCuts, PeriodEndsAreCuts
<1>2. /\ q.from \in Int /\ q.to \in Int /\ q.from \in cuts /\ q.to + 1 \in cuts
      /\ \A r \in cuts : r <= q.from \/ q.to + 1 <= r
  BY PeriodIsBetweenCuts, PeriodEndsAreCuts
<1> HIDE DEF cuts
<1>3. p.from <= q.from
  <2>1. p.from <= q.from \/ q.to + 1 <= p.from
    BY <1>1, <1>2
  <2> QED
    BY <2>1, <1>1, <1>2
<1>4. q.from <= p.from
  <2>1. q.from <= p.from \/ p.to + 1 <= q.from
    BY <1>1, <1>2
  <2> QED
    BY <2>1, <1>1, <1>2
<1>5. p.to <= q.to
  <2>1. q.to + 1 <= p.from \/ p.to + 1 <= q.to + 1
    BY <1>1, <1>2
  <2> QED
    BY <2>1, <1>1, <1>2
<1>6. q.to <= p.to
  <2>1. p.to + 1 <= q.from \/ q.to + 1 <= p.to + 1
    BY <1>1, <1>2
  <2> QED
    BY <2>1, <1>1, <1>2
<1>7. p.from = q.from /\ p.to = q.to
  BY <1>1, <1>2, <1>3, <1>4, <1>5, <1>6
<1>8. p = [from |-> p.from, to |-> p.to] /\ q = [from |-> q.from, to |-> q.to]
  BY DEF ComputeIntersectedGrid
<1> QED
  BY <1>7, <1>8

LEMMA NeighboursOfDay ==
  ASSUME NEW cuts \in SUBSET Nat, NEW day \in Nat, NEW a \in cuts, a <= day, NEW b \in cuts, day < b
  PROVE  \E low \in cuts, high \in cuts :
            low <= day /\ day < high /\ \A r \in cuts : r <= low \/ high <= r
<1> DEFINE before == {r \in cuts : r <= day}
           after == {r \in cuts : day < r}
<1>1. before \in SUBSET Int /\ before # {} /\ \A r \in before : r <= day
  <2>1. a \in before /\ \A r \in before : r \in Int /\ r <= day
    OBVIOUS
  <2> QED
    BY <2>1
<1>2. after \in SUBSET Nat /\ after # {}
  <2>1. b \in after /\ \A r \in after : r \in Nat
    OBVIOUS
  <2> QED
    BY <2>1
<1> HIDE DEF before, after
<1>3. PICK low \in before : \A r \in before : r <= low
  <2>1. day \in Int /\ \A r \in before : r <= day
    BY <1>1
  <2>2. Max(before) \in before /\ \A r \in before : r <= Max(before)
    BY <1>1, <2>1, MaxOfBounded
  <2> QED
    BY <2>2
<1>4. PICK high \in after : \A r \in after : high <= r
  BY <1>2, MinOfNaturals
<1> QED
  BY <1>3, <1>4 DEF before, after

\* Every day of the range lies in a period of the grid.
LEMMA GridCoversRange ==
  ASSUME NEW zones, NEW d1 \in Nat, NEW d2 \in Nat, NEW day \in d1..d2
  PROVE  \E p \in ComputeIntersectedGrid(zones, d1, d2) : p.from <= day /\ day <= p.to
<1> DEFINE cuts == CutPoints(zones, d1, d2)
<1>1. cuts \subseteq d1..(d2 + 1) /\ d1 \in cuts /\ d2 + 1 \in cuts
  BY CutPointsInRange DEF CutPoints
<1> HIDE DEF cuts
<1>2. cuts \in SUBSET Nat /\ day \in Nat /\ d1 <= day /\ day < d2 + 1
  <2>1. \A r \in cuts : r \in Nat
    BY <1>1
  <2> QED
    BY <2>1
<1> PICK last \in cuts : last = d2 + 1
  BY <1>1
<1>3. PICK low \in cuts, high \in cuts :
         low <= day /\ day < high /\ \A r \in cuts : r <= low \/ high <= r
  <2>1. d1 \in cuts /\ d1 <= day /\ day < last
    BY <1>1, <1>2
  <2> QED
    BY <1>2, <2>1, NeighboursOfDay
<1>6. low \in Int /\ high \in Int
  BY <1>2
<1>7. \A r \in cuts : r <= low \/ high <= r
  BY <1>3
<1> DEFINE p == [from |-> low, to |-> high - 1]
<1>8. p \in ComputeIntersectedGrid(zones, d1, d2)
  <2>1. <<low, high>> \in cuts \X cuts /\ d1 <= d2 /\ low < high
    BY <1>3, <1>6
  <2> QED
    BY <2>1, <1>7 DEF ComputeIntersectedGrid, cuts
<1>9. p.from <= day /\ day <= p.to
  BY <1>3, <1>6
<1> QED
  BY <1>8, <1>9

-----------------------------------------------------------------------------
(* What one subscription contributes: read by the grid or by the calendar, *)
(* the same price on every day.                                            *)

\* Two categories have the same seasons, unless one of them has none.
OneCalendar(zones, categories) ==
    \A c, k \in categories : zones[c] = {} \/ zones[k] = {} \/ zones[c] = zones[k]

\* The seasons of a subscription are those of its categories, at least one of
\* which has some; each category has a price or none on each day.
Contribution(data, groups) ==
    LET categories == UNION {data.groups[g] : g \in groups}
    IN /\ DOMAIN data.groups = groups
       /\ DOMAIN data.zones = categories
       /\ \A c \in categories : /\ data.zones[c] \subseteq Zones /\ Disjoint(data.zones[c])
                                /\ data.price[c] \in [Days -> Nat \cup {Missing}]
       /\ OneCalendar(data.zones, categories)
       /\ \E c \in categories : data.zones[c] # {}

LEMMA ZonesAreInt ==
  ASSUME NEW z \in Zones
  PROVE  z \in Zone /\ z.from <= z.to /\ z.rep \in Days /\ z.rep \in Nat /\ z.rep # Missing
BY TenantAssumption, MissingPriceAssumption DEF Zones, Zone, Days

\* The season found for a period is the one that contains any of its days.
\* A row p that holds a day shows the representative of the day's own zone.
RowShows(zones, p, day) ==
    /\ \A z \in zones : z.from <= day /\ day <= z.to => FindRepresentative(zones, p) = z.rep
    /\ (\A z \in zones : ~ (z.from <= day /\ day <= z.to)) => FindRepresentative(zones, p) = Missing

LEMMA RepresentativeOfDay ==
  ASSUME NEW all \in SUBSET Zones, NEW zones \in SUBSET all, Disjoint(zones),
         NEW d1 \in Int, NEW d2 \in Int, d1 <= d2,
         NEW p \in ComputeIntersectedGrid(all, d1, d2),
         NEW day \in Int, p.from <= day, day <= p.to
  PROVE  RowShows(zones, p, day)
<1> DEFINE around == {z \in zones : z.from <= p.from /\ p.to <= z.to}
<1>1. p.from \in Int /\ p.to \in Int
  BY PeriodIsBetweenCuts
<1>2. \A z \in zones : z \in Zone /\ z.from <= z.to /\ z.from \in Int /\ z.to \in Int
  BY ZonesAreInt DEF Zone
<1>3. all \in SUBSET Zone
  BY ZonesAreInt
<1>4. \A z \in zones : z.from <= day /\ day <= z.to => z \in around
  BY <1>2, <1>3, GridRefinesSeasons
<1>5. \A z \in around : z.from <= day /\ day <= z.to
  BY <1>1, <1>2
<1>6. \A y, z \in around : y = z
  BY <1>2, <1>5 DEF Disjoint
<1>7. FindRepresentative(zones, p) = IF around = {} THEN Missing ELSE (CHOOSE z \in around : TRUE).rep
  BY DEF FindRepresentative
<1> HIDE DEF around
<1>8. ASSUME NEW z \in zones, z.from <= day, day <= z.to PROVE FindRepresentative(zones, p) = z.rep
  <2>1. z \in around /\ (CHOOSE y \in around : TRUE) \in around
    BY <1>4, <1>8
  <2>2. (CHOOSE y \in around : TRUE) = z
    BY <1>6, <2>1
  <2> QED
    BY <1>7, <2>1, <2>2
<1>9. ASSUME \A z \in zones : ~ (z.from <= day /\ day <= z.to) PROVE FindRepresentative(zones, p) = Missing
  <2>1. around = {}
    BY <1>5, <1>9 DEF around
  <2> QED
    BY <1>7, <2>1
<1> QED
  BY <1>8, <1>9 DEF RowShows

PricesOf(data, g, day) ==
    (UNION {{data.price[c][z.rep] : z \in {y \in data.zones[c] : y.from <= day /\ day <= y.to}} :
               c \in data.groups[g]}) \ {Missing}

LEMMA PricesOfElement ==
  ASSUME NEW data, NEW g, NEW day, NEW v
  PROVE  v \in PricesOf(data, g, day) <=>
            /\ v # Missing
            /\ \E c \in data.groups[g] : \E z \in data.zones[c] :
                  z.from <= day /\ day <= z.to /\ v = data.price[c][z.rep]
<1> DEFINE on(c) == {data.price[c][z.rep] : z \in {y \in data.zones[c] : y.from <= day /\ day <= y.to}}
           found == UNION {on(c) : c \in data.groups[g]}
<1>1. \A c : v \in on(c) <=> \E z \in data.zones[c] : z.from <= day /\ day <= z.to /\ v = data.price[c][z.rep]
  OBVIOUS
<1>2. PricesOf(data, g, day) = found \ {Missing}
  BY DEF PricesOf
<1> HIDE DEF on
<1>3. v \in found <=> \E c \in data.groups[g] : v \in on(c)
  OBVIOUS
<1> HIDE DEF found
<1> QED
  BY <1>1, <1>2, <1>3

LEMMA PricesAreNatural ==
  ASSUME NEW groups, NEW data, Contribution(data, groups), NEW g \in groups, NEW day
  PROVE  PricesOf(data, g, day) \in SUBSET Nat
<1> SUFFICES ASSUME NEW v \in PricesOf(data, g, day) PROVE v \in Nat
  OBVIOUS
<1>1. PICK c \in data.groups[g] : \E z \in data.zones[c] : v = data.price[c][z.rep]
  BY PricesOfElement
<1>2. PICK z \in data.zones[c] : v = data.price[c][z.rep]
  BY <1>1
<1>3. data.zones[c] \subseteq Zones /\ data.price[c] \in [Days -> Nat \cup {Missing}]
  BY DEF Contribution
<1>4. z.rep \in Days
  BY <1>2, <1>3, ZonesAreInt
<1> QED
  BY <1>2, <1>3, <1>4, PricesOfElement

LEMMA ContributionOfDay ==
  ASSUME NEW groups, NEW data, Contribution(data, groups), NEW g \in groups,
         NEW all \in SUBSET Zones, \A c \in data.groups[g] : data.zones[c] \subseteq all,
         NEW d1 \in Int, NEW d2 \in Int, d1 <= d2,
         NEW p \in ComputeIntersectedGrid(all, d1, d2),
         NEW day \in Int, p.from <= day, day <= p.to
  PROVE  ContributionOf(data, g, p) = PriceOn(data, g, day)
<1> DEFINE rep(c) == FindRepresentative(data.zones[c], p)
           found == {data.price[c][rep(c)] :
                        c \in {k \in data.groups[g] : rep(k) # Missing /\ data.price[k][rep(k)] # Missing}}
<1>1. ASSUME NEW c \in data.groups[g]
      PROVE  /\ \A z \in data.zones[c] : z.from <= day /\ day <= z.to => rep(c) = z.rep
             /\ (\A z \in data.zones[c] : ~ (z.from <= day /\ day <= z.to)) => rep(c) = Missing
             /\ \A z \in data.zones[c] : z.rep # Missing
  <2> PICK zones : zones = data.zones[c]
    OBVIOUS
  <2>1. zones \in SUBSET all /\ Disjoint(zones)
    BY DEF Contribution
  <2>2. \A z \in zones : z.rep # Missing
    BY <2>1, ZonesAreInt
  <2>3. RowShows(zones, p, day)
    BY <2>1, RepresentativeOfDay
  <2> QED
    BY <2>2, <2>3 DEF RowShows
<1>2. ContributionOf(data, g, p) = CheapestIn(found)
  BY DEF ContributionOf
<1>3. PriceOn(data, g, day) = CheapestIn(PricesOf(data, g, day))
  BY DEF PriceOn, PricesOf
<1> HIDE DEF rep
<1>4. \A v : v \in found <=> v \in PricesOf(data, g, day)
  BY <1>1, PricesOfElement
<1> HIDE DEF found
<1>5. found = PricesOf(data, g, day)
  BY <1>4
<1> QED
  BY <1>2, <1>3, <1>5

-----------------------------------------------------------------------------
(* The rows of the market tariff that cover a day.                         *)

SumOf(f, D) == MapThenSumSet(LAMBDA d : f[d], D)

\* The sum of finitely many natural numbers is one.
LEMMA SumIsNatural ==
  ASSUME NEW D, IsFiniteSet(D), NEW f, \A d \in D : f[d] \in Nat
  PROVE  SumOf(f, D) \in Nat
<1> DEFINE pick(s) == CHOOSE x \in s : TRUE
           Body(g, s) == IF s = {} THEN 0 ELSE f[pick(s)] + g[s \ {pick(s)}]
           Level(n) == {s \in SUBSET D : Cardinality(s) <= n}
           Sums(n) == \E g : g = [s \in Level(n) |-> Body(g, s)]
           iter == CHOOSE g : g = [s \in SUBSET D |-> Body(g, s)]
<1>1. SumOf(f, D) = iter[D]
  BY DEF SumOf, MapThenSumSet, MapThenFoldSet
<1>2. \A s \in SUBSET D : IsFiniteSet(s) /\ Cardinality(s) \in Nat /\ (Cardinality(s) = 0 <=> s = {})
  BY FS_Subset, FS_CardinalityType, FS_EmptySet
<1>3. ASSUME NEW s \in SUBSET D, s # {}
      PROVE  /\ pick(s) \in D /\ s \ {pick(s)} \in SUBSET D
             /\ Cardinality(s \ {pick(s)}) = Cardinality(s) - 1
  BY <1>2, <1>3, FS_RemoveElement
<1> HIDE DEF pick
<1>4. \A n \in Nat : Sums(n)
  <2> DEFINE T == {n \in Nat : Sums(n)}
  <2>1. Sums(0)
    <3> DEFINE h == [s \in Level(0) |-> 0]
    <3>1. \A s \in Level(0) : s = {}
      BY <1>2
    <3>2. h = [s \in Level(0) |-> Body(h, s)]
      BY <3>1
    <3> QED BY <3>2
  <2>2. ASSUME NEW n \in Nat, Sums(n) PROVE Sums(n + 1)
    <3>1. PICK g : g = [s \in Level(n) |-> Body(g, s)]
      BY <2>2
    <3> DEFINE h == [s \in Level(n + 1) |-> Body(g, s)]
    <3>2. ASSUME NEW s \in Level(n + 1), s # {}
          PROVE  s \ {pick(s)} \in Level(n) /\ s \ {pick(s)} \in Level(n + 1)
      BY <3>2, <1>2, <1>3
    <3>3. ASSUME NEW s \in Level(n) PROVE s \in Level(n + 1) /\ h[s] = g[s]
      <4>1. s \in Level(n + 1)
        BY <1>2
      <4> QED BY <4>1, <3>1
    <3> HIDE DEF Level
    <3>4. ASSUME NEW s \in Level(n + 1) PROVE Body(h, s) = Body(g, s)
      <4>1. CASE s = {}
        BY <4>1
      <4>2. CASE s # {}
        <5>1. h[s \ {pick(s)}] = g[s \ {pick(s)}]
          BY <4>2, <3>2, <3>3
        <5> QED BY <5>1, <4>2
      <4> QED BY <4>1, <4>2
    <3>5. h = [s \in Level(n + 1) |-> Body(h, s)]
      BY <3>4
    <3> QED BY <3>5
  <2> HIDE DEF Sums
  <2>3. T \in SUBSET Nat /\ 0 \in T /\ \A n \in T : n + 1 \in T
    BY <2>1, <2>2
  <2> HIDE DEF T
  <2>4. T = Nat
    BY <2>3, InductionOverNat
  <2> QED BY <2>4 DEF T
<1>5. iter = [s \in SUBSET D |-> Body(iter, s)]
  <2>1. Cardinality(D) \in Nat /\ \A s \in SUBSET D : Cardinality(s) <= Cardinality(D)
    BY FS_Subset, FS_CardinalityType
  <2>2. Level(Cardinality(D)) = SUBSET D
    BY <2>1
  <2>3. Sums(Cardinality(D))
    BY <2>1, <1>4
  <2>4. \E g : g = [s \in SUBSET D |-> Body(g, s)]
    <3> HIDE DEF Level
    <3> QED BY <2>2, <2>3
  <2> QED BY <2>4
<1> HIDE DEF iter, Level, Sums
<1>6. iter[{}] = 0
  BY <1>5
<1>7. ASSUME NEW s \in SUBSET D, s # {} PROVE iter[s] = f[pick(s)] + iter[s \ {pick(s)}]
  BY <1>5, <1>7
<1> DEFINE T == {n \in Nat : \A s \in SUBSET D : Cardinality(s) = n => iter[s] \in Nat}
<1>8. 0 \in T
  BY <1>2, <1>6
<1>9. ASSUME NEW n \in T PROVE n + 1 \in T
  <2> SUFFICES ASSUME NEW s \in SUBSET D, Cardinality(s) = n + 1 PROVE iter[s] \in Nat
    OBVIOUS
  <2>1. s # {}
    BY <1>2
  <2>2. pick(s) \in D /\ s \ {pick(s)} \in SUBSET D /\ Cardinality(s \ {pick(s)}) = n
    BY <1>3, <2>1
  <2>3. iter[s \ {pick(s)}] \in Nat
    BY <2>2
  <2> QED BY <1>7, <2>1, <2>2, <2>3
<1>10. T \in SUBSET Nat
  OBVIOUS
<1> HIDE DEF T
<1>11. Cardinality(D) \in T
  BY <1>2, <1>8, <1>9, <1>10, InductionOverNat
<1> QED BY <1>1, <1>11 DEF T

\* The mean is rounded by half a cent at most.
LEMMA HalfEvenIsNear ==
  ASSUME NEW total \in Int, NEW n \in Nat \ {0}
  PROVE  /\ 2 * (HalfEven(total, n) * n - total) \in -n..n
         /\ total \in Nat => HalfEven(total, n) \in Nat
<1> DEFINE q == total \div n
           rest == total % n
<1>1. q \in Int /\ rest \in Int /\ total = n * q + rest /\ 0 <= rest /\ rest < n
  OBVIOUS
<1>1a. total \in Nat => q \in Nat
  OBVIOUS
<1>2. HalfEven(total, n) = IF 2 * rest > n \/ (2 * rest = n /\ q % 2 = 1) THEN q + 1 ELSE q
  BY DEF HalfEven
<1> HIDE DEF q, rest
<1>3. q * n = n * q /\ (q + 1) * n = n * q + n
  BY <1>1
<1>4. CASE HalfEven(total, n) = q + 1 /\ 2 * rest >= n
  BY <1>1, <1>3, <1>4
<1>5. CASE HalfEven(total, n) = q /\ 2 * rest <= n
  BY <1>1, <1>3, <1>5
<1> QED
  BY <1>1, <1>1a, <1>2, <1>4, <1>5

Contributions(subs, groups) == \A s \in DOMAIN subs : Contribution(subs[s], groups)
AllZones(subs) == UNION {UNION {subs[s].zones[c] : c \in DOMAIN subs[s].zones} : s \in DOMAIN subs}
OnDay(rows, g, day) == {r \in rows : r.group = g /\ r.from <= day /\ day <= r.to}

LEMMA AllZonesAreZones ==
  ASSUME NEW groups, NEW subs, Contributions(subs, groups)
  PROVE  /\ AllZones(subs) \in SUBSET Zones
         /\ \A s \in DOMAIN subs, g \in groups : \A c \in subs[s].groups[g] : subs[s].zones[c] \subseteq AllZones(subs)
         /\ DOMAIN subs # {} => AllZones(subs) # {}
<1>1. ASSUME NEW s \in DOMAIN subs, NEW c \in DOMAIN subs[s].zones
      PROVE  subs[s].zones[c] \subseteq Zones
  BY DEF Contributions, Contribution
<1>2. ASSUME NEW s \in DOMAIN subs, NEW g \in groups, NEW c \in subs[s].groups[g]
      PROVE  c \in DOMAIN subs[s].zones
  <2> PICK data : data = subs[s]
    OBVIOUS
  <2>1. Contribution(data, groups)
    BY DEF Contributions
  <2>2. c \in UNION {data.groups[h] : h \in groups}
    OBVIOUS
  <2> QED
    BY <2>1, <2>2 DEF Contribution
<1>3. ASSUME NEW s \in DOMAIN subs PROVE \E c \in DOMAIN subs[s].zones : subs[s].zones[c] # {}
  <2> PICK data : data = subs[s]
    OBVIOUS
  <2>1. Contribution(data, groups)
    BY DEF Contributions
  <2>2. \E c \in DOMAIN data.zones : data.zones[c] # {}
    BY <2>1 DEF Contribution
  <2> QED
    BY <2>2
<1> QED
  BY <1>1, <1>2, <1>3 DEF AllZones

\* The only row has this aggregate and counts the subscriptions with a price.
OneRow(rows, aggregate, own) ==
    \E r : /\ rows = {r} /\ r.price = Aggregate(aggregate, own)
           /\ r.coverage = Cardinality({s \in DOMAIN own : own[s] # Missing})

\* One row of a client group covers a day, and it says of the day what the
\* subscriptions do.
LEMMA RowOfDay ==
  ASSUME NEW groups, NEW subs, Contributions(subs, groups), DOMAIN subs # {},
         NEW g \in groups, NEW d1 \in Nat, NEW d2 \in Nat, NEW day \in d1..d2, NEW aggregate,
         NEW own, own = [s \in DOMAIN subs |-> PriceOn(subs[s], g, day)]
  PROVE  OneRow(OnDay(MarketTariff(aggregate, subs, groups, d1, d2), g, day), aggregate, own)
<1> DEFINE zones == AllZones(subs)
           grid == ComputeIntersectedGrid(zones, d1, d2)
           from(h, p) == [s \in DOMAIN subs |-> ContributionOf(subs[s], h, p)]
           row(h, p) == [group |-> h, from |-> p.from, to |-> p.to,
                         price |-> Aggregate(aggregate, from(h, p)),
                         coverage |-> Cardinality({s \in DOMAIN subs : from(h, p)[s] # Missing})]
           rows == MarketTariff(aggregate, subs, groups, d1, d2)
<1>1. /\ zones \in SUBSET Zones /\ zones # {}
      /\ \A s \in DOMAIN subs : \A c \in subs[s].groups[g] : subs[s].zones[c] \subseteq zones
  BY AllZonesAreZones
<1>2. rows = {row(h, p) : h \in groups, p \in grid}
  BY <1>1 DEF MarketTariff, AllZones
<1>3. d1 <= d2 /\ day \in Int /\ d1 \in Int /\ d2 \in Int
  OBVIOUS
<1> HIDE DEF zones
<1>4. PICK p \in grid : p.from <= day /\ day <= p.to
  BY GridCoversRange
<1> PICK all : all = zones
  OBVIOUS
<1>4a. all \in SUBSET Zones /\ p \in ComputeIntersectedGrid(all, d1, d2)
  BY <1>1, <1>4
<1>5. \A q \in grid : q.from <= day /\ day <= q.to => q = p
  BY <1>3, <1>4, PeriodsAreDisjoint
<1>6. from(g, p) = own
  <2> SUFFICES ASSUME NEW s \in DOMAIN subs PROVE ContributionOf(subs[s], g, p) = PriceOn(subs[s], g, day)
    OBVIOUS
  <2> PICK data : data = subs[s]
    OBVIOUS
  <2>1. Contribution(data, groups) /\ \A c \in data.groups[g] : data.zones[c] \subseteq all
    BY <1>1 DEF Contributions
  <2> HIDE DEF grid, from, row, rows
  <2>2. ContributionOf(data, g, p) = PriceOn(data, g, day)
    BY <1>3, <1>4, <1>4a, <2>1, ContributionOfDay
  <2> QED
    BY <2>2
<1> HIDE DEF from, grid
<1>7. row(g, p).price = Aggregate(aggregate, own)
      /\ row(g, p).coverage = Cardinality({s \in DOMAIN subs : own[s] # Missing})
  BY <1>6
<1>8. \A h, q : row(h, q).group = h /\ row(h, q).from = q.from /\ row(h, q).to = q.to
  OBVIOUS
<1> HIDE DEF row, rows
<1>9. OnDay(rows, g, day) = {row(g, p)}
  BY <1>2, <1>4, <1>5, <1>8 DEF OnDay
<1>10. DOMAIN own = DOMAIN subs
  OBVIOUS
<1> QED
  BY <1>7, <1>9, <1>10 DEF rows, OneRow

\* What a subscription asks on a day is a price or nothing.
LEMMA PriceOnIsTyped ==
  ASSUME NEW groups, NEW data, Contribution(data, groups), NEW g \in groups, NEW day
  PROVE  PriceOn(data, g, day) \in Nat \cup {Missing}
<1> PICK prices : prices = PricesOf(data, g, day)
  OBVIOUS
<1>1. prices \in SUBSET Nat
  BY PricesAreNatural
<1>2. PriceOn(data, g, day) = CheapestIn(prices)
  BY DEF PriceOn, PricesOf
<1> QED
  BY <1>1, <1>2, MinOfNaturals DEF CheapestIn

\* What the categories without seasons have on the representative date of the
\* season of a day.
SeasonsOn(data, g, day) ==
    {z \in UNION {data.zones[c] : c \in data.groups[g]} : z.from <= day /\ day <= z.to}
UnzonedOf(data, g, day) ==
    UNION {{data.price[c][z.rep] : c \in {k \in data.groups[g] : data.zones[k] = {}}} :
             z \in SeasonsOn(data, g, day)}

LEMMA UnzonedElement ==
  ASSUME NEW data, NEW g, NEW day, NEW v
  PROVE  v \in UnzonedOf(data, g, day) <=>
            \E z \in SeasonsOn(data, g, day), c \in data.groups[g] :
               data.zones[c] = {} /\ v = data.price[c][z.rep]
<1> DEFINE at(z) == {data.price[c][z.rep] : c \in {k \in data.groups[g] : data.zones[k] = {}}}
<1>1. \A z : v \in at(z) <=> \E c \in data.groups[g] : data.zones[c] = {} /\ v = data.price[c][z.rep]
  OBVIOUS
<1>2. UnzonedOf(data, g, day) = UNION {at(z) : z \in SeasonsOn(data, g, day)}
  BY DEF UnzonedOf
<1> HIDE DEF at
<1> QED
  BY <1>1, <1>2

LEMMA UnzonedAreNatural ==
  ASSUME NEW groups, NEW data, Contribution(data, groups), NEW g \in groups, NEW day
  PROVE  UnzonedOf(data, g, day) \ {Missing} \in SUBSET Nat
<1> SUFFICES ASSUME NEW v \in UnzonedOf(data, g, day), v # Missing PROVE v \in Nat
  OBVIOUS
<1>1. PICK z \in SeasonsOn(data, g, day), c \in data.groups[g] : v = data.price[c][z.rep]
  BY UnzonedElement
<1>2. PICK k \in data.groups[g] : z \in data.zones[k]
  BY <1>1 DEF SeasonsOn
<1>3. data.zones[k] \subseteq Zones /\ data.price[c] \in [Days -> Nat \cup {Missing}]
  BY DEF Contribution
<1>4. z.rep \in Days
  BY <1>2, <1>3, ZonesAreInt
<1> QED
  BY <1>1, <1>3, <1>4

\* Some category of the group has the season of a day, and it is the only one.
LEMMA OneSeasonOn ==
  ASSUME NEW groups, NEW data, Contribution(data, groups), NEW g \in groups, NEW day \in Nat,
         NEW z \in SeasonsOn(data, g, day)
  PROVE  /\ \A c \in data.groups[g] : data.zones[c] # {} => z \in data.zones[c]
         /\ \A c \in data.groups[g] : \A y \in data.zones[c] : y.from <= day /\ day <= y.to => y = z
<1>1. PICK k \in data.groups[g] : z \in data.zones[k]
  BY DEF SeasonsOn
<1>2. z.from <= day /\ day <= z.to
  BY DEF SeasonsOn
<1>3. \A c \in data.groups[g] : data.zones[c] # {} => data.zones[c] = data.zones[k]
  BY <1>1 DEF Contribution, OneCalendar
<1>4. ASSUME NEW y \in data.zones[k], y.from <= day, day <= y.to PROVE y = z
  <2>1. data.zones[k] \subseteq Zones /\ Disjoint(data.zones[k])
    BY DEF Contribution
  <2>2. y \in Zone /\ z \in Zone
    BY <1>1, <2>1, ZonesAreInt
  <2> QED
    BY <1>1, <1>2, <1>4, <2>1, <2>2 DEF Disjoint, Zone
<1> QED
  BY <1>1, <1>3, <1>4

PricesOn(rows, g, day) == {r.price : r \in OnDay(rows, g, day)} \ {Missing}

\* The seasons of one provider, clipped to the range, say of a day of the
\* range what its calendar says, and what its categories without one have.
LEMMA SeasonOfDay ==
  ASSUME NEW groups, NEW data, Contribution(data, groups), NEW g \in groups,
         NEW d1 \in Nat, NEW d2 \in Nat, NEW day \in d1..d2
  PROVE  PricesOn(ProviderTariff(data, groups, d1, d2), g, day)
            = {CheapestIn(PricesOf(data, g, day) \cup (UnzonedOf(data, g, day) \ {Missing}))} \ {Missing}
<1> DEFINE seasons(h) == UNION {data.zones[c] : c \in data.groups[h] \cap DOMAIN data.zones}
           price(h, z) == CheapestIn({data.price[c][z.rep] : c \in data.groups[h]} \ {Missing})
           row(h, z) == [group |-> h, from |-> IF z.from < d1 THEN d1 ELSE z.from,
                         to |-> IF z.to > d2 THEN d2 ELSE z.to,
                         price |-> price(h, z), coverage |-> Missing]
           rows == ProviderTariff(data, groups, d1, d2)
           all == PricesOf(data, g, day) \cup (UnzonedOf(data, g, day) \ {Missing})
<1>1. rows = UNION {{row(h, z) : z \in seasons(h)} : h \in groups}
  BY DEF ProviderTariff
<1>2. \A h, z : row(h, z).group = h /\ row(h, z).price = price(h, z)
        /\ row(h, z).from = (IF z.from < d1 THEN d1 ELSE z.from)
        /\ row(h, z).to = (IF z.to > d2 THEN d2 ELSE z.to)
  OBVIOUS
<1>3. \A c \in data.groups[g] : c \in DOMAIN data.zones /\ data.zones[c] \subseteq Zones
  BY DEF Contribution
<1>4. seasons(g) = UNION {data.zones[c] : c \in data.groups[g]}
  BY <1>3
<1>4a. \A z : z \in SeasonsOn(data, g, day) <=> z \in seasons(g) /\ z.from <= day /\ day <= z.to
  BY <1>4 DEF SeasonsOn
<1>5. ASSUME NEW z \in seasons(g)
      PROVE  /\ row(g, z).from <= day <=> z.from <= day
             /\ day <= row(g, z).to <=> day <= z.to
  <2>1. z \in Zone
    BY <1>3, ZonesAreInt
  <2> QED
    BY <2>1, <1>2 DEF Zone
<1>6. ASSUME NEW z \in SeasonsOn(data, g, day) PROVE price(g, z) = CheapestIn(all)
  <2>1. /\ \A c \in data.groups[g] : data.zones[c] # {} => z \in data.zones[c]
        /\ \A c \in data.groups[g] : \A y \in data.zones[c] : y.from <= day /\ day <= y.to => y = z
    BY OneSeasonOn
  <2>2. \A y \in SeasonsOn(data, g, day) : y = z
    BY <2>1 DEF SeasonsOn
  <2>3. z.from <= day /\ day <= z.to
    BY DEF SeasonsOn
  <2> DEFINE found == {data.price[c][z.rep] : c \in data.groups[g]} \ {Missing}
  <2>4. \A v : v \in PricesOf(data, g, day) <=>
                 v # Missing /\ \E c \in data.groups[g] : data.zones[c] # {} /\ v = data.price[c][z.rep]
    BY <2>1, <2>3, PricesOfElement
  <2>5. \A v : v \in UnzonedOf(data, g, day) <=>
                 \E c \in data.groups[g] : data.zones[c] = {} /\ v = data.price[c][z.rep]
    BY <2>2, UnzonedElement
  <2>6. \A v : v \in found <=> v # Missing /\ \E c \in data.groups[g] : v = data.price[c][z.rep]
    OBVIOUS
  <2>7. \A v : v \in all <=> v \in PricesOf(data, g, day) \/ (v # Missing /\ v \in UnzonedOf(data, g, day))
    BY <2>4
  <2>8. price(g, z) = CheapestIn(found)
    OBVIOUS
  <2> HIDE DEF found, all, price
  <2>9. \A v : v \in found <=> v \in all
    BY <2>4, <2>5, <2>6, <2>7
  <2>10. found = all
    BY <2>9
  <2> QED
    BY <2>8, <2>10
<1>7. ASSUME SeasonsOn(data, g, day) = {} PROVE CheapestIn(all) = Missing
  <2>1. \A v : v \notin UnzonedOf(data, g, day)
    BY <1>7, UnzonedElement
  <2>2. \A v : v \notin PricesOf(data, g, day)
    BY <1>4, <1>4a, <1>7, PricesOfElement
  <2>3. all = {}
    BY <2>1, <2>2
  <2> HIDE DEF all
  <2> QED
    BY <2>3 DEF CheapestIn
<1> HIDE DEF row, price, all
<1>8. \A r \in rows : r.group = g => \E z \in seasons(g) : r = row(g, z)
  BY <1>1, <1>2
<1>9. \A z \in seasons(g) : row(g, z) \in rows
  BY <1>1
<1> HIDE DEF seasons, rows
<1>10. \A r \in OnDay(rows, g, day) : r.price = CheapestIn(all)
  BY <1>2, <1>4a, <1>5, <1>6, <1>8 DEF OnDay
<1>11. CheapestIn(all) # Missing => \E r \in OnDay(rows, g, day) : TRUE
  <2> SUFFICES ASSUME CheapestIn(all) # Missing PROVE \E r \in OnDay(rows, g, day) : TRUE
    OBVIOUS
  <2>1. PICK z \in SeasonsOn(data, g, day) : TRUE
    BY <1>7
  <2>2. row(g, z) \in OnDay(rows, g, day)
    BY <1>2, <1>4a, <1>5, <1>9, <2>1 DEF OnDay
  <2> QED
    BY <2>2
<1>12. PricesOn(rows, g, day) = {CheapestIn(all)} \ {Missing}
  BY <1>10, <1>11 DEF PricesOn
<1> QED
  BY <1>12 DEF rows, all

\* A minimum may be taken in two steps.
LEMMA CheapestInSteps ==
  ASSUME NEW S \in SUBSET Nat, NEW T \in SUBSET Nat
  PROVE  CheapestIn(({CheapestIn(S)} \cup T) \ {Missing}) = CheapestIn(S \cup T)
<1> USE MissingPriceAssumption
<1> DEFINE least == CheapestIn(S)
           both == ({least} \cup T) \ {Missing}
<1>1. CASE S = {}
  <2>1. least = Missing
    BY <1>1 DEF CheapestIn
  <2>2. both = T /\ S \cup T = T
    BY <1>1, <2>1
  <2> QED
    BY <2>2
<1>2. CASE S # {}
  <2>1. least = Min(S)
    BY <1>2 DEF CheapestIn
  <2>2. least \in S /\ \A y \in S : least <= y
    BY <1>2, <2>1, MinOfNaturals
  <2> HIDE DEF least
  <2>3. both \in SUBSET Nat /\ both # {} /\ S \cup T \in SUBSET Nat /\ S \cup T # {}
    BY <2>2
  <2>4. least \in both /\ T \subseteq both /\ both \subseteq S \cup T
    BY <2>2
  <2> HIDE DEF both
  <2>5. Min(both) \in both /\ \A y \in both : Min(both) <= y
    BY <2>3, MinOfNaturals
  <2>6. Min(S \cup T) \in S \cup T /\ \A y \in S \cup T : Min(S \cup T) <= y
    BY <2>3, MinOfNaturals
  <2>6a. Min(both) \in Nat /\ Min(S \cup T) \in Nat /\ least \in Nat
    BY <2>2, <2>3, <2>5, <2>6
  <2>7. Min(S \cup T) <= Min(both)
    BY <2>4, <2>5, <2>6
  <2>8. Min(both) <= Min(S \cup T)
    <3>1. CASE Min(S \cup T) \in T
      BY <3>1, <2>4, <2>5
    <3>2. CASE Min(S \cup T) \in S
      <4>1. Min(both) <= least /\ least <= Min(S \cup T)
        BY <3>2, <2>2, <2>4, <2>5
      <4> QED
        BY <4>1, <2>6a
    <3> QED
      BY <3>1, <3>2, <2>6
  <2>9. Min(both) = Min(S \cup T)
    BY <2>6a, <2>7, <2>8
  <2>10. CheapestIn(both) = CheapestIn(S \cup T)
    BY <2>3, <2>9 DEF CheapestIn
  <2> QED
    BY <2>10 DEF both, least
<1> QED
  BY <1>1, <1>2

\* The minimum over one subscription is what this subscription asks.
LEMMA MinimumOfOne ==
  ASSUME NEW t, NEW v \in Nat \cup {Missing}, NEW own, own = [s \in {t} |-> v]
  PROVE  Aggregate("minimum", own) = v
<1> DEFINE priced == {s \in DOMAIN own : own[s] # Missing}
<1>1. CASE v = Missing
  <2>1. priced = {}
    BY <1>1
  <2> QED
    BY <1>1, <2>1 DEF Aggregate
<1>2. CASE v # Missing
  <2>1. priced # {} /\ {own[s] : s \in priced} = {v}
    BY <1>2
  <2>2. Min({v}) = v
    BY <1>2, MinOfNaturals
  <2> QED
    BY <2>1, <2>2 DEF Aggregate
<1> QED
  BY <1>1, <1>2

-----------------------------------------------------------------------------
(* What a tariff is read from: the scrapes keep the catalogue typed and the *)
(* known categories of a tuple on one calendar or none, and a query that    *)
(* has loaded the zones and the prices of a subscription has a contribution.*)

CatalogueInv ==
    /\ calendar \in [Categories -> Calendars \cup {{}}]
    /\ \A c, k \in Categories :
          c.tuple = k.tuple => calendar[c] = {} \/ calendar[k] = {} \/ calendar[c] = calendar[k]
    /\ \A c \in Categories : calendar[c] # {} => c \in known
    /\ latest \in [Categories -> [Days -> Nat \cup {Missing}]]

\* The mappings of subscription t are resolved: some group has a category.
Grouped(t, groups, asked) ==
    /\ DOMAIN groups = asked
    /\ \A g \in asked : groups[g] \subseteq CategoriesOf(t)
    /\ \E g \in asked : groups[g] # {}
\* Its zones are loaded too.
Seasoned(t, data, asked) ==
    /\ Grouped(t, data.groups, asked)
    /\ DOMAIN data.zones = UNION {data.groups[g] : g \in asked}
    /\ \A c \in DOMAIN data.zones :
          data.zones[c] \subseteq Zones /\ Disjoint(data.zones[c])
    /\ OneCalendar(data.zones, DOMAIN data.zones)
    /\ \E c \in DOMAIN data.zones : data.zones[c] # {}

\* The state of the subscriptions in a query, done and under way.
Loaded(step, asked, left, data) ==
    /\ IsFiniteSet(DOMAIN data)
    /\ data = [t \in DOMAIN data |-> data[t]]
    /\ \A t \in DOMAIN data \ left : Contribution(data[t], asked)
    /\ \A s, t \in DOMAIN data \cap left : s = t
    /\ \A t \in DOMAIN data \cap left :
          \/ step = "zones" /\ Grouped(t, data[t].groups, asked)
          \/ step = "observations" /\ Seasoned(t, data[t], asked)

QueryInv ==
    query # NoQuery =>
      /\ query = [step |-> query.step, kind |-> query.kind, from |-> query.from, to |-> query.to,
                  asked |-> query.asked, left |-> query.left, data |-> query.data]
      /\ query.from \in Nat /\ query.to \in Nat
      /\ query.kind \in {"average", "minimum", "provider"}
      /\ query.kind = "provider" => \E t \in Tuples : query.left \cup DOMAIN query.data \subseteq {t}
      /\ Loaded(query.step, query.asked, query.left, query.data)

PricesInv == CatalogueInv /\ QueryInv

LEMMA InitPrices == Init => PricesInv
<1> SUFFICES ASSUME Init PROVE PricesInv
  OBVIOUS
<1>1. CatalogueInv
  BY DEF Init, CatalogueInv
<1>2. QueryInv
  BY DEF Init, QueryInv
<1> QED
  BY <1>1, <1>2 DEF PricesInv

LEMMA ZonesStep == CatalogueInv /\ PersistZones => CatalogueInv'
<1> SUFFICES ASSUME CatalogueInv, PersistZones PROVE CatalogueInv'
  OBVIOUS
<1>1. PICK cal \in Calendars :
         calendar' = [c \in Categories |->
                        IF c \in known /\ c.tuple = scraping.tuple THEN cal ELSE calendar[c]]
  BY DEF PersistZones
<1>2. known' = known /\ latest' = latest
  BY DEF PersistZones
<1>3. calendar' \in [Categories -> Calendars \cup {{}}]
  BY <1>1 DEF CatalogueInv
<1>4. ASSUME NEW c \in Categories, NEW k \in Categories, c.tuple = k.tuple
      PROVE  calendar'[c] = {} \/ calendar'[k] = {} \/ calendar'[c] = calendar'[k]
  BY <1>1, <1>4 DEF CatalogueInv
<1>5. \A c \in Categories : calendar'[c] # {} => c \in known'
  BY <1>1, <1>2 DEF CatalogueInv
<1> QED
  BY <1>2, <1>3, <1>4, <1>5 DEF CatalogueInv

LEMMA ObservationsStep == CatalogueInv /\ PersistObservations => CatalogueInv'
<1> SUFFICES ASSUME CatalogueInv, PersistObservations PROVE CatalogueInv'
  OBVIOUS
<1>1. PICK page \in Pages :
         /\ known' = known \cup Read(page)
         /\ latest' = [c \in Categories |->
                         [d \in Days |-> IF c \in Read(page) /\ Asked(d) /\ page[c][d] # Missing
                                         THEN page[c][d] ELSE latest[c][d]]]
  BY DEF PersistObservations
<1>2. calendar' = calendar
  BY DEF PersistObservations
<1>3. \A c \in Categories, d \in Days :
         page[c][d] \in Nat \cup {Missing} /\ latest[c][d] \in Nat \cup {Missing}
  BY TenantAssumption DEF CatalogueInv
<1>4. latest' \in [Categories -> [Days -> Nat \cup {Missing}]]
  BY <1>1, <1>3
<1> QED
  BY <1>1, <1>2, <1>4 DEF CatalogueInv

LEMMA NextCatalogue == CatalogueInv /\ [Next]_vars => CatalogueInv'
<1> SUFFICES ASSUME CatalogueInv, [Next]_vars PROVE CatalogueInv'
  OBVIOUS
<1>1. CASE UNCHANGED <<known, calendar, latest>>
  BY <1>1 DEF CatalogueInv
<1>2. ASSUME NEW t \in Tuples, PersistPvcs(t) PROVE CatalogueInv'
  <2>1. known \subseteq known' /\ UNCHANGED <<calendar, latest>>
    BY <1>2 DEF PersistPvcs
  <2> QED
    BY <2>1 DEF CatalogueInv
<1> QED
  BY <1>1, <1>2, ZonesStep, ObservationsStep
     DEF Next, vars, catalogue, MarkSuccess, StopScrape, Reclassify, Discover, CreateTenant,
         CreateMappings, ActivateSubscriptions, RollbackTenant, Kill,
         Ask, Answer, ResolveMappings, LoadZones, FetchObservations

LEMMA SubscribedAreTuples ==
  ASSUME TenantInv PROVE Subscribed \subseteq Tuples
<1>1. tenant = NoTenant \/ tenant = Bare => DOMAIN tenant.status = {}
  BY DEF NoTenant, Bare
<1>2. ASSUME Complete PROVE DOMAIN tenant.status \subseteq Tuples
  <2>1. PICK f \in Configs : DOMAIN tenant.status = f.tuples
    BY <1>2 DEF Complete
  <2> QED
    BY <2>1, TenantAssumption
<1>3. tenant = NoTenant \/ tenant = Bare \/ Complete
  BY DEF TenantInv, Running
<1> QED
  BY <1>1, <1>2, <1>3 DEF Subscribed

LEMMA AskStep == TenantInv /\ Ask => QueryInv'
<1> SUFFICES ASSUME TenantInv, Ask PROVE QueryInv'
  OBVIOUS
<1>0. PICK range \in Ranges, kind \in {"average", "minimum", "provider"}, asked \in SUBSET Groups :
         \E subs \in IF kind = "provider" THEN {{t} : t \in Subscribed} ELSE {Subscribed} \ {{}} :
            query' = [step |-> "mappings", kind |-> kind, from |-> range[1], to |-> range[2],
                      asked |-> asked \cap tenant.groups, left |-> subs, data |-> <<>>]
  BY DEF Ask
<1>1. PICK subs \in IF kind = "provider" THEN {{t} : t \in Subscribed} ELSE {Subscribed} \ {{}} :
         query' = [step |-> "mappings", kind |-> kind, from |-> range[1], to |-> range[2],
                   asked |-> asked \cap tenant.groups, left |-> subs, data |-> <<>>]
  BY <1>0
<1>2. range[1] \in Nat /\ range[2] \in Nat
  BY TenantAssumption
<1>3. kind = "provider" => \E t \in Tuples : subs = {t}
  BY <1>1, SubscribedAreTuples
<1>4. DOMAIN <<>> = {} /\ <<>> = [t \in {} |-> <<>>[t]]
  OBVIOUS
<1>5. Loaded("mappings", asked \cap tenant.groups, subs, <<>>)
  BY <1>4, FS_EmptySet DEF Loaded
<1> QED
  BY <1>1, <1>2, <1>3, <1>4, <1>5 DEF QueryInv

\* A query goes on with new subscriptions left and new data.
LEMMA QueryGoesOn ==
  ASSUME QueryInv, query # NoQuery, NEW step, NEW left, NEW data,
         left \subseteq query.left, DOMAIN data \subseteq query.left \cup DOMAIN query.data,
         Loaded(step, query.asked, left, data),
         query' = [step |-> step, kind |-> query.kind, from |-> query.from, to |-> query.to,
                   asked |-> query.asked, left |-> left, data |-> data]
  PROVE  QueryInv'
<1>2. query.kind = "provider" => \E t \in Tuples : left \cup DOMAIN data \subseteq {t}
  BY DEF QueryInv
<1>3. /\ query.from \in Nat /\ query.to \in Nat
      /\ query.kind \in {"average", "minimum", "provider"}
  BY DEF QueryInv
<1> QED
  BY <1>2, <1>3 DEF QueryInv

LEMMA ResolveStep ==
  ASSUME QueryInv, NEW t \in Tuples, ResolveMappings(t) PROVE QueryInv'
<1> DEFINE groups == [g \in query.asked |->
                        {c \in CategoriesOf(t) : code[c] # Missing /\ <<g, code[c]>> \in tenant.mapped}]
           asked == query.asked
           left == query.left
           data == query.data
           more == [s \in {t} \cup DOMAIN data |-> IF s = t THEN [groups |-> groups] ELSE data[s]]
<1>1. query # NoQuery /\ query.step = "mappings" /\ t \in left
  BY DEF ResolveMappings, NoQuery
<1>2. query = [step |-> "mappings", kind |-> query.kind, from |-> query.from, to |-> query.to,
               asked |-> asked, left |-> left, data |-> data]
  BY <1>1 DEF QueryInv
<1>3. Loaded("mappings", asked, left, data)
  BY <1>1 DEF QueryInv
<1>4. DOMAIN data \cap left = {}
  BY <1>3 DEF Loaded
<1>5. query' = IF \A g \in asked : groups[g] = {}
               THEN [query EXCEPT !.left = @ \ {t}]
               ELSE [query EXCEPT !.step = "zones",
                       !.data = [s \in {t} \cup DOMAIN @ |-> IF s = t THEN [groups |-> groups] ELSE @[s]]]
  BY DEF ResolveMappings
<1>6. Grouped(t, groups, asked) \/ \A g \in asked : groups[g] = {}
  BY DEF Grouped
<1> HIDE DEF groups
<1>7. CASE \A g \in asked : groups[g] = {}
  <2>1. query' = [step |-> "mappings", kind |-> query.kind, from |-> query.from, to |-> query.to,
                  asked |-> asked, left |-> left \ {t}, data |-> data]
    BY <1>2, <1>5, <1>7
  <2>2. Loaded("mappings", asked, left \ {t}, data)
    BY <1>1, <1>3, <1>4 DEF Loaded
  <2> QED
    BY <1>1, <2>1, <2>2, QueryGoesOn
<1>8. CASE ~ \A g \in asked : groups[g] = {}
  <2>1. query' = [step |-> "zones", kind |-> query.kind, from |-> query.from, to |-> query.to,
                  asked |-> asked, left |-> left, data |-> more]
    BY <1>2, <1>5, <1>8
  <2>2. DOMAIN more = {t} \cup DOMAIN data
    OBVIOUS
  <2>3. more[t] = [groups |-> groups] /\ \A s \in DOMAIN data : s # t => more[s] = data[s]
    OBVIOUS
  <2>4. more = [s \in DOMAIN more |-> more[s]]
    OBVIOUS
  <2>5. IsFiniteSet(DOMAIN more)
    BY <1>3, <2>2, FS_AddElement DEF Loaded
  <2> HIDE DEF more
  <2>6. Loaded("zones", asked, left, more)
    <3>1. \A s \in DOMAIN more \ left : Contribution(more[s], asked)
      BY <1>1, <1>3, <2>2, <2>3 DEF Loaded
    <3>2. \A s \in DOMAIN more \cap left : s = t
      BY <1>4, <2>2
    <3>3. Grouped(t, more[t].groups, asked)
      BY <1>6, <1>8, <2>3
    <3> QED
      BY <2>4, <2>5, <3>1, <3>2, <3>3 DEF Loaded
  <2> QED
    BY <1>1, <2>1, <2>2, <2>6, QueryGoesOn
<1> QED
  BY <1>7, <1>8

\* The known categories of a tuple have one calendar or none, so they have the
\* same seasons in the range or none.
LEMMA OverlappingIsUniform ==
  ASSUME CatalogueInv, NEW t, NEW c \in CategoriesOf(t)
  PROVE  /\ Overlapping(c) \subseteq Zones /\ Disjoint(Overlapping(c))
         /\ \A k \in CategoriesOf(t) :
               Overlapping(c) = {} \/ Overlapping(k) = {} \/ Overlapping(c) = Overlapping(k)
<1>1. c \in Categories /\ calendar[c] \in Calendars \cup {{}}
  BY DEF CategoriesOf, CatalogueInv
<1>2. calendar[c] \subseteq Zones /\ Disjoint(calendar[c])
  BY <1>1, TenantAssumption DEF Disjoint
<1>3. \A k \in CategoriesOf(t) : calendar[c] = {} \/ calendar[k] = {} \/ calendar[k] = calendar[c]
  BY <1>1 DEF CategoriesOf, CatalogueInv
<1> QED
  BY <1>2, <1>3 DEF Overlapping, Disjoint

\* What a query knows of a step: one subscription is under way.
LEMMA UnderWay ==
  ASSUME QueryInv, NEW t, t \in query.left \cap DOMAIN query.data, NEW step \in {"zones", "observations"},
         query.step = step
  PROVE  /\ query # NoQuery
         /\ query = [step |-> step, kind |-> query.kind, from |-> query.from, to |-> query.to,
                     asked |-> query.asked, left |-> query.left, data |-> query.data]
         /\ IsFiniteSet(DOMAIN query.data)
         /\ query.data = [s \in DOMAIN query.data |-> query.data[s]]
         /\ \A s \in DOMAIN query.data \ query.left : Contribution(query.data[s], query.asked)
         /\ \A s \in DOMAIN query.data \cap query.left : s = t
         /\ step = "zones" => Grouped(t, query.data[t].groups, query.asked)
         /\ step = "observations" => Seasoned(t, query.data[t], query.asked)
<1>1. query # NoQuery
  BY DEF NoQuery
<1>2. Loaded(step, query.asked, query.left, query.data)
  BY <1>1 DEF QueryInv
<1>3. query = [step |-> step, kind |-> query.kind, from |-> query.from, to |-> query.to,
               asked |-> query.asked, left |-> query.left, data |-> query.data]
  BY <1>1 DEF QueryInv
<1> QED
  BY <1>1, <1>2, <1>3 DEF Loaded

LEMMA LoadStep ==
  ASSUME CatalogueInv, QueryInv, NEW t \in Tuples, LoadZones(t) PROVE QueryInv'
<1> DEFINE asked == query.asked
           left == query.left
           data == query.data
           zones == [c \in Mapped(t) |-> Overlapping(c)]
           loaded == [groups |-> data[t].groups, zones |-> zones]
           fewer == [s \in DOMAIN data \ {t} |-> data[s]]
           more == [data EXCEPT ![t] = loaded]
<1>1. query.step = "zones" /\ t \in left \cap DOMAIN data
  BY DEF LoadZones
<1>2. /\ query # NoQuery
      /\ query = [step |-> "zones", kind |-> query.kind, from |-> query.from, to |-> query.to,
                  asked |-> asked, left |-> left, data |-> data]
      /\ IsFiniteSet(DOMAIN data)
      /\ data = [s \in DOMAIN data |-> data[s]]
      /\ \A s \in DOMAIN data \ left : Contribution(data[s], asked)
      /\ \A s \in DOMAIN data \cap left : s = t
      /\ Grouped(t, data[t].groups, asked)
  BY <1>1, UnderWay
<1>3. CASE \A c \in Mapped(t) : Overlapping(c) = {}
  <2>1. query' = [step |-> "mappings", kind |-> query.kind, from |-> query.from, to |-> query.to,
                  asked |-> asked, left |-> left \ {t}, data |-> fewer]
    BY <1>2, <1>3 DEF LoadZones
  <2>2. DOMAIN fewer = DOMAIN data \ {t} /\ \A s \in DOMAIN fewer : fewer[s] = data[s]
    OBVIOUS
  <2>3. fewer = [s \in DOMAIN fewer |-> fewer[s]]
    OBVIOUS
  <2>4. IsFiniteSet(DOMAIN fewer)
    BY <1>2, <2>2, FS_Subset
  <2> HIDE DEF fewer
  <2>5. Loaded("mappings", asked, left \ {t}, fewer)
    BY <1>2, <2>2, <2>3, <2>4 DEF Loaded
  <2>6. DOMAIN fewer \subseteq left \cup DOMAIN data
    BY <2>2
  <2> QED
    BY <1>2, <2>1, <2>5, <2>6, QueryGoesOn
<1>4. CASE ~ \A c \in Mapped(t) : Overlapping(c) = {}
  <2>1. query' = [step |-> "observations", kind |-> query.kind, from |-> query.from, to |-> query.to,
                  asked |-> asked, left |-> left, data |-> more]
    <3>1. query' = [query EXCEPT !.step = "observations",
                      !.data[t] = [groups |-> @.groups, zones |-> zones]]
      BY <1>4 DEF LoadZones
    <3> HIDE DEF zones
    <3> QED
      BY <1>2, <3>1
  <2>2. Mapped(t) = UNION {data[t].groups[g] : g \in asked}
    BY DEF Mapped
  <2>3. Mapped(t) \subseteq CategoriesOf(t)
    BY <1>2, <2>2 DEF Grouped
  <2>4. PICK some \in Mapped(t) : Overlapping(some) # {}
    BY <1>4
  <2>5. \A c \in Mapped(t) :
           /\ Overlapping(c) \subseteq Zones /\ Disjoint(Overlapping(c))
           /\ \A k \in Mapped(t) :
                 Overlapping(c) = {} \/ Overlapping(k) = {} \/ Overlapping(c) = Overlapping(k)
    BY <2>3, OverlappingIsUniform
  <2>6. DOMAIN zones = Mapped(t) /\ \A c \in Mapped(t) : zones[c] = Overlapping(c)
    OBVIOUS
  <2> HIDE DEF zones
  <2>7. loaded.groups = data[t].groups /\ loaded.zones = zones
    OBVIOUS
  <2> HIDE DEF loaded
  <2>8. Seasoned(t, loaded, asked)
    BY <1>2, <2>2, <2>4, <2>5, <2>6, <2>7 DEF Seasoned, OneCalendar
  <2>9. DOMAIN more = DOMAIN data /\ more[t] = loaded /\ \A s \in DOMAIN data : s # t => more[s] = data[s]
    BY <1>1
  <2>10. more = [s \in DOMAIN more |-> more[s]]
    OBVIOUS
  <2> HIDE DEF more
  <2>11. Loaded("observations", asked, left, more)
    BY <1>1, <1>2, <2>8, <2>9, <2>10 DEF Loaded
  <2> QED
    BY <1>2, <2>1, <2>9, <2>11, QueryGoesOn
<1> QED
  BY <1>3, <1>4

LEMMA FetchStep ==
  ASSUME CatalogueInv, QueryInv, NEW t \in Tuples, FetchObservations(t) PROVE QueryInv'
<1> DEFINE asked == query.asked
           left == query.left
           data == query.data
           zones == data[t].zones
           reps == {z.rep : z \in UNION {zones[c] : c \in DOMAIN zones}}
           price == [c \in DOMAIN zones |-> [d \in Days |-> IF d \in reps THEN latest[c][d] ELSE Missing]]
           done == [groups |-> data[t].groups, zones |-> zones, price |-> price]
           more == [data EXCEPT ![t] = done]
<1>1. query.step = "observations" /\ t \in left \cap DOMAIN data
  BY DEF FetchObservations
<1>2. /\ query # NoQuery
      /\ query = [step |-> "observations", kind |-> query.kind, from |-> query.from, to |-> query.to,
                  asked |-> asked, left |-> left, data |-> data]
      /\ IsFiniteSet(DOMAIN data)
      /\ data = [s \in DOMAIN data |-> data[s]]
      /\ \A s \in DOMAIN data \ left : Contribution(data[s], asked)
      /\ \A s \in DOMAIN data \cap left : s = t
      /\ Seasoned(t, data[t], asked)
  BY <1>1, UnderWay
<1>3. query' = [step |-> "mappings", kind |-> query.kind, from |-> query.from, to |-> query.to,
                asked |-> asked, left |-> left \ {t}, data |-> more]
  <2>1. query' = [query EXCEPT !.step = "mappings", !.left = @ \ {t},
                    !.data[t] = [groups |-> @.groups, zones |-> zones, price |-> price]]
    BY DEF FetchObservations
  <2> HIDE DEF zones, price
  <2> QED
    BY <1>2, <2>1
<1>4. \A c \in DOMAIN zones : c \in Categories
  BY <1>2 DEF Seasoned, Grouped, CategoriesOf
<1>5. \A c \in DOMAIN zones : price[c] \in [Days -> Nat \cup {Missing}]
  <2> SUFFICES ASSUME NEW c \in DOMAIN zones PROVE price[c] \in [Days -> Nat \cup {Missing}]
    OBVIOUS
  <2>1. latest[c] \in [Days -> Nat \cup {Missing}]
    BY <1>4 DEF CatalogueInv
  <2> HIDE DEF reps, zones
  <2> QED
    BY <2>1
<1> HIDE DEF price
<1>6. done.groups = data[t].groups /\ done.zones = zones /\ done.price = price
  OBVIOUS
<1> HIDE DEF done
<1>7. Contribution(done, asked)
  <2>1. Seasoned(t, data[t], asked)
    BY <1>2
  <2>2. UNION {done.groups[g] : g \in asked} = DOMAIN zones
    BY <1>6, <2>1 DEF Seasoned
  <2>3. \E c \in DOMAIN zones : zones[c] # {}
    BY <2>1 DEF Seasoned
  <2> QED
    BY <1>5, <1>6, <2>1, <2>2, <2>3 DEF Contribution, Seasoned, Grouped
<1>8. DOMAIN more = DOMAIN data /\ more[t] = done /\ \A s \in DOMAIN data : s # t => more[s] = data[s]
  BY <1>1
<1>9. more = [s \in DOMAIN more |-> more[s]]
  OBVIOUS
<1> HIDE DEF more
<1>10. Loaded("mappings", asked, left \ {t}, more)
  BY <1>1, <1>2, <1>7, <1>8, <1>9 DEF Loaded
<1> QED
  BY <1>2, <1>3, <1>8, <1>10, QueryGoesOn

LEMMA NextPrices == TenantInv /\ PricesInv /\ [Next]_vars => PricesInv'
<1> SUFFICES ASSUME TenantInv, CatalogueInv, QueryInv, [Next]_vars PROVE QueryInv'
  BY NextCatalogue DEF PricesInv
<1>1. CASE UNCHANGED query
  BY <1>1 DEF QueryInv
<1>2. CASE Answer
  BY <1>2 DEF Answer, QueryInv
<1>3. CASE UNCHANGED query \/ Ask \/ Answer
           \/ \E t \in Tuples : ResolveMappings(t) \/ LoadZones(t) \/ FetchObservations(t)
  BY <1>1, <1>2, <1>3, AskStep, ResolveStep, LoadStep, FetchStep
<1> QED
  BY <1>3 DEF Next, vars, PersistPvcs, PersistZones, PersistObservations, MarkSuccess, StopScrape, Reclassify,
              Discover, CreateTenant, CreateMappings, ActivateSubscriptions, RollbackTenant, Kill

\* What an answer is made of.
LEMMA AnswerIsContributions ==
  ASSUME QueryInv, Answered
  PROVE  /\ Contributions(query.data, query.asked)
         /\ query.from \in Nat /\ query.to \in Nat
         /\ query.kind \in {"average", "minimum", "provider"}
         /\ query.kind = "provider" => \E t \in Tuples : DOMAIN query.data \subseteq {t}
         /\ IsFiniteSet(DOMAIN query.data)
         /\ query.data # <<>> <=> DOMAIN query.data # {}
<1>1. query # NoQuery /\ query.left = {}
  BY DEF Answered, NoQuery
<1>2. Loaded(query.step, query.asked, query.left, query.data)
  BY <1>1 DEF QueryInv
<1>3. Contributions(query.data, query.asked)
  BY <1>1, <1>2 DEF Loaded, Contributions
<1>4. query.data # <<>> <=> DOMAIN query.data # {}
  <2>1. DOMAIN <<>> = {} /\ <<>> = [s \in DOMAIN <<>> |-> <<>>[s]]
    OBVIOUS
  <2>2. query.data = [s \in DOMAIN query.data |-> query.data[s]]
    BY <1>2 DEF Loaded
  <2> QED
    BY <2>1, <2>2
<1> QED
  BY <1>1, <1>2, <1>3, <1>4 DEF QueryInv, Loaded

\* A row of the market tariff with this price says of a day what the
\* subscriptions do.
Says(price, aggregate, own) ==
    LET priced == {t \in DOMAIN own : own[t] # Missing}
        sum == MapThenSumSet(LAMBDA t : own[t], priced)
    IN /\ price = Missing <=> priced = {}
       /\ (priced # {} /\ aggregate = "minimum") =>
             \E t \in priced : price = own[t] /\ \A s \in priced : own[t] <= own[s]
       /\ (priced # {} /\ aggregate = "average") =>
             2 * (price * Cardinality(priced) - sum) \in -Cardinality(priced)..Cardinality(priced)

LEMMA AggregateSays ==
  ASSUME NEW D, IsFiniteSet(D), NEW own \in [D -> Nat \cup {Missing}], NEW aggregate \in {"average", "minimum"}
  PROVE  Says(Aggregate(aggregate, own), aggregate, own)
<1> DEFINE priced == {t \in DOMAIN own : own[t] # Missing}
           sum == MapThenSumSet(LAMBDA t : own[t], priced)
           prices == {own[t] : t \in priced}
           n == Cardinality(priced)
<1>1. IsFiniteSet(priced) /\ priced \subseteq D /\ \A t \in priced : own[t] \in Nat
  BY FS_Subset
<1>2. sum \in Nat
  <2>1. sum = SumOf(own, priced)
    BY DEF SumOf
  <2> HIDE DEF priced, sum
  <2> QED
    BY <1>1, <2>1, SumIsNatural
<1>3. n \in Nat /\ (n = 0 <=> priced = {})
  BY <1>1, FS_CardinalityType, FS_EmptySet
<1>4. CASE priced = {}
  BY <1>4 DEF Says, Aggregate
<1>5. CASE priced # {} /\ aggregate = "minimum"
  <2>1. Aggregate(aggregate, own) = Min(prices)
    BY <1>5 DEF Aggregate
  <2>2. prices \in SUBSET Nat /\ prices # {}
    BY <1>1, <1>5
  <2>3. Min(prices) \in prices /\ \A y \in prices : Min(prices) <= y
    BY <2>2, MinOfNaturals
  <2>4. Min(prices) # Missing
    BY <2>2, <2>3, MissingPriceAssumption
  <2> HIDE DEF sum
  <2>5. \E t \in priced : Min(prices) = own[t] /\ \A s \in priced : own[t] <= own[s]
    BY <2>3
  <2> QED
    BY <1>5, <2>1, <2>4, <2>5 DEF Says
<1>6. CASE priced # {} /\ aggregate = "average"
  <2>1. Aggregate(aggregate, own) = HalfEven(sum, n)
    BY <1>6 DEF Aggregate
  <2>2. 2 * (HalfEven(sum, n) * n - sum) \in -n..n /\ HalfEven(sum, n) \in Nat
    BY <1>2, <1>3, <1>6, HalfEvenIsNear
  <2>3. HalfEven(sum, n) # Missing
    BY <2>2, MissingPriceAssumption
  <2> QED
    BY <1>6, <2>1, <2>2, <2>3 DEF Says
<1> QED
  BY <1>4, <1>5, <1>6

\* The tenant's rows and the rows a query has read so far keep their meaning at
\* every statement of onboarding, of a query and of the scrapes between them.
THEOREM QueryInvariant == Spec => [](TenantInv /\ PricesInv)
<1> QED
  BY InitTenant, InitPrices, NextTenant, NextPrices, PTL DEF Spec

\* The answer for a client group on a day.
Answers(rows, aggregate, own) ==
    /\ Cardinality(rows) = 1
    /\ \A r \in rows : /\ r.coverage = Cardinality({t \in DOMAIN own : own[t] # Missing})
                       /\ Says(r.price, aggregate, own)

\* One row of each client group covers each day of an answer, and it counts
\* and aggregates what the calendars of the subscriptions ask on that day.
LEMMA MarketAnswersTheDay ==
  ASSUME NEW groups, NEW subs, Contributions(subs, groups), DOMAIN subs # {}, IsFiniteSet(DOMAIN subs),
         NEW g \in groups, NEW d1 \in Nat, NEW d2 \in Nat, NEW day \in d1..d2,
         NEW aggregate \in {"average", "minimum"},
         NEW rows, rows = OnDay(MarketTariff(aggregate, subs, groups, d1, d2), g, day),
         NEW own, own = [s \in DOMAIN subs |-> PriceOn(subs[s], g, day)]
  PROVE  Answers(rows, aggregate, own)
<1>1. OneRow(rows, aggregate, own)
  BY RowOfDay
<1>2. own \in [DOMAIN subs -> Nat \cup {Missing}]
  BY PriceOnIsTyped DEF Contributions
<1>3. Says(Aggregate(aggregate, own), aggregate, own)
  BY <1>2, AggregateSays
<1> QED
  BY <1>1, <1>3, FS_Singleton DEF OneRow, Answers

\* Every answer to a market query is right day by day, whatever scrapes and
\* classifications commit between its statements (rejilla.py, service.py).
THEOREM AnswersAreDayByDay == Spec => []AnswersDayByDay
<1>1. PricesInv => AnswersDayByDay
  <2> SUFFICES ASSUME PricesInv, Answered, query.kind # "provider", query.data # <<>>,
                      NEW g \in query.asked, NEW d \in query.from..query.to
               PROVE  Answers({r \in Tariff : r.group = g /\ r.from <= d /\ d <= r.to}, query.kind,
                              [t \in DOMAIN query.data |-> PriceOn(query.data[t], g, d)])
    BY DEF AnswersDayByDay, Answers, Says
  <2> DEFINE rows == {r \in Tariff : r.group = g /\ r.from <= d /\ d <= r.to}
             own == [t \in DOMAIN query.data |-> PriceOn(query.data[t], g, d)]
  <2>1. /\ Contributions(query.data, query.asked)
        /\ query.from \in Nat /\ query.to \in Nat
        /\ query.kind \in {"average", "minimum"}
        /\ IsFiniteSet(DOMAIN query.data) /\ DOMAIN query.data # {}
    BY AnswerIsContributions DEF PricesInv
  <2>2. rows = OnDay(MarketTariff(query.kind, query.data, query.asked, query.from, query.to), g, d)
    BY DEF Tariff, OnDay
  <2> PICK aggregate, subs, groups, d1, d2, wanted, its :
          /\ aggregate = query.kind /\ subs = query.data /\ groups = query.asked
          /\ d1 = query.from /\ d2 = query.to /\ wanted = rows /\ its = own
    OBVIOUS
  <2>3. its = [t \in DOMAIN subs |-> PriceOn(subs[t], g, d)]
    OBVIOUS
  <2>5. wanted = OnDay(MarketTariff(aggregate, subs, groups, d1, d2), g, d)
    BY <2>2
  <2>6. /\ Contributions(subs, groups) /\ DOMAIN subs # {} /\ IsFiniteSet(DOMAIN subs)
        /\ g \in groups /\ d1 \in Nat /\ d2 \in Nat /\ d \in d1..d2
        /\ aggregate \in {"average", "minimum"}
    BY <2>1
  <2> HIDE DEF rows, own
  <2>4. Answers(wanted, aggregate, its)
    BY <2>3, <2>5, <2>6, MarketAnswersTheDay
  <2> QED
    BY <2>4 DEF rows, own
<1> QED
  BY QueryInvariant, <1>1, PTL DEF PricesInv

AgreeOn(data, subs, groups, d1, d2, g, day) ==
    LET market == {r.price : r \in OnDay(MarketTariff("minimum", subs, groups, d1, d2), g, day)}
    IN PricesOn(ProviderTariff(data, groups, d1, d2), g, day)
         = {CheapestIn((market \cup UnzonedOf(data, g, day)) \ {Missing})} \ {Missing}

LEMMA ProviderIsMarketOfOneOn ==
  ASSUME NEW groups, NEW t, NEW subs, Contributions(subs, groups), DOMAIN subs = {t},
         NEW g \in groups, NEW d1 \in Nat, NEW d2 \in Nat, NEW day \in d1..d2
  PROVE  AgreeOn(subs[t], subs, groups, d1, d2, g, day)
<1> PICK data, v, own : /\ data = subs[t] /\ v = PriceOn(data, g, day)
                        /\ own = [s \in DOMAIN subs |-> PriceOn(subs[s], g, day)]
  OBVIOUS
<1> DEFINE prices == PricesOf(data, g, day)
           others == UnzonedOf(data, g, day) \ {Missing}
           market == {r.price : r \in OnDay(MarketTariff("minimum", subs, groups, d1, d2), g, day)}
<1>1. Contribution(data, groups)
  BY DEF Contributions
<1>2. PricesOn(ProviderTariff(data, groups, d1, d2), g, day) = {CheapestIn(prices \cup others)} \ {Missing}
  BY <1>1, SeasonOfDay
<1>3. OneRow(OnDay(MarketTariff("minimum", subs, groups, d1, d2), g, day), "minimum", own)
  <2>1. DOMAIN subs # {}
    OBVIOUS
  <2> QED
    BY <2>1, RowOfDay
<1>4. v \in Nat \cup {Missing} /\ v = CheapestIn(prices)
  <2>1. v \in Nat \cup {Missing}
    BY <1>1, PriceOnIsTyped
  <2>2. v = CheapestIn(prices)
    BY DEF PriceOn, PricesOf
  <2> QED
    BY <2>1, <2>2
<1>5. own = [s \in {t} |-> v]
  OBVIOUS
<1>6. Aggregate("minimum", own) = v
  BY <1>4, <1>5, MinimumOfOne
<1>7. market = {v}
  BY <1>3, <1>6 DEF OneRow
<1>8. prices \in SUBSET Nat /\ others \in SUBSET Nat
  <2>1. prices \in SUBSET Nat
    BY <1>1, PricesAreNatural
  <2>2. others \in SUBSET Nat
    BY <1>1, UnzonedAreNatural
  <2> QED
    BY <2>1, <2>2
<1>9. CheapestIn(({v} \cup others) \ {Missing}) = CheapestIn(prices \cup others)
  <2> HIDE DEF prices, others
  <2> QED
    BY <1>4, <1>8, CheapestInSteps
<1>10. (market \cup UnzonedOf(data, g, day)) \ {Missing} = ({v} \cup others) \ {Missing}
  BY <1>7
<1> HIDE DEF market, prices, others
<1>11. PricesOn(ProviderTariff(data, groups, d1, d2), g, day)
          = {CheapestIn((market \cup UnzonedOf(data, g, day)) \ {Missing})} \ {Missing}
  BY <1>2, <1>9, <1>10
<1> QED
  BY <1>11 DEF AgreeOn, market

\* The tariff of one provider is the market tariff of this provider alone, but
\* for the prices of its classified categories that have no season, on every day
\* of every answer (service.py:53, :241).
THEOREM ProviderAgreesWithMarket == Spec => []ProviderIsMarketOfOne
<1>1. PricesInv => ProviderIsMarketOfOne
  <2> SUFFICES ASSUME PricesInv, Answered, query.kind = "provider", NEW t \in DOMAIN query.data,
                      NEW g \in query.asked, NEW d \in query.from..query.to
               PROVE  PricesOn(Tariff, g, d) =
                        {CheapestIn(({r.price : r \in OnDay(MarketTariff("minimum", query.data, query.asked,
                                                                        query.from, query.to), g, d)}
                                       \cup UnzonedOf(query.data[t], g, d)) \ {Missing})} \ {Missing}
    BY DEF ProviderIsMarketOfOne, OnDay, PricesOn, UnzonedOf, SeasonsOn
  <2>1. /\ Contributions(query.data, query.asked)
        /\ query.from \in Nat /\ query.to \in Nat
        /\ \E s \in Tuples : DOMAIN query.data \subseteq {s}
        /\ query.data # <<>> <=> DOMAIN query.data # {}
    BY AnswerIsContributions DEF PricesInv
  <2> PICK subs, groups, d1, d2 :
          subs = query.data /\ groups = query.asked /\ d1 = query.from /\ d2 = query.to
    OBVIOUS
  <2>2. DOMAIN subs = {t} /\ query.data # <<>>
    BY <2>1
  <2>3. Tariff = ProviderTariff(subs[t], groups, d1, d2)
    BY <2>2 DEF Tariff
  <2>4. /\ Contributions(subs, groups) /\ g \in groups
        /\ d1 \in Nat /\ d2 \in Nat /\ d \in d1..d2
    BY <2>1
  <2>5. AgreeOn(subs[t], subs, groups, d1, d2, g, d)
    BY <2>2, <2>4, ProviderIsMarketOfOneOn
  <2> QED
    BY <2>3, <2>5 DEF AgreeOn
<1> QED
  BY QueryInvariant, <1>1, PTL DEF PricesInv
=============================================================================
