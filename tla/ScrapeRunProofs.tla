---------------------------- MODULE ScrapeRunProofs ----------------------------
(***************************************************************************)
(* Proofs about ScrapeRun, for any groups and any number of runs, and about *)
(* the season calendar its runs store (SeasonCalendar), for any pages of the *)
(* probes, any window and any threshold.                                   *)
(***************************************************************************)
EXTENDS ScrapeRun, SeasonCalendar, FiniteSetTheorems, SequenceTheorems,
        WellFoundedInduction, TLAPS

-----------------------------------------------------------------------------
\* How the calendars relate to the newest run and to its step: the parts of
\* the inductive invariant that the properties do not say themselves.

\* Only known categories have zones, and nothing is dated after the newest run.
ZonedAreKnown == \A g \in Groups : cal[g] # None => firstSeen[g] # 0
DatedByRun ==
    /\ \A g \in Groups : firstSeen[g] <= run
    /\ \A g \in Groups : \A r \in prices[g] : r <= run
    /\ \A g \in Groups : cal[g] # None => cal[g].run <= run

\* Once the zones of the newest run are committed, they are in force.
InForceAfterZones ==
    pc \in {"extract", "finish"} => \A g \in Groups : cal[g] # None => cal[g].run = run

\* A probe with errors and without prices never reaches the transactions.
ErrorsStop == pc \in {"pvcs", "zones"} => outcome # "errored"

IInv ==
    /\ TypeOK
    /\ ZonedAreKnown
    /\ DatedByRun
    /\ InForceAfterZones
    /\ ErrorsStop
    /\ CalendarUniform
    /\ SuccessIsCurrent
    /\ OnlyNewcomersLackZones
    /\ PricesFollowCalendar

-----------------------------------------------------------------------------
LEMMA CalendarsAreNotNone == ASSUME NEW c \in Calendars PROVE c # None
BY NoneAssumption

\* The calendar a run writes is its own.
LEMMA CalendarOfRun ==
    ASSUME NEW r \in Runs, NEW result
    PROVE  CalendarOf(r, result) \in Calendars /\ CalendarOf(r, result).run = r
BY DEF CalendarOf, Calendars, Kinds

LEMMA InitHolds == Init => IInv
<1> SUFFICES ASSUME Init PROVE IInv
  OBVIOUS
<1> USE DEF Init
<1>1. TypeOK
  BY RunsAssumption DEF TypeOK, Runs, Steps, Outcomes
<1>2. ZonedAreKnown /\ DatedByRun /\ InForceAfterZones /\ ErrorsStop
  BY DEF ZonedAreKnown, DatedByRun, InForceAfterZones, ErrorsStop
<1>3. CalendarUniform /\ SuccessIsCurrent /\ OnlyNewcomersLackZones /\ PricesFollowCalendar
  BY DEF CalendarUniform, SuccessIsCurrent, OnlyNewcomersLackZones, PricesFollowCalendar,
         Zoned, Known
<1> QED BY <1>1, <1>2, <1>3 DEF IInv

\* The run that is alive is one of the runs.
LEMMA AliveIsRun ==
    ASSUME TypeOK, pc # "idle"
    PROVE  run \in Runs
BY RunsAssumption DEF TypeOK, Runs

-----------------------------------------------------------------------------
(* One lemma per step that changes a table, then all of them together. *)

LEMMA CreateScrapeRunStep == IInv /\ CreateScrapeRun => IInv'
<1> SUFFICES ASSUME IInv, CreateScrapeRun PROVE IInv'
  OBVIOUS
<1> USE RunsAssumption DEF CreateScrapeRun
<1>1. TypeOK'
  BY DEF IInv, TypeOK, Runs, Steps
<1>2. /\ run \in Nat /\ run' = run + 1
      /\ \A g \in Groups : cal[g] # None => cal[g].run \in Nat
      /\ \A g \in Groups : firstSeen[g] \in Nat /\ prices[g] \subseteq Nat
  BY DEF IInv, TypeOK, Calendars, Runs
<1>3. ZonedAreKnown' /\ InForceAfterZones' /\ ErrorsStop'
  BY DEF IInv, ZonedAreKnown, InForceAfterZones, ErrorsStop
<1>4. DatedByRun'
  <2>1. \A a, b \in Nat : a <= b => a <= b + 1
    OBVIOUS
  <2> QED BY <1>2, <2>1 DEF IInv, DatedByRun
<1>5. CalendarUniform' /\ OnlyNewcomersLackZones' /\ PricesFollowCalendar'
  BY DEF IInv, CalendarUniform, OnlyNewcomersLackZones, PricesFollowCalendar, Zoned, Known
<1>6. SuccessIsCurrent'
  BY DEF IInv, TypeOK, SuccessIsCurrent, Zoned
<1> QED BY <1>1, <1>3, <1>4, <1>5, <1>6 DEF IInv

LEMMA PersistPvcsStep == IInv /\ PersistPvcs => IInv'
<1> SUFFICES ASSUME IInv, PersistPvcs PROVE IInv'
  OBVIOUS
<1> USE DEF PersistPvcs
<1>1. TypeOK'
  BY AliveIsRun, RunsAssumption DEF IInv, TypeOK, Runs, Steps
<1>2. run \in Nat /\ run # 0
  BY AliveIsRun, RunsAssumption DEF IInv, Runs
<1>3. \A g \in Groups : firstSeen'[g] = IF g \in seen \ Known THEN run ELSE firstSeen[g]
  OBVIOUS
<1>4. ZonedAreKnown' /\ InForceAfterZones' /\ ErrorsStop'
  BY <1>2, <1>3 DEF IInv, ZonedAreKnown, InForceAfterZones, ErrorsStop
<1>5. DatedByRun'
  BY <1>2, <1>3 DEF IInv, DatedByRun
<1>6. CalendarUniform' /\ SuccessIsCurrent' /\ PricesFollowCalendar'
  BY DEF IInv, CalendarUniform, SuccessIsCurrent, PricesFollowCalendar, Zoned
<1>7. OnlyNewcomersLackZones'
  <2> SUFFICES ASSUME NEW g \in Groups, firstSeen'[g] # 0, cal[g] = None,
                      NEW h \in Groups, cal[h] # None
               PROVE  cal[h].run <= firstSeen'[g]
    BY DEF OnlyNewcomersLackZones, Known, Zoned
  <2>1. CASE firstSeen[g] # 0
    <3>1. firstSeen'[g] = firstSeen[g]
      BY <2>1, <1>3 DEF Known
    <3>2. g \in Known \ Zoned /\ h \in Zoned
      BY <2>1 DEF Known, Zoned
    <3> QED BY <3>1, <3>2 DEF IInv, OnlyNewcomersLackZones
  <2>2. CASE firstSeen[g] = 0
    <3>1. firstSeen'[g] = run
      BY <2>2, <1>3
    <3> QED BY <3>1 DEF IInv, DatedByRun
  <2> QED BY <2>1, <2>2
<1> QED BY <1>1, <1>4, <1>5, <1>6, <1>7 DEF IInv

LEMMA PersistZonesStep == IInv /\ PersistZones => IInv'
<1> SUFFICES ASSUME IInv, PersistZones PROVE IInv'
  OBVIOUS
<1> USE DEF PersistZones
<1> DEFINE c == CalendarOf(run, outcome)
<1>1. run \in Runs /\ c \in Calendars /\ c # None /\ c.run = run
  BY AliveIsRun, CalendarOfRun, CalendarsAreNotNone DEF IInv
<1>2. \A g \in Groups : cal'[g] = IF firstSeen[g] # 0 THEN c ELSE cal[g]
  BY DEF Known
<1> HIDE DEF c
<1>3. \A g \in Groups : cal'[g] # None <=> firstSeen[g] # 0
  BY <1>1, <1>2 DEF IInv, ZonedAreKnown
<1>4. \A g \in Groups : cal'[g] # None => cal'[g] = c
  BY <1>2, <1>3
<1>5. TypeOK'
  BY <1>1 DEF IInv, TypeOK, Steps, c
<1>6. ZonedAreKnown' /\ ErrorsStop'
  BY <1>3 DEF ZonedAreKnown, ErrorsStop
<1>7. run \in Nat
  BY <1>1, RunsAssumption DEF Runs
<1>8. DatedByRun'
  BY <1>1, <1>4, <1>7 DEF IInv, DatedByRun
<1>9. InForceAfterZones'
  BY <1>1, <1>4 DEF InForceAfterZones
<1>10. CalendarUniform'
  BY <1>4 DEF CalendarUniform, Zoned
<1>11. OnlyNewcomersLackZones'
  BY <1>3 DEF OnlyNewcomersLackZones, Known, Zoned
<1>12. PricesFollowCalendar'
  BY <1>1, <1>4 DEF IInv, DatedByRun, PricesFollowCalendar, Zoned
<1>13. SuccessIsCurrent'
  <2> SUFFICES ASSUME NEW r \in Runs, status[r] = "success", NEW g \in Groups, cal'[g] # None
               PROVE  cal'[g].run >= r
    BY DEF SuccessIsCurrent, Zoned
  <2>1. ~(r > run)
    BY DEF IInv, TypeOK
  <2> QED BY <2>1, <1>1, <1>4, <1>7, RunsAssumption DEF Runs
<1> QED BY <1>5, <1>6, <1>8, <1>9, <1>10, <1>11, <1>12, <1>13 DEF IInv

LEMMA PersistObservationsStep ==
    ASSUME NEW cars \in SUBSET Groups
    PROVE  IInv /\ PersistObservations(cars) => IInv'
<1> SUFFICES ASSUME IInv, PersistObservations(cars) PROVE IInv'
  OBVIOUS
<1> USE DEF PersistObservations
<1>1. run \in Runs /\ run \in Nat /\ run # 0
  BY AliveIsRun, RunsAssumption DEF IInv, Runs
<1>2. TypeOK'
  BY <1>1, RunsAssumption DEF IInv, TypeOK, Runs, Steps
<1>3. /\ \A g \in Groups : firstSeen'[g] = IF g \in cars \ Known THEN run ELSE firstSeen[g]
      /\ \A g \in Groups : prices'[g] = IF g \in cars THEN prices[g] \cup {run} ELSE prices[g]
  OBVIOUS
<1>4. ZonedAreKnown' /\ InForceAfterZones' /\ ErrorsStop'
  BY <1>1, <1>3 DEF IInv, ZonedAreKnown, InForceAfterZones, ErrorsStop
<1>5. DatedByRun'
  BY <1>1, <1>3 DEF IInv, DatedByRun
<1>6. CalendarUniform' /\ SuccessIsCurrent'
  BY DEF IInv, CalendarUniform, SuccessIsCurrent, Zoned
<1>7. PricesFollowCalendar'
  <2> SUFFICES ASSUME NEW g \in Groups, cal[g] # None, NEW r \in prices'[g]
               PROVE  r <= cal[g].run
    BY DEF PricesFollowCalendar, Zoned
  <2>1. cal[g].run = run
    BY DEF IInv, InForceAfterZones
  <2>2. r \in prices[g] \/ r = run
    BY <1>3
  <2> QED BY <2>1, <2>2, <1>1 DEF IInv, PricesFollowCalendar, Zoned
<1>8. OnlyNewcomersLackZones'
  <2> SUFFICES ASSUME NEW g \in Groups, firstSeen'[g] # 0, cal[g] = None,
                      NEW h \in Groups, cal[h] # None
               PROVE  cal[h].run <= firstSeen'[g]
    BY DEF OnlyNewcomersLackZones, Known, Zoned
  <2>1. CASE firstSeen[g] # 0
    <3>1. firstSeen'[g] = firstSeen[g]
      BY <2>1, <1>3 DEF Known
    <3>2. g \in Known \ Zoned /\ h \in Zoned
      BY <2>1 DEF Known, Zoned
    <3> QED BY <3>1, <3>2 DEF IInv, OnlyNewcomersLackZones
  <2>2. CASE firstSeen[g] = 0
    <3>1. firstSeen'[g] = run
      BY <2>2, <1>3
    <3> QED BY <3>1 DEF IInv, DatedByRun
  <2> QED BY <2>1, <2>2
<1> QED BY <1>2, <1>4, <1>5, <1>6, <1>7, <1>8 DEF IInv

LEMMA MarkSuccessStep == IInv /\ MarkSuccess => IInv'
<1> SUFFICES ASSUME IInv, MarkSuccess PROVE IInv'
  OBVIOUS
<1> USE DEF MarkSuccess
<1>1. run \in Runs /\ run \in Nat
  BY AliveIsRun, RunsAssumption DEF IInv, Runs
<1>2. TypeOK'
  BY <1>1, RunsAssumption DEF IInv, TypeOK, Runs, Steps
<1>3. ZonedAreKnown' /\ DatedByRun' /\ InForceAfterZones' /\ ErrorsStop'
  BY DEF IInv, ZonedAreKnown, DatedByRun, InForceAfterZones, ErrorsStop
<1>4. CalendarUniform' /\ OnlyNewcomersLackZones' /\ PricesFollowCalendar'
  BY DEF IInv, CalendarUniform, OnlyNewcomersLackZones, PricesFollowCalendar, Zoned, Known
<1>5. SuccessIsCurrent'
  <2> SUFFICES ASSUME NEW r \in Runs, status'[r] = "success", NEW g \in Groups, cal[g] # None
               PROVE  cal[g].run >= r
    BY DEF SuccessIsCurrent, Zoned
  <2>1. CASE r = run
    BY <2>1, <1>1 DEF IInv, InForceAfterZones
  <2>2. CASE r # run
    <3>1. status[r] = "success"
      BY <2>2, <1>1 DEF IInv, TypeOK
    <3> QED BY <3>1 DEF IInv, SuccessIsCurrent, Zoned
  <2> QED BY <2>1, <2>2
<1> QED BY <1>2, <1>3, <1>4, <1>5 DEF IInv

LEMMA MarkFailedStep == IInv /\ MarkFailed => IInv'
<1> SUFFICES ASSUME IInv, MarkFailed PROVE IInv'
  OBVIOUS
<1> USE DEF MarkFailed
<1>1. run \in Runs
  BY AliveIsRun DEF IInv
<1>2. TypeOK'
  BY <1>1, RunsAssumption DEF IInv, TypeOK, Runs, Steps
<1>3. ZonedAreKnown' /\ DatedByRun' /\ InForceAfterZones' /\ ErrorsStop'
  BY DEF IInv, ZonedAreKnown, DatedByRun, InForceAfterZones, ErrorsStop
<1>4. CalendarUniform' /\ OnlyNewcomersLackZones' /\ PricesFollowCalendar'
  BY DEF IInv, CalendarUniform, OnlyNewcomersLackZones, PricesFollowCalendar, Zoned, Known
<1>5. \A r \in Runs : status'[r] = "success" => status[r] = "success"
  BY <1>1 DEF IInv, TypeOK
<1>6. SuccessIsCurrent'
  BY <1>5 DEF IInv, SuccessIsCurrent, Zoned
<1> QED BY <1>2, <1>3, <1>4, <1>6 DEF IInv

\* The steps that leave the tables alone.
LEMMA QuietStep ==
    ASSUME IInv,
           \/ \E result \in Outcomes : \E cars \in CarsOf(result) : Probe(result, cars)
           \/ Raise
           \/ Killed
           \/ UNCHANGED vars
    PROVE  IInv'
<1>1. UNCHANGED <<db, run>>
  BY DEF Probe, Raise, Killed, vars, db
<1>2. TypeOK'
  <2>1. \A result \in Outcomes : CarsOf(result) \subseteq SUBSET Groups
    BY DEF CarsOf
  <2>2. CASE \E result \in Outcomes : \E cars \in CarsOf(result) : Probe(result, cars)
    BY <2>1, <2>2 DEF IInv, TypeOK, Probe, db, Steps
  <2>3. CASE Raise
    BY <2>3 DEF IInv, TypeOK, Raise, db, Steps
  <2>4. CASE Killed
    BY <2>4, AliveIsRun DEF IInv, TypeOK, Killed, db, Steps
  <2>5. CASE UNCHANGED vars
    BY <2>5 DEF IInv, TypeOK, vars
  <2> QED BY <2>2, <2>3, <2>4, <2>5
<1>3. ZonedAreKnown' /\ DatedByRun'
  BY <1>1 DEF IInv, ZonedAreKnown, DatedByRun, db
<1>4. InForceAfterZones' /\ ErrorsStop'
  <2>1. pc' \in {"extract", "finish"} => pc \in {"extract", "finish"}
    BY DEF Probe, Raise, Killed, vars
  <2>2. ErrorsStop'
    BY DEF IInv, ErrorsStop, Probe, Raise, Killed, vars
  <2> QED BY <1>1, <2>1, <2>2 DEF IInv, InForceAfterZones, db
<1>5. CalendarUniform' /\ SuccessIsCurrent' /\ OnlyNewcomersLackZones' /\ PricesFollowCalendar'
  BY <1>1 DEF IInv, CalendarUniform, SuccessIsCurrent, OnlyNewcomersLackZones,
              PricesFollowCalendar, Zoned, Known, db
<1> QED BY <1>2, <1>3, <1>4, <1>5 DEF IInv

LEMMA NextKeepsIInv == IInv /\ [Next]_vars => IInv'
<1> SUFFICES ASSUME IInv, [Next]_vars PROVE IInv'
  OBVIOUS
<1>1. CASE CreateScrapeRun
  BY <1>1, CreateScrapeRunStep
<1>2. CASE PersistPvcs
  BY <1>2, PersistPvcsStep
<1>3. CASE PersistZones
  BY <1>3, PersistZonesStep
<1>4. CASE \E cars \in SUBSET Groups : PersistObservations(cars)
  BY <1>4, PersistObservationsStep
<1>5. CASE MarkSuccess
  BY <1>5, MarkSuccessStep
<1>6. CASE MarkFailed
  BY <1>6, MarkFailedStep
<1>7. CASE \/ \E result \in Outcomes : \E cars \in CarsOf(result) : Probe(result, cars)
           \/ Raise \/ Killed \/ UNCHANGED vars
  BY <1>7, QuietStep
<1> QED
  BY <1>1, <1>2, <1>3, <1>4, <1>5, <1>6, <1>7 DEF Next, Work, Done

LEMMA Invariance == Spec => []IInv
BY InitHolds, NextKeepsIInv, PTL DEF Spec

-----------------------------------------------------------------------------
(* The properties of the runs, for every number of groups and runs. *)

\* The tables of create, mark_finished and replace_zones_for_tuple keep their
\* types, and a live run's row says "running".
THEOREM TypeCorrect == Spec => []TypeOK
BY Invariance, PTL DEF IInv

\* No two categories ever have the zones of different runs.
THEOREM CalendarUniformTheorem == Spec => []CalendarUniform
BY Invariance, PTL DEF IInv

\* A run marked "success" left no category with older zones.
THEOREM SuccessIsCurrentTheorem == Spec => []SuccessIsCurrent
BY Invariance, PTL DEF IInv

\* A known category without zones is newer than the calendar in force.
THEOREM OnlyNewcomersLackZonesTheorem == Spec => []OnlyNewcomersLackZones
BY Invariance, PTL DEF IInv

\* The prices of a run are never visible before its calendar.
THEOREM PricesFollowCalendarTheorem == Spec => []PricesFollowCalendar
BY Invariance, PTL DEF IInv

\* EmptyProbeError: a probe that errored without a price changes no zone.
THEOREM FailedProbeKeepsCalendarTheorem == Spec => FailedProbeKeepsCalendar
<1>1. IInv /\ [Next]_vars => [outcome = "errored" => cal' = cal]_vars
  <2> SUFFICES ASSUME IInv, Next, outcome = "errored" PROVE cal' = cal
    OBVIOUS
  <2>1. ~PersistZones
    BY DEF PersistZones, IInv, ErrorsStop
  <2> QED
    BY <2>1 DEF Next, Work, Done, CreateScrapeRun, Probe, PersistPvcs, PersistObservations,
                MarkSuccess, MarkFailed, Raise, Killed, vars, db
<1> QED BY <1>1, Invariance, PTL DEF Spec, FailedProbeKeepsCalendar

-----------------------------------------------------------------------------
(* Implementation of SeasonPublication. *)

LEMMA ChosenIsMember ==
    ASSUME NEW S, S # {}
    PROVE  (CHOOSE x \in S : TRUE) \in S
<1>1. PICK x \in S : TRUE
  OBVIOUS
<1> QED BY <1>1, Zenon

\* Under CalendarUniform the calendar of any zoned category is the shared one.
LEMMA SharedOf ==
    ASSUME CalendarUniform, NEW g \in Zoned
    PROVE  Shared = cal[g]
BY ChosenIsMember DEF Shared, CalendarUniform

LEMMA SharedUnchanged == ASSUME UNCHANGED cal PROVE UNCHANGED Shared
BY DEF Shared, Zoned

\* While the newest run has its zones committed, the shared calendar is its own.
LEMMA SharedInForce ==
    ASSUME CalendarUniform, InForceAfterZones, pc = "finish"
    PROVE  Shared = None \/ Shared.run = run
<1>1. CASE Zoned = {}
  BY <1>1 DEF Shared
<1>2. CASE Zoned # {}
  <2>1. PICK g \in Zoned : TRUE
    BY <1>2
  <2>2. Shared = cal[g]
    BY <2>1, SharedOf
  <2> QED BY <2>1, <2>2 DEF InForceAfterZones, Zoned
<1> QED BY <1>1, <1>2

\* To a reader of the calendar, the three transactions of a scrape run are the
\* opening of a run, one replacement of the whole calendar and a verdict.
THEOREM ReplacesWholeCalendarTheorem == Spec => ReplacesWholeCalendar
<1>1. Init => Publication!Init
  BY DEF Init, Publication!Init, Shared, Zoned
<1>2. IInv /\ IInv' /\ [Next]_vars => [Publication!Next]_<<Shared, status>>
  <2> SUFFICES ASSUME IInv, IInv', Next
               PROVE  Publication!Next \/ UNCHANGED <<Shared, status>>
    BY SharedUnchanged DEF vars
  <2>1. CASE CreateScrapeRun
    <3>1. /\ run' \in Runs /\ run' = run + 1 /\ run \in Nat /\ status[run'] = "none"
          /\ status' = [status EXCEPT ![run'] = "running"]
      BY <2>1, RunsAssumption DEF CreateScrapeRun, IInv, TypeOK, Runs
    <3>2. \A q \in Runs : q < run' => status[q] # "none"
      BY <3>1, RunsAssumption DEF IInv, TypeOK, Runs
    <3>3. UNCHANGED Shared
      BY <2>1, SharedUnchanged DEF CreateScrapeRun
    <3>4. Publication!Open(run')
      BY <3>1, <3>2, <3>3 DEF Publication!Open
    <3> QED BY <3>1, <3>4 DEF Publication!Next
  <2>2. CASE PersistZones
    <3>1. /\ run \in Runs /\ status[run] = "running" /\ UNCHANGED status
          /\ cal' = [g \in Groups |-> IF g \in Known THEN CalendarOf(run, outcome) ELSE cal[g]]
      BY <2>2, AliveIsRun DEF PersistZones, IInv, TypeOK
    <3>2. CASE Known = {}
      <4>1. \A g \in Groups : cal[g] = None /\ cal'[g] = None
        BY <3>1, <3>2 DEF IInv, ZonedAreKnown, Known
      <4>2. Zoned = {} /\ Zoned' = {}
        BY <4>1 DEF Zoned
      <4>3. UNCHANGED Shared
        BY <4>2 DEF Shared
      <4> QED BY <3>1, <4>3
    <3>3. CASE Known # {}
      <4>1. PICK g \in Known : TRUE
        BY <3>3
      <4>2. g \in Groups /\ cal'[g] = CalendarOf(run, outcome)
        BY <3>1, <4>1 DEF Known
      <4>3. CalendarOf(run, outcome) # None
        BY <3>1, CalendarOfRun, CalendarsAreNotNone
      <4>4. g \in Zoned'
        BY <4>2, <4>3 DEF Zoned
      <4>5. Shared' = CalendarOf(run, outcome)
        <5>1. \A h \in Zoned' : cal'[h] = cal'[g]
          BY <4>4 DEF IInv, CalendarUniform
        <5>2. (CHOOSE h \in Zoned' : TRUE) \in Zoned'
          BY <4>4, ChosenIsMember
        <5> QED BY <5>1, <5>2, <4>2, <4>4 DEF Shared
      <4>6. PICK kind \in Publication!Kinds : CalendarOf(run, outcome) = [run |-> run, kind |-> kind]
        BY DEF CalendarOf, Publication!Kinds
      <4>7. \A q \in Runs : q > run => status[q] = "none"
        BY DEF IInv, TypeOK
      <4>8. Publication!Publish(run)
        BY <3>1, <4>5, <4>6, <4>7 DEF Publication!Publish
      <4> QED BY <3>1, <4>8 DEF Publication!Next
    <3> QED BY <3>2, <3>3
  <2>3. CASE MarkSuccess
    <3>1. /\ run \in Runs /\ status[run] = "running"
          /\ status' = [status EXCEPT ![run] = "success"]
      BY <2>3, AliveIsRun DEF MarkSuccess, IInv, TypeOK
    <3>2. UNCHANGED Shared
      BY <2>3, SharedUnchanged DEF MarkSuccess
    <3>3. Shared = None \/ Shared.run = run
      BY <2>3, SharedInForce DEF MarkSuccess, IInv
    <3>4. Publication!Succeed(run)
      BY <3>1, <3>2, <3>3 DEF Publication!Succeed
    <3> QED BY <3>1, <3>4 DEF Publication!Next
  <2>4. CASE MarkFailed
    <3>1. /\ run \in Runs /\ status[run] = "running"
          /\ status' = [status EXCEPT ![run] = "failed"]
      BY <2>4, AliveIsRun DEF MarkFailed, IInv, TypeOK
    <3>2. UNCHANGED Shared
      BY <2>4, SharedUnchanged DEF MarkFailed
    <3>3. Publication!Fail(run)
      BY <3>1, <3>2 DEF Publication!Fail
    <3> QED BY <3>1, <3>3 DEF Publication!Next
  <2>5. CASE \/ \E result \in Outcomes : \E cars \in CarsOf(result) : Probe(result, cars)
             \/ PersistPvcs
             \/ \E cars \in SUBSET Groups : PersistObservations(cars)
             \/ Raise \/ Killed \/ Done
    <3>1. UNCHANGED cal /\ UNCHANGED status
      BY <2>5 DEF Probe, PersistPvcs, PersistObservations, Raise, Killed, Done, vars, db
    <3> QED BY <3>1, SharedUnchanged
  <2> QED BY <2>1, <2>2, <2>3, <2>4, <2>5 DEF Next, Work
<1>3. Spec => []IInv
  BY Invariance
<1> QED
  BY <1>1, <1>2, <1>3, PTL DEF Spec, ReplacesWholeCalendar, Publication!Spec

-----------------------------------------------------------------------------
(* The season calendar.  Least and greatest numbers, and places in a list.   *)

LEMMA LeastExists ==
    ASSUME NEW S \in SUBSET Nat, S # {}
    PROVE  \E x \in S : \A y \in S : x <= y
<1> DEFINE R == {p \in Nat \X Nat : p[1] < p[2]}
<1>1. IsWellFoundedOn(R, Nat)
  BY NatLessThanWellFounded DEF OpToRel
<1> HIDE DEF R
<1>2. PICK x \in S : \A y \in S : ~ (<<y, x>> \in R)
  BY <1>1, WFMin
<1>3. ASSUME NEW y \in S, y < x PROVE FALSE
  <2>1. <<y, x>> \in Nat \X Nat /\ <<y, x>>[1] < <<y, x>>[2]
    BY <1>3
  <2> QED BY <2>1, <1>2 DEF R
<1> QED BY <1>3

LEMMA MinOf ==
    ASSUME NEW S \in SUBSET Nat, S # {}
    PROVE  Min(S) \in S /\ \A y \in S : Min(S) <= y
  BY LeastExists DEF Min

LEMMA GreatestExists ==
    ASSUME NEW N \in Nat, NEW S \in SUBSET (0..N), S # {}
    PROVE  \E x \in S : \A y \in S : y <= x
<1> DEFINE T == {N - x : x \in S}
<1>0. \A x \in S : x \in Int /\ N - x \in Nat
  OBVIOUS
<1>1. T \in SUBSET Nat /\ T # {}
  BY <1>0
<1>2. PICK t \in T : \A u \in T : t <= u
  BY <1>1, LeastExists
<1>3. PICK x \in S : t = N - x
  BY <1>2
<1>4. ASSUME NEW y \in S PROVE y <= x
  <2>1. N - y \in T
    OBVIOUS
  <2>2. N - x <= N - y
    BY <2>1, <1>2, <1>3
  <2> HIDE DEF T
  <2> QED BY <2>2, <1>0
<1> QED BY <1>3, <1>4

LEMMA MaxOf ==
    ASSUME NEW N \in Nat, NEW S \in SUBSET (0..N), S # {}
    PROVE  Max(S) \in S /\ \A y \in S : y <= Max(S)
<1>1. PICK x \in S : \A y \in S : y <= x
  BY GreatestExists
<1>2. \A y \in S : x >= y
  BY <1>1
<1>3. Max(S) \in S /\ \A y \in S : Max(S) >= y
  BY <1>2 DEF Max
<1> QED BY <1>3

\* Every member of a finite set of numbers has a rank of its own, and every
\* rank up to the size of the set a member.
LowerPart(S, i) == {j \in S : j <= i}
Rank(S, i) == Cardinality(LowerPart(S, i))

LEMMA PlacesAreFinite ==
    ASSUME NEW N \in Nat, NEW S \in SUBSET (1..N)
    PROVE  IsFiniteSet(S) /\ Cardinality(S) \in Nat /\ \A i \in S : i \in Nat
<1>1. IsFiniteSet(1..N)
  BY FS_Interval
<1>2. IsFiniteSet(S)
  BY <1>1, FS_Subset
<1>3. Cardinality(S) \in Nat
  BY <1>2, FS_CardinalityType
<1> QED BY <1>2, <1>3

LEMMA RankInRange ==
    ASSUME NEW N \in Nat, NEW S \in SUBSET (1..N), NEW i \in S
    PROVE  Rank(S, i) \in 1..Cardinality(S)
<1> DEFINE D == LowerPart(S, i)
<1>1. IsFiniteSet(S) /\ Cardinality(S) \in Nat /\ i \in Nat
  BY PlacesAreFinite
<1>2. D \in SUBSET S /\ i \in D
  BY <1>1 DEF LowerPart
<1> HIDE DEF D
<1>3. IsFiniteSet(D) /\ Cardinality(D) <= Cardinality(S)
  BY <1>1, <1>2, FS_Subset
<1>4. Cardinality(D) \in Nat
  BY <1>3, FS_CardinalityType
<1>5. Cardinality(D) # 0
  BY <1>2, <1>3, FS_EmptySet
<1>6. Cardinality(D) \in 1..Cardinality(S)
  BY <1>1, <1>3, <1>4, <1>5
<1> QED BY <1>6 DEF Rank, D

LEMMA RanksDiffer ==
    ASSUME NEW N \in Nat, NEW S \in SUBSET (1..N), NEW i \in S, NEW k \in S, i < k
    PROVE  Rank(S, i) < Rank(S, k)
<1> DEFINE D == LowerPart(S, i)
           E == LowerPart(S, k)
<1>1. IsFiniteSet(S) /\ \A j \in S : j \in Nat
  BY PlacesAreFinite
<1>2. E \in SUBSET S /\ D \in SUBSET E /\ k \in E /\ k \notin D
  <2>1. E \in SUBSET S /\ k \in E
    BY <1>1 DEF LowerPart
  <2>2. \A j \in S : j <= i => j <= k
    BY <1>1
  <2>3. D \in SUBSET E
    BY <2>2 DEF LowerPart
  <2>4. k \notin D
    BY <1>1 DEF LowerPart
  <2> QED BY <2>1, <2>3, <2>4
<1> HIDE DEF D, E
<1>3. IsFiniteSet(E)
  BY <1>1, <1>2, FS_Subset
<1>4. IsFiniteSet(D) /\ Cardinality(D) <= Cardinality(E) /\ Cardinality(D) # Cardinality(E)
  BY <1>2, <1>3, FS_Subset
<1>5. Cardinality(D) \in Nat /\ Cardinality(E) \in Nat
  BY <1>3, <1>4, FS_CardinalityType
<1>6. Cardinality(D) < Cardinality(E)
  BY <1>4, <1>5
<1> QED BY <1>6 DEF Rank, D, E

LEMMA NthIsRank ==
    ASSUME NEW N \in Nat, NEW S \in SUBSET (1..N), NEW n \in 1..Cardinality(S)
    PROVE  Nth(S, n) \in S /\ Rank(S, Nth(S, n)) = n
<1>1. /\ IsFiniteSet(S) /\ Cardinality(S) \in Nat
      /\ \A i \in S : i \in Nat /\ Rank(S, i) \in 1..Cardinality(S)
  BY PlacesAreFinite, RankInRange
<1> DEFINE f == [i \in S |-> Rank(S, i)]
           I == 1..Cardinality(S)
<1>2. f \in [S -> I]
  BY <1>1
<1>3. ASSUME NEW i \in S, NEW k \in S, f[i] = f[k] PROVE i = k
  <2>1. ~ (Rank(S, i) < Rank(S, k)) /\ ~ (Rank(S, k) < Rank(S, i))
    BY <1>1, <1>3
  <2>2. ~ (i < k)
    BY <2>1, RanksDiffer
  <2>3. ~ (k < i)
    BY <2>1, RanksDiffer
  <2> QED BY <1>1, <2>2, <2>3
<1> HIDE DEF f
<1>4. f \in Injection(S, I)
  BY <1>2, <1>3 DEF Injection, IsInjective
<1>5. IsFiniteSet(I) /\ Cardinality(I) = Cardinality(S)
  BY <1>1, FS_Interval
<1>6. f \in Surjection(S, I)
  BY <1>4, <1>5, FS_Injection
<1>7. PICK i \in S : f[i] = n
  BY <1>6 DEF Surjection
<1>8. \E j \in S : Cardinality({k \in S : k <= j}) = n
  BY <1>7 DEF Rank, LowerPart, f
<1> QED BY <1>8 DEF Nth, Rank, LowerPart

\* Nth lists the members of a set of numbers, in order and all of them.
InOrderOf(S) ==
    /\ Cardinality(S) \in Nat
    /\ \A n \in 1..Cardinality(S) : Nth(S, n) \in S
    /\ \A m, n \in 1..Cardinality(S) : m < n => Nth(S, m) < Nth(S, n)
    /\ \A i \in S : \E n \in 1..Cardinality(S) : Nth(S, n) = i

LEMMA NthInOrder ==
    ASSUME NEW N \in Nat, NEW S \in SUBSET (1..N)
    PROVE  InOrderOf(S)
<1>1. Cardinality(S) \in Nat /\ \A i \in S : i \in Nat
  BY PlacesAreFinite
<1>2. \A n \in 1..Cardinality(S) : Nth(S, n) \in S
  BY NthIsRank
<1>3. ASSUME NEW m \in 1..Cardinality(S), NEW n \in 1..Cardinality(S), m < n
      PROVE  Nth(S, m) < Nth(S, n)
  <2>1. PICK a : a = Nth(S, m)
    OBVIOUS
  <2>2. PICK b : b = Nth(S, n)
    OBVIOUS
  <2>3. a \in S /\ b \in S /\ Rank(S, a) = m /\ Rank(S, b) = n
    BY <2>1, <2>2, NthIsRank
  <2>4. b < a => Rank(S, b) < Rank(S, a)
    BY <2>3, RanksDiffer
  <2>5. a < b
    BY <2>3, <2>4, <1>1, <1>3
  <2> QED BY <2>1, <2>2, <2>5
<1>4. ASSUME NEW i \in S PROVE \E n \in 1..Cardinality(S) : Nth(S, n) = i
  <2>1. PICK n : n = Rank(S, i)
    OBVIOUS
  <2>2. n \in 1..Cardinality(S)
    BY <2>1, RankInRange
  <2>3. PICK k : k = Nth(S, n)
    OBVIOUS
  <2>4. k \in S /\ Rank(S, k) = n
    BY <2>2, <2>3, NthIsRank
  <2>5. k < i => Rank(S, k) < Rank(S, i)
    BY <2>4, RanksDiffer
  <2>6. i < k => Rank(S, i) < Rank(S, k)
    BY <2>4, RanksDiffer
  <2>7. k = i
    BY <2>1, <2>2, <2>4, <2>5, <2>6, <1>1
  <2> QED BY <2>2, <2>3, <2>7
<1> QED BY <1>1, <1>2, <1>3, <1>4 DEF InOrderOf

-----------------------------------------------------------------------------
(* The points of a run, in the order of the probes. *)

Unfolds(g, seqs, n) == g = [i \in 1..n |-> IF i = 1 THEN seqs[i] ELSE g[i - 1] \o seqs[i]]

LEMMA FlattenExists ==
    ASSUME NEW seqs, NEW N \in Nat \ {0}
    PROVE  \E g : Unfolds(g, seqs, N)
<1> DEFINE Bad == {n \in Nat \ {0} : ~ \E g : Unfolds(g, seqs, n)}
<1>1. ASSUME Bad # {} PROVE FALSE
  <2>1. Bad \in SUBSET Nat
    OBVIOUS
  <2>2. PICK n \in Bad : \A m \in Bad : n <= m
    <3> HIDE DEF Bad
    <3> QED BY <2>1, <1>1, LeastExists
  <2>3. n \in Nat \ {0} /\ ~ \E g : Unfolds(g, seqs, n)
    OBVIOUS
  <2>4. CASE n = 1
    <3> DEFINE g == [i \in 1..1 |-> seqs[i]]
    <3>1. Unfolds(g, seqs, 1)
      BY DEF Unfolds
    <3> QED BY <3>1, <2>3, <2>4
  <2>5. CASE n # 1
    <3>1. n - 1 \in Nat \ {0} /\ n - 1 \notin Bad
      BY <2>2, <2>3, <2>5
    <3>2. PICK g : Unfolds(g, seqs, n - 1)
      BY <3>1
    <3>3. g = [i \in 1..(n - 1) |-> IF i = 1 THEN seqs[i] ELSE g[i - 1] \o seqs[i]]
      BY <3>2 DEF Unfolds
    <3>4. PICK h : h = [i \in 1..n |-> IF i <= n - 1 THEN g[i] ELSE g[n - 1] \o seqs[n]]
      OBVIOUS
    <3>5. \A i \in 1..n : h[i] = IF i = 1 THEN seqs[i] ELSE h[i - 1] \o seqs[i]
      <4> SUFFICES ASSUME NEW i \in 1..n
                   PROVE  h[i] = IF i = 1 THEN seqs[i] ELSE h[i - 1] \o seqs[i]
        OBVIOUS
      <4>1. CASE i = 1
        <5>1. 1 \in 1..(n - 1) /\ 1 \in 1..n /\ 1 <= n - 1
          BY <2>3, <2>5
        <5> QED BY <4>1, <5>1, <3>3, <3>4
      <4>2. CASE i # 1 /\ i <= n - 1
        <5>1. i \in 1..(n - 1) /\ i - 1 \in 1..n /\ i - 1 <= n - 1
          BY <2>3, <4>2
        <5>2. h[i] = g[i] /\ h[i - 1] = g[i - 1]
          BY <4>2, <5>1, <3>4
        <5>3. g[i] = g[i - 1] \o seqs[i]
          BY <4>2, <5>1, <3>3
        <5> QED BY <4>2, <5>2, <5>3
      <4>3. CASE i = n
        <5>1. n \in 1..n /\ n - 1 \in 1..n /\ ~ (n <= n - 1) /\ n - 1 <= n - 1
          BY <2>3, <2>5
        <5>2. h[n] = g[n - 1] \o seqs[n] /\ h[n - 1] = g[n - 1]
          BY <5>1, <3>4
        <5> QED BY <4>3, <5>2, <2>5
      <4> QED BY <4>1, <4>2, <4>3, <2>3
    <3>6. h = [i \in 1..n |-> h[i]]
      BY <3>4
    <3>7. h = [i \in 1..n |-> IF i = 1 THEN seqs[i] ELSE h[i - 1] \o seqs[i]]
      BY <3>5, <3>6
    <3>8. Unfolds(h, seqs, n)
      BY <3>7 DEF Unfolds
    <3> QED BY <3>8, <2>3
  <2> QED BY <2>4, <2>5
<1> QED BY <1>1

LEMMA FlattenUnfolds ==
    ASSUME NEW seqs, Len(seqs) \in Nat \ {0}
    PROVE  \E g : Unfolds(g, seqs, Len(seqs)) /\ FlattenSeq(seqs) = g[Len(seqs)]
<1>1. \E g : Unfolds(g, seqs, Len(seqs))
  BY FlattenExists
<1>2. PICK f : f = CHOOSE g : Unfolds(g, seqs, Len(seqs))
  OBVIOUS
<1>3. Unfolds(f, seqs, Len(seqs))
  BY <1>1, <1>2
<1>4. f = CHOOSE g : g = [i \in 1..Len(seqs) |-> IF i = 1 THEN seqs[i] ELSE g[i - 1] \o seqs[i]]
  BY <1>2 DEF Unfolds
<1>5. FlattenSeq(seqs) = f[Len(seqs)]
  BY <1>4 DEF FlattenSeq
<1> QED BY <1>3, <1>5

Point == [date : Nat, group : STRING, price : Nat]
Ascending(q) == \A k, l \in 1..Len(q) : k <= l => q[k].date <= q[l].date
SeenUpTo(q, dates, n) ==
    /\ q \in Seq(Point)
    /\ Ascending(q)
    /\ \A k \in 1..Len(q) : \E i \in 1..n : q[k].date = dates[i]
OnOneDate(q, d) == q \in Seq(Point) /\ \A k \in 1..Len(q) : q[k].date = d

LEMMA LaterPageIsSeen ==
    ASSUME NEW n \in Nat \ {0}, NEW dates, \A i \in 1..n : dates[i] \in Nat /\ dates[i] <= dates[n],
           NEW q, SeenUpTo(q, dates, n - 1), NEW s, OnOneDate(s, dates[n])
    PROVE  SeenUpTo(q \o s, dates, n)
<1>1. q \in Seq(Point) /\ s \in Seq(Point) /\ Len(q) \in Nat /\ Len(s) \in Nat
  BY LenProperties DEF SeenUpTo, OnOneDate
<1>2. /\ q \o s \in Seq(Point)
      /\ Len(q \o s) = Len(q) + Len(s)
      /\ \A k \in 1..(Len(q) + Len(s)) :
            (q \o s)[k] = IF k <= Len(q) THEN q[k] ELSE s[k - Len(q)]
  BY <1>1, ConcatProperties
<1>3. \A k \in 1..Len(q) : q[k].date \in Nat /\ q[k].date <= dates[n]
                           /\ \E i \in 1..n : q[k].date = dates[i]
  <2> SUFFICES ASSUME NEW k \in 1..Len(q)
               PROVE  q[k].date \in Nat /\ q[k].date <= dates[n]
                      /\ \E i \in 1..n : q[k].date = dates[i]
    OBVIOUS
  <2>1. PICK i \in 1..(n - 1) : q[k].date = dates[i]
    BY DEF SeenUpTo
  <2>2. i \in 1..n
    OBVIOUS
  <2> QED BY <2>1, <2>2
<1>4. \A k \in 1..Len(q) : (q \o s)[k] = q[k]
  BY <1>1, <1>2
<1>5. \A k \in 1..(Len(q) + Len(s)) : k > Len(q) => (q \o s)[k].date = dates[n]
  <2> SUFFICES ASSUME NEW k \in 1..(Len(q) + Len(s)), k > Len(q)
               PROVE  (q \o s)[k].date = dates[n]
    OBVIOUS
  <2>1. k - Len(q) \in 1..Len(s) /\ ~ (k <= Len(q))
    BY <1>1
  <2>2. (q \o s)[k] = s[k - Len(q)]
    BY <2>1, <1>2
  <2> QED BY <2>1, <2>2 DEF OnOneDate
<1>6. Ascending(q \o s)
  <2> SUFFICES ASSUME NEW k \in 1..(Len(q) + Len(s)), NEW l \in 1..(Len(q) + Len(s)), k <= l
               PROVE  (q \o s)[k].date <= (q \o s)[l].date
    BY <1>2 DEF Ascending
  <2>1. CASE l <= Len(q)
    <3>1. k \in 1..Len(q) /\ l \in 1..Len(q)
      BY <2>1, <1>1
    <3> QED BY <3>1, <1>4 DEF SeenUpTo, Ascending
  <2>2. CASE l > Len(q)
    <3>1. (q \o s)[l].date = dates[n] /\ dates[n] \in Nat
      BY <2>2, <1>5
    <3>2. CASE k <= Len(q)
      <4>1. k \in 1..Len(q)
        BY <3>2, <1>1
      <4> QED BY <4>1, <3>1, <1>3, <1>4
    <3>3. CASE k > Len(q)
      BY <3>1, <3>3, <1>5
    <3> QED BY <3>2, <3>3, <1>1
  <2> QED BY <2>1, <2>2, <1>1
<1>7. \A k \in 1..Len(q \o s) : \E i \in 1..n : (q \o s)[k].date = dates[i]
  <2> SUFFICES ASSUME NEW k \in 1..(Len(q) + Len(s))
               PROVE  \E i \in 1..n : (q \o s)[k].date = dates[i]
    BY <1>2
  <2>1. CASE k <= Len(q)
    <3>1. k \in 1..Len(q)
      BY <2>1, <1>1
    <3> QED BY <3>1, <1>3, <1>4
  <2>2. CASE k > Len(q)
    <3>1. n \in 1..n
      OBVIOUS
    <3> QED BY <2>2, <3>1, <1>5
  <2> QED BY <2>1, <2>2, <1>1
<1> QED BY <1>2, <1>6, <1>7 DEF SeenUpTo

LEMMA FlattenedAreSeen ==
    ASSUME NEW N \in Nat \ {0}, NEW dates,
           \A i \in 1..N : dates[i] \in Nat,
           \A i, j \in 1..N : i <= j => dates[i] <= dates[j],
           NEW seqs, \A i \in 1..N : OnOneDate(seqs[i], dates[i]),
           NEW g, Unfolds(g, seqs, N)
    PROVE  SeenUpTo(g[N], dates, N)
<1>0. \A i \in 1..N : g[i] = IF i = 1 THEN seqs[i] ELSE g[i - 1] \o seqs[i]
  <2>1. g = [i \in 1..N |-> IF i = 1 THEN seqs[i] ELSE g[i - 1] \o seqs[i]]
    BY DEF Unfolds
  <2> QED BY <2>1
<1> DEFINE Bad == {n \in 1..N : ~ SeenUpTo(g[n], dates, n)}
<1>1. ASSUME Bad # {} PROVE FALSE
  <2>1. Bad \in SUBSET Nat
    OBVIOUS
  <2>2. PICK n \in Bad : \A m \in Bad : n <= m
    <3> HIDE DEF Bad
    <3> QED BY <2>1, <1>1, LeastExists
  <2>3. n \in 1..N /\ ~ SeenUpTo(g[n], dates, n)
    OBVIOUS
  <2>4. CASE n = 1
    <3>1. g[1] = seqs[1] /\ OnOneDate(seqs[1], dates[1]) /\ dates[1] \in Nat
      BY <2>3, <2>4, <1>0
    <3>2. g[1] \in Seq(Point) /\ \A k \in 1..Len(g[1]) : g[1][k].date = dates[1]
      BY <3>1 DEF OnOneDate
    <3>3. SeenUpTo(g[1], dates, 1)
      BY <3>1, <3>2 DEF SeenUpTo, Ascending
    <3> QED BY <3>3, <2>3, <2>4
  <2>5. CASE n # 1
    <3>1. n - 1 \in 1..N /\ n - 1 \notin Bad
      BY <2>2, <2>3, <2>5
    <3>2. SeenUpTo(g[n - 1], dates, n - 1)
      BY <3>1
    <3>3. g[n] = g[n - 1] \o seqs[n] /\ OnOneDate(seqs[n], dates[n])
      BY <2>3, <2>5, <1>0
    <3>4. \A i \in 1..n : dates[i] \in Nat /\ dates[i] <= dates[n]
      BY <2>3
    <3>5. n \in Nat \ {0}
      BY <2>3
    <3>6. SeenUpTo(g[n - 1] \o seqs[n], dates, n)
      BY <3>2, <3>3, <3>4, <3>5, LaterPageIsSeen
    <3> QED BY <3>3, <3>6, <2>3
  <2> QED BY <2>4, <2>5
<1>2. N \in 1..N /\ N \notin Bad
  BY <1>1
<1> QED BY <1>2

\* A run's points are its probes' cars: on the dates of the probes, in order.
LEMMA PointsAreSeen ==
    ASSUME NEW n \in Nat, NEW dates,
           \A i \in 1..n : dates[i] \in Nat,
           \A i, j \in 1..n : i <= j => dates[i] <= dates[j],
           NEW pages \in [1..n -> Pages]
    PROVE  SeenUpTo(Points(dates, pages), dates, n)
<1> DEFINE point(i, j) == [date  |-> dates[i],
                           group |-> pages[i].cars[j].group,
                           price |-> pages[i].cars[j].price]
           page(i) == [j \in DOMAIN pages[i].cars |-> point(i, j)]
           seqs == [i \in DOMAIN pages |-> page(i)]
<1>1. Points(dates, pages) = FlattenSeq(seqs)
  BY DEF Points
<1>2. DOMAIN pages = 1..n
  OBVIOUS
<1>3. \A i \in 1..n : OnOneDate(page(i), dates[i])
  <2> SUFFICES ASSUME NEW i \in 1..n PROVE OnOneDate(page(i), dates[i])
    OBVIOUS
  <2>1. PICK cars : cars = pages[i].cars
    OBVIOUS
  <2>2. cars \in Seq([group : STRING, price : Nat])
    BY <2>1, ProbePagesAssumption
  <2>3. Len(cars) \in Nat /\ DOMAIN cars = 1..Len(cars)
        /\ \A j \in 1..Len(cars) : cars[j] \in [group : STRING, price : Nat]
    BY <2>2, LenProperties, ElementOfSeq
  <2>4. \A j \in 1..Len(cars) : point(i, j) \in Point /\ point(i, j).date = dates[i]
    BY <2>1, <2>3 DEF Point
  <2> HIDE DEF point
  <2>5. page(i) = [j \in 1..Len(cars) |-> point(i, j)]
    BY <2>1, <2>3
  <2>6. page(i) \in Seq(Point) /\ Len(page(i)) = Len(cars)
    BY <2>3, <2>4, <2>5
  <2> QED BY <2>4, <2>5, <2>6 DEF OnOneDate
<1> HIDE DEF page
<1>4. \A i \in 1..n : seqs[i] = page(i)
  BY <1>2
<1>5. seqs \in Seq(Seq(Point)) /\ Len(seqs) = n
  BY <1>2, <1>3 DEF OnOneDate
<1> HIDE DEF seqs
<1>6. CASE n = 0
  <2>1. FlattenSeq(seqs) = seqs /\ seqs = << >>
    BY <1>5, <1>6, EmptySeq DEF FlattenSeq
  <2>2. << >> \in Seq(Point) /\ Len(<< >>) = 0 /\ 1..0 = {}
    OBVIOUS
  <2>3. SeenUpTo(<< >>, dates, n)
    BY <2>2 DEF SeenUpTo, Ascending
  <2> QED BY <2>1, <2>3, <1>1
<1>7. CASE n # 0
  <2>1. PICK g : Unfolds(g, seqs, n) /\ FlattenSeq(seqs) = g[n]
    BY <1>5, <1>7, FlattenUnfolds
  <2>2. SeenUpTo(g[n], dates, n)
    BY <2>1, <1>3, <1>4, <1>7, FlattenedAreSeen
  <2> QED BY <2>1, <2>2, <1>1
<1> QED BY <1>6, <1>7

\* What a run's points satisfy: cars of the probes of its window, in order.
Found(q, day) ==
    /\ q \in Seq(Point)
    /\ Ascending(q)
    /\ \A k \in 1..Len(q) : day <= q[k].date /\ q[k].date + ProbeDays <= day + Period

LEMMA ExecutedIsPrefix ==
    ASSUME NEW n \in Nat, NEW pages \in [1..n -> Pages]
    PROVE  \E m \in 0..n : Executed(pages) \in [1..m -> Pages]
<1>1. pages \in Seq(Pages) /\ Len(pages) = n
  OBVIOUS
<1> DEFINE stops == {i \in StopAfter..Len(pages) :
                        \A j \in (i - StopAfter + 1)..i : pages[j].kind = "empty"}
<1>2. stops \cup {n} \in SUBSET Nat /\ stops \cup {n} # {}
  BY <1>1, ProbeAssumption
<1> HIDE DEF stops
<1>3. PICK m : m = Min(stops \cup {n})
  OBVIOUS
<1>4. m \in Nat /\ m <= n
  BY <1>2, <1>3, MinOf
<1>5. Executed(pages) = SubSeq(pages, 1, m)
  BY <1>1, <1>3 DEF Executed, stops
<1>6. SubSeq(pages, 1, m) \in [1..m -> Pages]
  <2>1. CASE m = 0
    BY <2>1, <1>1, SubSeqProperties
  <2>2. CASE m # 0
    <3>1. 1 \in Int /\ m \in Int /\ \A i \in 1..m : pages[i] \in Pages
      BY <1>4
    <3>2. SubSeq(pages, 1, m) \in Seq(Pages) /\ Len(SubSeq(pages, 1, m)) = m
      BY <3>1, <1>4, <2>2, SubSeqProperties
    <3>3. PICK p : p = SubSeq(pages, 1, m)
      OBVIOUS
    <3>4. p \in [1..Len(p) -> Pages] /\ Len(p) = m
      BY <3>2, <3>3, LenProperties
    <3> QED BY <3>3, <3>4
  <2> QED BY <2>1, <2>2
<1> QED BY <1>4, <1>5, <1>6

LEMMA WholeProbes ==
    ASSUME NEW i \in 1..NumberOfProbes
    PROVE  (i - 1) * ProbeDays \in Nat /\ (i - 1) * ProbeDays + ProbeDays <= Period
<1>1. Period \in Nat /\ ProbeDays \in Nat \ {0}
  BY WindowAssumption, ProbeAssumption
<1>2. PICK k : k = Period \div ProbeDays
  OBVIOUS
<1>3. k \in Nat /\ k * ProbeDays <= Period
  BY <1>1, <1>2
<1>4. i \in 1..k
  BY <1>2 DEF NumberOfProbes
<1>5. (i - 1) * ProbeDays + ProbeDays <= k * ProbeDays
  BY <1>1, <1>3, <1>4
<1>6. (i - 1) * ProbeDays \in Nat
  BY <1>1, <1>3, <1>4
<1> QED BY <1>1, <1>3, <1>5, <1>6

LEMMA PointsAreFound ==
    ASSUME NEW day \in Nat, NEW pages \in [1..NumberOfProbes -> Pages]
    PROVE  Found(Points(ProbeDates(day, day + Period), Executed(pages)), day)
<1>1. PICK dates : dates = ProbeDates(day, day + Period)
  OBVIOUS
<1>2. NumberOfProbes \in Nat /\ Period \in Nat /\ ProbeDays \in Nat \ {0}
  BY WindowAssumption, ProbeAssumption DEF NumberOfProbes
<1>3. PICK m \in 0..NumberOfProbes : Executed(pages) \in [1..m -> Pages]
  BY <1>2, ExecutedIsPrefix
<1>4. dates = [i \in 1..NumberOfProbes |-> day + (i - 1) * ProbeDays]
  BY <1>1, <1>2 DEF ProbeDates, NumberOfProbes
<1>5. \A i \in 1..m : /\ dates[i] \in Nat
                      /\ day <= dates[i]
                      /\ dates[i] + ProbeDays <= day + Period
  <2> SUFFICES ASSUME NEW i \in 1..m
               PROVE  /\ dates[i] \in Nat
                      /\ day <= dates[i]
                      /\ dates[i] + ProbeDays <= day + Period
    OBVIOUS
  <2>1. i \in 1..NumberOfProbes
    BY <1>2
  <2>2. (i - 1) * ProbeDays \in Nat /\ (i - 1) * ProbeDays + ProbeDays <= Period
    BY <2>1, WholeProbes
  <2>3. dates[i] = day + (i - 1) * ProbeDays
    BY <2>1, <1>4
  <2>4. PICK x : x = (i - 1) * ProbeDays
    OBVIOUS
  <2> QED BY <2>2, <2>3, <2>4, <1>2
<1>6. \A i, j \in 1..m : i <= j => dates[i] <= dates[j]
  <2> SUFFICES ASSUME NEW i \in 1..m, NEW j \in 1..m, i <= j
               PROVE  dates[i] <= dates[j]
    OBVIOUS
  <2>1. i \in 1..NumberOfProbes /\ j \in 1..NumberOfProbes
    BY <1>2
  <2>2. dates[i] = day + (i - 1) * ProbeDays /\ dates[j] = day + (j - 1) * ProbeDays
    BY <2>1, <1>4
  <2>3. (i - 1) * ProbeDays <= (j - 1) * ProbeDays
    BY <1>2
  <2>4. (i - 1) * ProbeDays \in Nat /\ (j - 1) * ProbeDays \in Nat
    BY <2>1, WholeProbes
  <2> QED BY <2>2, <2>3, <2>4
<1>7. SeenUpTo(Points(dates, Executed(pages)), dates, m)
  BY <1>3, <1>5, <1>6, PointsAreSeen
<1>8. PICK q : q = Points(dates, Executed(pages))
  OBVIOUS
<1>9. q \in Seq(Point) /\ Ascending(q) /\ \A k \in 1..Len(q) : \E i \in 1..m : q[k].date = dates[i]
  BY <1>7, <1>8 DEF SeenUpTo
<1>10. Found(q, day)
  BY <1>5, <1>9 DEF Found
<1> QED BY <1>1, <1>8, <1>10

LEMMA KeptInOrder ==
    ASSUME NEW T, NEW list \in Seq(T), NEW S \in SUBSET (1..Len(list))
    PROVE  /\ Kept(list, S) \in Seq(T)
           /\ Len(Kept(list, S)) = Cardinality(S)
           /\ \A n \in 1..Cardinality(S) : Kept(list, S)[n] = list[Nth(S, n)]
<1>1. Len(list) \in Nat /\ \A i \in 1..Len(list) : list[i] \in T
  BY LenProperties, ElementOfSeq
<1>2. InOrderOf(S)
  BY <1>1, NthInOrder
<1>3. Cardinality(S) \in Nat /\ \A n \in 1..Cardinality(S) : Nth(S, n) \in S
  BY <1>2 DEF InOrderOf
<1>4. PICK k : k = [n \in 1..Cardinality(S) |-> list[Nth(S, n)]]
  OBVIOUS
<1>5. k \in Seq(T) /\ Len(k) = Cardinality(S)
  <2>1. \A n \in 1..Cardinality(S) : list[Nth(S, n)] \in T
    BY <1>1, <1>3
  <2> QED BY <2>1, <1>3, <1>4
<1>6. Kept(list, S) = k
  BY <1>4, <1>5, ConcatEmptySeq DEF Kept
<1> QED BY <1>4, <1>5, <1>6

OncePer(q) ==
    \A i, j \in DOMAIN q : i # j /\ q[i].date = q[j].date => q[i].group # q[j].group
GuideIn(q) == IF q = << >> THEN << >> ELSE OfGuide(q)
PartOf(guide, q) ==
    /\ guide \in Seq(Point)
    /\ Ascending(guide)
    /\ \A k \in 1..Len(guide) : \E i \in 1..Len(q) : guide[k] = q[i]
Rising(guide) == \A k, l \in 1..Len(guide) : k < l => guide[k].date < guide[l].date

LEMMA GuideIsPart ==
    ASSUME NEW q \in Seq(Point), Ascending(q)
    PROVE  PartOf(GuideIn(q), q) /\ (OncePer(q) => Rising(GuideIn(q)))
<1>1. CASE q = << >>
  <2>1. GuideIn(q) = << >>
    BY <1>1 DEF GuideIn
  <2>2. << >> \in Seq(Point) /\ Len(<< >>) = 0 /\ 1..0 = {}
    OBVIOUS
  <2>3. PartOf(<< >>, q) /\ Rising(<< >>)
    BY <2>2 DEF PartOf, Ascending, Rising
  <2> QED BY <2>1, <2>3
<1>2. CASE q # << >>
  <2>1. PICK g : g = GuideGroup(q)
    OBVIOUS
  <2>2. PICK S : S = {i \in DOMAIN q : q[i].group = g}
    OBVIOUS
  <2>3. PICK guide : guide = Kept(q, S)
    OBVIOUS
  <2>4. GuideIn(q) = guide
    BY <1>2, <2>1, <2>2, <2>3 DEF GuideIn, OfGuide
  <2>5. Len(q) \in Nat /\ DOMAIN q = 1..Len(q)
    BY LenProperties
  <2>6. S \in SUBSET (1..Len(q))
    BY <2>2, <2>5
  <2>7. /\ guide \in Seq(Point)
        /\ Len(guide) = Cardinality(S)
        /\ \A n \in 1..Cardinality(S) : guide[n] = q[Nth(S, n)]
    BY <2>3, <2>6, KeptInOrder
  <2>8. InOrderOf(S)
    BY <2>5, <2>6, NthInOrder
  <2>9. \A n \in 1..Len(guide) : Nth(S, n) \in S /\ guide[n] = q[Nth(S, n)]
    BY <2>7, <2>8 DEF InOrderOf
  <2>10. \A k, l \in 1..Len(guide) : k < l => Nth(S, k) < Nth(S, l)
    BY <2>7, <2>8 DEF InOrderOf
  <2>11. \A k \in 1..Len(guide) : \E i \in 1..Len(q) : guide[k] = q[i]
    BY <2>6, <2>9
  <2>12. ASSUME NEW k \in 1..Len(guide), NEW l \in 1..Len(guide), k < l
         PROVE  guide[k].date <= guide[l].date
                /\ (OncePer(q) => guide[k].date < guide[l].date)
    <3>1. PICK i : i = Nth(S, k)
      OBVIOUS
    <3>2. PICK j : j = Nth(S, l)
      OBVIOUS
    <3>3. i \in S /\ j \in S /\ i < j /\ guide[k] = q[i] /\ guide[l] = q[j]
      BY <3>1, <3>2, <2>9, <2>10, <2>12
    <3>4. i \in 1..Len(q) /\ j \in 1..Len(q) /\ i <= j
      BY <3>3, <2>5, <2>6
    <3>5. q[i].date <= q[j].date /\ q[i].date \in Nat /\ q[j].date \in Nat
      <4>1. q[i] \in Point /\ q[j] \in Point
        BY <3>4, ElementOfSeq
      <4> QED BY <4>1, <3>4 DEF Ascending, Point
    <3>6. q[i].group = q[j].group
      BY <3>3, <2>2
    <3>7. OncePer(q) => q[i].date # q[j].date
      BY <3>3, <3>4, <3>6, <2>5 DEF OncePer
    <3> QED BY <3>3, <3>5, <3>7
  <2>13. Ascending(guide)
    <3> SUFFICES ASSUME NEW k \in 1..Len(guide), NEW l \in 1..Len(guide), k <= l
                 PROVE  guide[k].date <= guide[l].date
      BY DEF Ascending
    <3>1. CASE k = l
      <4>1. guide[k] \in Point
        BY <2>7, ElementOfSeq
      <4> QED BY <4>1, <3>1 DEF Point
    <3>2. CASE k < l
      BY <3>2, <2>12
    <3> QED BY <3>1, <3>2
  <2>14. PartOf(guide, q)
    BY <2>7, <2>11, <2>13 DEF PartOf
  <2>15. OncePer(q) => Rising(guide)
    BY <2>12 DEF Rising
  <2> QED BY <2>4, <2>14, <2>15
<1> QED BY <1>1, <1>2

\* The days a window is cut at: its first day, the dates of the jumps, and the
\* day after its last one.
CutsOf(guide, first, last) == <<first>> \o Boundaries(guide) \o <<last + 1>>
IsCuts(c, guide, first, last) ==
    /\ c \in Seq(Nat)
    /\ Len(c) >= 2
    /\ c[1] = first /\ c[Len(c)] = last + 1
    /\ \A n \in 2..(Len(c) - 1) : \E j \in Jumps(guide) : c[n] = guide[j].date
    /\ \A j \in Jumps(guide) : \E n \in 2..(Len(c) - 1) : c[n] = guide[j].date

LEMMA CutsAreJumps ==
    ASSUME NEW guide \in Seq(Point), NEW first \in Nat, NEW last \in Nat
    PROVE  IsCuts(CutsOf(guide, first, last), guide, first, last)
<1>1. PICK S : S = Jumps(guide)
  OBVIOUS
<1>2. PICK list : list = DatesAt(guide)
  OBVIOUS
<1>3. Len(guide) \in Nat /\ DOMAIN guide = 1..Len(guide)
      /\ \A i \in 1..Len(guide) : guide[i] \in Point
  BY LenProperties, ElementOfSeq
<1>4. list = [i \in 1..Len(guide) |-> guide[i].date]
  BY <1>2, <1>3 DEF DatesAt
<1>5. list \in Seq(Nat) /\ Len(list) = Len(guide)
      /\ \A i \in 1..Len(guide) : list[i] = guide[i].date
  BY <1>3, <1>4 DEF Point
<1>6. S \in SUBSET (1..Len(list))
  BY <1>1, <1>3, <1>5 DEF Jumps
<1>7. PICK b : b = Kept(list, S)
  OBVIOUS
<1>8. b \in Seq(Nat) /\ Len(b) = Cardinality(S)
      /\ \A n \in 1..Cardinality(S) : b[n] = list[Nth(S, n)]
  BY <1>5, <1>6, <1>7, KeptInOrder
<1>9. InOrderOf(S)
  BY <1>5, <1>6, <1>3, NthInOrder
<1>10. PICK K : K = Cardinality(S)
  OBVIOUS
<1>11. K \in Nat /\ Len(b) = K
  BY <1>8, <1>9, <1>10 DEF InOrderOf
<1>12. \A n \in 1..K : \E j \in S : b[n] = guide[j].date
  BY <1>5, <1>6, <1>8, <1>9, <1>10 DEF InOrderOf
<1>13. \A j \in S : \E n \in 1..K : b[n] = guide[j].date
  BY <1>5, <1>6, <1>8, <1>9, <1>10 DEF InOrderOf
<1>14. PICK a : a = <<first>> \o b
  OBVIOUS
<1>15. a \in Seq(Nat) /\ Len(a) = K + 1 /\ a[1] = first
       /\ \A n \in 1..K : a[n + 1] = b[n]
  <2>1. <<first>> \in Seq(Nat) /\ Len(<<first>>) = 1
    OBVIOUS
  <2>2. a \in Seq(Nat) /\ Len(a) = 1 + K
        /\ \A i \in 1..(1 + K) : a[i] = IF i <= 1 THEN <<first>>[i] ELSE b[i - 1]
    BY <2>1, <1>8, <1>11, <1>14, ConcatProperties
  <2> QED BY <2>2, <1>11
<1>16. PICK c : c = a \o <<last + 1>>
  OBVIOUS
<1>17. c \in Seq(Nat) /\ Len(c) = K + 2 /\ c[K + 2] = last + 1
       /\ \A n \in 1..(K + 1) : c[n] = a[n]
  <2>1. <<last + 1>> \in Seq(Nat) /\ Len(<<last + 1>>) = 1
    OBVIOUS
  <2>2. c \in Seq(Nat) /\ Len(c) = K + 1 + 1
        /\ \A i \in 1..(K + 1 + 1) : c[i] = IF i <= K + 1 THEN a[i] ELSE <<last + 1>>[i - (K + 1)]
    BY <2>1, <1>11, <1>15, <1>16, ConcatProperties
  <2> QED BY <2>2, <1>11
<1>18. CutsOf(guide, first, last) = c
  BY <1>1, <1>2, <1>7, <1>14, <1>16 DEF CutsOf, Boundaries
<1>19. \A n \in 2..(K + 1) : \E j \in S : c[n] = guide[j].date
  <2> SUFFICES ASSUME NEW n \in 2..(K + 1) PROVE \E j \in S : c[n] = guide[j].date
    OBVIOUS
  <2>1. n - 1 \in 1..K /\ n \in 1..(K + 1) /\ (n - 1) + 1 = n
    BY <1>11
  <2>2. c[n] = b[n - 1]
    BY <2>1, <1>15, <1>17
  <2> QED BY <2>1, <2>2, <1>12
<1>20. \A j \in S : \E n \in 2..(K + 1) : c[n] = guide[j].date
  <2> SUFFICES ASSUME NEW j \in S PROVE \E n \in 2..(K + 1) : c[n] = guide[j].date
    OBVIOUS
  <2>1. PICK n \in 1..K : b[n] = guide[j].date
    BY <1>13
  <2>2. n + 1 \in 2..(K + 1) /\ n + 1 \in 1..(K + 1)
    BY <1>11
  <2>3. c[n + 1] = b[n]
    BY <2>2, <1>15, <1>17
  <2> QED BY <2>1, <2>2, <2>3
<1>21. 1 \in 1..(K + 1) /\ (K + 2) - 1 = K + 1 /\ K + 2 >= 2
  BY <1>11
<1>22. IsCuts(c, guide, first, last)
  BY <1>1, <1>15, <1>17, <1>19, <1>20, <1>21 DEF IsCuts
<1> QED BY <1>18, <1>22

LEMMA DatesAreNat ==
    ASSUME NEW q \in Seq(Point)
    PROVE  /\ Len(q) \in Nat /\ DOMAIN q = 1..Len(q)
           /\ \A i \in 1..Len(q) : q[i] \in Point /\ q[i].date \in Nat /\ q[i].price \in Nat
           /\ AllDates(q) \in SUBSET Nat
           /\ \A d : d \in AllDates(q) <=> \E i \in 1..Len(q) : q[i].date = d
<1>1. Len(q) \in Nat /\ DOMAIN q = 1..Len(q) /\ \A i \in 1..Len(q) : q[i] \in Point
  BY LenProperties, ElementOfSeq
<1>2. \A i \in 1..Len(q) : q[i].date \in Nat /\ q[i].price \in Nat
  BY <1>1 DEF Point
<1>3. \A d : d \in AllDates(q) <=> \E i \in 1..Len(q) : q[i].date = d
  BY <1>1 DEF AllDates
<1>4. AllDates(q) \in SUBSET Nat
  BY <1>2, <1>3
<1> QED BY <1>1, <1>2, <1>3, <1>4

LEMMA PriceIsNat ==
    ASSUME NEW q \in Seq(Point), NEW start \in Nat
    PROVE  ReferencePrice(q, start) \in Nat
<1> DEFINE later == {d \in AllDates(q) : d >= start}
<1>1. CASE later = {}
  BY <1>1 DEF ReferencePrice
<1>2. CASE later # {}
  <2>1. later \in SUBSET Nat
    BY DatesAreNat
  <2>2. PICK d : d = Min(later)
    OBVIOUS
  <2>3. d \in later
    <3> HIDE DEF later
    <3> QED BY <1>2, <2>1, <2>2, MinOf
  <2>4. PICK S : S = {i \in DOMAIN q : q[i].date = d}
    OBVIOUS
  <2>5. S \in SUBSET (1..Len(q)) /\ S # {} /\ Len(q) \in Nat
    BY <2>3, <2>4, DatesAreNat
  <2>6. PICK i : i = Max(S)
    OBVIOUS
  <2>7. S \in SUBSET (0..Len(q))
    BY <2>5
  <2>8. i \in 1..Len(q)
    BY <2>5, <2>6, <2>7, MaxOf
  <2>9. ReferencePrice(q, start) = q[i].price
    BY <1>2, <2>2, <2>4, <2>6 DEF ReferencePrice, PriceOn
  <2> QED BY <2>8, <2>9, DatesAreNat
<1> QED BY <1>1, <1>2

\* How many groups a date has is at most the number of points.
GroupCount(q, d) == Cardinality(GroupsOn(q, d))
LEMMA GroupsAreCounted ==
    ASSUME NEW q \in Seq(Point), NEW d
    PROVE  GroupCount(q, d) \in 0..Len(q)
<1> DEFINE S == {i \in DOMAIN q : q[i].date = d}
           G == GroupsOn(q, d)
           f == [i \in S |-> q[i].group]
<1>1. Len(q) \in Nat /\ S \in SUBSET (1..Len(q))
  BY DatesAreNat
<1>2. IsFiniteSet(1..Len(q)) /\ Cardinality(1..Len(q)) = Len(q)
  <2>1. PICK N : N = Len(q)
    OBVIOUS
  <2>2. IsFiniteSet(1..N) /\ Cardinality(1..N) = N
    <3>1. 1 \in Int /\ N \in Int /\ (1 > N => N = 0) /\ (N - 1) + 1 = N
      BY <1>1, <2>1
    <3> QED BY <3>1, FS_Interval
  <2> QED BY <2>1, <2>2
<1>3. G = {q[i].group : i \in S}
  BY DEF GroupsOn
<1>4. f \in Surjection(S, G)
  BY <1>3 DEF Surjection
<1> HIDE DEF S, G, f
<1>5. IsFiniteSet(S) /\ Cardinality(S) <= Len(q)
  BY <1>1, <1>2, FS_Subset
<1>6. IsFiniteSet(G) /\ Cardinality(G) <= Cardinality(S)
  BY <1>4, <1>5, FS_Surjection
<1>7. Cardinality(G) \in Nat /\ Cardinality(S) \in Nat
  BY <1>5, <1>6, FS_CardinalityType
<1>8. Cardinality(G) \in 0..Len(q)
  BY <1>1, <1>5, <1>6, <1>7
<1> QED BY <1>8 DEF GroupCount, G

\* A representative lies in its zone, on a date no other one of the zone beats.
DatesIn(q, lo, hi) == {d \in AllDates(q) : lo <= d /\ d <= hi}
IsRepresentative(rep, q, lo, hi, otherwise) ==
    IF DatesIn(q, lo, hi) = {} THEN rep = otherwise
    ELSE /\ rep \in DatesIn(q, lo, hi)
         /\ \A e \in DatesIn(q, lo, hi) : GroupCount(q, e) <= GroupCount(q, rep)

LEMMA BestExists ==
    ASSUME NEW q \in Seq(Point), NEW D, D # {}
    PROVE  \E d \in D : \A e \in D : GroupCount(q, e) <= GroupCount(q, d)
<1> DEFINE C == {GroupCount(q, d) : d \in D}
<1>1. C \in SUBSET (0..Len(q)) /\ C # {} /\ Len(q) \in Nat
  BY GroupsAreCounted, DatesAreNat
<1>2. PICK x \in C : \A y \in C : y <= x
  <2> HIDE DEF C
  <2> QED BY <1>1, GreatestExists
<1>3. PICK d \in D : x = GroupCount(q, d)
  OBVIOUS
<1>4. \A e \in D : GroupCount(q, e) <= GroupCount(q, d)
  BY <1>2, <1>3
<1> QED BY <1>4

LEMMA RepresentativeFits ==
    ASSUME NEW q \in Seq(Point), NEW zone, zone.start \in Int, zone.end \in Int
    PROVE  IsRepresentative(Representative(zone, q), q, zone.start, zone.end, zone.rep)
<1>1. PICK D : D = DatesIn(q, zone.start, zone.end)
  OBVIOUS
<1>2. CASE D = {}
  BY <1>1, <1>2 DEF Representative, IsRepresentative, DatesIn
<1>3. CASE D # {}
  <2>1. PICK most : most = {d \in D : \A e \in D : GroupCount(q, e) <= GroupCount(q, d)}
    OBVIOUS
  <2>2. most # {} /\ most \in SUBSET D
    BY <1>3, <2>1, BestExists
  <2>3. D \in SUBSET Nat /\ \A d \in D : d <= zone.end
    BY <1>1, DatesAreNat DEF DatesIn
  <2>4. zone.end \in Nat /\ D \in SUBSET (0..zone.end)
    <3>1. PICK d : d \in D
      BY <1>3
    <3>2. d \in Nat /\ d <= zone.end
      BY <2>3, <3>1
    <3> QED BY <2>3, <3>2
  <2>5. most \in SUBSET (0..zone.end)
    BY <2>2, <2>4
  <2>6. PICK r : r = Max(most)
    OBVIOUS
  <2>7. r \in most
    BY <2>2, <2>4, <2>5, <2>6, MaxOf
  <2>8. Representative(zone, q) = r
    <3> DEFINE groups == [d \in D |-> Cardinality(GroupsOn(q, d))]
    <3>1. D = {d \in AllDates(q) : zone.start <= d /\ d <= zone.end}
      BY <1>1 DEF DatesIn
    <3>2. Representative(zone, q) = Max({d \in D : \A e \in D : groups[e] <= groups[d]})
      BY <1>3, <3>1 DEF Representative
    <3>3. {d \in D : \A e \in D : groups[e] <= groups[d]} = most
      BY <2>1 DEF GroupCount
    <3> QED BY <3>2, <3>3, <2>6
  <2> QED BY <1>1, <1>3, <2>1, <2>7, <2>8 DEF IsRepresentative
<1> QED BY <1>2, <1>3

\* The zones a run detects lie between its cuts.
CutBy(zs, q, c) ==
    /\ zs \in Seq(SeasonZone)
    /\ Len(zs) = Len(c) - 1
    /\ \A n \in 1..Len(zs) :
          /\ zs[n].start = c[n] /\ zs[n].end = c[n + 1] - 1
          /\ IsRepresentative(zs[n].rep, q, c[n], c[n + 1] - 1, c[n])
FreshZones(q, first, last) == ReassignRepresentatives(DetectZones(q, first, last), q)

LEMMA DetectedAreCut ==
    ASSUME NEW q \in Seq(Point), Ascending(q), NEW first \in Nat, NEW last \in Nat
    PROVE  CutBy(FreshZones(q, first, last), q, CutsOf(GuideIn(q), first, last))
<1>1. PICK guide : guide = GuideIn(q)
  OBVIOUS
<1>2. PICK c : c = CutsOf(guide, first, last)
  OBVIOUS
<1>3. guide \in Seq(Point)
  BY <1>1, GuideIsPart DEF PartOf
<1>4. IsCuts(c, guide, first, last)
  BY <1>2, <1>3, CutsAreJumps
<1>5. PICK m : m = Len(c) - 1
  OBVIOUS
<1>6. c \in Seq(Nat) /\ m \in Nat \ {0} /\ Len(c) = m + 1 /\ c[1] = first /\ c[m + 1] = last + 1
  <2>1. Len(c) \in Nat /\ Len(c) >= 2
    BY <1>4, LenProperties DEF IsCuts
  <2> QED BY <2>1, <1>4, <1>5 DEF IsCuts
<1>7. \A n \in 1..(m + 1) : c[n] \in Nat
  BY <1>6, ElementOfSeq
<1> DEFINE zone(n) == [start |-> c[n], end |-> c[n + 1] - 1,
                       rep |-> c[n], price |-> ReferencePrice(guide, c[n])]
<1>8. PICK zs : zs = DetectZones(q, first, last)
  OBVIOUS
<1>9. zs = [n \in 1..m |-> zone(n)]
  <2>1. CASE q = << >>
    <3>1. guide = << >>
      BY <1>1, <2>1 DEF GuideIn
    <3>2. Len(<< >>) = 0 /\ 2..0 = {} /\ Jumps(<< >>) = {}
      BY DEF Jumps
    <3>3. m = 1
      <4>1. ASSUME 2 <= m PROVE \E j \in Jumps(guide) : c[2] = guide[j].date
        <5>1. 2 \in 2..(Len(c) - 1)
          BY <4>1, <1>5, <1>6
        <5> QED BY <5>1, <1>4 DEF IsCuts
      <4> QED BY <4>1, <3>1, <3>2, <1>6
    <3>4. c[1] = first /\ c[2] = last + 1 /\ (last + 1) - 1 = last
      BY <1>6, <3>3
    <3>5. ReferencePrice(guide, first) = 0
      BY <3>1 DEF ReferencePrice, AllDates
    <3>6. zone(1) = [start |-> first, end |-> last, rep |-> first, price |-> 0]
      BY <3>4, <3>5
    <3>7. zs = <<zone(1)>>
      BY <3>6, <1>8, <2>1 DEF DetectZones
    <3> HIDE DEF zone
    <3>8. <<zone(1)>> = [n \in 1..1 |-> zone(n)]
      OBVIOUS
    <3> QED BY <3>3, <3>7, <3>8
  <2>2. CASE q # << >>
    <3>1. zs = BuildZones(guide, first, last)
      BY <1>1, <1>8, <2>2 DEF DetectZones, GuideIn
    <3>2. zs = [n \in 1..(Len(c) - 1) |-> zone(n)]
      BY <3>1, <1>2 DEF BuildZones, CutsOf
    <3> QED BY <3>2, <1>5
  <2> QED BY <2>1, <2>2
<1>10. \A n \in 1..m : n \in 1..(m + 1) /\ n + 1 \in 1..(m + 1) /\ c[n] \in Nat /\ c[n + 1] \in Nat
  BY <1>6, <1>7
<1>11. \A n \in 1..m : ReferencePrice(guide, c[n]) \in Nat
  BY <1>3, <1>10, PriceIsNat
<1>12. PICK fresh : fresh = FreshZones(q, first, last)
  OBVIOUS
<1>a. PICK rep : rep = [n \in 1..m |-> Representative(zone(n), q)]
  OBVIOUS
<1>b. PICK price : price = [n \in 1..m |-> ReferencePrice(guide, c[n])]
  OBVIOUS
<1>13. fresh = [n \in 1..m |-> [zone(n) EXCEPT !.rep = rep[n]]]
  <2> HIDE DEF zone
  <2>1. DOMAIN zs = 1..m /\ \A n \in 1..m : zs[n] = zone(n)
    BY <1>9
  <2> QED BY <2>1, <1>8, <1>12, <1>a DEF FreshZones, ReassignRepresentatives
<1>14. \A n \in 1..m : IsRepresentative(rep[n], q, c[n], c[n + 1] - 1, c[n])
  <2> SUFFICES ASSUME NEW n \in 1..m
               PROVE  IsRepresentative(rep[n], q, c[n], c[n + 1] - 1, c[n])
    OBVIOUS
  <2>1. PICK z : z = zone(n)
    OBVIOUS
  <2>2. z.start = c[n] /\ z.end = c[n + 1] - 1 /\ z.rep = c[n]
    BY <2>1
  <2>3. z.start \in Int /\ z.end \in Int
    BY <2>2, <1>10
  <2>4. IsRepresentative(Representative(z, q), q, z.start, z.end, z.rep)
    BY <2>3, RepresentativeFits
  <2> HIDE DEF zone
  <2>5. rep[n] = Representative(z, q)
    BY <2>1, <1>a
  <2> QED BY <2>2, <2>4, <2>5
<1>15. \A n \in 1..m : fresh[n] = [start |-> c[n], end |-> c[n + 1] - 1,
                                   rep |-> rep[n], price |-> price[n]]
  BY <1>13, <1>b
<1> HIDE DEF zone
<1>16. \A n \in 1..m : rep[n] \in Nat
  <2> SUFFICES ASSUME NEW n \in 1..m PROVE rep[n] \in Nat
    OBVIOUS
  <2>1. DatesIn(q, c[n], c[n + 1] - 1) \in SUBSET Nat
    BY DatesAreNat DEF DatesIn
  <2> QED BY <2>1, <1>10, <1>14 DEF IsRepresentative
<1>17. \A n \in 1..m : /\ fresh[n] \in SeasonZone
                      /\ fresh[n].start = c[n] /\ fresh[n].end = c[n + 1] - 1
                      /\ fresh[n].rep = rep[n]
  <2> SUFFICES ASSUME NEW n \in 1..m
               PROVE  /\ fresh[n] \in SeasonZone
                      /\ fresh[n].start = c[n] /\ fresh[n].end = c[n + 1] - 1
                      /\ fresh[n].rep = rep[n]
    OBVIOUS
  <2>1. PICK r : r = rep[n]
    OBVIOUS
  <2>2. PICK p : p = price[n]
    OBVIOUS
  <2>3. PICK lo : lo = c[n]
    OBVIOUS
  <2>4. PICK hi : hi = c[n + 1] - 1
    OBVIOUS
  <2>5. fresh[n] = [start |-> lo, end |-> hi, rep |-> r, price |-> p]
    BY <2>1, <2>2, <2>3, <2>4, <1>15
  <2>6. r \in Int /\ p \in Nat /\ lo \in Int /\ hi \in Int
    BY <2>1, <2>2, <2>3, <2>4, <1>10, <1>11, <1>16, <1>b
  <2>7. fresh[n].start = lo /\ fresh[n].end = hi /\ fresh[n].rep = r
    BY <2>5
  <2>8. fresh[n] \in SeasonZone
    BY <2>5, <2>6 DEF SeasonZone
  <2> QED BY <2>1, <2>3, <2>4, <2>7, <2>8
<1>18. fresh \in Seq(SeasonZone) /\ Len(fresh) = m
  <2>1. m \in Nat
    BY <1>6
  <2>2. PICK z : z = [n \in 1..m |-> fresh[n]]
    OBVIOUS
  <2>3. z = fresh
    BY <1>13, <2>2
  <2>4. z \in Seq(SeasonZone) /\ Len(z) = m
    BY <2>1, <2>2, <1>17
  <2> QED BY <2>3, <2>4
<1>19. CutBy(fresh, q, c)
  BY <1>5, <1>14, <1>17, <1>18 DEF CutBy
<1> QED BY <1>1, <1>2, <1>12, <1>19

\* The carry moves nothing but the start of the first zone, and only back.
Carried(zs, fresh, old) ==
    /\ zs \in Seq(SeasonZone) /\ Len(zs) = Len(fresh)
    /\ \A n \in 1..Len(fresh) : /\ zs[n].end = fresh[n].end
                                /\ zs[n].rep = fresh[n].rep
                                /\ zs[n].price = fresh[n].price
                                /\ zs[n].start <= fresh[n].start
                                /\ n # 1 => zs[n].start = fresh[n].start
    /\ old # << >> /\ ~ Jumped(old[1].price, zs[1].price) => zs[1].start <= old[1].start

LEMMA CarryKeepsRest ==
    ASSUME NEW fresh \in Seq(SeasonZone), Len(fresh) >= 1, NEW old \in Seq(SeasonZone),
           NEW zs, zs = CarryForward(fresh, old)
    PROVE  Carried(zs, fresh, old)
<1>1. PICK L : L = Len(fresh)
  OBVIOUS
<1>2. L \in Nat \ {0} /\ fresh \in [1..L -> SeasonZone]
  BY <1>1, LenProperties
<1>3. \A n \in 1..L : fresh[n].start \in Int /\ fresh[n].end \in Int
                      /\ fresh[n].rep \in Int /\ fresh[n].price \in Nat
  BY <1>2 DEF SeasonZone
<1>4. CASE old = << >> \/ Jumped(old[1].price, fresh[1].price) \/ old[1].start >= fresh[1].start
  <2>1. zs = fresh
    BY <1>4 DEF CarryForward
  <2>2. old # << >> => old[1] \in SeasonZone
    <3>1. Len(old) \in Nat /\ (old # << >> => Len(old) # 0)
      BY LenProperties, EmptySeq
    <3> QED BY <3>1, ElementOfSeq
  <2>3. old # << >> => old[1].start \in Int
    BY <2>2 DEF SeasonZone
  <2>4. old # << >> /\ ~ Jumped(old[1].price, zs[1].price) => zs[1].start <= old[1].start
    <3>1. 1 \in 1..L
      BY <1>2
    <3> QED BY <3>1, <2>1, <2>3, <1>3, <1>4
  <2> QED BY <2>1, <2>4, <1>1, <1>3 DEF Carried
<1>5. CASE ~ (old = << >> \/ Jumped(old[1].price, fresh[1].price) \/ old[1].start >= fresh[1].start)
  <2>1. old[1] \in SeasonZone
    <3>1. Len(old) \in Nat /\ Len(old) # 0
      BY <1>5, LenProperties, EmptySeq
    <3> QED BY <3>1, ElementOfSeq
  <2>2. PICK s : s = old[1].start
    OBVIOUS
  <2>3. 1 \in 1..L
    BY <1>2
  <2>4. s \in Int /\ s <= fresh[1].start
    <3>1. s \in Int
      BY <2>1, <2>2 DEF SeasonZone
    <3>2. fresh[1].start \in Int
      BY <2>3, <1>3
    <3> QED BY <3>1, <3>2, <2>2, <1>5
  <2>5. zs = [fresh EXCEPT ![1].start = s]
    BY <1>5, <2>2 DEF CarryForward
  <2>6. PICK z : z = [fresh[1] EXCEPT !.start = s]
    OBVIOUS
  <2>7. fresh[1] \in SeasonZone
    BY <2>3, <1>2
  <2>8. z \in SeasonZone /\ z.start = s /\ z.end = fresh[1].end
        /\ z.rep = fresh[1].rep /\ z.price = fresh[1].price
    BY <2>4, <2>6, <2>7 DEF SeasonZone
  <2>9. zs = [fresh EXCEPT ![1] = z]
    BY <2>5, <2>6
  <2>10. zs \in [1..L -> SeasonZone] /\ zs[1] = z /\ \A n \in 1..L : n # 1 => zs[n] = fresh[n]
    BY <2>3, <2>8, <2>9, <1>2
  <2>11. zs \in Seq(SeasonZone) /\ Len(zs) = L
    BY <2>10, <1>2
  <2>12. \A n \in 1..L : /\ zs[n].end = fresh[n].end
                         /\ zs[n].rep = fresh[n].rep
                         /\ zs[n].price = fresh[n].price
                         /\ zs[n].start <= fresh[n].start
                         /\ n # 1 => zs[n].start = fresh[n].start
    BY <2>4, <2>8, <2>10, <1>3
  <2>13. zs[1].start <= old[1].start
    BY <2>2, <2>4, <2>8, <2>10
  <2> QED BY <2>11, <2>12, <2>13, <1>1 DEF Carried
<1> QED BY <1>4, <1>5

\* Cuts that climb part the days between the first and the last: each is in
\* exactly one piece.
Climbs(c) == \A n \in 1..(Len(c) - 1) : c[n] < c[n + 1]

LEMMA ClimbsEverywhere ==
    ASSUME NEW c \in Seq(Nat), Climbs(c), NEW k \in 1..Len(c)
    PROVE  \A l \in 1..Len(c) : k <= l => c[k] <= c[l]
<1> DEFINE Bad == {l \in 1..Len(c) : k <= l /\ ~ (c[k] <= c[l])}
<1>1. Len(c) \in Nat /\ \A n \in 1..Len(c) : c[n] \in Nat
  BY LenProperties, ElementOfSeq
<1>2. ASSUME Bad # {} PROVE FALSE
  <2>1. Bad \in SUBSET Nat
    BY <1>1
  <2>2. PICK l \in Bad : \A x \in Bad : l <= x
    <3> HIDE DEF Bad
    <3> QED BY <2>1, <1>2, LeastExists
  <2>3. l \in 1..Len(c) /\ k <= l /\ ~ (c[k] <= c[l])
    OBVIOUS
  <2>4. k # l
    BY <2>3, <1>1
  <2>5. l - 1 \in 1..Len(c) /\ k <= l - 1 /\ l - 1 \in 1..(Len(c) - 1) /\ (l - 1) + 1 = l
    BY <2>3, <2>4, <1>1
  <2>6. l - 1 \notin Bad
    BY <2>2, <2>3, <1>1
  <2>7. c[k] <= c[l - 1]
    BY <2>5, <2>6
  <2>8. c[l - 1] < c[l]
    BY <2>5 DEF Climbs
  <2> QED BY <2>3, <2>5, <2>7, <2>8, <1>1
<1> QED BY <1>2

Piece(c, n, d) == c[n] <= d /\ d <= c[n + 1] - 1

LEMMA PiecesPart ==
    ASSUME NEW c \in Seq(Nat), Climbs(c), Len(c) >= 2,
           NEW d \in Nat, c[1] <= d, d < c[Len(c)]
    PROVE  \E n \in 1..(Len(c) - 1) :
              Piece(c, n, d) /\ \A k \in 1..(Len(c) - 1) : Piece(c, k, d) => k = n
<1>1. Len(c) \in Nat /\ \A n \in 1..Len(c) : c[n] \in Nat
  BY LenProperties, ElementOfSeq
<1> DEFINE Above == {n \in 1..Len(c) : d < c[n]}
<1>2. Above \in SUBSET Nat /\ Above # {}
  BY <1>1
<1>3. PICK l \in Above : \A x \in Above : l <= x
  <2> HIDE DEF Above
  <2> QED BY <1>2, LeastExists
<1>4. l \in 1..Len(c) /\ d < c[l] /\ l # 1
  BY <1>1
<1>5. l - 1 \in 1..(Len(c) - 1) /\ l - 1 \in 1..Len(c) /\ (l - 1) + 1 = l /\ l - 1 \notin Above
  BY <1>1, <1>3, <1>4
<1>6. c[l - 1] <= d
  BY <1>1, <1>5
<1>7. Piece(c, l - 1, d)
  BY <1>1, <1>4, <1>5, <1>6 DEF Piece
<1>8. ASSUME NEW k \in 1..(Len(c) - 1), Piece(c, k, d) PROVE k = l - 1
  <2>1. k \in 1..Len(c) /\ k + 1 \in 1..Len(c)
    BY <1>1
  <2>2. c[k] <= d /\ d < c[k + 1]
    BY <2>1, <1>1, <1>8 DEF Piece
  <2>3. l <= k + 1
    BY <2>1, <2>2, <1>3
  <2>4. l <= k => c[l] <= c[k]
    BY <2>1, <1>4, ClimbsEverywhere
  <2>5. ~ (l <= k)
    BY <2>1, <2>2, <2>4, <1>1, <1>4
  <2> QED BY <2>3, <2>5, <1>1, <1>4
<1> QED BY <1>5, <1>7, <1>8

\* What the table holds after a run stored its zones, and what it planned.
Stored(zs, q, c, first, last) ==
    /\ Found(q, first) /\ first \in Nat /\ last \in Nat
    /\ \A k \in 1..Len(q) : q[k].date <= last
    /\ IsCuts(c, GuideIn(q), first, last) /\ Climbs(c)
    /\ zs \in Seq(SeasonZone) /\ Len(zs) = Len(c) - 1
    /\ \A n \in 1..Len(zs) :
          /\ Legal(zs[n])
          /\ zs[n].end = c[n + 1] - 1
          /\ zs[n].start <= c[n] /\ (n # 1 => zs[n].start = c[n])
          /\ IsRepresentative(zs[n].rep, q, c[n], c[n + 1] - 1, c[n])

LEMMA StoredFacts ==
    ASSUME NEW zs, NEW q, NEW c, NEW first, NEW last, Stored(zs, q, c, first, last)
    PROVE  /\ first \in Nat /\ last \in Nat /\ q \in Seq(Point) /\ Ascending(q)
           /\ c \in Seq(Nat) /\ Climbs(c) /\ Len(c) \in Nat /\ Len(c) >= 2
           /\ c[1] = first /\ c[Len(c)] = last + 1
           /\ Len(zs) \in Nat \ {0} /\ Len(c) = Len(zs) + 1 /\ DOMAIN zs = 1..Len(zs)
           /\ \A n \in 1..Len(zs) : /\ c[n] \in Nat /\ c[n + 1] \in Nat /\ c[n] < c[n + 1]
                                    /\ zs[n].start \in Int /\ zs[n].rep \in Int
                                    /\ n + 1 \in 1..Len(c)
<1>1. /\ first \in Nat /\ last \in Nat /\ q \in Seq(Point) /\ Ascending(q)
      /\ c \in Seq(Nat) /\ Climbs(c) /\ Len(c) >= 2
      /\ c[1] = first /\ c[Len(c)] = last + 1
      /\ zs \in Seq(SeasonZone) /\ Len(zs) = Len(c) - 1
  BY DEF Stored, Found, IsCuts
<1>2. Len(c) \in Nat /\ Len(zs) \in Nat /\ DOMAIN zs = 1..Len(zs)
      /\ \A n \in 1..Len(c) : c[n] \in Nat
  <2>1. Len(c) \in Nat /\ \A n \in 1..Len(c) : c[n] \in Nat
    BY <1>1, LenProperties, ElementOfSeq
  <2>2. Len(zs) \in Nat /\ DOMAIN zs = 1..Len(zs)
    BY <1>1, LenProperties
  <2> QED BY <2>1, <2>2
<1>3. Len(zs) \in Nat \ {0} /\ Len(c) = Len(zs) + 1
  <2>1. PICK L : L = Len(c)
    OBVIOUS
  <2>2. L \in Nat /\ L >= 2 /\ Len(zs) = L - 1
    BY <2>1, <1>1, <1>2
  <2> QED BY <2>1, <2>2
<1>4. \A n \in 1..Len(zs) : zs[n] \in SeasonZone
  BY <1>1, ElementOfSeq
<1>5. \A n \in 1..Len(zs) : n \in 1..Len(c) /\ n + 1 \in 1..Len(c) /\ n \in 1..(Len(c) - 1)
  BY <1>2, <1>3
<1>6. \A n \in 1..Len(zs) : c[n] \in Nat /\ c[n + 1] \in Nat /\ c[n] < c[n + 1]
  BY <1>1, <1>2, <1>5 DEF Climbs
<1>7. \A n \in 1..Len(zs) : zs[n].start \in Int /\ zs[n].rep \in Int
  BY <1>4 DEF SeasonZone
<1> QED BY <1>1, <1>2, <1>3, <1>5, <1>6, <1>7

LEMMA StoredEnds ==
    ASSUME NEW zs, NEW q, NEW c, NEW first, NEW last, Stored(zs, q, c, first, last)
    PROVE  /\ first \in Nat /\ last \in Nat /\ q \in Seq(Point) /\ Ascending(q)
           /\ c[1] = first /\ c[Len(c)] = last + 1
  BY DEF Stored, Found, IsCuts

Covers(z, d) == z.start <= d /\ d <= z.end

LEMMA CoversIsPiece ==
    ASSUME NEW zs, NEW q, NEW c, NEW first, NEW last, Stored(zs, q, c, first, last),
           NEW d \in Nat, first <= d, NEW n \in 1..Len(zs)
    PROVE  Covers(zs[n], d) <=> Piece(c, n, d)
<1>1. /\ c[n] \in Nat /\ c[n + 1] \in Nat /\ c[1] = first /\ first \in Nat
      /\ zs[n].start \in Int /\ zs[n].rep \in Int
  BY StoredFacts
<1>2. zs[n].end = c[n + 1] - 1 /\ zs[n].start <= c[n] /\ (n # 1 => zs[n].start = c[n])
  BY DEF Stored
<1>3. CASE n = 1
  <2>1. zs[n].start <= d /\ c[n] <= d
    BY <1>1, <1>2, <1>3
  <2> QED BY <2>1, <1>2 DEF Covers, Piece
<1>4. CASE n # 1
  BY <1>2, <1>4 DEF Covers, Piece
<1> QED BY <1>3, <1>4

LEMMA EndIsLast ==
    ASSUME NEW day \in Nat, NEW q, Found(q, day), NEW truncated, NEW last,
           last = EffectiveEnd(q, truncated, day + Period)
    PROVE  last \in Nat /\ \A k \in 1..Len(q) : q[k].date <= last
<1>1. Period \in Nat /\ ProbeDays \in Nat /\ q \in Seq(Point)
  BY WindowAssumption, ProbeAssumption DEF Found
<1>2. \A k \in 1..Len(q) : q[k].date \in Nat /\ q[k].date <= day + Period
  <2> SUFFICES ASSUME NEW k \in 1..Len(q)
               PROVE  q[k].date \in Nat /\ q[k].date <= day + Period
    OBVIOUS
  <2>1. q[k].date \in Nat
    BY <1>1, DatesAreNat
  <2>2. q[k].date + ProbeDays <= day + Period
    BY DEF Found
  <2> QED BY <2>1, <2>2, <1>1
<1>3. CASE truncated /\ q # << >>
  <2>1. PICK D : D = AllDates(q)
    OBVIOUS
  <2>2. Len(q) \in Nat /\ Len(q) # 0
    BY <1>1, <1>3, LenProperties, EmptySeq
  <2>3. D \in SUBSET (0..(day + Period)) /\ D # {}
    <3>1. \A d : d \in D <=> \E k \in 1..Len(q) : q[k].date = d
      BY <1>1, <2>1, DatesAreNat
    <3>2. \A d \in D : d \in Nat /\ d <= day + Period
      BY <3>1, <1>2
    <3>3. q[1].date \in D
      BY <3>1, <2>2
    <3>4. \A d \in D : d \in 0..(day + Period)
      BY <3>2, <1>1
    <3> QED BY <3>3, <3>4
  <2>4. last = Max(D)
    BY <1>3, <2>1 DEF EffectiveEnd
  <2>5. day + Period \in Nat
    BY <1>1
  <2>6. last \in D /\ \A d \in D : d <= last
    BY <2>3, <2>4, <2>5, MaxOf
  <2>7. \A k \in 1..Len(q) : q[k].date \in D
    BY <1>1, <2>1, DatesAreNat
  <2>8. last \in Nat
    BY <2>3, <2>5, <2>6
  <2> QED BY <2>6, <2>7, <2>8
<1>4. CASE ~ (truncated /\ q # << >>)
  BY <1>1, <1>2, <1>4 DEF EffectiveEnd
<1> QED BY <1>3, <1>4

\* What carrying the fresh zones over the old ones makes of them.
Sound(zs, fresh, old, q, day, last) ==
    /\ zs \in Seq(SeasonZone) /\ zs # << >>
    /\ \E c : Stored(zs, q, c, day, last)
    /\ \A n \in 1..Len(zs) : zs[n].rep \in Nat /\ zs[n].rep = fresh[n].rep
    /\ DOMAIN fresh = 1..Len(zs)
    /\ old # << >> /\ ~ Jumped(old[1].price, zs[1].price) => zs[1].start <= old[1].start

LEMMA StoreHolds ==
    ASSUME NEW day \in Nat, NEW q, Found(q, day), NEW last \in Nat,
           \A k \in 1..Len(q) : q[k].date <= last,
           NEW fresh, fresh = FreshZones(q, day, last),
           \A n \in DOMAIN fresh : Legal(fresh[n]),
           NEW old \in Seq(SeasonZone), NEW zs, zs = CarryForward(fresh, old)
    PROVE  Sound(zs, fresh, old, q, day, last)
<1>1. q \in Seq(Point) /\ Ascending(q)
  BY DEF Found
<1>2. PICK c : c = CutsOf(GuideIn(q), day, last)
  OBVIOUS
<1>3. CutBy(fresh, q, c)
  BY <1>1, <1>2, DetectedAreCut
<1>4. IsCuts(c, GuideIn(q), day, last)
  <2>1. GuideIn(q) \in Seq(Point)
    BY <1>1, GuideIsPart DEF PartOf
  <2> QED BY <2>1, <1>2, CutsAreJumps
<1>5. PICK m : m = Len(fresh)
  OBVIOUS
<1>6. /\ m \in Nat \ {0} /\ Len(c) = m + 1 /\ DOMAIN fresh = 1..m
      /\ c \in Seq(Nat) /\ fresh \in Seq(SeasonZone)
      /\ \A n \in 1..(m + 1) : c[n] \in Nat
      /\ \A n \in 1..m : fresh[n] \in SeasonZone
  <2>1. c \in Seq(Nat) /\ Len(c) >= 2 /\ fresh \in Seq(SeasonZone) /\ m = Len(c) - 1
    BY <1>3, <1>4, <1>5 DEF IsCuts, CutBy
  <2>2. Len(c) \in Nat /\ \A n \in 1..Len(c) : c[n] \in Nat
    BY <2>1, LenProperties, ElementOfSeq
  <2>3. DOMAIN fresh = 1..m /\ \A n \in 1..m : fresh[n] \in SeasonZone
    BY <2>1, <1>5, LenProperties, ElementOfSeq
  <2>4. m \in Nat \ {0} /\ Len(c) = m + 1
    BY <2>1, <2>2
  <2> QED BY <2>1, <2>2, <2>3, <2>4
<1>7. \A n \in 1..m : /\ fresh[n].start = c[n] /\ fresh[n].end = c[n + 1] - 1
                      /\ IsRepresentative(fresh[n].rep, q, c[n], c[n + 1] - 1, c[n])
                      /\ Legal(fresh[n])
  BY <1>3, <1>5, <1>6 DEF CutBy
<1>8. /\ zs \in Seq(SeasonZone) /\ Len(zs) = m
      /\ \A n \in 1..m : /\ zs[n].end = fresh[n].end
                         /\ zs[n].rep = fresh[n].rep
                         /\ zs[n].start <= fresh[n].start
                         /\ n # 1 => zs[n].start = fresh[n].start
      /\ old # << >> /\ ~ Jumped(old[1].price, zs[1].price) => zs[1].start <= old[1].start
  <2>1. Len(fresh) >= 1
    BY <1>5, <1>6
  <2>2. Carried(zs, fresh, old)
    BY <2>1, <1>6, CarryKeepsRest
  <2> QED BY <2>2, <1>5 DEF Carried
<1>9. zs # << >>
  BY <1>6, <1>8, EmptySeq
<1>10. ASSUME NEW n \in 1..m PROVE fresh[n].rep \in Nat
  <2>1. DatesIn(q, c[n], c[n + 1] - 1) \in SUBSET Nat
    BY <1>1, DatesAreNat DEF DatesIn
  <2>2. c[n] \in Nat
    BY <1>6
  <2> QED BY <2>1, <2>2, <1>7 DEF IsRepresentative
<1>11. Climbs(c)
  <2> SUFFICES ASSUME NEW n \in 1..m PROVE c[n] < c[n + 1]
    BY <1>6 DEF Climbs
  <2>1. n \in 1..(m + 1) /\ n + 1 \in 1..(m + 1)
    BY <1>6
  <2>2. c[n] \in Nat /\ c[n + 1] \in Nat
    BY <2>1, <1>6
  <2>3. fresh[n].end >= fresh[n].start /\ fresh[n].start = c[n] /\ fresh[n].end = c[n + 1] - 1
    BY <1>7 DEF Legal
  <2> QED BY <2>2, <2>3
<1>12. \A n \in 1..m :
          /\ Legal(zs[n])
          /\ zs[n].end = c[n + 1] - 1
          /\ zs[n].start <= c[n] /\ (n # 1 => zs[n].start = c[n])
          /\ IsRepresentative(zs[n].rep, q, c[n], c[n + 1] - 1, c[n])
  <2> SUFFICES ASSUME NEW n \in 1..m
               PROVE  /\ Legal(zs[n])
                      /\ zs[n].end = c[n + 1] - 1
                      /\ zs[n].start <= c[n] /\ (n # 1 => zs[n].start = c[n])
                      /\ IsRepresentative(zs[n].rep, q, c[n], c[n + 1] - 1, c[n])
    OBVIOUS
  <2>1. zs[n].end = fresh[n].end /\ zs[n].rep = fresh[n].rep
        /\ zs[n].start <= fresh[n].start /\ (n # 1 => zs[n].start = fresh[n].start)
    BY <1>8
  <2>2. fresh[n].start = c[n] /\ fresh[n].end = c[n + 1] - 1
        /\ IsRepresentative(fresh[n].rep, q, c[n], c[n + 1] - 1, c[n])
    BY <1>7
  <2>3. fresh[n].end >= fresh[n].start /\ fresh[n].start <= fresh[n].rep
        /\ fresh[n].rep <= fresh[n].end
    BY <1>7 DEF Legal
  <2>4. fresh[n].start \in Int /\ fresh[n].end \in Int /\ fresh[n].rep \in Int
    BY <1>6 DEF SeasonZone
  <2>5. zs[n].start \in Int
    <3>1. zs[n] \in SeasonZone
      BY <1>8, ElementOfSeq
    <3> QED BY <3>1 DEF SeasonZone
  <2>6. Legal(zs[n])
    BY <2>1, <2>3, <2>4, <2>5 DEF Legal
  <2> QED BY <2>1, <2>2, <2>6
<1>13. Stored(zs, q, c, day, last)
  <2>1. Len(zs) = Len(c) - 1
    BY <1>6, <1>8
  <2> QED BY <2>1, <1>4, <1>8, <1>11, <1>12 DEF Stored
<1>14. \A n \in 1..Len(zs) : zs[n].rep \in Nat /\ zs[n].rep = fresh[n].rep
  BY <1>8, <1>10
<1> QED BY <1>6, <1>8, <1>9, <1>13, <1>14 DEF Sound

LEMMA SearchesArePlanned ==
    ASSUME NEW fresh, NEW zs, DOMAIN fresh = 1..Len(zs),
           \A n \in 1..Len(zs) : zs[n].rep \in Nat /\ zs[n].rep = fresh[n].rep, NEW end
    PROVE  /\ ShortSearches(fresh, end) \in SUBSET (Nat \X Durations)
           /\ \A n \in 1..Len(zs), d \in Durations :
                 zs[n].rep + d <= end => <<zs[n].rep, d>> \in ShortSearches(fresh, end)
<1>1. ASSUME NEW s \in ShortSearches(fresh, end) PROVE s \in Nat \X Durations
  <2>1. PICK n \in DOMAIN fresh, d \in Durations : s = <<fresh[n].rep, d>>
    BY DEF ShortSearches
  <2> QED BY <2>1
<1>2. ASSUME NEW n \in 1..Len(zs), NEW d \in Durations, zs[n].rep + d <= end
      PROVE  <<zs[n].rep, d>> \in ShortSearches(fresh, end)
  BY <1>2 DEF ShortSearches
<1> QED BY <1>1, <1>2

\* The stored zones are those of the stored points, cut over the stored window.
Planned(zs, searches, end) ==
    \A n \in 1..Len(zs), d \in Durations :
        zs[n].rep + d <= end => <<zs[n].rep, d>> \in searches
SeasonInv ==
    /\ today \in 0..MaxDay
    /\ zones \in Seq(SeasonZone)
    /\ window \in [start : Nat, end : Nat] /\ window.start <= today
    /\ plan \in SUBSET (Nat \X Durations)
    /\ verdict \in {"none", "stored", "refused", "rejected"}
    /\ zones = << >> => points = << >>
    /\ zones # << >> => \E c : Stored(zones, points, c, window.start, window.end)
    /\ zones # << >> => Planned(zones, plan, window.start + Period)

LEMMA SeasonInitHolds == SeasonInit => SeasonInv
<1> SUFFICES ASSUME SeasonInit PROVE SeasonInv
  OBVIOUS
<1>1. 0 \in 0..MaxDay /\ << >> \in Seq(SeasonZone)
  BY WindowAssumption
<1> QED BY <1>1 DEF SeasonInit, SeasonInv

LEMMA NextDayKeeps ==
    ASSUME SeasonInv, NextDay
    PROVE  SeasonInv'
<1>1. today' \in 0..MaxDay /\ window.start <= today'
  BY WindowAssumption DEF SeasonInv, NextDay
<1>2. UNCHANGED <<zones, window, points, plan, verdict>>
  BY DEF NextDay
<1> QED BY <1>1, <1>2 DEF SeasonInv

\* What a run that stores its zones leaves behind.
LEMMA ScrapeStores ==
    ASSUME SeasonInv, NEW pages \in [1..NumberOfProbes -> Pages], Scrape(pages),
           ~ UNCHANGED <<zones, window, points, plan>>
    PROVE  /\ SeasonInv'
           /\ zones # << >> /\ ~ Jumped(zones[1].price, zones'[1].price)
              => zones'[1].start <= zones[1].start
<1>1. PICK q : q = Points(ProbeDates(today, today + Period), Executed(pages))
  OBVIOUS
<1>2. PICK truncated : truncated = (Len(Executed(pages)) < Len(pages))
  OBVIOUS
<1>3. PICK last : last = EffectiveEnd(q, truncated, today + Period)
  OBVIOUS
<1>4. PICK fresh : fresh = FreshZones(q, today, last)
  OBVIOUS
<1>5. /\ UNCHANGED today
      /\ \A n \in DOMAIN fresh : Legal(fresh[n])
      /\ Store(fresh, last, q)
  BY <1>1, <1>2, <1>3, <1>4 DEF Scrape, FreshZones
<1>6. PICK zs : zs = CarryForward(fresh, zones)
  OBVIOUS
<1>7. PICK searches : searches = ShortSearches(fresh, today + Period)
  OBVIOUS
<1>8. /\ verdict' = "stored" /\ zones' = zs /\ points' = q /\ plan' = searches
      /\ window' = [start |-> today, end |-> last]
  BY <1>5, <1>6, <1>7 DEF Store
<1>9. today \in Nat /\ today \in 0..MaxDay /\ zones \in Seq(SeasonZone)
  BY WindowAssumption DEF SeasonInv
<1>10. Found(q, today)
  BY <1>1, <1>9, PointsAreFound
<1>11. last \in Nat /\ \A k \in 1..Len(q) : q[k].date <= last
  BY <1>3, <1>9, <1>10, EndIsLast
<1>12. /\ zs \in Seq(SeasonZone) /\ zs # << >>
       /\ \E c : Stored(zs, q, c, today, last)
       /\ \A n \in 1..Len(zs) : zs[n].rep \in Nat /\ zs[n].rep = fresh[n].rep
       /\ DOMAIN fresh = 1..Len(zs)
       /\ zones # << >> /\ ~ Jumped(zones[1].price, zs[1].price)
          => zs[1].start <= zones[1].start
  <2>1. PICK old : old = zones
    OBVIOUS
  <2>2. PICK day : day = today
    OBVIOUS
  <2>3. /\ day \in Nat /\ Found(q, day) /\ old \in Seq(SeasonZone)
        /\ fresh = FreshZones(q, day, last) /\ zs = CarryForward(fresh, old)
        /\ \A n \in DOMAIN fresh : Legal(fresh[n])
    BY <2>1, <2>2, <1>4, <1>5, <1>6, <1>9, <1>10
  <2>4. Sound(zs, fresh, old, q, day, last)
    BY <2>3, <1>11, StoreHolds
  <2> QED BY <2>1, <2>2, <2>4 DEF Sound
<1>13. searches \in SUBSET (Nat \X Durations) /\ Planned(zs, searches, today + Period)
  BY <1>7, <1>12, SearchesArePlanned DEF Planned
<1>14. window'.start = today /\ window'.end = last
       /\ window' \in [start : Nat, end : Nat] /\ window'.start <= today'
  BY <1>5, <1>8, <1>9, <1>11
<1>15. \E c : Stored(zones', points', c, window'.start, window'.end)
  BY <1>8, <1>12, <1>14
<1>16. Planned(zones', plan', window'.start + Period)
  BY <1>8, <1>13, <1>14
<1>17. SeasonInv'
  <2>1. today' \in 0..MaxDay
    BY <1>5, <1>9
  <2>2. zones' \in Seq(SeasonZone) /\ plan' \in SUBSET (Nat \X Durations)
        /\ verdict' \in {"none", "stored", "refused", "rejected"} /\ zones' # << >>
    BY <1>8, <1>12, <1>13
  <2> QED BY <2>1, <2>2, <1>14, <1>15, <1>16 DEF SeasonInv
<1> QED BY <1>8, <1>12, <1>17

LEMMA ScrapeKeeps ==
    ASSUME SeasonInv, NEW pages \in [1..NumberOfProbes -> Pages], Scrape(pages)
    PROVE  SeasonInv'
<1>1. CASE UNCHANGED <<zones, window, points, plan>>
  <2>1. UNCHANGED today /\ verdict' \in {"stored", "refused", "rejected"}
    BY DEF Scrape, Store
  <2> QED BY <1>1, <2>1 DEF SeasonInv
<1>2. CASE ~ UNCHANGED <<zones, window, points, plan>>
  BY <1>2, ScrapeStores
<1> QED BY <1>1, <1>2

\* The zones in the table are always those of the stored points and window: each
\* run writes them in one transaction or leaves all of them alone.
THEOREM SeasonInvariant == SeasonSpec => []SeasonInv
<1>1. SeasonInit => SeasonInv
  BY SeasonInitHolds
<1>2. SeasonInv /\ [SeasonNext]_seasonVars => SeasonInv'
  <2> SUFFICES ASSUME SeasonInv, [SeasonNext]_seasonVars PROVE SeasonInv'
    OBVIOUS
  <2>1. CASE NextDay
    BY <2>1, NextDayKeeps
  <2>2. ASSUME NEW pages \in [1..NumberOfProbes -> Pages], Scrape(pages) PROVE SeasonInv'
    BY <2>2, ScrapeKeeps
  <2>3. CASE UNCHANGED seasonVars
    BY <2>3 DEF SeasonInv, seasonVars
  <2> QED BY <2>1, <2>2, <2>3 DEF SeasonNext
<1> QED BY <1>1, <1>2, PTL DEF SeasonSpec

\* The table never holds a row its constraints forbid, the carried start
\* included, and searches start on days that exist.
THEOREM SeasonTypeCorrect == SeasonSpec => []SeasonTypeOK
<1>1. SeasonInv => SeasonTypeOK
  <2> SUFFICES ASSUME SeasonInv PROVE SeasonTypeOK
    OBVIOUS
  <2>1. \A n \in DOMAIN zones : Legal(zones[n])
    <3>1. CASE zones = << >>
      BY <3>1
    <3>2. CASE zones # << >>
      <4>1. PICK c : Stored(zones, points, c, window.start, window.end)
        BY <3>2 DEF SeasonInv
      <4>2. DOMAIN zones = 1..Len(zones)
        BY <4>1, StoredFacts
      <4> QED BY <4>1, <4>2 DEF Stored
    <3> QED BY <3>1, <3>2
  <2> QED BY <2>1 DEF SeasonInv, SeasonTypeOK
<1> QED BY <1>1, SeasonInvariant, PTL

LEMMA StoredTiles ==
    ASSUME NEW c, Stored(zones, points, c, window.start, window.end)
    PROVE  ZonesTileWindow
<1>1. PICK m : m = Len(zones)
  OBVIOUS
<1>2. /\ window.start \in Nat /\ window.end \in Nat
      /\ m \in Nat \ {0} /\ Len(c) = m + 1 /\ DOMAIN zones = 1..m
      /\ c \in Seq(Nat) /\ Climbs(c) /\ Len(c) >= 2
      /\ c[1] = window.start /\ c[m + 1] = window.end + 1
      /\ \A n \in 1..m : c[n] \in Nat /\ c[n + 1] \in Nat
  <2>1. /\ window.start \in Nat /\ window.end \in Nat
        /\ m \in Nat \ {0} /\ Len(c) = m + 1 /\ DOMAIN zones = 1..m
    BY <1>1, StoredFacts
  <2>2. /\ c \in Seq(Nat) /\ Climbs(c) /\ Len(c) >= 2
        /\ c[1] = window.start /\ c[Len(c)] = window.end + 1
    BY StoredFacts
  <2>3. \A n \in 1..m : c[n] \in Nat /\ c[n + 1] \in Nat
    BY <1>1, StoredFacts
  <2> QED BY <2>1, <2>2, <2>3
<1>3. \A n \in 1..m : /\ zones[n].end = c[n + 1] - 1
                      /\ zones[n].start <= c[n]
                      /\ n # 1 => zones[n].start = c[n]
  BY <1>1 DEF Stored
<1>4. ASSUME NEW d \in window.start..window.end
      PROVE  Cardinality(ZoneOf(d)) = 1
  <2>1. d \in Nat /\ window.start <= d /\ d < window.end + 1
    BY <1>2
  <2>2. PICK n \in 1..m : Piece(c, n, d) /\ \A k \in 1..m : Piece(c, k, d) => k = n
    <3>1. c[1] <= d /\ d < c[Len(c)] /\ Len(c) - 1 = m
      BY <1>2, <2>1
    <3> QED BY <3>1, <1>2, <2>1, PiecesPart
  <2>3. \A k \in 1..m : Covers(zones[k], d) <=> Piece(c, k, d)
    BY <1>1, <2>1, CoversIsPiece
  <2>4. ZoneOf(d) = {k \in 1..m : Covers(zones[k], d)}
    BY <1>2 DEF ZoneOf, Covers
  <2>5. ZoneOf(d) = {n}
    BY <2>2, <2>3, <2>4
  <2> QED BY <2>5, FS_Singleton
<1>5. Last(zones).end = window.end
  <2>1. m \in 1..m /\ Last(zones) = zones[m]
    BY <1>1, <1>2 DEF Last
  <2>2. zones[m].end = c[m + 1] - 1
    BY <2>1, <1>3
  <2>3. c[m + 1] = window.end + 1 /\ window.end \in Nat
    BY <1>2
  <2> QED BY <2>1, <2>2, <2>3
<1>6. ASSUME NEW n \in 1..(m - 1) PROVE zones[n + 1].start = zones[n].end + 1
  <2>1. n \in 1..m /\ n + 1 \in 1..m /\ n + 1 # 1
    BY <1>2
  <2>2. zones[n + 1].start = c[n + 1] /\ zones[n].end = c[n + 1] - 1
    BY <2>1, <1>3
  <2>3. c[n + 1] \in Nat
    BY <2>1, <1>2
  <2> QED BY <2>2, <2>3
<1>7. zones[1].start <= window.start
  BY <1>2, <1>3
<1> QED BY <1>1, <1>4, <1>5, <1>6, <1>7 DEF ZonesTileWindow

\* Every day of the window of the stored calendar lies in exactly one zone, and
\* the zones join without a hole.
THEOREM ZonesTile == SeasonSpec => []ZonesTileWindow
<1>1. SeasonInv => ZonesTileWindow
  <2> SUFFICES ASSUME SeasonInv PROVE ZonesTileWindow
    OBVIOUS
  <2>1. CASE zones = << >>
    BY <2>1 DEF ZonesTileWindow
  <2>2. CASE zones # << >>
    BY <2>2, StoredTiles DEF SeasonInv
  <2> QED BY <2>1, <2>2
<1> QED BY <1>1, SeasonInvariant, PTL

\* A zone that begins at a jump holds the date of the jump; the first one holds
\* every date when nothing jumps, and else the last date before a jump.
LEMMA LaterZoneHasDates ==
    ASSUME NEW zs, NEW q, NEW c, NEW first, NEW last, Stored(zs, q, c, first, last),
           NEW n \in 1..Len(zs), n # 1
    PROVE  DatesIn(q, c[n], c[n + 1] - 1) # {}
<1>1. /\ c[n] \in Nat /\ c[n + 1] \in Nat /\ c[n] < c[n + 1] /\ q \in Seq(Point) /\ Ascending(q)
      /\ Len(c) = Len(zs) + 1 /\ Len(zs) \in Nat
  BY StoredFacts
<1>2. PICK guide : guide = GuideIn(q)
  OBVIOUS
<1>3. PartOf(guide, q)
  BY <1>1, <1>2, GuideIsPart
<1>4. n \in 2..(Len(c) - 1)
  BY <1>1
<1>5. IsCuts(c, guide, first, last)
  BY <1>2 DEF Stored
<1>6. PICK j \in Jumps(guide) : c[n] = guide[j].date
  BY <1>4, <1>5 DEF IsCuts
<1>7. j \in 1..Len(guide)
  <2>1. Len(guide) \in Nat
    BY <1>3, LenProperties DEF PartOf
  <2> QED BY <2>1 DEF Jumps
<1>8. c[n] \in AllDates(q)
  <2>1. PICK i \in 1..Len(q) : guide[j] = q[i]
    BY <1>3, <1>7 DEF PartOf
  <2> QED BY <2>1, <1>1, <1>6, DatesAreNat
<1>9. c[n] \in DatesIn(q, c[n], c[n + 1] - 1)
  BY <1>1, <1>8 DEF DatesIn
<1> QED BY <1>9

LEMMA FirstZoneHasDates ==
    ASSUME NEW zs, NEW q, NEW c, NEW first, NEW last, Stored(zs, q, c, first, last),
           q # << >>, OncePer(q)
    PROVE  DatesIn(q, c[1], c[2] - 1) # {}
<1>1. /\ q \in Seq(Point) /\ Ascending(q) /\ first \in Nat /\ last \in Nat
      /\ Len(c) = Len(zs) + 1 /\ Len(zs) \in Nat \ {0} /\ c[1] = first /\ c[Len(c)] = last + 1
  BY StoredFacts
<1>2. PICK guide : guide = GuideIn(q)
  OBVIOUS
<1>3. PartOf(guide, q) /\ Rising(guide)
  BY <1>1, <1>2, GuideIsPart
<1>4. IsCuts(c, guide, first, last)
  BY <1>2 DEF Stored
<1>5. \A k \in 1..Len(q) : first <= q[k].date /\ q[k].date <= last
                           /\ q[k].date \in Nat /\ q[k].date \in AllDates(q)
  <2>1. \A k \in 1..Len(q) : first <= q[k].date /\ q[k].date <= last
    BY DEF Stored, Found
  <2> QED BY <2>1, <1>1, DatesAreNat
<1>6. CASE Len(c) = 2
  <2>1. Len(q) \in Nat /\ Len(q) # 0
    BY <1>1, LenProperties, EmptySeq
  <2>2. PICK d : d = q[1].date
    OBVIOUS
  <2>3. d \in AllDates(q) /\ first <= d /\ d <= last
    BY <2>1, <2>2, <1>5
  <2>4. c[2] - 1 = last
    <3>1. PICK L : L = Len(c)
      OBVIOUS
    <3>2. c[L] = last + 1 /\ L = 2
      BY <3>1, <1>1, <1>6
    <3> QED BY <3>2, <1>1
  <2>5. d \in DatesIn(q, c[1], c[2] - 1)
    BY <2>3, <2>4, <1>1 DEF DatesIn
  <2> QED BY <2>5
<1>7. CASE Len(c) # 2
  <2>1. 2 \in 2..(Len(c) - 1)
    BY <1>1, <1>7
  <2>2. PICK j \in Jumps(guide) : c[2] = guide[j].date
    BY <2>1, <1>4 DEF IsCuts
  <2>3. Len(guide) \in Nat
    BY <1>3, LenProperties DEF PartOf
  <2>4. j \in 1..Len(guide) /\ j - 1 \in 1..Len(guide) /\ j - 1 < j
    BY <2>2, <2>3 DEF Jumps
  <2>5. guide[j - 1].date < guide[j].date
    BY <2>4, <1>3 DEF Rising
  <2>6. PICK i \in 1..Len(q) : guide[j - 1] = q[i]
    BY <2>4, <1>3 DEF PartOf
  <2>7. PICK k \in 1..Len(q) : guide[j] = q[k]
    BY <2>4, <1>3 DEF PartOf
  <2>8. PICK d : d = q[i].date
    OBVIOUS
  <2>9. d \in AllDates(q) /\ d \in Nat /\ first <= d /\ d < c[2] /\ c[2] \in Nat
    BY <2>2, <2>5, <2>6, <2>7, <2>8, <1>5
  <2>10. d \in DatesIn(q, c[1], c[2] - 1)
    BY <2>9, <1>1 DEF DatesIn
  <2> QED BY <2>10
<1> QED BY <1>6, <1>7

LEMMA StoredWereSeen ==
    ASSUME NEW c, Stored(zones, points, c, window.start, window.end)
    PROVE  RepresentativesWereSeen
<1> SUFFICES ASSUME points # << >>, OncePerPage, NEW n \in DOMAIN zones
             PROVE  /\ zones[n].rep \in AllDates(points) /\ n \in ZoneOf(zones[n].rep)
                    /\ \A d \in AllDates(points) : n \in ZoneOf(d) =>
                          Cardinality(GroupsOn(points, d))
                             <= Cardinality(GroupsOn(points, zones[n].rep))
  BY DEF RepresentativesWereSeen
<1>1. /\ DOMAIN zones = 1..Len(zones) /\ n \in 1..Len(zones) /\ Len(zones) \in Nat
      /\ points \in Seq(Point) /\ window.start \in Nat
      /\ c[n] \in Nat /\ c[n + 1] \in Nat /\ zones[n].start \in Int /\ zones[n].rep \in Int
  <2>1. DOMAIN zones = 1..Len(zones) /\ Len(zones) \in Nat
        /\ points \in Seq(Point) /\ window.start \in Nat
    BY StoredFacts
  <2>2. n \in 1..Len(zones)
    BY <2>1
  <2>3. /\ c[n] \in Nat /\ c[n + 1] \in Nat
        /\ zones[n].start \in Int /\ zones[n].rep \in Int
    BY <2>2, StoredFacts
  <2> QED BY <2>1, <2>2, <2>3
<1>2. OncePer(points)
  BY DEF OncePerPage, OncePer
<1>3. PICK D : D = DatesIn(points, c[n], c[n + 1] - 1)
  OBVIOUS
<1>4. D # {}
  <2>1. CASE n = 1
    <3>1. DatesIn(points, c[1], c[2] - 1) # {}
      BY <1>2, FirstZoneHasDates
    <3> QED BY <3>1, <2>1, <1>3
  <2>2. CASE n # 1
    BY <2>2, <1>1, <1>3, LaterZoneHasDates
  <2> QED BY <2>1, <2>2
<1>5. IsRepresentative(zones[n].rep, points, c[n], c[n + 1] - 1, c[n]) /\ Legal(zones[n])
  BY <1>1 DEF Stored
<1>6. PICK rep : rep = zones[n].rep
  OBVIOUS
<1>7. rep \in D /\ \A e \in D : GroupCount(points, e) <= GroupCount(points, rep)
  BY <1>3, <1>4, <1>5, <1>6 DEF IsRepresentative
<1>8. rep \in AllDates(points)
  BY <1>3, <1>7 DEF DatesIn
<1>9. n \in ZoneOf(rep)
  BY <1>1, <1>5, <1>6 DEF ZoneOf, Legal
<1>10. ASSUME NEW d \in AllDates(points), n \in ZoneOf(d)
       PROVE  GroupCount(points, d) <= GroupCount(points, rep)
  <2>1. PICK i \in 1..Len(points) : points[i].date = d
    BY <1>1, DatesAreNat
  <2>2. d \in Nat /\ window.start <= d
    <3>1. window.start <= points[i].date
      BY DEF Stored, Found
    <3> QED BY <3>1, <2>1, <1>1, DatesAreNat
  <2>3. Covers(zones[n], d)
    BY <1>10 DEF ZoneOf, Covers
  <2>4. Piece(c, n, d)
    BY <2>2, <2>3, <1>1, CoversIsPiece
  <2>5. d \in D
    BY <2>4, <1>3 DEF Piece, DatesIn
  <2> QED BY <2>5, <1>7
<1> QED BY <1>6, <1>8, <1>9, <1>10 DEF GroupCount

\* When no page lists a group twice, each zone's representative date is a probe
\* date of that zone which no other date of the zone beats in groups.
THEOREM RepresentativesSeen == SeasonSpec => []RepresentativesWereSeen
<1>1. SeasonInv => RepresentativesWereSeen
  <2> SUFFICES ASSUME SeasonInv PROVE RepresentativesWereSeen
    OBVIOUS
  <2>1. CASE zones = << >>
    BY <2>1 DEF SeasonInv, RepresentativesWereSeen
  <2>2. CASE zones # << >>
    BY <2>2, StoredWereSeen DEF SeasonInv
  <2> QED BY <2>1, <2>2
<1> QED BY <1>1, SeasonInvariant, PTL

LEMMA StoredAreSearched ==
    ASSUME NEW c, Stored(zones, points, c, window.start, window.end),
           Planned(zones, plan, window.start + Period)
    PROVE  EveryZoneIsSearched
<1> SUFFICES ASSUME points # << >>, NEW n \in DOMAIN zones, NEW d \in Durations, d <= ProbeDays
             PROVE  <<zones[n].rep, d>> \in plan
  BY DEF EveryZoneIsSearched
<1>1. /\ DOMAIN zones = 1..Len(zones) /\ n \in 1..Len(zones)
      /\ points \in Seq(Point) /\ window.start \in Nat /\ c[1] = window.start
      /\ zones[n].rep \in Int
  <2>1. DOMAIN zones = 1..Len(zones)
        /\ points \in Seq(Point) /\ window.start \in Nat /\ c[1] = window.start
    BY StoredEnds
  <2>2. \A k \in 1..Len(zones) : zones[k].rep \in Int
    BY StoredFacts
  <2> QED BY <2>1, <2>2
<1>2. ProbeDays \in Nat /\ Period \in Nat /\ d \in Nat
  BY ProbeAssumption, WindowAssumption
<1>3. \A k \in 1..Len(points) : points[k].date \in Nat /\ window.start <= points[k].date
                                /\ points[k].date + ProbeDays <= window.start + Period
  <2>1. \A k \in 1..Len(points) : window.start <= points[k].date
                                  /\ points[k].date + ProbeDays <= window.start + Period
    BY DEF Stored, Found
  <2> QED BY <2>1, <1>1, DatesAreNat
<1>4. PICK D : D = DatesIn(points, c[n], c[n + 1] - 1)
  OBVIOUS
<1>5. PICK rep : rep = zones[n].rep
  OBVIOUS
<1>6. IsRepresentative(rep, points, c[n], c[n + 1] - 1, c[n])
  BY <1>1, <1>5 DEF Stored
<1>7. rep + ProbeDays <= window.start + Period
  <2>1. CASE D = {}
    <3>1. n = 1
      BY <2>1, <1>1, <1>4, LaterZoneHasDates
    <3>2. rep = window.start
      BY <3>1, <2>1, <1>1, <1>4, <1>6 DEF IsRepresentative
    <3>3. Len(points) \in Nat /\ Len(points) # 0
      BY <1>1, LenProperties, EmptySeq
    <3>4. 1 \in 1..Len(points)
      BY <3>3
    <3>5. PICK x : x = points[1].date
      OBVIOUS
    <3>6. x \in Nat /\ window.start <= x /\ x + ProbeDays <= window.start + Period
      BY <3>4, <3>5, <1>3
    <3> QED BY <3>2, <3>6, <1>1, <1>2
  <2>2. CASE D # {}
    <3>1. rep \in AllDates(points)
      BY <2>2, <1>4, <1>6 DEF IsRepresentative, DatesIn
    <3>2. PICK k \in 1..Len(points) : points[k].date = rep
      BY <3>1, <1>1, DatesAreNat
    <3> QED BY <3>2, <1>3
  <2> QED BY <2>1, <2>2
<1>8. rep + d <= window.start + Period
  BY <1>1, <1>2, <1>5, <1>7
<1> QED BY <1>1, <1>5, <1>8 DEF Planned

\* No zone is left without prices: the plan holds a search for each zone and each
\* duration no longer than a probe.
THEOREM ZonesSearched == SeasonSpec => []EveryZoneIsSearched
<1>1. SeasonInv => EveryZoneIsSearched
  <2> SUFFICES ASSUME SeasonInv PROVE EveryZoneIsSearched
    OBVIOUS
  <2>1. CASE zones = << >>
    BY <2>1 DEF SeasonInv, EveryZoneIsSearched
  <2>2. CASE zones # << >>
    BY <2>2, StoredAreSearched DEF SeasonInv
  <2> QED BY <2>1, <2>2
<1> QED BY <1>1, SeasonInvariant, PTL

\* Two neighbouring points of the guide group lie on either side of a cut exactly
\* when the later one jumps.
LEMMA CutBetween ==
    ASSUME NEW guide \in Seq(Point), Rising(guide), NEW c, NEW first, NEW last,
           IsCuts(c, guide, first, last), NEW i \in 2..Len(guide),
           NEW n \in 2..(Len(c) - 1),
           guide[i - 1].date < c[n], c[n] <= guide[i].date
    PROVE  i \in Jumps(guide)
<1>1. PICK j \in Jumps(guide) : c[n] = guide[j].date
  BY DEF IsCuts
<1>2. Len(guide) \in Nat /\ \A k \in 1..Len(guide) : guide[k].date \in Nat
  BY DatesAreNat
<1>3. j \in 1..Len(guide) /\ i \in 1..Len(guide) /\ i - 1 \in 1..Len(guide)
  BY <1>1, <1>2 DEF Jumps
<1>4. j # i => j < i \/ i < j
  BY <1>2, <1>3
<1>5. ~ (i < j)
  <2>1. i < j => guide[i].date < guide[j].date
    BY <1>3 DEF Rising
  <2> QED BY <2>1, <1>1, <1>2, <1>3
<1>6. ~ (j < i)
  <2>1. j < i => j <= i - 1
    BY <1>2, <1>3
  <2>2. j < i - 1 => guide[j].date < guide[i - 1].date
    BY <1>3 DEF Rising
  <2>3. j = i - 1 => guide[j].date = guide[i - 1].date
    OBVIOUS
  <2>4. ~ (guide[j].date <= guide[i - 1].date)
    BY <1>1, <1>2, <1>3
  <2> QED BY <2>1, <2>2, <2>3, <2>4, <1>2, <1>3
<1> QED BY <1>1, <1>4, <1>5, <1>6

LEMMA StoredChangeAtJumps ==
    ASSUME NEW c, Stored(zones, points, c, window.start, window.end)
    PROVE  SeasonsChangeAtJumps
<1> SUFFICES ASSUME OncePerPage, NEW i \in 2..Len(Guide)
             PROVE  ZoneOf(Guide[i - 1].date) # ZoneOf(Guide[i].date)
                       <=> Jumped(Guide[i - 1].price, Guide[i].price)
  BY DEF SeasonsChangeAtJumps
<1>1. PICK guide : guide = Guide
  OBVIOUS
<1>2. guide = GuideIn(points)
  BY <1>1 DEF Guide, GuideIn
<1>3. PICK m : m = Len(zones)
  OBVIOUS
<1>4. /\ window.start \in Nat /\ window.end \in Nat /\ points \in Seq(Point) /\ Ascending(points)
      /\ m \in Nat \ {0} /\ Len(c) = m + 1 /\ DOMAIN zones = 1..m
      /\ c[1] = window.start /\ c[m + 1] = window.end + 1
  <2>1. /\ window.start \in Nat /\ window.end \in Nat
        /\ points \in Seq(Point) /\ Ascending(points)
    BY StoredEnds
  <2>2. m \in Nat \ {0} /\ Len(c) = m + 1 /\ DOMAIN zones = 1..m
    BY <1>3, StoredFacts
  <2>3. c[1] = window.start /\ c[Len(c)] = window.end + 1
    BY StoredEnds
  <2>4. c[m + 1] = window.end + 1
    BY <2>2, <2>3
  <2> QED BY <2>1, <2>2, <2>3, <2>4
<1>5. \A n \in 1..m : c[n] \in Nat /\ c[n + 1] \in Nat /\ c[n] < c[n + 1]
  BY <1>3, StoredFacts
<1>6. PartOf(guide, points) /\ Rising(guide) /\ guide \in Seq(Point)
  <2>1. OncePer(points)
    BY DEF OncePerPage, OncePer
  <2>2. PartOf(guide, points) /\ Rising(guide)
    BY <2>1, <1>2, <1>4, GuideIsPart
  <2> QED BY <2>2 DEF PartOf
<1>7. IsCuts(c, guide, window.start, window.end)
  BY <1>2 DEF Stored
<1>8. Len(guide) \in Nat /\ i \in 2..Len(guide) /\ i \in 1..Len(guide) /\ i - 1 \in 1..Len(guide)
  <2>1. Len(guide) \in Nat
    BY <1>6, LenProperties
  <2> QED BY <2>1, <1>1
<1>9. \A k \in 1..Len(guide) : guide[k].date \in Nat /\ window.start <= guide[k].date
                               /\ guide[k].date <= window.end
  <2> SUFFICES ASSUME NEW k \in 1..Len(guide)
               PROVE  guide[k].date \in Nat /\ window.start <= guide[k].date
                      /\ guide[k].date <= window.end
    OBVIOUS
  <2>1. PICK l \in 1..Len(points) : guide[k] = points[l]
    BY <1>6 DEF PartOf
  <2>2. window.start <= points[l].date /\ points[l].date <= window.end
    BY DEF Stored, Found
  <2> QED BY <2>1, <2>2, <1>4, DatesAreNat
<1>10. PICK a : a = guide[i - 1].date
  OBVIOUS
<1>11. PICK b : b = guide[i].date
  OBVIOUS
<1>12. /\ a \in Nat /\ b \in Nat /\ a < b
       /\ window.start <= a /\ b <= window.end /\ window.start <= b
  <2>1. a \in Nat /\ b \in Nat /\ window.start <= a /\ b <= window.end
    BY <1>8, <1>9, <1>10, <1>11
  <2>2. i - 1 < i
    BY <1>8
  <2>3. a < b
    BY <2>2, <1>6, <1>8, <1>10, <1>11 DEF Rising
  <2> QED BY <2>1, <2>3, <1>4
<1>13. \A n \in 1..m : /\ n \in ZoneOf(a) <=> Piece(c, n, a)
                       /\ n \in ZoneOf(b) <=> Piece(c, n, b)
  <2> SUFFICES ASSUME NEW n \in 1..m
               PROVE  /\ n \in ZoneOf(a) <=> Piece(c, n, a)
                      /\ n \in ZoneOf(b) <=> Piece(c, n, b)
    OBVIOUS
  <2>1. Covers(zones[n], a) <=> Piece(c, n, a)
    BY <1>3, <1>12, CoversIsPiece
  <2>2. Covers(zones[n], b) <=> Piece(c, n, b)
    BY <1>3, <1>12, CoversIsPiece
  <2>3. (n \in ZoneOf(a) <=> Covers(zones[n], a)) /\ (n \in ZoneOf(b) <=> Covers(zones[n], b))
    BY <1>4 DEF ZoneOf, Covers
  <2> QED BY <2>1, <2>2, <2>3
<1>14. ZoneOf(a) \in SUBSET (1..m) /\ ZoneOf(b) \in SUBSET (1..m)
  BY <1>4 DEF ZoneOf
<1>15. i \in Jumps(guide) <=> Jumped(guide[i - 1].price, guide[i].price)
  BY <1>8 DEF Jumps
<1>16. ASSUME i \in Jumps(guide) PROVE ZoneOf(a) # ZoneOf(b)
  <2>1. PICK n \in 2..(Len(c) - 1) : c[n] = b
    BY <1>7, <1>11, <1>16 DEF IsCuts
  <2>2. n \in 1..m
    BY <1>4
  <2>3. Piece(c, n, b) /\ ~ Piece(c, n, a)
    BY <2>1, <2>2, <1>5, <1>12 DEF Piece
  <2> QED BY <2>2, <2>3, <1>13
<1>17. ASSUME i \notin Jumps(guide) PROVE ZoneOf(a) = ZoneOf(b)
  <2>1. \A n \in 2..(Len(c) - 1) : ~ (a < c[n] /\ c[n] <= b)
    BY <1>6, <1>7, <1>8, <1>10, <1>11, <1>17, CutBetween
  <2>2. ASSUME NEW n \in 1..m, Piece(c, n, a) PROVE Piece(c, n, b)
    <3>1. c[n] <= a /\ a < c[n + 1] /\ c[n] <= b
      BY <2>2, <1>5, <1>12 DEF Piece
    <3>2. b < c[n + 1]
      <4>1. CASE n = m
        BY <4>1, <1>4, <1>12
      <4>2. CASE n # m
        <5>1. n + 1 \in 2..(Len(c) - 1)
          BY <4>2, <1>4
        <5> QED BY <5>1, <3>1, <2>1, <1>5, <1>12
      <4> QED BY <4>1, <4>2
    <3> QED BY <3>1, <3>2, <1>5, <1>12 DEF Piece
  <2>3. ASSUME NEW n \in 1..m, Piece(c, n, b) PROVE Piece(c, n, a)
    <3>1. c[n] <= b /\ b < c[n + 1] /\ a < c[n + 1]
      BY <2>3, <1>5, <1>12 DEF Piece
    <3>2. c[n] <= a
      <4>1. CASE n = 1
        BY <4>1, <1>4, <1>12
      <4>2. CASE n # 1
        <5>1. n \in 2..(Len(c) - 1)
          BY <4>2, <1>4
        <5> QED BY <5>1, <3>1, <2>1, <1>5, <1>12
      <4> QED BY <4>1, <4>2
    <3> QED BY <3>1, <3>2, <1>5, <1>12 DEF Piece
  <2> QED BY <2>2, <2>3, <1>13, <1>14
<1> QED BY <1>1, <1>10, <1>11, <1>15, <1>16, <1>17

\* When no page lists a group twice, two neighbouring prices of the guide group
\* are in different seasons exactly when the change between them is a jump.
THEOREM SeasonsAtJumps == SeasonSpec => []SeasonsChangeAtJumps
<1>1. SeasonInv => SeasonsChangeAtJumps
  <2> SUFFICES ASSUME SeasonInv PROVE SeasonsChangeAtJumps
    OBVIOUS
  <2>1. CASE zones = << >>
    <3>1. Guide = << >> /\ Len(<< >>) = 0
      BY <2>1 DEF SeasonInv, Guide
    <3>2. 2..Len(Guide) = {}
      BY <3>1
    <3> QED BY <3>2 DEF SeasonsChangeAtJumps
  <2>2. CASE zones # << >>
    BY <2>2, StoredChangeAtJumps DEF SeasonInv
  <2> QED BY <2>1, <2>2
<1> QED BY <1>1, SeasonInvariant, PTL

\* A run whose first season's price is still within the threshold of the stored
\* one does not move that season's start later.
THEOREM SeasonsKeepStart == SeasonSpec => SeasonKeepsStart
<1> DEFINE StartKept == zones # << >> /\ zones' # << >> /\ ~Jumped(zones[1].price, zones'[1].price)
                       => zones'[1].start <= zones[1].start
<1>1. SeasonInv /\ [SeasonNext]_seasonVars => [StartKept]_seasonVars
  <2> SUFFICES ASSUME SeasonInv, [SeasonNext]_seasonVars, zones # << >> PROVE StartKept
    OBVIOUS
  <2>1. CASE UNCHANGED zones
    <3>1. zones[1].start \in Int
      <4>1. Len(zones) \in Nat /\ Len(zones) # 0 /\ zones \in Seq(SeasonZone)
        BY LenProperties, EmptySeq DEF SeasonInv
      <4>2. zones[1] \in SeasonZone
        BY <4>1, ElementOfSeq
      <4> QED BY <4>2 DEF SeasonZone
    <3> QED BY <3>1, <2>1
  <2>2. CASE ~ UNCHANGED zones
    <3>1. PICK pages \in [1..NumberOfProbes -> Pages] : Scrape(pages)
      BY <2>2 DEF SeasonNext, NextDay, seasonVars
    <3> QED BY <3>1, <2>2, ScrapeStores
  <2> QED BY <2>1, <2>2
<1> HIDE DEF StartKept
<1>2. SeasonSpec => [][StartKept]_seasonVars
  BY <1>1, SeasonInvariant, PTL DEF SeasonSpec
<1> QED BY <1>2 DEF SeasonKeepsStart, StartKept
=============================================================================
