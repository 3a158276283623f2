----------------------------- MODULE ScrapeRun ------------------------------
(***************************************************************************)
(* SmartScraperOrchestrator.run for one (provider, location, rate): the    *)
(* three phases of a scrape run, each of which commits its own             *)
(* transactions, over a sequence of runs that may fail or be killed at any *)
(* point.  One run is alive at a time, which is what the scheduled task    *)
(* enforces.  What the calendars contain is the business of Seasons; here  *)
(* a calendar is known by the run that computed it and by its kind.        *)
(***************************************************************************)
EXTENDS Integers

CONSTANTS Groups,      \* vehicle groups the provider may list
          None,        \* no calendar
          MaxRuns      \* bound on the number of scrape runs

ASSUME RunsAssumption == MaxRuns \in Nat
Kinds == {"seasons", "fallback"}
Runs == 1..MaxRuns
Calendars == [run : Runs, kind : Kinds]
ASSUME NoneAssumption == None \notin Calendars

VARIABLES status,      \* scrape_runs.status, "none" before the row exists
          firstSeen,   \* provider_vehicle_categories: run that added the group, 0 if absent
          cal,         \* homogeneous_zones: active calendar of each group, or None
          prices,      \* price_observations: runs with a committed price of the group
          run,         \* newest scrape run
          pc,          \* next step of its orchestrator; "idle" when there is none
          seen,        \* groups whose cars the probe listed
          outcome,     \* what the probe of the newest run brought back
          lost         \* runs that were killed (a history variable)

db == <<status, firstSeen, cal, prices>>
vars == <<status, firstSeen, cal, prices, run, pc, seen, outcome, lost>>

Steps == {"idle", "probe", "pvcs", "zones", "extract", "finish", "failing"}

Known == {g \in Groups : firstSeen[g] # 0}     \* list_active_for_tuple
Zoned == {g \in Groups : cal[g] # None}

\* What the searches of phase 1 bring back.  "ok" lists cars with prices.
\* Without any price point: "errored" has at least one search with errors,
\* "empty" has only pages that say there is no car, "blank" has pages read
\* without error whose cars are none or were dropped (no price, other rate).
Outcomes == {"ok", "errored", "empty", "blank"}
CarsOf(result) ==
    CASE result = "ok" -> (SUBSET Groups) \ {{}}
      [] result = "empty" -> {{}}
      [] OTHER -> SUBSET Groups

\* The calendar of a run: without a price point the analyzer answers a single
\* zone over the whole period.
CalendarOf(r, result) ==
    [run |-> r, kind |-> IF result = "ok" THEN "seasons" ELSE "fallback"]

-----------------------------------------------------------------------------
Init ==
    /\ status = [r \in Runs |-> "none"]
    /\ firstSeen = [g \in Groups |-> 0]
    /\ cal = [g \in Groups |-> None]
    /\ prices = [g \in Groups |-> {}]
    /\ run = 0
    /\ pc = "idle"
    /\ seen = {}
    /\ outcome = "empty"
    /\ lost = {}

CreateScrapeRun ==
    /\ pc = "idle"
    /\ run < MaxRuns
    /\ run' = run + 1
    /\ status' = [status EXCEPT ![run'] = "running"]
    /\ pc' = "probe"
    /\ UNCHANGED <<firstSeen, cal, prices, seen, outcome, lost>>

ProbeUnguarded(result, cars) ==
    /\ pc = "probe"
    /\ outcome' = result
    /\ seen' = cars
    /\ pc' = "pvcs"
    /\ UNCHANGED <<db, run, lost>>

\* Phase 1 and the analysis in memory.  EmptyProbeError stops the run when no
\* price came back and a search errored; any other probe goes on.
Probe(result, cars) ==
    /\ pc = "probe"
    /\ outcome' = result
    /\ seen' = cars
    /\ pc' = IF result = "errored" THEN "failing" ELSE "pvcs"
    /\ UNCHANGED <<db, run, lost>>

PersistPvcs ==
    /\ pc = "pvcs"
    /\ firstSeen' = [g \in Groups |-> IF g \in seen \ Known THEN run ELSE firstSeen[g]]
    /\ pc' = "zones"
    /\ UNCHANGED <<status, cal, prices, run, seen, outcome, lost>>

PersistZonesOfSeen ==
    /\ pc = "zones"
    /\ cal' = [g \in Groups |-> IF g \in seen THEN CalendarOf(run, outcome) ELSE cal[g]]
    /\ pc' = "extract"
    /\ UNCHANGED <<status, firstSeen, prices, run, seen, outcome, lost>>

\* One transaction replaces the zones of every known group, seen today or not.
PersistZones ==
    /\ pc = "zones"
    /\ cal' = [g \in Groups |-> IF g \in Known THEN CalendarOf(run, outcome) ELSE cal[g]]
    /\ pc' = "extract"
    /\ UNCHANGED <<status, firstSeen, prices, run, seen, outcome, lost>>

PersistObservationsEarly(cars) ==
    /\ pc \in {"zones", "extract"}
    /\ firstSeen' = [g \in Groups |-> IF g \in cars \ Known THEN run ELSE firstSeen[g]]
    /\ prices' = [g \in Groups |-> IF g \in cars THEN prices[g] \cup {run} ELSE prices[g]]
    /\ pc' = IF pc = "zones" THEN "zones" ELSE "finish"
    /\ UNCHANGED <<status, cal, run, seen, outcome, lost>>

\* Phase 3: the searches, their retry, and one transaction that upserts each
\* listed group and stores its prices.  A search that errored twice lists none.
PersistObservations(cars) ==
    /\ pc = "extract"
    /\ firstSeen' = [g \in Groups |-> IF g \in cars \ Known THEN run ELSE firstSeen[g]]
    /\ prices' = [g \in Groups |-> IF g \in cars THEN prices[g] \cup {run} ELSE prices[g]]
    /\ pc' = "finish"
    /\ UNCHANGED <<status, cal, run, seen, outcome, lost>>

MarkSuccessOnRetry ==
    /\ pc \in {"finish", "failing"}
    /\ status' = [status EXCEPT ![run] = "success"]
    /\ pc' = "idle"
    /\ UNCHANGED <<firstSeen, cal, prices, run, seen, outcome, lost>>

MarkSuccess ==
    /\ pc = "finish"
    /\ status' = [status EXCEPT ![run] = "success"]
    /\ pc' = "idle"
    /\ UNCHANGED <<firstSeen, cal, prices, run, seen, outcome, lost>>

\* Any other exception: its transaction, if one was open, is rolled back.
Raise ==
    /\ pc \notin {"idle", "failing"}
    /\ pc' = "failing"
    /\ UNCHANGED <<db, run, seen, outcome, lost>>

MarkFailedSilently ==
    /\ pc = "failing"
    /\ pc' = "idle"
    /\ UNCHANGED <<db, run, seen, outcome, lost>>

MarkFailed ==
    /\ pc = "failing"
    /\ status' = [status EXCEPT ![run] = "failed"]
    /\ pc' = "idle"
    /\ UNCHANGED <<firstSeen, cal, prices, run, seen, outcome, lost>>

\* The process ends without running its handler (the scheduler's time limit,
\* a reboot), or the handler cannot reach the database.
Killed ==
    /\ pc # "idle"
    /\ pc' = "idle"
    /\ lost' = lost \cup {run}
    /\ UNCHANGED <<db, run, seen, outcome>>

Work ==
    \/ \E result \in Outcomes : \E cars \in CarsOf(result) : Probe(result, cars)
    \/ PersistPvcs
    \/ PersistZones
    \/ \E cars \in SUBSET Groups : PersistObservations(cars)
    \/ MarkSuccess
    \/ MarkFailed

Done == pc = "idle" /\ run = MaxRuns /\ UNCHANGED vars

Next == CreateScrapeRun \/ Work \/ Raise \/ Killed \/ Done

Spec == Init /\ [][Next]_vars

\* Every browser call and every statement has a timeout, so a run that is not
\* killed keeps moving.  Nothing obliges a run to start.
FairSpec == Spec /\ WF_vars(Work)

-----------------------------------------------------------------------------
\* The tables and the orchestrator's own state have their types, and the row of
\* a run that is alive says "running".
TypeOK ==
    /\ status \in [Runs -> {"none", "running", "success", "failed"}]
    /\ firstSeen \in [Groups -> 0..MaxRuns]
    /\ cal \in [Groups -> Calendars \cup {None}]
    /\ prices \in [Groups -> SUBSET Runs]
    /\ run \in 0..MaxRuns
    /\ pc \in Steps
    /\ seen \in SUBSET Groups
    /\ outcome \in Outcomes
    /\ lost \in SUBSET Runs
    /\ \A r \in Runs : status[r] = "none" <=> r > run
    /\ pc # "idle" => run > 0 /\ status[run] = "running"

\* Zones are copied to every category, whatever runs did or did not list it:
\* leading_active_zone and the readers that merge categories rely on two
\* categories never having the calendars of two different runs.
CalendarUniform == \A g, h \in Zoned : cal[g] = cal[h]

\* A run marked "success" left its calendar, or a newer one, on every category
\* that has one: no category keeps the seasons of an older run.
SuccessIsCurrent ==
    \A r \in Runs, g \in Zoned : status[r] = "success" => cal[g].run >= r

\* A known category without zones was added after the calendar in force was
\* written (by phase 3, or by a run that stopped before its zones).
OnlyNewcomersLackZones ==
    \A g \in Known \ Zoned, h \in Zoned : cal[h].run <= firstSeen[g]

\* Prices are stored under the representative dates of their run, so they must
\* not be visible before that run's calendar is.
PricesFollowCalendar ==
    \A g \in Zoned : \A r \in prices[g] : r <= cal[g].run

\* A probe whose searches failed leaves every calendar as it was, now and for
\* the rest of its run (EmptyProbeError).
FailedProbeKeepsCalendar == [][outcome = "errored" => cal' = cal]_vars

\* A run that is not killed reaches a verdict.
RunEnds == \A r \in Runs : status[r] = "running" ~> status[r] # "running" \/ r \in lost

\* All categories together are one calendar, replaced whole.
Shared == IF Zoned = {} THEN None ELSE cal[CHOOSE g \in Zoned : TRUE]
Publication == INSTANCE SeasonPublication WITH calendar <- Shared, verdict <- status
ReplacesWholeCalendar == Publication!Spec

=============================================================================
