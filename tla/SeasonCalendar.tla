--------------------------- MODULE SeasonCalendar ---------------------------
(***************************************************************************)
(* The season calendar of one (provider, location, rate) while the scrape  *)
(* window moves: every run probes the days ahead of it, and replaces the   *)
(* stored zones unless its searches failed or the table refuses the rows.  *)
(* All categories have the same zones (ScrapeRun!CalendarUniform), so one  *)
(* sequence stands for all of them.                                        *)
(***************************************************************************)
EXTENDS Seasons

CONSTANTS Pages,       \* what one probe search may bring back
          Period,      \* PERIOD_DAYS: length of the window
          MaxDay       \* bound on the first day of a window

ASSUME WindowAssumption == Period \in Nat \ {0} /\ MaxDay \in Nat
ASSUME ProbePagesAssumption ==
    \A page \in Pages : page.cars \in Seq([group : STRING, price : Nat])

VARIABLES today,       \* first day of the window (the run's day plus the offset)
          zones,       \* active homogeneous_zones, by start_date
          window,      \* first and last day the stored run detected zones for
          points,      \* price points of the stored run
          plan,        \* extraction searches of the stored run
          verdict      \* of the last run: "none", "stored", "refused", "rejected"

seasonVars == <<today, zones, window, points, plan, verdict>>

NumberOfProbes == Period \div ProbeDays

\* A row of homogeneous_zones.
SeasonZone == [start : Int, end : Int, rep : Int, price : Nat]

\* ck_homogeneous_zones_date_order and ck_homogeneous_zones_representative_in_zone.
Legal(zone) ==
    /\ zone.end >= zone.start
    /\ zone.start <= zone.rep /\ zone.rep <= zone.end

SeasonInit ==
    /\ today = 0
    /\ zones = << >>
    /\ window = [start |-> 0, end |-> 0]
    /\ points = << >>
    /\ plan = {}
    /\ verdict = "none"

NextDay ==
    /\ today < MaxDay
    /\ today' = today + 1
    /\ UNCHANGED <<zones, window, points, plan, verdict>>

StoreWithoutCarry(fresh, last, found) ==
    /\ verdict' = "stored"
    /\ zones' = fresh
    /\ window' = [start |-> today, end |-> last]
    /\ points' = found
    /\ plan' = ShortSearches(fresh, today + Period)

\* _persist_zones: one transaction, which the table's constraints may refuse.
Store(fresh, last, found) ==
    /\ verdict' = "stored"
    /\ zones' = CarryForward(fresh, zones)
    /\ window' = [start |-> today, end |-> last]
    /\ points' = found
    /\ plan' = ShortSearches(fresh, today + Period)

Scrape(pages) ==
    LET done  == Executed(pages)
        found == Points(ProbeDates(today, today + Period), done)
        last  == EffectiveEnd(found, Len(done) < Len(pages), today + Period)
        fresh == ReassignRepresentatives(DetectZones(found, today, last), found)
    IN  /\ UNCHANGED today
        /\ IF found = << >> /\ \E i \in DOMAIN done : done[i].kind = "errored"
           THEN verdict' = "refused" /\ UNCHANGED <<zones, window, points, plan>>
           ELSE IF \A n \in DOMAIN fresh : Legal(fresh[n])
                THEN Store(fresh, last, found)
                ELSE verdict' = "rejected" /\ UNCHANGED <<zones, window, points, plan>>

SeasonNext == NextDay \/ \E pages \in [1..NumberOfProbes -> Pages] : Scrape(pages)

SeasonSpec == SeasonInit /\ [][SeasonNext]_seasonVars

-----------------------------------------------------------------------------
Guide == IF points = << >> THEN << >> ELSE OfGuide(points)
OncePerPage ==
    \A i, j \in DOMAIN points :
        i # j /\ points[i].date = points[j].date => points[i].group # points[j].group
ZoneOf(d) == {n \in DOMAIN zones : zones[n].start <= d /\ d <= zones[n].end}

\* The calendar has the shape of its table and satisfies its constraints, the
\* carried start included, which is written after the analyzer's own checks.
SeasonTypeOK ==
    /\ today \in 0..MaxDay
    /\ zones \in Seq(SeasonZone)
    /\ \A n \in DOMAIN zones : Legal(zones[n])
    /\ window \in [start : Nat, end : Nat] /\ window.start <= today
    /\ plan \subseteq Nat \X Durations
    /\ verdict \in {"none", "stored", "refused", "rejected"}

\* Every day of the window the run could see belongs to exactly one zone, and
\* zones before it can only be the carried start of the first one: a reader
\* who walks the calendar meets no hole and no second price.
ZonesTileWindow ==
    zones # << >> =>
        /\ \A d \in window.start..window.end : Cardinality(ZoneOf(d)) = 1
        /\ Last(zones).end = window.end
        /\ \A n \in 1..(Len(zones) - 1) : zones[n + 1].start = zones[n].end + 1
        /\ zones[1].start <= window.start

\* When no page lists a group twice, each zone's prices are asked for on a date
\* inside it on which the probe saw some group, and no other date saw more.
RepresentativesWereSeen ==
    points # << >> /\ OncePerPage => \A n \in DOMAIN zones :
        LET z == zones[n]
        IN  /\ z.rep \in AllDates(points) /\ n \in ZoneOf(z.rep)
            /\ \A d \in AllDates(points) : n \in ZoneOf(d) =>
                  Cardinality(GroupsOn(points, d)) <= Cardinality(GroupsOn(points, z.rep))

\* No zone is left without prices: the plan asks for every duration up to the
\* length of a probe on each zone's representative date.
EveryZoneIsSearched ==
    points # << >> => \A n \in DOMAIN zones, d \in Durations :
        d <= ProbeDays => <<zones[n].rep, d>> \in plan

\* Under the same condition, a season changes exactly where the price of the
\* guide group jumps from one probe to the next.
SeasonsChangeAtJumps ==
    OncePerPage => \A i \in 2..Len(Guide) :
        ZoneOf(Guide[i - 1].date) # ZoneOf(Guide[i].date)
            <=> Jumped(Guide[i - 1].price, Guide[i].price)

\* While the first season's price stays within the threshold of what it was at
\* the last run, its start is not re-dated to the moving edge of the window.
SeasonKeepsStart ==
    [][zones # << >> /\ zones' # << >> /\ ~Jumped(zones[1].price, zones'[1].price)
          => zones'[1].start <= zones[1].start]_seasonVars

=============================================================================
