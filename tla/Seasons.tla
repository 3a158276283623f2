------------------------------ MODULE Seasons -------------------------------
(***************************************************************************)
(* How a scrape run turns the pages of its weekly probes into a season     *)
(* calendar and the calendar into the extraction plan: SeasonProbe,        *)
(* PricePointExtractor, SeasonAnalyzer, SearchPlanBuilder and the helpers  *)
(* of the orchestrator between them.  Dates are day numbers.  All probes   *)
(* have the same length, so a point carries its price per day, in cents.   *)
(***************************************************************************)
EXTENDS Integers, Sequences, SequencesExt, FiniteSets, FiniteSetsExt

CONSTANTS ProbeDays,   \* PROBE_DURATION_DAYS: length of a probe and step between two
          StopAfter,   \* _PROBE_STOP_THRESHOLD: confirmed-empty probes in a row
          Percent,     \* price_change_threshold, in percent
          Durations    \* rental days asked for in phase 3

ASSUME ProbeAssumption ==
    /\ ProbeDays \in Nat \ {0}
    /\ StopAfter \in Nat \ {0}
    /\ Percent \in Nat
    /\ Durations \subseteq Nat \ {0}

\* A page is [kind, cars]: "read", "errored" or "empty" (the provider says it
\* has no cars), and the cars in page order, each [group, price].

ProbeDates(start, end) ==
    [i \in 1..((end - start) \div ProbeDays) |-> start + (i - 1) * ProbeDays]

\* scrape_session stops when the last StopAfter results are confirmed empty.
Executed(pages) ==
    LET stops == {i \in StopAfter..Len(pages) :
                     \A j \in (i - StopAfter + 1)..i : pages[j].kind = "empty"}
    IN  SubSeq(pages, 1, Min(stops \cup {Len(pages)}))

\* One point per car with a rate, in the order of the probes and of the page.
Points(dates, pages) ==
    FlattenSeq([i \in DOMAIN pages |->
        [j \in DOMAIN pages[i].cars |->
            [date  |-> dates[i],
             group |-> pages[i].cars[j].group,
             price |-> pages[i].cars[j].price]]])

\* The members of a list at some of its places, in the order of the list.  The
\* empty list in front makes TLC compute the members once.
Nth(places, n) == CHOOSE i \in places : Cardinality({j \in places : j <= i}) = n
Kept(list, places) == << >> \o [n \in 1..Cardinality(places) |-> list[Nth(places, n)]]

DatesOf(points, g) == {points[i].date : i \in {j \in DOMAIN points : points[j].group = g}}
AllDates(points) == {points[i].date : i \in DOMAIN points}
GroupsOn(points, d) == {points[i].group : i \in {j \in DOMAIN points : points[j].date = d}}

\* Most probe dates first, then most points, then first listed.
GuideGroup(points) ==
    LET groups == {points[i].group : i \in DOMAIN points}
        count(g) == Cardinality({i \in DOMAIN points : points[i].group = g})
        score == [g \in groups |->
                    Cardinality(DatesOf(points, g)) * (Len(points) + 1) + count(g)]
        best == {g \in groups : \A h \in groups : score[h] <= score[g]}
    IN  points[Min({i \in DOMAIN points : points[i].group \in best})].group

Distance(a, b) == IF a < b THEN b - a ELSE a - b
Larger(a, b) == IF a < b THEN b ELSE a

\* The relative change of the analyzer; a base price is at least one cent.
Jumped(old, new) == 100 * Distance(old, new) > Percent * Larger(old, 1)

\* Places of the points that differ from the one before them, and their dates.
Jumps(points) == {i \in 2..Len(points) : Jumped(points[i - 1].price, points[i].price)}
DatesAt(points) == [i \in DOMAIN points |-> points[i].date]
BoundariesLeft(points) == Kept(DatesAt(points), {i - 1 : i \in Jumps(points)})
Boundaries(points) == Kept(DatesAt(points), Jumps(points))

\* A later point of a date overwrites an earlier one.
PriceOn(points, d) == points[Max({i \in DOMAIN points : points[i].date = d})].price
ReferencePrice(points, start) ==
    LET later == {d \in AllDates(points) : d >= start}
    IN  IF later = {} THEN 0 ELSE PriceOn(points, Min(later))

BuildZonesOverlapping(points, start, end) ==
    LET cuts == <<start>> \o Boundaries(points) \o <<end + 1>>
    IN  [n \in 1..(Len(cuts) - 1) |->
            [start |-> cuts[n], end |-> IF n < Len(cuts) - 1 THEN cuts[n + 1] ELSE end,
             rep |-> cuts[n], price |-> ReferencePrice(points, cuts[n])]]
BuildZones(points, start, end) ==
    LET cuts == <<start>> \o Boundaries(points) \o <<end + 1>>
    IN  [n \in 1..(Len(cuts) - 1) |->
            [start |-> cuts[n], end |-> cuts[n + 1] - 1,
             rep |-> cuts[n], price |-> ReferencePrice(points, cuts[n])]]

\* The points of the guide group.
OfGuide(points) ==
    LET guide == GuideGroup(points)
    IN  Kept(points, {i \in DOMAIN points : points[i].group = guide})

\* Without points, a single zone with price 0.
DetectZones(points, start, end) ==
    IF points = << >>
    THEN <<[start |-> start, end |-> end, rep |-> start, price |-> 0]>>
    ELSE BuildZones(OfGuide(points), start, end)

RepresentativeFirst(zone, points) ==
    LET dates == {d \in AllDates(points) : zone.start <= d /\ d <= zone.end}
    IN  IF dates = {} THEN zone.rep ELSE Min(dates)
\* The probe date of the zone with the most groups, the later one on a tie.
Representative(zone, points) ==
    LET dates == {d \in AllDates(points) : zone.start <= d /\ d <= zone.end}
        groups == [d \in dates |-> Cardinality(GroupsOn(points, d))]
        most == {d \in dates : \A e \in dates : groups[e] <= groups[d]}
    IN  IF dates = {} THEN zone.rep ELSE Max(most)
ReassignRepresentatives(zones, points) ==
    [n \in DOMAIN zones |-> [zones[n] EXCEPT !.rep = Representative(zones[n], points)]]

\* A calendar cut short by the stopper ends at the last date with a price.
EffectiveEnd(points, truncated, end) ==
    IF truncated /\ points # << >> THEN Max(AllDates(points)) ELSE end

\* The first zone keeps the start of the first stored one at an equal price.
CarryForward(zones, old) ==
    IF old = << >> \/ Jumped(old[1].price, zones[1].price) \/ old[1].start >= zones[1].start
    THEN zones
    ELSE [zones EXCEPT ![1].start = old[1].start]

\* build_short_searches, as <<pickup date, rental days>>.
ShortSearchesInside(zones, end) ==
    {s \in {<<zones[n].rep, d>> : n \in DOMAIN zones, d \in Durations} : s[1] + s[2] < end}
ShortSearches(zones, end) ==
    {s \in {<<zones[n].rep, d>> : n \in DOMAIN zones, d \in Durations} : s[1] + s[2] <= end}
=============================================================================
