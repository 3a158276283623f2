---------------------------- MODULE CrossTariff ------------------------------
(***************************************************************************)
(* The cross tariff: observations and seasons read by                      *)
(* cross_tariff_read.py, aligned with the seasons of a master provider by  *)
(* cross_tariff_assembler.py, priced by CellPricing, and served by         *)
(* routes/cross_tariff.py while scrape runs publish.  A scrape publishes   *)
(* one calendar for all the categories of an office (CalendarUniform of    *)
(* ScrapeRun).  One duration is modelled: cells of different durations     *)
(* never meet.                                                             *)
(***************************************************************************)
EXTENDS CellPricing, Sequences

CONSTANTS Market,         \* providers, as the sequence ordered by code
          Categories,     \* classified categories: [office, key, code]
          ProviderOf,     \* provider of each office
          MarketOf,       \* canonical location of each office, or Missing
          Calendars,      \* calendars a scrape publishes: sets of [from, to, rep]
          Totals,         \* total prices
          Formulas,       \* configurations: [radar, master, base, round, rule, overrides, muted]
          Listings,       \* sets of active providers
          Ranges,         \* ends of the seasons to export, 0 for an open end
          MaxDay,         \* days are 1..MaxDay
          MaxPublications

Offices == DOMAIN ProviderOf
Providers == Range(Market)
Days == 1..MaxDay
Codes == {c.code : c \in Categories}

Zones == {z \in [from : Days, to : Days, rep : Days] : z.from <= z.rep /\ z.rep <= z.to}
Configs == [radar : SUBSET Providers, master : Providers \cup {Missing}, base : Bases,
            round : RoundModes, rule : RuleConfigs,
            overrides : [Codes -> RuleConfigs \cup {Missing}], muted : SUBSET Codes]

ASSUME TariffAssumption ==
    /\ MaxDay \in Nat /\ MaxPublications \in Nat
    /\ Market \in Seq(Providers)
    /\ ProviderOf \in [Offices -> Providers]
    /\ IsFiniteSet(Categories) /\ \A c \in Categories : c.office \in Offices
    /\ Totals \subseteq Nat \ {0}
    /\ Listings \subseteq (SUBSET Providers) \ {{}}
    /\ Ranges \subseteq Nat \X Nat
    /\ Formulas \subseteq Configs
    /\ Calendars \subseteq (SUBSET Zones) \ {{}}

VARIABLES calendar,    \* active homogeneous_zones of each office
          latest,      \* newest total observed of each category on each day, or Missing
          listed,      \* providers that fetch_active_providers returns
          today,
          published,   \* number of publications, for the bound
          page,        \* newest response, or None
          torn         \* history: a scrape published while the page was made

vars == <<calendar, latest, listed, today, published, page, torn>>
None == [kind |-> "none"]

-----------------------------------------------------------------------------
(* Reading: one row per category, active season and backing observation. *)

Distance(d, e) == IF d < e THEN e - d ELSE d - e
Nearer(rep, d, e) ==
    \/ Distance(d, rep) < Distance(e, rep)
    \/ Distance(d, rep) = Distance(e, rep) /\ d <= e

BackingDays(c, z) == {d \in z.from..z.to : latest[c][d] # Missing}
BackingTotal(c, z) ==
    latest[c][CHOOSE d \in BackingDays(c, z) : \A e \in BackingDays(c, z) : Nearer(z.rep, d, e)]

InMarket(office, location) == location = Missing \/ MarketOf[office] = location
Frame(radar, location) ==
    UNION {{[provider |-> ProviderOf[c.office], office |-> c.office, key |-> c.key,
             code |-> c.code, from |-> z.from, to |-> z.to, rep |-> z.rep,
             total |-> BackingTotal(c, z)] :
               z \in {y \in calendar[c.office] : BackingDays(c, y) # {}}} :
           c \in {d \in Categories : ProviderOf[d.office] \in radar /\ InMarket(d.office, location)}}

CanonicalLocations == {MarketOf[o] : o \in {c.office : c \in Categories}} \ {Missing}
MasterZoneCovering(master, location) ==
    LET zones == UNION {{z \in calendar[o] : z.from <= today /\ today <= z.to} :
                        o \in {q \in Offices : ProviderOf[q] = master /\ InMarket(q, location)}}
    IN IF zones = {} THEN None
       ELSE LET z == CHOOSE z \in zones : \A y \in zones : z.from <= y.from
            IN [kind |-> "zone", from |-> z.from, to |-> z.to]

-----------------------------------------------------------------------------
(* Assembling. *)

\* The seasons of the master, by start; SortedBySpan tells which orders will do.
Span(z) == [from |-> z.from, to |-> z.to]
SortedBySpan(spans) ==
    {q \in [1..Cardinality(spans) -> spans] :
        \A i, j \in 1..Cardinality(spans) : i < j => q[i] # q[j] /\ q[i].from <= q[j].from}
MasterZones(frame, master) ==
    CHOOSE q \in SortedBySpan({Span(r) : r \in {q \in frame : q.provider = master}}) : TRUE

Covers(z, day) == z.from <= day /\ day <= z.to

\* Indices start at 1: the season of today, else the first one.
DefaultZone(zones) ==
    IF \E i \in DOMAIN zones : Covers(zones[i], today)
    THEN Min({i \in DOMAIN zones : Covers(zones[i], today)}) ELSE 1

ClampZone(index, n) == Max({1, Min({index, n})})

MasterRows(frame, master, z) ==
    {r \in frame : r.provider = master /\ r.from = z.from /\ r.to = z.to}
SameGroup(r, s) == r.provider = s.provider /\ r.code = s.code /\ r.key = s.key
\* FilterZoneNearest takes the nearest season whether or not it covers the day.
FilterZoneNearest(frame, master, z, rep) ==
    LET others == {r \in frame : r.provider # master}
    IN MasterRows(frame, master, z)
       \cup {LET group == {r \in others : SameGroup(r, s)}
             IN CHOOSE r \in group : \A q \in group : Nearer(rep, r.rep, q.rep) : s \in others}
FilterZone(frame, master, z, rep) ==
    LET others == {r \in frame : r.provider # master /\ Covers(r, rep)}
    IN MasterRows(frame, master, z)
       \cup {LET group == {r \in others : SameGroup(r, s)}
             IN CHOOSE r \in group : \A q \in group : Nearer(rep, r.rep, q.rep) : s \in others}

\* A price is direct when the nearest season has the master's representative.
Inferred(rows, master, rep) ==
    {r.provider : r \in rows} \ ({master} \cup {r.provider : r \in {q \in rows : q.rep = rep}})
BuildCell(rows, cfg, rep) ==
    ComputeCell([p \in {r.provider : r \in rows} |->
                    {r.total : r \in {q \in rows : q.provider = p}}],
                Inferred(rows, cfg.master, rep), cfg.master, cfg.rule, cfg.base, cfg.round)
\* A category's own rule goes before the rule of the tenant.
OfCategory(cfg, code) ==
    IF cfg.overrides[code] = Missing THEN cfg ELSE [cfg EXCEPT !.rule = cfg.overrides[code]]
BuildCellResults(rows, cfg, rep) ==
    [code \in {r.code : r \in rows} |->
        BuildCell({q \in rows : q.code = code}, OfCategory(cfg, code), rep)]

\* Rows of the provider's groups under a category; a group that determined
\* the base is the provider's cheapest.
ProviderRows(rows, cell) ==
    {[provider |-> r.provider, key |-> r.key, total |-> r.total,
      anomaly |-> r.provider \in cell.dropped,
      isBase |-> /\ r.provider \in cell.isBase
                 /\ \A q \in rows : q.provider = r.provider => r.total <= q.total] : r \in rows}

NoZone == [index |-> 0, total |-> 0, from |-> 0, to |-> 0, covers |-> FALSE, rep |-> 0]
EmptyPayload == [zone |-> NoZone, cells |-> <<>>, rows |-> <<>>]
AssembleCrossTariff(frame, cfg, index) ==
    LET zones == MasterZones(frame, cfg.master)
        i == IF index = 0 THEN DefaultZone(zones) ELSE ClampZone(index, Len(zones))
        z == zones[i]
        rep == Min({r.rep : r \in MasterRows(frame, cfg.master, z)})
        rows == FilterZone(frame, cfg.master, z, rep)
        cells == BuildCellResults(rows, cfg, rep)
    IN IF zones = <<>> THEN EmptyPayload
       ELSE [zone |-> [index |-> i, total |-> Len(zones), from |-> z.from, to |-> z.to,
                       covers |-> Covers(z, today), rep |-> rep],
             cells |-> cells,
             rows |-> [code \in DOMAIN cells |->
                          ProviderRows({r \in rows : r.code = code}, cells[code])]]

-----------------------------------------------------------------------------
(* Configuration: the saved formula clamped to the active providers, or    *)
(* the body of a request, refused (422) when it is not coherent.           *)

FirstListed(radar) == Market[Min({i \in DOMAIN Market : Market[i] \in radar})]
DefaultRule == [op |-> "sub", val |-> 1, mode |-> "pct", floor |-> "auto", ceiling |-> "max"]
DefaultFormula == [radar |-> Providers, master |-> Missing, base |-> "min", round |-> "0",
                   rule |-> DefaultRule, overrides |-> [k \in Codes |-> Missing], muted |-> {}]

\* UnclampedConfig renders the formula as it was saved.
UnclampedConfig(f) == f
ResolveSavedConfig(f) ==
    LET radar == IF f.radar \cap listed = {} THEN listed ELSE f.radar \cap listed
        master == IF f.master \in radar THEN f.master ELSE FirstListed(radar)
    IN [f EXCEPT !.radar = radar, !.master = master]
AcceptableBody(f) ==
    /\ f.radar # {} /\ f.radar \subseteq listed
    /\ f.master \in f.radar

-----------------------------------------------------------------------------
Init ==
    /\ calendar = [o \in Offices |-> {}]
    /\ latest = [c \in Categories |-> [d \in Days |-> Missing]]
    /\ listed \in Listings
    /\ today \in Days
    /\ published = 0
    /\ page = None
    /\ torn = FALSE

\* A scrape run replaces the calendar of an office and records, for each of
\* its categories, the totals it could read on the representative dates.
Publish(o) ==
    LET own == {c \in Categories : c.office = o} IN
    /\ published < MaxPublications /\ page.kind \in {"none", "assembled"}
    /\ \E cal \in Calendars :
         \E read \in [own -> [{z.rep : z \in cal} -> Totals \cup {Missing}]] :
            /\ calendar' = [calendar EXCEPT ![o] = cal]
            /\ latest' = [c \in Categories |->
                  IF c \notin own THEN latest[c]
                  ELSE [d \in Days |-> IF d \in DOMAIN read[c] /\ read[c][d] # Missing
                                       THEN read[c][d] ELSE latest[c][d]]]
    /\ published' = published + 1
    /\ torn' = (page.kind = "assembled")
    /\ UNCHANGED <<listed, today, page>>

\* The location asked for, or the first canonical one.
SelectedLocation(location) ==
    IF location # Missing \/ CanonicalLocations = {} THEN location
    ELSE CHOOSE l \in CanonicalLocations : TRUE

\* _compute_payload up to the rendered grid: one statement reads the frame.
Render(cfg, location, index) ==
    /\ page' = [kind |-> "assembled", cfg |-> cfg, location |-> SelectedLocation(location),
                asked |-> index, gap |-> FALSE,
                view |-> AssembleCrossTariff(Frame(cfg.radar, SelectedLocation(location)), cfg, index)]
    /\ torn' = FALSE
    /\ UNCHANGED <<calendar, latest, listed, today, published>>
GetCrossTariff ==
    /\ page = None
    /\ \E f \in Formulas \cup {DefaultFormula}, l \in CanonicalLocations \cup {Missing}, i \in 0..MaxDay :
          Render(ResolveSavedConfig(f), l, i)
PreviewCrossTariff ==
    /\ page = None
    /\ \E f \in Formulas, l \in CanonicalLocations \cup {Missing}, i \in 0..MaxDay :
          AcceptableBody(f) /\ Render(f, l, i)

\* The rest of _compute_payload: a second statement looks for the season the
\* grid should have shown.
DataGap(zone, current) ==
    current.kind = "zone" /\ current.from # zone.from
LabelGap ==
    /\ page.kind = "assembled"
    /\ LET shown == page.view.zone
           current == MasterZoneCovering(page.cfg.master, page.location)
       IN page' = [page EXCEPT !.kind = "page",
                     !.gap = page.asked = 0 /\ ~shown.covers /\ DataGap(shown, current)]
    /\ UNCHANGED <<calendar, latest, listed, today, published, torn>>

\* build_rows: the cells of a range of seasons (0 is an open end), silenced
\* categories left out, one column per provider with its cheapest group.
\* The location is taken as it came: without one, every office counts.
\* LastSeasonLeftOut forgets that the range is inclusive.
LastSeasonLeftOut(from, to, n) ==
    {i \in 1..n : from <= i /\ (to = 0 \/ i < to)}
SeasonRange(from, to, n) ==
    LET low == IF from = 0 THEN 1 ELSE ClampZone(from, n)
        high == IF to = 0 THEN n ELSE ClampZone(to, n)
    IN IF low > high THEN high..low ELSE low..high
ExportRow(cfg, view, code) ==
    [zone |-> view.zone.from, code |-> code, rec |-> view.cells[code].rec,
     columns |-> [p \in {r.provider : r \in view.rows[code]} |->
                     Min({r.total : r \in {q \in view.rows[code] : q.provider = p}})]]
ExportRows(frame, cfg, from, to) ==
    UNION {LET view == AssembleCrossTariff(frame, cfg, i)
           IN {ExportRow(cfg, view, code) :
                 code \in {k \in DOMAIN view.cells \ cfg.muted : view.cells[k].rec # Missing}} :
           i \in SeasonRange(from, to, Len(MasterZones(frame, cfg.master)))}
Export ==
    /\ page = None
    /\ \E f \in Formulas \cup {DefaultFormula}, l \in CanonicalLocations \cup {Missing},
          range \in Ranges :
         LET cfg == ResolveSavedConfig(f)
             frame == Frame(cfg.radar, l)
         IN page' = [kind |-> "export", cfg |-> cfg, location |-> l, from |-> range[1], to |-> range[2],
                     rows |-> IF MasterZones(frame, cfg.master) = <<>> THEN {}
                              ELSE ExportRows(frame, cfg, range[1], range[2])]
    /\ UNCHANGED <<calendar, latest, listed, today, published, torn>>

\* The response has left; the next request may come.
Respond ==
    /\ page.kind \in {"page", "export"}
    /\ page' = None
    /\ torn' = FALSE
    /\ UNCHANGED <<calendar, latest, listed, today, published>>

Next ==
    \/ \E o \in Offices : Publish(o)
    \/ GetCrossTariff
    \/ PreviewCrossTariff
    \/ LabelGap
    \/ Export
    \/ Respond

Spec == Init /\ [][Next]_vars

-----------------------------------------------------------------------------
Rows == [provider : Providers, key : {c.key : c \in Categories}, total : Totals,
         anomaly : BOOLEAN, isBase : BOOLEAN]

\* Every variable keeps its type; the rows and cells of a grid speak of the
\* same categories.
TypeOK ==
    /\ calendar \in [Offices -> Calendars \cup {{}}]
    /\ latest \in [Categories -> [Days -> Totals \cup {Missing}]]
    /\ listed \subseteq Providers
    /\ page.kind \in {"none", "assembled", "page", "export"}
    /\ page.kind \in {"assembled", "page"} =>
          /\ DOMAIN page.view.rows = DOMAIN page.view.cells
          /\ \A k \in DOMAIN page.view.rows : page.view.rows[k] \subseteq Rows

Fresh == page.kind \in {"assembled", "page"} /\ ~torn
OwnCategories(master, location) ==
    {c \in Categories : ProviderOf[c.office] = master /\ InMarket(c.office, location)}

\* Whatever the other providers ask, every season of the master with a price
\* can be navigated to, and the master counts in each of its cells there: no
\* witness may discard the provider that sets the calendar
\* (cross_tariff_calc.py:130, cross_tariff_assembler.py:147).
MasterAnchorsGrid ==
    Fresh =>
      LET own == OwnCategories(page.cfg.master, page.location)
          backed(c) == {z \in calendar[c.office] : BackingDays(c, z) # {}}
      IN /\ page.view.zone.total =
               Cardinality({Span(z) : z \in UNION {backed(c) : c \in own}})
         /\ \A c \in own : \A z \in backed(c) :
               z.from = page.view.zone.from /\ z.to = page.view.zone.to =>
                   /\ c.code \in DOMAIN page.view.cells
                   /\ page.cfg.master \in page.view.cells[c.code].present

\* A total on the grid was observed within a season of its own provider that
\* contains the day the master is compared on, never in another season
\* (cross_tariff_read.py:119, cross_tariff_assembler.py:177).
PricesOfTheSameSeason ==
    Fresh =>
      \A k \in DOMAIN page.view.rows : \A r \in page.view.rows[k] :
        \E c \in Categories : \E z \in calendar[c.office] :
           /\ ProviderOf[c.office] = r.provider /\ c.key = r.key /\ c.code = k
           /\ InMarket(c.office, page.location)
           /\ Covers(z, page.view.zone.rep)
           /\ \E d \in z.from..z.to : latest[c][d] = r.total

\* No price of a provider that left the market is shown, compared or used as
\* the reference, whatever configuration the tenant saved before
\* (routes/cross_tariff.py:123).
DelistedNeverPriced ==
    page.kind \in {"assembled", "page"} =>
      \A k \in DOMAIN page.view.rows :
        /\ \A r \in page.view.rows[k] : r.provider \in listed
        /\ page.view.cells[k].present \subseteq listed

\* Rule, circuit breakers, directional guard and rounding together: a price
\* to round ends strictly on the rule's side of the base; no price passes the
\* ceiling by more than a rounding step, and none passes under the floor by
\* more than a step unless the floor itself was on the wrong side of the base
\* (cross_tariff_calc.py:182-322).
RecommendationBounded ==
    page.kind \in {"assembled", "page"} =>
      \A k \in DOMAIN page.view.cells :
        LET cell == page.view.cells[k]
            rule == cell.rule
            counted == {q \in page.view.rows[k] : ~q.anomaly}
            shown == {Min({q.total : q \in {s \in counted : s.provider = p}}) :
                         p \in {q.provider : q \in counted}}
            step == IF Unrounded(rule, page.cfg.round) THEN Cent ELSE RoundStep(page.cfg.round)
        IN cell.rec # Missing =>
             /\ ~Unrounded(rule, page.cfg.round) =>
                   IF rule.op = "sub" THEN cell.rec < cell.base ELSE cell.rec > cell.base
             /\ rule.ceiling = "max" => cell.rec <= Max(shown) + step
             /\ rule.floor = "auto" => 100 * (cell.rec + step) >= 82 * Min(shown)
             /\ (rule.floor = "cost" /\ 55 * Max(shown) <= 100 * cell.base) =>
                   100 * (cell.rec + step) >= 55 * Max(shown)

\* An export of seasons first..last, both in range, holds exactly the priced,
\* not silenced categories of the grids of those seasons, at the same
\* recommended price (export_service.py:192).
ExportFollowsGrid ==
    page.kind = "export" =>
      LET frame == Frame(page.cfg.radar, page.location)
          n == Len(MasterZones(frame, page.cfg.master))
          first == IF page.from = 0 THEN 1 ELSE page.from
          last == IF page.to = 0 THEN n ELSE page.to
          grid(i) == AssembleCrossTariff(frame, page.cfg, i)
          rows(i) == {[zone |-> grid(i).zone.from, code |-> k, rec |-> grid(i).cells[k].rec] :
                      k \in {j \in DOMAIN grid(i).cells \ page.cfg.muted :
                                grid(i).cells[j].rec # Missing}}
      IN (first <= last /\ last <= n) =>
           UNION {rows(i) : i \in first..last} =
               {[zone |-> r.zone, code |-> r.code, rec |-> r.rec] : r \in page.rows}
=============================================================================
