# A TLA+ verification of smart-rental-scraper

smart-rental-scraper reads the prices of rent-a-car competitors from their web
sites, stores them, and serves tariffs and price recommendations to its tenants.
These modules model what decides *what is stored, when, and what is answered
from it*: the recipe of a provider and the filling of its form, the browser
session, the scrape run and its transactions, the season calendar, the price
history, the classification of vehicles, and the two services that read all
this, price queries and cross tariffs. TLC checks the models on small instances;
TLAPS proves their safety properties for every value of their constants.

## 1. The system

    recipe builder -> provider_recipes            a person starts it, once per site
          |
    scraper process (scheduled), per (provider, location, rate), a *tuple*:
          probe            weekly searches over the period      (browser session 1)
          analysis         prices -> homogeneous zones, in memory
          phase 2          categories (classified), then zones  (2 transactions)
          phase 3          searches on representative dates     (browser session 2)
                           a retry of those that errored        (browser session 3)
                           categories and prices                (1 transaction)
          verdict          scrape_runs.status                   (1 transaction)
          |
    tables: zones, prices, categories with their ACRISS code
          |
    price queries, cross tariffs, exports        per tenant, under READ COMMITTED

A session fills the provider's form with the fillers of the recipe; the waiter
decides when the results are there. Categories are classified by the ACRISS
engine, with a language model for what its dictionaries lack and a queue an
operator works through. Onboarding creates a tenant, may scrape and classify on
its own, and subscribes the tenant to tuples.

### Inventory

| Component | State | Operations | Hard behaviour | What makes it correct |
|---|---|---|---|---|
| Scrape run (`smart_orchestrator.py`, repositories) | `scrape_runs`, `provider_vehicle_categories`, `homogeneous_zones`, `price_observations` of a tuple | create run, probe, persist categories / zones / observations, mark finished | several transactions per run; exceptions and kills between them; runs that follow interrupted ones | one calendar at a time, replaced whole; prices never precede their calendar; the verdict tells the truth |
| Season detection (`season_analyzer.py`, `season_probe.py`, `search_plan_builder.py`) | in memory, then zones | probe dates, points, guide group, boundaries, zones, representatives, plan, carried start | dates at boundaries; a moving window; a probe that was cut; a repeated group on a page | zones tile the window, change where the price jumps, and each gets searched |
| Price history (`price_observation*.py`) | append-only observations, one heartbeat per key | `insert_if_changed` | two writes per price; comparison with a rounded value; a transaction per run | the newest price is never further from the scraped one than a threshold per unpublished scrape; a reader gets whole runs |
| Category catalogue (`provider_vehicle_category_repository.py`) | ACRISS code, confidence, pending flag, attributes | `upsert_seen`, reuse by attributes, `reclassify_all.py` | a failed classifier; a row written by two programs; phase 3 re-using phase 2's answers | a code nobody reviews belongs to its attributes; a scrape never loses a code |
| ACRISS engine, bundle rule (`acriss_engine/`, `engine_service.py`) | none | decode letters, choose a bundle's member, declared codes, resolver, cap, collapse | order of fallbacks and caps | a doubtful code is flagged, a group is priced at its dearest member |
| Language-model cache, review queue (`gemini_service.py`, `model_classification.py`, `acriss_review_queue.py`, route `/classify`) | cached answers per version, one row per unknown model | ask, parse, cache, sight, rule, deploy | partial answers; two workers and the operator on one row; a rolled-back write that is swallowed | the model alone decides nothing; unknown models reach review; verdicts stay |
| Scrape session (`base_scraper.py`, `recipe_scraper.py`) | browser, dirty flag, results | submit form, refine, extract, retry, early stop | failed attempts leave unknown pages; the second session answers a subset | results belong to their search; an early stop is earned; the session ends |
| Results waiter (`results_waiter.py`) | signal of the current wait | poll prices, text, spinner | the page changes between two reads of one poll | it accepts only the page that answers the search |
| Form fillers (`form_fill_orchestrator.py`, `filling/`, `cookie_closer.py`, `*_filler_runner.py`) | the fields' displays, the widget on screen, the banner | close cookies, open, classify, fill, verify | fields that change one another; stale cells; lists that scroll; a banner that comes late | what the report says of the form is true of it at the end |
| Recipe builder (`scraper_engine.py`, `extraction/`, `provision.py`, `refine_discovery.py`, recipe repository, five programs) | versions of a provider's recipe | discover, extract twice and verify, store, probe a refine, confirm, store again | programs that run at once; kills; a site redesigned meanwhile; a model that answers anything | one active recipe; no part of a version is a guess |
| Price queries (`price_query/`) | none (reads) | resolve mappings, load zones, fetch observations, intersect, aggregate | four statements while scrapes commit; cuts of many calendars | every answer is, day by day, what was read |
| Tenant onboarding (`onboarding/`) | tenant, groups, mappings, subscriptions | eight steps, rollback | three transactions; failures; kills that skip the rollback; reruns | a tenant is complete, absent or a bare row |
| Cross tariffs, pricing rules (`pricing/`, route `cross_tariff`) | saved configuration | frame, align seasons, price cells, render, preview, export | configurations older than the market; rounding against floor and ceiling; calendars that do not match | a cell compares prices of one season; the recommendation keeps to its rule |
| Provider-specific scrapers | as scrape session | hand-written pages | as scrape session | - |
| Authentication, rate limit | users, API keys, attempts in memory | login, keys | counter per process | the limit holds |
| Exports, web front end, migrations, seeds | - | formatting, user interface, one-off changes | - | - |

`PROJECT.json` lists the same components with what is modelled of each, and the
hazards of the code line by line.

## 2. The modules

A faulty variant of a definition (`StoreDelta`, `PersistZonesOfSeen`, ...) stands
directly above the one it alters. It is the bug a property is there to catch;
nothing in a specification uses it.

**`ScrapeRun`** - the phases of `SmartScraperOrchestrator.run` over a sequence of
runs. `pc` is the next transaction of the live run; `Probe`, `PersistPvcs`,
`PersistZones`, `PersistObservations`, `MarkSuccess` and `MarkFailed` are the
methods of the same names (`_mark_run_finished` is split by its status). `Raise` is
any other exception, with the rollback that `super_session` does; `Killed` is the
scheduler's six-hour limit, a reboot, or a handler that cannot reach the database,
after which the row stays `running`. A calendar is abstract here: the run that
computed it and whether it has detected seasons or the single fallback zone. The
four outcomes of a probe are those the guard at line 231 tells apart, with the one
it does not ("blank": pages read without error whose cars have no price).

**`SeasonPublication`** - what readers rely on: one calendar at a time, the work of
one run, never an older one after a newer one. `ScrapeRun` implements it with
`calendar <- Shared`, the calendar of any category that has one.

**`Seasons`** - the pure algorithms, as operators: `ProbeDates`, `Executed`
(the stopper), `Points`, `GuideGroup`, `Boundaries`, `BuildZones`,
`Representative`, `EffectiveEnd`, `CarryForward`, `ShortSearches`. `Kept` is the
list of the members of another list at some of its places, in its order: the guide
group's points, and the dates of the jumps. Dates are day numbers, prices are cents,
and the relative change is a comparison of integers (the code's comparison is in
floating point).

**`SeasonCalendar`** - the stored zones of a tuple while the window moves: `NextDay`
moves it, `Scrape(pages)` is a whole run of the algorithms on any sequence of
probe pages, including the refusal of `EmptyProbeError` and of the table's CHECK
constraints. All categories share one sequence of zones, which is what
`ScrapeRun!CalendarUniform` says.

**`PriceHistory`** - `_persist_observations` and `insert_if_changed`, with the
committed and the staged (own transaction) copy of each key. `PerDay` rounds to
cents as NUMERIC(10,2) does, while `Changed` compares the exact quotient as the
code does. A page may list a group up to `MaxListings` times; each listing is stored,
and compared with the one before. **`PriceFeed`** is its abstract specification: a run
is one step for a reader, and a price that moved by more than the threshold is always
published, as far as a page names one price: n listings may hide n thresholds.

**`CategoryCatalog`** - `upsert_seen` with its pending-review policy,
`_load_cached_classifications` and the partition (`Classify`), the upserts of
phases 2 and 3, aborted runs, and the operator's script, whose read and write are
two actions with anything in between. The script's UPDATE holds only the columns
that differ from what it read, as the session of the ORM does. The classifier is
any verdict: sure, to review, or none.

**`ResultsWait`** - `wait_for_results` and the browser page. The URL and the prices,
the text and the spinner are three reads; between any two of them the provider's
page may navigate, flicker or render. The signal of a poll survives into the next
one, as the local variable does.

**`ScrapeSession`** (extends `ResultsWait`) - `scrape_session` over the searches,
with `RecipeScraper`'s browser and dirty flag, the two refine strategies and their
fallback to the form, the retry of a failed attempt, the probe stopper, `run_session`
and the second session over the searches that errored.

**`AcrissEngine`** - the deterministic classifier as operators: words of a name,
source overrides, exact index, model-only and fuzzy entries (`Alike` is the
similarity that SequenceMatcher computes, for the names of the instance),
transmission, fuel and the letters with their confidences, and when a model counts as
known. The data files are an argument, because a deployment changes them.

**`Classification`** (extends `AcrissEngine`) - the services around it. A worker is
a scrape or a request of `/classify`. `CombineBundle`, `ApplyDeclaredCode`,
`ResolveUnknowns` and `ToDto` are the stages of `classify_batch`, in the order of
the code; `ReadQueue`, `WriteQueue` and `FailQueue` split `upsert_sighting` at its
read, because the operator (`SetStatus`) and the other worker may come between;
`ServeCached` and `Return` are the route's cache with its versions, `Deploy` brings
new data files; `Recommended` is the trunk that the route puts in the place of a code
whose fuel the market does not offer. `OutOfReach` is a language model that does not
answer. `GeminiVerdict` is the other classifier, which onboarding uses: it puts a whole
batch to the larger model when one group is unsure (`Escalates`), and a short answer
leaves the groups at the end without a verdict (`Reaches`). The language model answers
anything from `Profiles` or `Answers`, or fails. The operator may change a verdict.

**`PriceQuery`** - the arithmetic of the price query service: `ComputeIntersectedGrid`
(the grid of periods) and the rows of the three tariffs, with the half-even rounding
of a mean.

**`TenantPrices`** (extends `PriceQuery`) - the life of one tenant name: each
transaction of onboarding, failure at any of them, `RollbackTenant`, which may fail,
`Kill`, which skips it, and the rerun; and a query as its separate statements
(`ResolveMappings`, `LoadZones`, `FetchObservations`, per subscription), between which
a scrape commits `PersistPvcs`, `PersistZones`, `PersistObservations` and `MarkSuccess`,
or stops (`StopScrape`), and `Reclassify` gives any known category another code, or
none. So a category may be known and classified without having zones: one that the
probe of a scrape has just found, or that only its searches listed.

**`CellPricing`** - one cell of the cross tariff: collapse of a provider's groups,
outlier witnesses, base, rule, floor, ceiling, directional guard, rounding. A unit is
1/600 euro, in which all quotients of the instances are exact as they are in Decimal.

**`CrossTariff`** (extends `CellPricing`) - the tables, the frame that one statement
reads, the alignment of competitors' seasons with the master's, the saved
configuration clamped to the active providers, with a rule of its own for some
categories (`OfCategory`), the grid, the gap label (a second
statement, with a publication possibly in between) and the export of a range.

**`SearchForm`** - what the five fields of a search form display and how the page
reacts: to a use of a field it may take the value or another, and the fields
`Coupled` with it may move too. **`DateCalendar`**, **`OptionFill`** and
**`CookieCloser`** are `DateCalendarFiller`, the opener with the autocomplete and
dropdown fillers, and `close_cookies_in_session`, each on an arbitrary page. The last
look for a banner (`OverlayPresent`) answers no when the page cannot be asked.
**`FormFill`** composes them as five programs do: the whole form, the location, dates
and times runners of the builder, and a stored recipe.

**`ResultsExtraction`** - a results page as a tree of elements, the cards and prices
that selectors read (`_extract_cards` with its passes, struck and hidden prices, the
heuristic), the list a language model tells, and `verify()`.

**`RecipeBuild`** (extends `ResultsExtraction`) - the five programs that write the
versions of a provider's recipe: `run_build_recipe` (discover, store, probe a refine,
store again), `reprobe_refine`, `set_recipe_refine`, `set_recipe_cookie` and
`import_provider_catalog`, which stores the recipe of a file untried, or registers the
provider of a file that has none. `save_recipe` is split into
its read of the highest version, the start and the end of its UPDATE, and its insert;
the import reads the active row first and switches it off by its key;
the row locks and the partial unique index of `provider_recipes` are those of
PostgreSQL under READ COMMITTED.

The `MC` modules give values to constants that a configuration cannot write; the
other modules are checked directly. The `Proofs` modules hold the theorems:
`ScrapeRunProofs` those of `ScrapeRun` and `SeasonCalendar`, `PriceHistoryProofs` those
of `PriceHistory` and `CategoryCatalog`, the others those of the module they are named
after and of the modules it extends. Where two components share a module of proofs, the
names of one carry its prefix (`SeasonSpec`, `CatalogSpec`).

Which module uses what another one promises:

    ScrapeRun --implements--> SeasonPublication --> TenantPrices, CrossTariff
    PriceHistory --implements--> PriceFeed       (the zones and prices they read)
    Classification --> CategoryCatalog           (its verdicts)
    FormFill --> RecipeBuild, ScrapeSession      (a form filled, or failed)
    ResultsWait --> ScrapeSession

Arrows to the right of an implementation are assumptions stated in the reading
module (calendars uniform over the categories of a tuple, zones before prices), not
a joint state machine, whose state space would be the product.

## 3. What the runs check

### Properties that hold

| Run | Instance | Properties |
|---|---|---|
| `price_history` | two keys of 1 and 3 days, 4 totals, 3 runs, pages that list a group up to twice | `DriftBounded`, `PublishesAtomically` (refinement of `PriceFeed`) |
| `scrape_run` | two groups, 3 runs | `SuccessIsCurrent`, `PricesFollowCalendar`, `FailedProbeKeepsCalendar`, `RunEnds`, `ReplacesWholeCalendar` (refinement of `SeasonPublication`) |
| `season_calendar` | 4 probes of 3 days from 5 kinds of page, 2 positions of the window | `ZonesTileWindow`, `RepresentativesWereSeen`, `EveryZoneIsSearched`, `SeasonsChangeAtJumps`, `SeasonKeepsStart` |
| `category_catalog` | one category, 2 attributes, 2 codes, 4 runs, the script at any time | `CertainCodeFits`, `ScrapeKeepsCodes` |
| `scrape_session` | 3 searches, 2 polls per wait, all strategies, probe and extraction | `SearchesRunInCleanBrowser`, `FormSearchesAreFresh`, `EarlyStopIsEarned`, `RefineStartsOnResults`, `RetryOnlyRecovers`, `SessionEnds` |
| `cross_tariff` | 3 providers with an office each, 2 days, 2 calendars, 3 configurations and the default, 3 publications | `MasterAnchorsGrid`, `PricesOfTheSameSeason`, `DelistedNeverPriced`, `RecommendationBounded`, `ExportFollowsGrid` |
| `tenant_prices` | 2 tuples, one of two categories that may share a code, 3 days, 3 calendars, 2 onboardings, 2 scrapes, any reclassification | `AnswersDayByDay`, `ProviderIsMarketOfOne`, `OnboardingAllOrNothing`, `RerunSparesTenant` |
| `classification` | 2 workers, 6 groups of 6 names, 2 versions of the data files, 4 answers of one or two items, 3 jobs | `CertainIsBacked`, `LanguageModelNeverDecides`, `DearestMemberPriced`, `UnknownsReachReview`, `VerdictIsFinal` |
| `form_fill` | 5 programs; dates coupled, times coupled; 2 passes, 2 cells, 2 months; lists of 2 rows | `SuccessShowsTargets`, `NoWrongDateAccepted` |
| `recipe_build` | 1 builder, 1 tuner, 1 import of a file with a recipe or without, 3 layouts, 2 redesigns | `OneActiveRecipe`, `NoPartIsAGuess` |

Six modules state a type invariant (`TypeOK`, `SeasonTypeOK`, `CatalogTypeOK`). It is
proved (section 4), so no run spends time on it; adding it to the INVARIANTS of a
configuration checks it as well.

Why the bounds are enough.

- `price_history`: the key of one day has prices exactly at the threshold, the key of
  three days has quotients that round up and down; three runs are a first price, an
  unpublished step and a published one, each with one listing of a group or two.
- `scrape_run`: groups interact only through being known or not, so two (one known,
  one new) are all the pairs; three runs are an interrupted one between two others.
- `season_calendar`: four probes contain a boundary at the first, a middle and the
  last probe, an empty tail long enough for the stopper and errors anywhere; prices
  95, 100 and 120 include a pair that is a jump in one direction only.
- `category_catalog`: categories do not interact; attributes that change and change
  back need two values, and four runs.
- `scrape_session`: three searches have a first one, one that refines the second's
  page, and one after a failure; the stopper's threshold is 2 rather than 3 so that it
  can both fire early and be reset within three searches; `MaxPolls` stands for the
  60-second limit.
- `cross_tariff`: two days are a season of two days and two of one; three publications
  are one per provider or a second one of the master. The totals 10 and 29 make the
  cheap provider a witness, floors and ceilings bite, and every rule meets a rounding
  mode that would carry it over a bound.
- `tenant_prices`: a range of three days with calendars cut after the first day, after
  the second (and then without one), or not at all gives every order of cuts of two
  subscriptions; categories X1 and X2 may share a code, so that a mapping is ambiguous
  or duplicate; the second onboarding meets every remainder of the first. Two scrapes
  are one of each tuple or two of one, each stopped between any two transactions, and X2
  is listed by the probe or by the searches only. One of the ranges ends before it starts,
  which no route refuses.
- `classification`: the groups are a known pair of different categories, a known model
  beside an unknown one, one a later version knows, a fuzzy look-alike whose designator
  differs, and single models of the API; three jobs are two that race and one that
  follows, or is served from the cache. The answers of the batches hold an unsure item
  beside a certain one, a code that is not materialised, one to be reviewed, and one item
  for two groups.
- `form_fill`: `MAX_FILL_PASSES`, `MAX_MONTH_NAVIGATIONS`, `_MIN_PLAUSIBLE_OPTIONS`,
  `_MAX_SCROLL_STEPS` and `_MAX_ATTEMPTS` are small, but each loop has a first, a last
  and a refused round; with two cells one can be stale, and wrong dates can follow one
  another over passes.
- `recipe_build`: each kind of writer once, so any two of them save at once while the
  third changes what they have read (two of one kind behave as a builder and a tuner
  do: they share `save_recipe`); `MinCards` is 2 for the 3 of the code, on pages of two
  cars; two redesigns take a control away and bring it back.

### Where the code disagrees with what the repository says

Two runs check one sentence of the repository each, and TLC refutes it.

| Run | Property | What happens |
|---|---|---|
| `stale_page` | `ResultsMatchSearch` | after an in-place refine the first poll accepts the previous search's page (`results_waiter.py:249`); its prices are stored under the new dates. The shortest trace stores the previous page's "no results"; the same steps give its cars |
| `mixed_bundle` | `MixedBundleIsReviewed` | the confidence of a mixed bundle is capped, then its petrol letter collapses to the trunk and the aggregate, with the review flag, is computed again (`engine_service.py:460`); lines 427-428 promise that nothing raises it back |

Nine more sentences are stated as properties in the modules, marked "Not kept by the
code". Each is refuted in the model of the code as well: add it to the configuration
named here and TLC ends with the counterexample. They are in no run of their own,
because the models and bounds are those of the runs above.

| Property, configuration | What is said | What the code does |
|---|---|---|
| `NoSilentDrift`, `PriceHistory.cfg` | "the comparator is the last row in `price_observations`, not the last heartbeat. This prevents silent drift" (`DATA_MODEL.md:168`, `MILESTONES.md:120`) | compares with the heartbeat, which moves at every scrape (`price_observation.py:51`); `DriftBounded` is what does hold |
| `LatestIsUnique`, `PriceHistory.cfg` | "Fetch the latest price_per_day for each ... tuple" (`service.py:494`) | a page that lists a group twice, at prices further apart than the threshold, leaves two newest rows with one `observed_at` (`smart_orchestrator.py:634`, `:682`), and the query breaks no tie (`service.py:503`) |
| `CarsResetStreak`, `ScrapeSession.cfg` | "Cars or errors ... reset the streak" (`smart_orchestrator.py:739-740`) | the stopper looks at a flag that the waiter's signal sets whatever cars were read (`recipe_scraper.py:258-262`); `EarlyStopIsEarned` speaks of the flag |
| `NoBannerMeansNoBanner`, `FormFill.cfg` | "verify no overlay is still blocking the viewport" (`cookie_closer.py:448`, also `:347`) | the check answers that there is none on any exception (`cookie_closer.py:186`) |
| `TriedTogether`, `RecipeBuild.cfg` | "saves a new active recipe version only on confirmation" (`reprobe_refine.py:5-7`) | puts the confirmed way into the recipe that is active when it saves, which another program may have replaced since the probe (`reprobe_refine.py:97`) |
| `OpenerCanBeClicked`, `RecipeBuild.cfg` | "the runtime must click it again on every refine, so it is persisted" (`refine_discovery.py:104-105`) | the type under which the trial clicked the selector is not returned (`refine_discovery.py:171`, tried at `:163`); an XPath is stored as css |
| `VersionsIncrease`, `RecipeBuild.cfg` | "monotonically increasing per provider" (`DATA_MODEL.md:664`) | reads the highest version before the UPDATE that makes savers wait (`provider_recipe_repository.py:39`, `:91`); two get one number, which no index forbids |
| `OutageIsNotCached` (a PROPERTY), `Classification.cfg` | "the LLM was never reached, so there is nothing to cache" (`classify.py:188-190`) | the resolver turns the failure into no profile (`semantic_resolver.py:79-81`) and the route stores the answer (`classify.py:204`) |
| `DoubtIsPutToPro`, `Classification.cfg` | "Gemini Pro, invoked when ANY vehicle in the batch returns confidence < 0.85 (and is not pending_review ...)" (`gemini_service.py:5-6`, `DATA_MODEL.md:86`) | an item below 0.85 is marked pending before the question is asked (`gemini_service.py:365`), so `needs_pro` (`:210`) is never true |

Others were met while the models were written. The models follow the code, and no
property is stated of them:

- Pages read without error but without a price replace the seasons by the fallback
  zone; the docstring of `EmptyProbeError` promises that a run never does.
- Neighbouring probes are compared, so a zone may drift by any amount, although the
  data model calls a zone flat within the threshold. `SeasonsChangeAtJumps` holds.
- A page that lists the guide group twice with a jump between makes a zone that ends
  before it starts; the CHECK constraint refuses it and the run fails.
- A failed classification leaves the new attributes beside the old code, which the
  next run reuses, against the comment at `smart_orchestrator.py:469`.
- A classified category without zones counts in the tariff of its provider, with the
  prices it has on the other categories' representative dates (`service.py:180-185`), and
  is left out of the market tariff (`service.py:335-337`). `ProviderIsMarketOfOne` says
  that the two differ by that and nothing else.
- The times runner promises "both fields verified in final state"
  (`time_filler_runner.py:102`), but the pickup time is read before the return time is
  filled. The location likewise counts as filled by a reading before Escape and before
  the other fields. `SuccessShowsTargets` is therefore stated for the whole form and
  the dates, whose dates and times are read at the end, and says nothing of the location.
- The text and native date fillers report success without reading the field back; a
  stored recipe verifies nothing at all.
- `verify()` compares matched pairs; with no pair at all it finds no disagreement and
  the recipe counts as verified.

### Fairness

`scrape_run` assumes weak fairness of the orchestrator's own steps (`Work`): every
browser call and statement has a timeout, so a run that is not killed keeps moving.
Nothing obliges a run to start, an exception to happen or a kill not to.
`scrape_session` assumes weak fairness of the scraper's steps and of polling, whose
loop sleeps and reads on, and **none** of the browser page: it may never answer, and
`SessionEnds` holds through the timeouts of the waiter. The other specifications
state safety only and assume no fairness.

## 4. What is proved

The theorems hold for every value of the constants and any number of runs, workers,
programs, passes and zones. They rest on the named assumptions of the modules only.
`PROJECT.json` lists them with the property each one states.

**`ScrapeRunProofs`.** The invariants are not inductive one by one. That
`PersistZones` cannot leave an older calendar on some category needs every category
with zones to be a known one (`ZonedAreKnown`); that `MarkSuccess` tells the truth
needs that, once the live run has passed its zones, they are the ones in force
(`InForceAfterZones`); that a run's zones are newer than everything stored needs
every date in the tables to be that of a run that has started (`DatedByRun`); and
`ErrorsStop` says a probe that errored never reaches the transactions. `IInv` is the
conjunction of these four with the type invariant and the four safety invariants,
and there is one lemma per action that it is kept. From it follow `TypeCorrect`,
`CalendarUniformTheorem`, `SuccessIsCurrentTheorem`, `OnlyNewcomersLackZonesTheorem`,
`PricesFollowCalendarTheorem`, the action property `FailedProbeKeepsCalendarTheorem`,
and `ReplacesWholeCalendarTheorem`, that every step is a step or a stutter of
`SeasonPublication` (uniformity is what makes `Shared` well defined).

**`PriceHistoryProofs`.** `PerDayNearest` bounds the rounding of the stored quotient
by half a cent; `UnchangedIsNear` concludes that a price which is not published is
within the threshold of the heartbeat after rounding as well, because both are
whole cents. With the invariant that every cell, committed or staged, is sound
(`CellsOK`), this gives `HeartbeatHasRowTheorem` and `DriftBoundedTheorem`. For
`PublishesAtomicallyTheorem` the invariant of a transaction is `BatchInv`: what is staged
of a key has `Grown` from what was committed by at most one row per listing stored, and
is at most one threshold per listing (`Far`) away from the price last seen, or from its
last row less one. A listing adds one threshold (`OneMore`, `UnpublishedListing`) or a
row (`PublishedListing`), so pages may list a group any number of times.

**`PriceHistoryProofs`, the catalogue.** `CatalogTypeCorrect`, `CertainCodesFit` and
`RunsKeepCodes`. A run computes its results in memory and writes them twice, while the
operator's script reads in one statement and writes in a later one. `CatalogInv` adds
to the property what these two carry: a certain result has a code, and it is of the
attributes on the page, or the group is one that reused a code the script was settling
(`ResultsFit`); a row the script has read is still there when it writes
(`LoadedExist`). One fact about `UpsertSeen` (`UpsertFits`) serves both phases.

**`ScrapeRunProofs`, the season calendar.** `ZonesTile`, `RepresentativesSeen`,
`ZonesSearched`, `SeasonsAtJumps`, `SeasonsKeepStart` and `SeasonTypeCorrect`, for any
pages of the probes, length of a period, threshold and durations. `SeasonInv` says that
the table is always what one run stored: `Stored` ties the zones to the points and
window of that run by a list of cuts - the first day, the dates of the jumps of the
guide group, the day after the last - which climb, because the table refuses zones that
do not (`Legal`). The four invariants are then statements about cuts:

- cuts that climb part the window, each day between exactly two neighbours
  (`PiecesPart`, by the least cut above the day);
- a zone that starts at a jump contains its date, and the first zone the last date
  before a jump or, without a jump, all dates (`LaterZoneHasDates`,
  `FirstZoneHasDates`); so a representative is found among dates that were seen
  (`RepresentativeFits`), and a probe that starts on it ends inside the period
  (`PointsAreFound`);
- a cut strictly after one guide point and not after the next is the date of the next
  (`CutBetween`), where the guide group has one point per date.

The rest is the algorithms. `NthInOrder` says that picking the members of a finite set
of places by rank lists them all, in order; `CutsAreJumps` and `GuideIsPart` follow.
`FlattenExists` shows that the recursive function inside `FlattenSeq` exists, by the
least length for which it would not, and `PointsAreSeen` that the points are cars of the
probes in date order. That the carry only moves the start of the first zone, and only
back, is `CarryKeepsRest`.

**`ScrapeSessionProofs`.** `CleanBrowser`, `FormSearchesFresh`, `EarlyStopEarned`,
`RefineOnResults`, `RetryRecovers` and `TypeCorrect`, for any number of searches, polls
and any threshold. `IInv` is the type invariant with five parts: a failed attempt leaves
a browser that is dirty or closed and is followed by the form (`CleanInv`); from a form,
the page and all that the waiter remembers of it are the form's or those of the search
under way (`FreshInv`, `WaitIsFresh`); the streak counts empty results at the end of the
list, and no earlier place of it had that many (`StopInv`, `NoEarlierStop`), so
`EarlyStopIsEarned` is proved in both directions; the second session searches only what is stored as an error
(`RetryInv`); and the poll counter and the streak have bounds (`Bounds`).

**`CrossTariffProofs`.** `MasterAnchors`, `SameSeason`, `OnlyListedArePriced`,
`RecommendationIsBounded`, `ExportIsTheGrids`, `TypeCorrect`, for any market, calendars,
totals and configurations. `IInv` is the typed tables and `PageInv`: a grid keeps its
prices sound (`GridSound`) whatever is published after it was read, and is what its
inputs give until then. Under it lie lemmas about the arithmetic of a cell. A rounded
recommendation is strictly on the rule's side of the base (`RoundingIsDirectional`): the
snap to a mode moves a whole number of cents (`SnapIsInCents`) and a price on the wrong
side is moved one step more (`DirectedIsDirected`). Bounded by ceiling and floor it
passes either by less than a step. That the seasons of the master can be put in order at
all is proved by induction on their number. That a category may have a rule of its own
changes no more than the rule its cell is built with (`RuleOfCategory`).

**`TenantPricesProofs`.** `OnboardingIsAllOrNothing` and `RerunsSpareTheTenant`, for any
configurations, catalogue and number of runs, from `TenantInv`: a run under way owns a
bare tenant and knows its configuration, and the rows it has staged are faithful to it;
otherwise the tenant is absent, bare or complete. `AnswersAreDayByDay` and
`ProviderAgreesWithMarket` add `PricesInv`. Of the catalogue (`CatalogueInv`): a category
with zones is a known one, which is why `PersistZones` leaves none behind, and two
categories of a tuple have the same zones or one has none. Of a query (`QueryInv`): it
has loaded, for each subscription, categories, then zones that are disjoint and uniform
over those that have any, then a price on each representative day, of whatever was
committed at the time. A day then lies in one season at most (`OneSeasonOn`), and what
the provider's tariff adds to the market's are the prices of the categories without
zones on its representative (`UnzonedOf`). They rest on two lemmas of set arithmetic about the grid,
`GridRefinesSeasons` and `PeriodsAreDisjoint`: each start of a season and each day after
its end is a cut point and two neighbouring cut points bound a row, so no row contains a
change of season and no two rows overlap.

**`FormFillProofs`.** `WrongDatesAreRefused` is about the calendar filler alone on every
page: a readable wrong date is accepted only when it is the value the field had on entry.
`CalInv` carries this through the loop: a second pass starts only after the widget has
reacted, so while it has not, the pass is the first and the value before a click is the
one of the entry. `FillsRefuseWrongDates` composes it with the other fields, which move
while no calendar is open only (`DatesInv`). `SuccessIsTheTargets` needs `ReportInv`: a report ends the
run, and of a form, or of its dates, nothing but the location counts as verified before
the fields are read again.

**`ClassificationProofs`.** `CertainsAreBacked`, `DictionaryDecides`, `DearestIsPriced`,
`UnknownsAreQueued` and `VerdictsAreFinal`, for any workers, groups, data files and
answers of the language model. `Inv` says of each worker what its job is worth at its
stage (`WorkerSound`: held while it runs, backed and trusted once answered, its unknown
models queued or counted as lost once the queue is written) and of each row of the cache
that the engine would give it itself, or the trunk of that (`CacheSound`, `Recommends`,
`TrunkIsWorth`). A bundle's chosen member exists
because the order of the candidates has a least element. The final verdicts need no more
than that rows are records (`IsRow`) and that a worker about to write has read the rows it
will write: the operator may change a verdict, a sighting may not.

**`RecipeBuildProofs`.** `OneRecipeIsActive`: the table is never left without an
active recipe or with two. `OneActiveRecipe` is inductive once the rows are known to be
records with a Boolean flag (`Rows`): the unique index lets an insert pass only when
every active row is one that the transaction has switched off, whatever it had read as
the highest version and whichever rows were committed between its UPDATE and its
insert; so the new row is the only active one (`OnlyTheNewOne`), and all other steps
leave the table alone. That a provider is registered without a recipe only by an import
needs that a program which has ended stays so (`EndedStays`).

`PartsAreNoGuess`: the form of a stored version is one whose discovery succeeded, or of
a file, and its way of changing dates one that changed the dates of some search, or that
a person or a file gave (`NoPartIsAGuess`). The property speaks of stored rows only; the
invariant `TriedInv` adds what a program holds at each place of its run (`Worth`): a
result whose form was proven until it has composed a recipe, a recipe fit to store from
then on, any recipe while it probes, a confirmed way of refining when it comes back to
store, and the recipe of a file, which is fit because the file gave it (`FileTried`).
The histories (`proven` and `Ways`) only grow, so what was fit stays fit while other
programs run (`WorthStays`), and the active recipe, which three of the programs start
from, is that of a stored row (`ActiveIsARow`, from `OneActiveRecipe`). That form and way
were tried *together* is not proved, because it is false (`TriedTogether`, section 3).
The one assumption, `NoValueIsApart`, is that Python's `None` is not a recipe.

## 5. What is only model-checked

Every safety property and action property of the runs that pass is a theorem.
Liveness is not: `RunEnds` and `SessionEnds` hold under fairness and involve ENABLED,
which the prover does not handle.

What the theorems say of the code is bounded by the abstractions of section 6. In
particular the similarity of two names (`Alike`), the markup of a page and the answers of
the language model are parameters: the theorems hold for all of them that satisfy the
named assumptions, and say nothing of whether SequenceMatcher, a browser or a model
returns them. That the cards read are the cars a visitor would see is not claimed.

## 6. Assumptions and what is left out

- One run of a tuple is alive at a time. `deploy/register_task.ps1` sets
  `MultipleInstances IgnoreNew`; a manual run during the scheduled one is a hazard
  no property covers.
- A form page has no vehicle cards and does not say "no results"; it may show
  advertised prices.
- Searches have no fallbacks: no caller passes `fallback_searches`.
- The probes have one length, so prices per day are compared without dividing; a
  period is at least one probe long.
- Left out of the session: the anti-bot pause and what a rate filter keeps of a car.
- A saved configuration of the cross tariff is any of `Formulas`. Saving one is a short
  transaction (`PricingRuleRepository.save`) without a lock or a unique index; two
  users who save at once may leave two active rows. It is listed as a hazard.
- One duration is modelled in `CrossTariff` and `TenantPrices`; durations never meet.
- Of a page's markup the models keep what a program can tell from it. Which element a
  selector hits is abstracted to what the field displays afterwards, or, in
  `ResultsExtraction`, to the set of elements it matches.
- The language model is an external service that answers anything of its type or fails.
- The reading of the four date and time fields at the end of a form
  (`form_fill_orchestrator.py:638-662`) is one step; in the code a script of the page
  could move a field between two of the readings.
- The cookie selector of a recipe is not modelled, so `set_recipe_cookie` stores the
  recipe as it was, under a new version.
- The active rows of `acriss_codes`, from which the route takes the fuels a market
  offers and the services the codes, are taken to be those of the code list.
- Two properties exempt what the code itself cannot rule out, and count it in a history
  variable: `CertainCodeFits` the groups in `unsettled` (the script or phase 3 wrote a
  code of other attributes), `UnknownsReachReview` the names in `lost` (their queue
  write was rolled back).

Not modelled, and why: the provider-specific scrapers (the loop of `ScrapeSession`
with hand-written selectors); authentication and rate limit (a counter per process, no
state that two requests could disagree about for long); the layout of exported files
(formatting); the web front end (no state of its own beyond the page); migrations,
seeds and deployment (run once; what they guarantee, the constraints and the single
scheduled instance, is in the models); recipe health checks and prompts.

## 7. Next

1. `PricingRules` - two users saving versions of a tenant's rule.
2. A two-process variant of `ScrapeRun`, for a manual run during the scheduled one.
3. Lemmas that say what the extraction reads of a page (`ResultsExtraction`) and what the
   calendar filler leaves for every month, which no property needs so far.

## 8. Running

    tlc -config ScrapeRun.cfg ScrapeRun            # and CategoryCatalog, ScrapeSession
    tlc -config PriceHistory.cfg MCPriceHistory    # and the other MC modules
    tlc -config MixedBundle.cfg MCClassification   # ends with a counterexample
    tlc -config StalePage.cfg ScrapeSession        # ends with a counterexample
    tlapm ScrapeRunProofs.tla                      # and the other Proofs modules

`PROJECT.json` lists for each run its module and configuration, for each property
the faulty variant that violates it, and for each definition the lines of the source
it stands for.
