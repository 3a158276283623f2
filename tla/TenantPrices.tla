---------------------------- MODULE TenantPrices ------------------------------
(***************************************************************************)
(* The life of one tenant name: onboarding (cli.py, steps.py, rollback.py) *)
(* with its compensation when a step fails, its kills and its re-runs, and *)
(* the tariffs the tenant asks PriceQueryService for, statement by         *)
(* statement under READ COMMITTED, while the transactions of scrape runs   *)
(* commit and the operator's script reclassifies categories.  One scrape   *)
(* is alive at a time (the business of ScrapeRun), and one duration is     *)
(* modelled: durations never meet.                                         *)
(***************************************************************************)
EXTENDS PriceQuery

CONSTANTS Groups,          \* client vehicle groups
          Tuples,          \* (provider, location, rate) of the catalogue
          Categories,      \* external codes: [tuple, key]
          Codes,           \* ACRISS codes
          CodesOf,         \* codes the classifier may give each category
          Configs,         \* sets of [tuples, mappings], mappings <<group, category>>
          Calendars,       \* sets of zones
          Listings,        \* sets of categories that the probe of a scrape may list
          Pages,           \* what its searches read: [Categories -> [Days -> price or Missing]]
          Ranges,          \* date ranges asked for: <<d1, d2>>
          MaxDay, MaxPublications, MaxRuns

Days == 1..MaxDay
CategoriesOf(t) == {c \in Categories : c.tuple = t}

Zones == {z \in [from : Days, to : Days, rep : Days] : z.from <= z.rep /\ z.rep <= z.to}
Disjoint(cal) == \A y, z \in cal : y = z \/ y.to < z.from \/ z.to < y.from

ASSUME TenantAssumption ==
    /\ MaxDay \in Nat /\ MaxPublications \in Nat /\ MaxRuns \in Nat
    /\ IsFiniteSet(Tuples)
    /\ \A cal \in Calendars : cal \subseteq Zones /\ Disjoint(cal)
    /\ Listings \subseteq SUBSET Categories
    /\ Pages \subseteq [Categories -> [Days -> Nat \cup {Missing}]]
    /\ Ranges \subseteq Nat \X Nat
    /\ \A f \in Configs : f.tuples \subseteq Tuples /\ f.tuples # {}
    /\ \A f \in Configs : \A m \in f.mappings : m[1] \in Groups /\ m[2].tuple \in f.tuples

VARIABLES known,       \* categories with a row
          code,        \* acriss_code of each category; Missing while unclassified or unknown
          calendar,    \* active zones of each category
          latest,      \* newest price of each category on each day
          scraped,     \* tuples with a successful scrape run
          scraping,    \* the scrape under way, from its first transaction on, or NoScrape
          published,   \* scrapes so far, for the bound
          tenant,      \* the rows of the tenant: [row, groups, mapped, status]
          onboarding,  \* the onboarding process: [step, config, left, staged]
          runs,        \* onboarding runs so far, for the bound
          outcome,     \* history: how the last onboarding run ended
          query        \* the tariff being read, or NoQuery

catalogue == <<known, code, calendar, latest, scraped, scraping, published>>
vars == <<catalogue, tenant, onboarding, runs, outcome, query>>

NoScrape == [tuple |-> Missing]
NoQuery == [step |-> "none"]
NoTenant == [row |-> FALSE, groups |-> {}, mapped |-> {}, status |-> <<>>]
Idle == [step |-> "idle"]

Init ==
    /\ known = {} /\ code = [c \in Categories |-> Missing]
    /\ calendar = [c \in Categories |-> {}]
    /\ latest = [c \in Categories |-> [d \in Days |-> Missing]]
    /\ scraped = {} /\ scraping = NoScrape /\ published = 0
    /\ tenant = NoTenant /\ onboarding = Idle /\ runs = 0
    /\ outcome = "none" /\ query = NoQuery

-----------------------------------------------------------------------------
(* Scrape runs and reclassification, as far as the tenant can see.         *)

\* The codes after upserts with these results: a result without a code, or one
\* the classifier is not sure of, leaves a code as it is.
Upserted(results) ==
    {f \in [Categories -> Codes \cup {Missing}] :
       \A c \in Categories : f[c] = results[c] \/ (f[c] = code[c] /\ code[c] # Missing)}
ListedOf(t, categories) == CategoriesOf(t) \cap categories
Results(listed) ==
    {r \in [Categories -> Codes \cup {Missing}] :
       \A c \in Categories : r[c] \in IF c \in listed THEN CodesOf[c] ELSE {Missing}}

\* The first transaction stores the categories the probe listed.
PersistPvcs(t) ==
    /\ published < MaxPublications /\ scraping = NoScrape
    /\ \E categories \in Listings : \E results \in Results(ListedOf(t, categories)) :
          /\ known' = known \cup ListedOf(t, categories)
          /\ code' \in Upserted(results)
          /\ scraping' = [tuple |-> t, step |-> "zones", results |-> results, calendar |-> {}]
    /\ published' = published + 1
    /\ UNCHANGED <<calendar, latest, scraped, tenant, onboarding, runs, outcome, query>>

At(step) == scraping # NoScrape /\ scraping.step = step
\* The second replaces the zones of every known category of the tuple.
PersistZones ==
    /\ At("zones")
    /\ \E cal \in Calendars :
          /\ calendar' = [c \in Categories |->
                            IF c \in known /\ c.tuple = scraping.tuple THEN cal ELSE calendar[c]]
          /\ scraping' = [scraping EXCEPT !.step = "prices", !.calendar = cal]
    /\ UNCHANGED <<known, code, latest, scraped, published, tenant, onboarding, runs, outcome, query>>

\* The searches ask for the representative dates; a category they list and the
\* probe did not becomes known here, with neither code nor zones.
Asked(d) == \E z \in scraping.calendar : z.rep = d
Read(page) ==
    {c \in CategoriesOf(scraping.tuple) : \E d \in Days : Asked(d) /\ page[c][d] # Missing}
PersistObservations ==
    /\ At("prices")
    /\ \E page \in Pages :
          /\ known' = known \cup Read(page)
          /\ code' \in Upserted([c \in Categories |->
                                   IF c \in Read(page) THEN scraping.results[c] ELSE Missing])
          /\ latest' = [c \in Categories |->
                          [d \in Days |-> IF c \in Read(page) /\ Asked(d) /\ page[c][d] # Missing
                                          THEN page[c][d] ELSE latest[c][d]]]
    /\ scraping' = [scraping EXCEPT !.step = "finish"]
    /\ UNCHANGED <<calendar, scraped, published, tenant, onboarding, runs, outcome, query>>
MarkSuccess ==
    /\ At("finish")
    /\ scraped' = scraped \cup {scraping.tuple}
    /\ scraping' = NoScrape
    /\ UNCHANGED <<known, code, calendar, latest, published, tenant, onboarding, runs, outcome, query>>
\* An exception or a kill: what was committed stays.
StopScrape ==
    /\ scraping # NoScrape
    /\ scraping' = NoScrape
    /\ UNCHANGED <<known, code, calendar, latest, scraped, published, tenant, onboarding, runs, outcome, query>>

\* The operator's script gives a category a code anew, or none.  It commits per
\* provider; two categories with new codes at once are two of these steps with
\* nothing between.
Reclassify(c) ==
    /\ c \in known
    /\ \E k \in (CodesOf[c] \cup {Missing}) \ {code[c]} : code' = [code EXCEPT ![c] = k]
    /\ UNCHANGED <<known, calendar, latest, scraped, scraping, published, tenant, onboarding, runs, outcome, query>>

-----------------------------------------------------------------------------
(* Onboarding.                                                             *)

Step(s) == onboarding.step = s
End(result) == onboarding' = Idle /\ outcome' = result

\* CreateTenantOrUndo rolls back the tenant whose name it found taken.
CreateTenantOrUndo ==
    /\ Step("idle") /\ runs < MaxRuns
    /\ runs' = runs + 1
    /\ \E f \in Configs :
         /\ onboarding' = [step |-> IF tenant.row THEN "rollback" ELSE "discovery",
                           config |-> f, left |-> f.tuples, staged |-> <<>>]
         /\ tenant' = [tenant EXCEPT !.row = TRUE]
         /\ UNCHANGED outcome
    /\ UNCHANGED <<catalogue, query>>
\* Steps 1 and 2: the name must be new, and the root row is committed at once.
CreateTenant ==
    /\ Step("idle") /\ runs < MaxRuns
    /\ runs' = runs + 1
    /\ \E f \in Configs :
         IF tenant.row
         THEN End("exists") /\ UNCHANGED tenant
         ELSE /\ tenant' = [tenant EXCEPT !.row = TRUE]
              /\ onboarding' = [step |-> "discovery", config |-> f, left |-> f.tuples, staged |-> <<>>]
              /\ UNCHANGED outcome
    /\ UNCHANGED <<catalogue, query>>

Undo == onboarding' = [onboarding EXCEPT !.step = "rollback"]
\* Step 3: a tuple never scraped with success is scraped now, by the actions
\* above; the step fails when that run does, or providers.json lacks the tuple.
Discover(t) ==
    /\ Step("discovery") /\ t \in onboarding.left
    /\ IF t \in scraped THEN onboarding' = [onboarding EXCEPT !.left = @ \ {t}] ELSE Undo
    /\ UNCHANGED <<catalogue, tenant, runs, outcome, query>>

\* Steps 4 to 6, in the transaction of step 7: the code of a category is read
\* once per mapping, and (group, code) is unique.
Resolved(f) == {m \in f.mappings : code[m[2]] # Missing}
Staged(f) == {<<m[1], code[m[2]]>> : m \in f.mappings}
\* CreateMappingsAutocommitted makes the mappings visible before step 7.
CreateMappingsAutocommitted ==
    /\ Step("discovery") /\ onboarding.left = {}
    /\ LET f == onboarding.config IN
         IF Resolved(f) = f.mappings /\ Cardinality(Staged(f)) = Cardinality(f.mappings)
         THEN /\ onboarding' = [onboarding EXCEPT !.step = "setup", !.staged = Staged(f)]
              /\ tenant' = [tenant EXCEPT !.mapped = Staged(f), !.groups = Groups]
         ELSE Undo /\ UNCHANGED tenant
    /\ UNCHANGED <<catalogue, runs, outcome, query>>
CreateMappings ==
    /\ Step("discovery") /\ onboarding.left = {}
    /\ LET f == onboarding.config IN
         IF Resolved(f) = f.mappings /\ Cardinality(Staged(f)) = Cardinality(f.mappings)
         THEN onboarding' = [onboarding EXCEPT !.step = "setup", !.staged = Staged(f)]
         ELSE Undo
    /\ UNCHANGED <<catalogue, tenant, runs, outcome, query>>

\* Step 7 reads the codes again and commits steps 4 to 7.
Active(t, mapped) ==
    \E c \in CategoriesOf(t) : \E g \in Groups : code[c] # Missing /\ <<g, code[c]>> \in mapped
ActivateSubscriptions ==
    /\ Step("setup")
    /\ \/ /\ tenant' = [row |-> TRUE, groups |-> Groups, mapped |-> onboarding.staged,
                        status |-> [t \in onboarding.config.tuples |->
                                      IF Active(t, onboarding.staged) THEN "active"
                                      ELSE "pending_mapping"]]
          /\ End("onboarded")
       \/ Undo /\ UNCHANGED <<tenant, outcome>>
    /\ UNCHANGED <<catalogue, runs, query>>

\* One transaction deletes every row of the tenant, or fails as a whole.
RollbackTenant ==
    /\ Step("rollback")
    /\ \/ tenant' = NoTenant /\ End("rolled back")
       \/ UNCHANGED tenant /\ End("rollback failed")
    /\ UNCHANGED <<catalogue, runs, query>>

Kill ==
    /\ onboarding # Idle
    /\ End("killed")
    /\ UNCHANGED <<catalogue, tenant, runs, query>>

-----------------------------------------------------------------------------
(* A tariff, one statement at a time.                                      *)

Subscribed == {t \in DOMAIN tenant.status : tenant.status[t] = "active"}

Ask ==
    /\ query = NoQuery
    /\ \E range \in Ranges, kind \in {"average", "minimum", "provider"}, asked \in (SUBSET Groups) \ {{}} :
         \E subs \in IF kind = "provider" THEN {{t} : t \in Subscribed} ELSE {Subscribed} \ {{}} :
            query' = [step |-> "mappings", kind |-> kind, from |-> range[1], to |-> range[2],
                      asked |-> asked \cap tenant.groups, left |-> subs, data |-> <<>>]
    /\ UNCHANGED <<catalogue, tenant, onboarding, runs, outcome>>

ResolveMappings(t) ==
    /\ query.step = "mappings" /\ t \in query.left
    /\ LET groups == [g \in query.asked |->
                        {c \in CategoriesOf(t) : code[c] # Missing /\ <<g, code[c]>> \in tenant.mapped}]
       IN query' = IF \A g \in query.asked : groups[g] = {}
                   THEN [query EXCEPT !.left = @ \ {t}]
                   ELSE [query EXCEPT !.step = "zones",
                           !.data = [s \in {t} \cup DOMAIN @ |-> IF s = t THEN [groups |-> groups] ELSE @[s]]]
    /\ UNCHANGED <<catalogue, tenant, onboarding, runs, outcome>>

Overlapping(c) == {z \in calendar[c] : z.to >= query.from /\ z.from <= query.to}
Mapped(t) == UNION {query.data[t].groups[g] : g \in query.asked}
LoadZones(t) ==
    /\ query.step = "zones" /\ t \in query.left \cap DOMAIN query.data
    /\ query' = IF \A c \in Mapped(t) : Overlapping(c) = {}
                THEN [query EXCEPT !.step = "mappings", !.left = @ \ {t},
                                   !.data = [s \in DOMAIN @ \ {t} |-> @[s]]]
                ELSE [query EXCEPT !.step = "observations",
                        !.data[t] = [groups |-> @.groups,
                                     zones |-> [c \in Mapped(t) |-> Overlapping(c)]]]
    /\ UNCHANGED <<catalogue, tenant, onboarding, runs, outcome>>

FetchObservations(t) ==
    /\ query.step = "observations" /\ t \in query.left \cap DOMAIN query.data
    /\ LET zones == query.data[t].zones
           reps == {z.rep : z \in UNION {zones[c] : c \in DOMAIN zones}}
       IN query' = [query EXCEPT !.step = "mappings", !.left = @ \ {t},
                      !.data[t] = [groups |-> @.groups, zones |-> zones,
                                   price |-> [c \in DOMAIN zones |->
                                      [d \in Days |-> IF d \in reps THEN latest[c][d] ELSE Missing]]]]
    /\ UNCHANGED <<catalogue, tenant, onboarding, runs, outcome>>

Tariff ==
    IF query.data = <<>> THEN {}
    ELSE IF query.kind = "provider"
    THEN ProviderTariff(query.data[CHOOSE t \in DOMAIN query.data : TRUE],
                        query.asked, query.from, query.to)
    ELSE MarketTariff(query.kind, query.data, query.asked, query.from, query.to)
Answered == query.step = "mappings" /\ query.left = {}
Answer ==
    /\ Answered
    /\ query' = NoQuery
    /\ UNCHANGED <<catalogue, tenant, onboarding, runs, outcome>>

Next ==
    \/ \E t \in Tuples : PersistPvcs(t) \/ Discover(t)
    \/ PersistZones \/ PersistObservations \/ MarkSuccess \/ StopScrape
    \/ \E c \in Categories : Reclassify(c)
    \/ CreateTenant \/ CreateMappings \/ ActivateSubscriptions \/ RollbackTenant \/ Kill
    \/ Ask
    \/ \E t \in Tuples : ResolveMappings(t) \/ LoadZones(t) \/ FetchObservations(t)
    \/ Answer

Spec == Init /\ [][Next]_vars

-----------------------------------------------------------------------------
\* What one subscription asks for a client group on one day, by its calendar.
PriceOn(data, g, d) ==
    LET covering(c) == {z \in data.zones[c] : z.from <= d /\ d <= z.to}
    IN CheapestIn((UNION {{data.price[c][z.rep] : z \in covering(c)} : c \in data.groups[g]})
                    \ {Missing})

\* Read day by day: every day asked for lies in exactly one period of each
\* client group, and the price and the coverage of that period are those of
\* each of its days: no period hides a change of season of any subscription,
\* whatever runs publish between the statements (rejilla.py:15, service.py:318).
AnswersDayByDay ==
    (Answered /\ query.kind # "provider" /\ query.data # <<>>) =>
      \A g \in query.asked, d \in query.from..query.to :
        LET rows == {r \in Tariff : r.group = g /\ r.from <= d /\ d <= r.to}
            own == [t \in DOMAIN query.data |-> PriceOn(query.data[t], g, d)]
            priced == {t \in DOMAIN own : own[t] # Missing}
            sum == MapThenSumSet(LAMBDA t : own[t], priced)
        IN /\ Cardinality(rows) = 1
           /\ \A r \in rows :
                /\ r.coverage = Cardinality(priced)
                /\ r.price = Missing <=> priced = {}
                /\ (priced # {} /\ query.kind = "minimum") =>
                      \E t \in priced : r.price = own[t] /\ \A s \in priced : own[t] <= own[s]
                /\ (priced # {} /\ query.kind = "average") =>
                      2 * (r.price * Cardinality(priced) - sum) \in -Cardinality(priced)..Cardinality(priced)

\* The tariff of one provider and the market tariff of a tenant that watches
\* this provider alone are written twice, on seasons and on the grid.  They give
\* the same price on every day, but for classified categories that have no
\* season yet: the provider's tariff counts the prices these have on the
\* representative date of the others, the market's leaves them out
\* (service.py:180-185, :335-337).
ProviderIsMarketOfOne ==
    (Answered /\ query.kind = "provider") =>
      \A t \in DOMAIN query.data : \A g \in query.asked, d \in query.from..query.to :
        LET data == query.data[t]
            at(rows) == {r.price : r \in {q \in rows : q.group = g /\ q.from <= d /\ d <= q.to}}
            seasons == {z \in UNION {data.zones[c] : c \in data.groups[g]} : z.from <= d /\ d <= z.to}
            unzoned == {c \in data.groups[g] : data.zones[c] = {}}
            market == at(MarketTariff("minimum", query.data, query.asked, query.from, query.to))
            others == UNION {{data.price[c][z.rep] : c \in unzoned} : z \in seasons}
        IN at(Tariff) \ {Missing} = {CheapestIn((market \cup others) \ {Missing})} \ {Missing}

\* Without a running onboarding the tenant is complete, absent, or a bare root
\* row that a kill or a failed rollback left: never groups without their
\* mappings, or mappings without subscriptions (cli.py:165, session.py).
OnboardingAllOrNothing ==
    onboarding = Idle =>
      \/ tenant = NoTenant
      \/ tenant = [NoTenant EXCEPT !.row = TRUE]
      \/ \E f \in Configs :
            /\ tenant.groups = Groups /\ DOMAIN tenant.status = f.tuples
            /\ {m[1] : m \in tenant.mapped} = {m[1] : m \in f.mappings}
            /\ Cardinality(tenant.mapped) = Cardinality(f.mappings)

\* Nothing an onboarding run does, fails to do or undoes touches a tenant that
\* an earlier run completed (cli.py:136, :222).
RerunSparesTenant == [][tenant.groups # {} => tenant' = tenant]_vars

=============================================================================
