----------------------------- MODULE PriceQuery -------------------------------
(***************************************************************************)
(* The arithmetic of PriceQueryService: the grid of periods common to all  *)
(* subscriptions (rejilla.py) and the rows of the three tariffs            *)
(* (service.py).  A zone is [from, to, rep]; what one subscription         *)
(* contributes is [groups, zones, price]: the categories of each client    *)
(* group, the zones of each category, and the newest price of each         *)
(* category on each representative date.  Prices are in cents.             *)
(***************************************************************************)
EXTENDS Integers, FiniteSets, FiniteSetsExt

CONSTANT Missing
ASSUME MissingPriceAssumption == Missing \notin Nat

CutPointsWithoutEnds(zones, d1, d2) == {d1, d2 + 1} \cup {Max({z.from, d1}) : z \in zones}
\* The days on which some zone starts, or has just ended, within d1..d2.
\* CutPointsWithoutEnds takes a season to last until the next one starts.
CutPoints(zones, d1, d2) ==
    {d1, d2 + 1}
      \cup {s \in d1..d2 : \E z \in zones : s = IF z.from < d1 THEN d1 ELSE z.from}
      \cup {e \in (d1 + 1)..(d2 + 1) : \E z \in zones : e = IF z.to > d2 THEN d2 + 1 ELSE z.to + 1}
ComputeIntersectedGrid(zones, d1, d2) ==
    {[from |-> pair[1], to |-> pair[2] - 1] :
       pair \in {q \in CutPoints(zones, d1, d2) \X CutPoints(zones, d1, d2) :
                   /\ d1 <= d2 /\ q[1] < q[2]
                   /\ \A r \in CutPoints(zones, d1, d2) : r <= q[1] \/ q[2] <= r}}

\* The representative date of the season that contains the whole period.
FindRepresentative(zones, period) ==
    LET around == {z \in zones : z.from <= period.from /\ period.to <= z.to}
    IN IF around = {} THEN Missing ELSE (CHOOSE z \in around : TRUE).rep

HalfEven(total, n) ==
    LET q == total \div n
        rest == 2 * (total % n)
    IN IF rest > n \/ (rest = n /\ q % 2 = 1) THEN q + 1 ELSE q

-----------------------------------------------------------------------------
\* The cheapest category of a client group in one subscription.
CheapestIn(prices) == IF prices = {} THEN Missing ELSE Min(prices)
ContributionOf(data, group, period) ==
    CheapestIn({data.price[c][FindRepresentative(data.zones[c], period)] :
                  c \in {k \in data.groups[group] :
                           /\ FindRepresentative(data.zones[k], period) # Missing
                           /\ data.price[k][FindRepresentative(data.zones[k], period)] # Missing}})

\* The minimum or the mean of the subscriptions that have a price.
Aggregate(aggregate, contributions) ==
    LET priced == {s \in DOMAIN contributions : contributions[s] # Missing}
    IN IF priced = {} THEN Missing
       ELSE IF aggregate = "minimum" THEN Min({contributions[s] : s \in priced})
       ELSE HalfEven(MapThenSumSet(LAMBDA s : contributions[s], priced), Cardinality(priced))

\* _get_market_tariff: one row per client group and period of the grid.
MarketTariff(aggregate, subs, groups, d1, d2) ==
    LET zones == UNION {UNION {subs[s].zones[c] : c \in DOMAIN subs[s].zones} : s \in DOMAIN subs}
        row(g, p) == LET from == [s \in DOMAIN subs |-> ContributionOf(subs[s], g, p)]
                     IN [group |-> g, from |-> p.from, to |-> p.to,
                         price |-> Aggregate(aggregate, from),
                         coverage |-> Cardinality({s \in DOMAIN subs : from[s] # Missing})]
    IN IF zones = {} THEN {}
       ELSE {row(g, p) : g \in groups, p \in ComputeIntersectedGrid(zones, d1, d2)}

\* get_provider_tariff: one row per client group and distinct season, clipped.
\* ProviderTariffOfOne reads one category of the group, not the cheapest.
ProviderTariffOfOne(data, groups, d1, d2) ==
    LET seasons(g) == UNION {data.zones[c] : c \in data.groups[g] \cap DOMAIN data.zones}
    IN UNION {{[group |-> g, from |-> IF z.from < d1 THEN d1 ELSE z.from,
                to |-> IF z.to > d2 THEN d2 ELSE z.to,
                price |-> data.price[CHOOSE c \in data.groups[g] : TRUE][z.rep],
                coverage |-> Missing] : z \in seasons(g)} : g \in groups}
ProviderTariff(data, groups, d1, d2) ==
    LET seasons(g) == UNION {data.zones[c] : c \in data.groups[g] \cap DOMAIN data.zones}
    IN UNION {{[group |-> g, from |-> IF z.from < d1 THEN d1 ELSE z.from,
                to |-> IF z.to > d2 THEN d2 ELSE z.to,
                price |-> CheapestIn({data.price[c][z.rep] : c \in data.groups[g]} \ {Missing}),
                coverage |-> Missing] : z \in seasons(g)} : g \in groups}
=============================================================================
