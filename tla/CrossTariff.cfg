CONSTANTS
    a = a
    b = b
    c = c
    economy = economy
    airport = airport
    Missing = Missing
    Market <- MCMarket
    ProviderOf <- MCProviderOf
    MarketOf <- MCMarketOf
    Categories <- MCCategories
    Calendars <- MCCalendars
    Totals <- MCTotals
    Listings <- MCListings
    Ranges <- MCRanges
    Formulas <- MCFormulas
    MaxDay = 2
    MaxPublications = 3
SPECIFICATION Spec
INVARIANTS
    MasterAnchorsGrid
    PricesOfTheSameSeason
    DelistedNeverPriced
    RecommendationBounded
    ExportFollowsGrid
