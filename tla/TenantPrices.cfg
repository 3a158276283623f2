CONSTANTS
    x = x
    y = y
    economy = economy
    compact = compact
    small = small
    large = large
    Missing = Missing
    Groups = {small, large}
    Tuples = {x, y}
    Categories <- MCCategories
    Codes = {economy, compact}
    CodesOf <- MCCodesOf
    Configs <- MCConfigs
    Calendars <- MCCalendars
    Listings <- MCListings
    Pages <- MCPages
    Ranges <- MCRanges
    MaxDay = 3
    MaxPublications = 2
    MaxRuns = 2
SPECIFICATION Spec
INVARIANTS
    AnswersDayByDay
    ProviderIsMarketOfOne
    OnboardingAllOrNothing
PROPERTY
    RerunSparesTenant
CHECK_DEADLOCK FALSE
