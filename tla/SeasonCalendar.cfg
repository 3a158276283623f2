CONSTANTS
    Pages <- MCPages
    ProbeDays = 3
    StopAfter = 2
    Percent = 5
    Durations = {1, 3, 4}
    Period = 12
    MaxDay = 1
SPECIFICATION SeasonSpec
INVARIANTS
    ZonesTileWindow
    RepresentativesWereSeen
    EveryZoneIsSearched
    SeasonsChangeAtJumps
PROPERTY SeasonKeepsStart
