CONSTANTS
    Groups = {economy, suv}
    None = None
    MaxRuns = 3
SPECIFICATION FairSpec
INVARIANTS
    SuccessIsCurrent
    PricesFollowCalendar
PROPERTIES
    FailedProbeKeepsCalendar
    RunEnds
    ReplacesWholeCalendar
