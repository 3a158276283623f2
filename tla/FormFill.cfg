CONSTANTS
    Coupled <- MCCoupled
    Modes = {"form", "location", "dates", "times", "recipe"}
    MaxNavigations = 2
    MaxPasses = 2
    MaxCells = 2
    Panels = 1
    MaxDistance = 1
    MaxRows = 2
    MinPlausible = 1
    MaxScroll = 1
    MaxAttempts = 2
SPECIFICATION Spec
INVARIANTS
    SuccessShowsTargets
    NoWrongDateAccepted
CHECK_DEADLOCK FALSE
