CONSTANTS
    k1 = k1
    k3 = k3
    Keys = {k1, k3}
    Days <- MCDays
    Totals = {30, 31, 32, 35}
    Threshold = 1
    MaxListings = 2
    MaxRuns = 3
SPECIFICATION Spec
INVARIANTS
    DriftBounded
PROPERTIES
    PublishesAtomically
