CONSTANTS
    N = 2
    Searches = {1, 2}
    MaxPolls = 2
    Strategies = {"in_place"}
    Threshold = 2
    None = None
SPECIFICATION Spec
INVARIANT ResultsMatchSearch
