CONSTANTS
    N = 3
    Searches = {1, 2, 3}
    MaxPolls = 2
    Strategies = {"none", "navigate", "in_place"}
    Threshold = 2
    None = None
SPECIFICATION FairSpec
INVARIANTS
    SearchesRunInCleanBrowser
    FormSearchesAreFresh
    EarlyStopIsEarned
PROPERTIES
    RefineStartsOnResults
    RetryOnlyRecovers
    SessionEnds
