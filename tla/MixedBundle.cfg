CONSTANTS
    Unknown = Unknown
    Alike <- McAlike
    Numbered <- McNumbered
    Workers = {scrape, api}
    Apis = {api}
    Groups <- McGroups
    Data <- McData
    Codes <- McCodes
    Profiles <- McProfiles
    Answers <- McAnswers
    BatchSize = 2
    MaxJobs = 3
SPECIFICATION Spec
CHECK_DEADLOCK FALSE
INVARIANT MixedBundleIsReviewed
