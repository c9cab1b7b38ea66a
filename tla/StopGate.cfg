SPECIFICATION FairSpec
CONSTANTS
    Tasks = {t1}
    PokeLimit = 2
    MaxPolls = 1
    MaxCount = 1
    MaxJobs = 1
    MaxBox = 1
INVARIANT TypeOK
PROPERTIES
    NothingLeftOver
    LastWordCounts
    WaitsOnSomethingLive
    TypedBack
