\* Three jobs and a discovery contend for the browser; the table holds two.
SPECIFICATION FairSpec
CONSTANTS
    Job = {j1, j2, j3}
    Discover = {d1}
    MaxJobs = 2
    NavAttempts = 2
    Nobody = nobody
INVARIANTS
    TypeOK
    WriterHasEntry
    PermitAccounted
    StatusMatchesStores
    RawFirst
    ToldTheTruth
PROPERTIES
    TrimmedOnCreate
    EvictsOldestSurplus
    ImplementsLifecycle
    BrowserServesEveryone
    HearsBackUnlessCrashed
