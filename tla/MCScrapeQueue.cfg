\* Two jobs, one group of one or of two, a rate limit that is waited out once.
SPECIFICATION FairSpec
CONSTANTS
    u1 = u1
    u2 = u2
    Url = {u1, u2}
    MaxJobs = 2
    MaxGroups = 1
    Plans <- AllPlans
    MaxAttempts = 2
INVARIANTS
    TypeOK
    OnlyRunningLands
    OneAtATime
    ShowsTheTruth
    EndingsAnnounced
PROPERTIES
    QueueDrains
