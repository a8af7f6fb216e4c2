\* The API and a CronJob of two pages, overlapping in what they load.
SPECIFICATION FairSpec
CONSTANTS
    api = api
    cron = cron
    a = a
    c = c
    d = d
    x = x
    y = y
    n = n
    p = p
    q = q
    Scrape = {a, c, d}
    Proc = {api, cron}
    Ingest = {cron}
    ProcOf <- TwoForCron
    Track = {x, y}
    NoUrl = n
    Source = {p, q}
    Targets <- Rescrape
    PathOf <- SamePath
    Pages <- Overlapping
    SourceLimit = 1
    MaxClock = 1
    Torn = torn
    Nobody = nobody
INVARIANTS
    TypeOK
    AllOrNothing
    OneWinner
    RowsTraceToLake
    ExitCodeHonest
PROPERTIES
    StatsOnlyGrow
    LoadsEnd
