\* The raw scrape that the comment calls immutable and two scrapes of a second share.
SPECIFICATION Spec
CONSTANTS
    api = api
    cron = cron
    a = a
    c = c
    d = d
    x = x
    y = y
    n = n
    p = p
    q = q
    Scrape = {a, c}
    Proc = {api, cron}
    Ingest = {cron}
    ProcOf <- OneEach
    Track = {x, y}
    NoUrl = n
    Source = {p, q}
    Targets <- OtherPages
    PathOf <- SamePath
    Pages <- Overlapping
    SourceLimit = 1
    MaxClock = 1
    Torn = torn
    Nobody = nobody
INVARIANTS
    RawScrapesKept
