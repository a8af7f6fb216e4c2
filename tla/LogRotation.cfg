\* The API, and the API with a CronJob; two backups of two lines.
SPECIFICATION Spec
CONSTANTS
    Process = {api, cron}
    Backups = 2
    Size = 2
    MaxLines = 7
    MaxFaults = 3
INVARIANTS
    TypeOK
    ReadsWhole
    SizeBounded
CHECK_DEADLOCK FALSE
