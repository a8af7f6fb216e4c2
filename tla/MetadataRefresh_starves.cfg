\* As many pages are gone as a batch holds: the documented cycle stops.
SPECIFICATION FairSpec
CONSTANTS
    Track = {t1, t2, t3}
    Batch = 2
    MaxGone = 2
    MaxKills = 0
PROPERTIES
    TableCycles
