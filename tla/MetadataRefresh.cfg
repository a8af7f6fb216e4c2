\* Four tracks, batches of two: fewer pages are gone than a batch holds.
SPECIFICATION FairSpec
CONSTANTS
    Track = {t1, t2, t3, t4}
    Batch = 2
    MaxGone = 1
    MaxKills = 1
INVARIANTS
    NobodyOvertaken
PROPERTIES
    TableCycles
