CHECK_DEADLOCK FALSE
SPECIFICATION FairSpec
CONSTANTS
    ann = ann
    bob = bob
    User = {ann, bob}
    Nobody = nobody
    NumTracks = 2
    Limit = 1
    Matches = {1}
    Liked <- AnnLikesAll
    MaxLogins = 2
    MaxClicks = 3
INVARIANTS
    TypeOK
    WriteConfirmed
    ListAsAsked
    RowsOfThisLogin
PROPERTIES
    ListSettles
