\* Two tracks, three iframes, two messages on their way in each direction.
CHECK_DEADLOCK FALSE
SPECIFICATION FairSpec
CONSTANTS
    Url = {s, t}
    NoUrl = none
    MaxFrames = 3
    MaxPosts = 2
INVARIANTS
    BlockedEarned
    ShowsTheWidget
PROPERTIES
    LeavesLoading
