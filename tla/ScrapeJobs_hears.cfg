\* The documented end of polling, which an untyped exception breaks.
SPECIFICATION FairSpec
CONSTANTS
    Job = {j1, j2}
    Discover = {d1}
    MaxJobs = 1
    NavAttempts = 2
    Nobody = nobody
PROPERTIES
    ClientHearsBack
