\* The group summary that the comment promises and an empty group swallows.
SPECIFICATION Spec
CONSTANTS
    u1 = u1
    u2 = u2
    Url = {u1, u2}
    MaxJobs = 2
    MaxGroups = 1
    Plans <- AllPlans
    MaxAttempts = 2
INVARIANTS
    GroupsSummarised
