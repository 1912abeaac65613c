SPECIFICATION FairSpec
CONSTANTS
    s1 = s1
    s2 = s2
    r1 = r1
    r2 = r2
    Sub = {s1, s2}
    Rqi = {r1, r2}
    Free = Free
    Http = {s2}
    Always = {}
    MaxRetry = 2
    MaxPending = 1
    MaxFaults = 1
INVARIANT InTimeIsHeard
PROPERTY GivesUpOnlySilent
PROPERTY GoneIsRemoved
CHECK_DEADLOCK FALSE
