SPECIFICATION FairSpec
CONSTANTS
    w1 = w1
    w2 = w2
    s1 = s1
    s2 = s2
    i1 = i1
    i2 = i2
    Worker = {w1, w2}
    Sub = {s1, s2}
    Inst = {i1, i2}
    None = None
    Limit = {1, 2}
    MaxTrim = 1
    MaxEntries = 2
    MaxAsked = 4
    MaxFaults = 1
INVARIANT TypeOK
INVARIANT AnsweredIsListed
INVARIANT ListIsExact
INVARIANT CounterExplained
INVARIANT WithinLimit
PROPERTY LimitRestored
CHECK_DEADLOCK FALSE
