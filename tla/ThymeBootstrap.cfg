SPECIFICATION FairSpec
CONSTANTS
    N = 2
    Conn = {c1, c2}
    Idle = Idle
    MaxFaults = 2
INVARIANT RequestInRange
INVARIANT ContainersComplete
INVARIANT SubscribedWhenReady
INVARIANT OneHandler
PROPERTY Bootstraps
CHECK_DEADLOCK FALSE
