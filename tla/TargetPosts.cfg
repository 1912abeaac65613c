SPECIFICATION FairSpec
CONSTANTS
    User = {u1, u2}
    NoUser = NoUser
    MaxRequests = 4
INVARIANT MobiusAgrees
PROPERTY DroneIsTold
CHECK_DEADLOCK FALSE
