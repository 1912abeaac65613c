SPECIFICATION Spec
CONSTANTS
    u1 = u1
    u2 = u2
    u3 = u3
    u4 = u4
    d1 = d1
    d2 = d2
    d3 = d3
    User = {u1, u2, u3, u4}
    Drone = {d1, d2, d3}
    NoUser = NoUser
SYMMETRY Symmetry
INVARIANT TargetIsMatched
INVARIANT OneDronePerUser
INVARIANT NobodyWaitsNextToAFreeDrone
INVARIANT FirstComeFirstServed
INVARIANT MatchedHasDrone
PROPERTY OneDronePerCall
