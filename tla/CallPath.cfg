SPECIFICATION CallSpec
CONSTANTS
    User = {u1}
    Drone = {d1}
    NoUser = NoUser
    MaxInbox = 2
    MaxFeed = 3
INVARIANT TerminatedCallEnds
INVARIANT BoardKnown
