SPECIFICATION Spec
CONSTANTS
    User = {u1}
    MaxCommands = 1
    MaxUnread = 2
    MaxFaults = 0
    MaxExtras = 1
INVARIANT LatitudeFirst
CHECK_DEADLOCK FALSE
