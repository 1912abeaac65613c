SPECIFICATION FairSpec
CONSTANTS
    User = {u1}
    MaxCommands = 2
    MaxUnread = 2
    MaxFaults = 2
    MaxExtras = 1
INVARIANT Routed
INVARIANT AskedIsUnderway
INVARIANT EchoUnderway
PROPERTY ImplementsChannel
PROPERTY Reconnects
PROPERTY Delivered
CHECK_DEADLOCK FALSE
