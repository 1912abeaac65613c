SPECIFICATION Spec
CONSTANTS
    ClientCommands = {"call_test", "call_patrol", "call_drone", "call_rtl", "target", "get_gps", "quit"}
    Refusable = {}
    MaxInbox = 1
    MaxSent = 3
    MaxCoalesced = 1
INVARIANT BusyMeansAction
CHECK_DEADLOCK FALSE
