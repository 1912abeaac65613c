SPECIFICATION Spec
CONSTANTS
    ClientCommands = {"call_test", "call_patrol", "call_drone", "call_rtl", "target", "get_gps", "quit"}
    Refusable = {"arm", "takeoff", "land", "upload", "start_mission", "pause", "return_to_launch", "start_follow", "stop_follow", "set_rate"}
    MaxInbox = 2
    MaxSent = 4
    MaxCoalesced = 2
INVARIANT NeverStuck
INVARIANT NoAcceptanceInFlight
INVARIANT OneLocationThread
INVARIANT NoLostWakeup
PROPERTY ImplementsExecutive
CHECK_DEADLOCK FALSE
