SPECIFICATION FairSpec
CONSTANTS
    ClientCommands = {"call_patrol", "call_drone", "call_rtl", "target"}
    Refusable = {"arm", "upload", "start_mission", "start_follow", "stop_follow"}
    MaxInbox = 1
    MaxSent = 4
    MaxCoalesced = 1
INVARIANT UnattendedFlight
PROPERTY JoinTerminates
PROPERTY CommandServed
PROPERTY CallDivertsPatrol
CHECK_DEADLOCK FALSE
