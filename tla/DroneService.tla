---------------------------- MODULE DroneService ----------------------------
(***************************************************************************)
(* The on-board flight service (src/Drone/DroneControl/DroneService).      *)
(*                                                                         *)
(* Three threads of one process share an unprotected `mode`, the flags of  *)
(* unixDomainSocket and one mutex:                                         *)
(*   socket thread    reads TAS's commands from /tmp/unix.sock;            *)
(*   main thread      sleeps on a condition variable, then flies one       *)
(*                    action at a time while it HOLDS the mutex;           *)
(*   location thread  hands follow targets to the autopilot.               *)
(* The environment is the TAS client, which writes commands or closes the  *)
(* stream, and the autopilot behind MAVSDK, which accepts or refuses every *)
(* call and decides when a mission or a landing is over.                   *)
(***************************************************************************)
EXTENDS Naturals, Sequences

CONSTANTS
    ClientCommands, \* the commands TAS sends
    Refusable,    \* the autopilot calls that may be refused
    MaxInbox,     \* bound: commands in the stream, not read yet
    MaxSent,      \* bound: commands TAS sends in a behaviour
    MaxCoalesced  \* bound: commands one read() returns together

Calls == {"arm", "takeoff", "land", "upload", "start_mission", "pause",
          "return_to_launch", "start_follow", "stop_follow", "set_rate"}

Commands == {"call_test", "call_patrol", "call_drone", "call_rtl", "target", "get_gps", "quit"}

ASSUME RefusableAssumption == Refusable \subseteq Calls
ASSUME ClientAssumption == ClientCommands \subseteq Commands
ASSUME BoundsAssumption ==
    /\ MaxInbox \in Nat /\ MaxSent \in Nat
    /\ MaxCoalesced \in Nat \ {0}

FlightModes == {"INACTIVE", "TEST", "PATROL", "GO_LOC", "RTL"}
FlightStates == {"ground", "armed", "hover", "mission", "mission_over", "hold", "follow", "rtl", "landing"}

VARIABLES
    client,    \* the TAS end of the stream: "open" or "closed"
    inbox,     \* commands in the stream
    sent,      \* commands TAS has sent so far
    spc,       \* where the socket thread is
    scmd,      \* the command it handles or handled last
    mode,      \* main's int, shared through pointers, never locked for reading
    activate,  \* predicate of the condition variable
    interrupt, \* read by followPerson to decide whether to arm
    followEnd, \* atomic follow_end
    mutex,     \* mutex_action: "free", "main" or "sock"
    mpc,       \* where the main thread is; "dead" once the process is gone
    lpc,       \* the location thread; "none" when thread_ is nullptr
    targets,   \* number of positions in follow_gps_info
    flight     \* what the vehicle is doing

sockVars == <<client, inbox, sent, spc, scmd>>
flagVars == <<mode, activate, interrupt, followEnd>>
locVars == <<lpc, targets>>
vars == <<client, inbox, sent, spc, scmd, mode, activate, interrupt, followEnd, mutex, mpc, lpc, targets, flight>>

SocketPcs == {"accept", "read", "lock", "set", "notify", "busy",
              "int_flag", "int_end", "int_mode", "closed"}
IdlePcs == {"boot", "inactive", "lock", "asleep", "dead"}
TestPcs == {"test_arm", "test_takeoff", "test_land", "test_wait"}
PatrolPcs == {"upload", "patrol_arm", "start_mission", "patrol", "pause", "patrol_return", "patrol_rtl"}
FollowPcs == {"follow_arm", "follow_start", "stop_old", "join", "start_new", "spawn", "following", "follow_stop"}
FlyingPcs == TestPcs \cup PatrolPcs \cup FollowPcs \cup {"rtl"}
HoldingPcs == FlyingPcs \cup {"pred", "sleep", "dispatch", "off", "reset", "pause80"}
MainPcs == IdlePcs \cup HoldingPcs

Alive == mpc # "dead"

-----------------------------------------------------------------------------
(* mode is an uninitialised int until main's loop first assigns it: it may *)
(* hold a value of the enum or any other ("GARBAGE").                      *)
Init ==
    /\ client = "open" /\ inbox = << >> /\ sent = 0
    /\ spc = "accept" /\ scmd = "quit"
    /\ mode \in FlightModes \cup {"GARBAGE"}
    /\ activate = FALSE /\ interrupt = FALSE /\ followEnd = FALSE
    /\ mutex = "free" /\ mpc = "boot"
    /\ lpc = "none" /\ targets = 0
    /\ flight = "ground"

-----------------------------------------------------------------------------
(* TAS: send_to_server, timer_upload_action and the end of the connection. *)

Send(c) ==
    /\ client = "open"
    /\ Len(inbox) < MaxInbox /\ sent < MaxSent
    /\ inbox' = Append(inbox, c)
    /\ sent' = sent + 1
    /\ UNCHANGED <<client, spc, scmd, flagVars, mutex, mpc, locVars, flight>>

CloseClient ==
    /\ client = "open"
    /\ client' = "closed"
    /\ UNCHANGED <<inbox, sent, spc, scmd, flagVars, mutex, mpc, locVars, flight>>

-----------------------------------------------------------------------------
(* Socket thread.                                                          *)

SocketListen ==
    /\ Alive /\ spc = "accept"
    /\ spc' = "read"
    /\ UNCHANGED <<client, inbox, sent, scmd, flagVars, mutex, mpc, locVars, flight>>

\* A write to a closed stream raises SIGPIPE, which nothing ignores.
Reply(next) ==
    IF client = "open" THEN spc' = next /\ mpc' = mpc
                       ELSE spc' = "closed" /\ mpc' = "dead"

\* What the handler does with the command before its first shared write:
\* the test of *mode is made without the mutex.
Classify(c) ==
    CASE c \in {"call_test", "call_patrol"} /\ mode = "INACTIVE" -> "lock"
      [] c \in {"call_test", "call_patrol"} /\ mode # "INACTIVE" -> "busy"
      [] c \in {"call_drone", "call_rtl"} /\ mode = "INACTIVE" -> "lock"
      [] c \in {"call_drone", "call_rtl"} /\ mode # "INACTIVE" -> "int_flag"
      [] OTHER -> "read"

\* read() returns n commands that lie together in the stream; strncmp looks at
\* the first of them and the rest are lost with the buffer.
SocketRead ==
    /\ Alive /\ spc = "read"
    /\ \E n \in 1..MaxCoalesced :
         /\ n <= Len(inbox)
         /\ inbox' = SubSeq(inbox, n + 1, Len(inbox))
    /\ LET c == Head(inbox) IN
         /\ scmd' = c
         /\ targets' = IF c = "target" THEN targets + 1 ELSE targets
         /\ CASE c = "quit" -> Reply("closed")
              [] c = "get_gps" -> Reply("read")
              [] c = "target" ->
                   \* std::queue is not thread safe: a push while the location
                   \* thread is between front() and pop() may end the process
                   /\ spc' = "read"
                   /\ \/ mpc' = mpc
                      \/ lpc = "pop" /\ mpc' = "dead"
              [] OTHER -> spc' = Classify(c) /\ mpc' = mpc
    /\ UNCHANGED <<client, sent, flagVars, mutex, lpc, flight>>

SocketEof ==
    /\ Alive /\ spc = "read"
    /\ client = "closed" /\ inbox = << >>
    /\ spc' = "closed"
    /\ UNCHANGED <<client, inbox, sent, scmd, flagVars, mutex, mpc, locVars, flight>>

\* "ERROR" and "Already on Action"
SocketBusy ==
    /\ Alive /\ spc = "busy"
    /\ Reply("read")
    /\ UNCHANGED <<client, inbox, sent, scmd, flagVars, mutex, locVars, flight>>

\* Slip: the critical section without lock() (NoLostWakeup).
SocketLockUnlocked ==
    /\ Alive /\ spc = "lock"
    /\ mutex' = mutex
    /\ spc' = "set"
    /\ UNCHANGED <<client, inbox, sent, scmd, flagVars, mpc, locVars, flight>>

SocketLock ==
    /\ Alive /\ spc = "lock"
    /\ mutex = "free" /\ mutex' = "sock"
    /\ spc' = "set"
    /\ UNCHANGED <<client, inbox, sent, scmd, flagVars, mpc, locVars, flight>>

ModeOf(c) ==
    CASE c = "call_test" -> "TEST"
      [] c = "call_patrol" -> "PATROL"
      [] c = "call_drone" -> "GO_LOC"
      [] OTHER -> "RTL"

\* The critical section and its unlock.
SocketSet ==
    /\ Alive /\ spc = "set"
    /\ mode' = ModeOf(scmd)
    /\ activate' = TRUE
    /\ interrupt' = FALSE
    /\ followEnd' = IF scmd = "call_drone" THEN FALSE ELSE followEnd
    /\ mutex' = "free"
    /\ spc' = "notify"
    /\ UNCHANGED <<client, inbox, sent, scmd, mpc, locVars, flight>>

\* Slip: no notify_one after call_rtl (NeverStuck, CommandServed).
SocketNotifyPartial ==
    /\ Alive /\ spc = "notify"
    /\ mpc' = IF mpc = "asleep" /\ scmd # "call_rtl" THEN "lock" ELSE mpc
    /\ spc' = "read"
    /\ UNCHANGED <<client, inbox, sent, scmd, flagVars, mutex, locVars, flight>>

\* notify_one: a sleeping main has to take the mutex again
SocketNotify ==
    /\ Alive /\ spc = "notify"
    /\ mpc' = IF mpc = "asleep" THEN "lock" ELSE mpc
    /\ spc' = "read"
    /\ UNCHANGED <<client, inbox, sent, scmd, flagVars, mutex, locVars, flight>>

\* The branch of call_drone and call_rtl for a busy service: three stores, in
\* this order, none of them under the mutex.
SocketInterrupt ==
    /\ Alive /\ spc = "int_flag"
    /\ interrupt' = TRUE
    /\ spc' = IF scmd = "call_rtl" THEN "int_end" ELSE "int_mode"
    /\ UNCHANGED <<client, inbox, sent, scmd, mode, activate, followEnd, mutex, mpc, locVars, flight>>

SocketEndFollow ==
    /\ Alive /\ spc = "int_end"
    /\ followEnd' = TRUE
    /\ spc' = "int_mode"
    /\ UNCHANGED <<client, inbox, sent, scmd, mode, activate, interrupt, mutex, mpc, locVars, flight>>

\* Slip: the busy branch of call_drone clears follow_end as the other branch
\* does (JoinTerminates).
SocketSwitchRestart ==
    /\ Alive /\ spc = "int_mode"
    /\ mode' = ModeOf(scmd)
    /\ followEnd' = IF scmd = "call_drone" THEN FALSE ELSE followEnd
    /\ spc' = "read"
    /\ UNCHANGED <<client, inbox, sent, scmd, activate, interrupt, mutex, mpc, locVars, flight>>

SocketSwitch ==
    /\ Alive /\ spc = "int_mode"
    /\ mode' = ModeOf(scmd)
    /\ spc' = "read"
    /\ UNCHANGED <<client, inbox, sent, scmd, activate, interrupt, followEnd, mutex, mpc, locVars, flight>>

SocketThread ==
    \/ SocketListen \/ SocketRead \/ SocketEof \/ SocketBusy \/ SocketLock \/ SocketSet
    \/ SocketNotify \/ SocketInterrupt \/ SocketEndFollow \/ SocketSwitch

-----------------------------------------------------------------------------
(* Main thread.                                                            *)

mainKeeps == <<sockVars, targets>>

\* A blocking MAVSDK call: the vehicle obeys, or the call is refused and
\* nothing changes in the air.
Call(call, state, ok, refused) ==
    \/ flight' = state /\ mpc' = ok
    \/ call \in Refusable /\ flight' = flight /\ mpc' = refused

\* A step of main that only calls the autopilot.
FlightStep(pc, call, state, ok, refused) ==
    /\ mpc = pc
    /\ Call(call, state, ok, refused)
    /\ UNCHANGED <<mainKeeps, flagVars, mutex, lpc>>

\* A step of main that touches nothing but its own position.
Goto(pc, next) ==
    /\ mpc = pc /\ mpc' = next
    /\ UNCHANGED <<mainKeeps, flagVars, mutex, lpc, flight>>

\* Rate setting after the socket thread is already running; a refusal ends main.
\* The wait for health_all_ok is the time before the step.
MainBoot == FlightStep("boot", "set_rate", flight, "inactive", "dead")

MainInactive ==
    /\ mpc = "inactive"
    /\ mode' = "INACTIVE"
    /\ mpc' = "lock"
    /\ UNCHANGED <<mainKeeps, activate, interrupt, followEnd, mutex, lpc, flight>>

\* unique_lock, or cv.wait taking the mutex back after a wake-up
MainLock ==
    /\ mpc = "lock"
    /\ mutex = "free" /\ mutex' = "main"
    /\ mpc' = "pred"
    /\ UNCHANGED <<mainKeeps, flagVars, lpc, flight>>

\* cv.wait evaluates isActivate under the mutex; if it is false, main gives the
\* mutex back and sleeps in one step.
MainTest == Goto("pred", IF activate THEN "dispatch" ELSE "sleep")

MainSleep ==
    /\ mpc = "sleep" /\ mpc' = "asleep"
    /\ mutex' = "free"
    /\ UNCHANGED <<mainKeeps, flagVars, lpc, flight>>

SpuriousWakeup == Goto("asleep", "lock")

FirstPc(m) ==
    CASE m = "TEST" -> "test_arm"
      [] m = "PATROL" -> "upload"
      [] m = "GO_LOC" -> "follow_arm"
      [] m = "RTL" -> "rtl"
      [] OTHER -> "off"            \* "Error on Command!"

\* Slip: main clears mode as soon as it has read it (NoAcceptanceInFlight).
MainDispatchClears ==
    /\ mpc = "dispatch"
    /\ mpc' = FirstPc(mode)
    /\ mode' = "INACTIVE"
    /\ UNCHANGED <<mainKeeps, activate, interrupt, followEnd, mutex, lpc, flight>>

MainDispatch == Goto("dispatch", FirstPc(mode))

Armed == IF flight = "ground" THEN "armed" ELSE flight

TestTakeoff ==
    \/ FlightStep("test_arm", "arm", Armed, "test_takeoff", "off")
    \/ FlightStep("test_takeoff", "takeoff", "hover", "test_land", "off")
    \/ FlightStep("test_land", "land", "landing", "test_wait", "off")
    \/ flight \in {"ground", "armed"} /\ Goto("test_wait", "off")

\* Slip: patrol() only tells main of a return to launch (CallDivertsPatrol).
PatrolForgetsCall ==
    \/ FlightStep("upload", "upload", flight, "patrol_arm", "dead")
    \/ FlightStep("patrol_arm", "arm", Armed, "start_mission", "dead")
    \/ FlightStep("start_mission", "start_mission", "mission", "patrol", "dead")
    \/ flight # "mission" /\ Goto("patrol", "patrol_rtl")
    \/ flight = "mission" /\ mode \in {"GO_LOC", "RTL"} /\ Goto("patrol", "pause")
    \/ FlightStep("pause", "pause", "hold", "patrol_return", "patrol_return")
    \/ Goto("patrol_return", IF mode = "RTL" THEN FirstPc(mode) ELSE "off")
    \/ FlightStep("patrol_rtl", "return_to_launch", "rtl", "off", "off")

\* While the mission flies, the loop sleeps until *mode is GO_LOC or RTL; a
\* refused pause is only logged, and *mode is read again for the result.
Patrol ==
    \/ FlightStep("upload", "upload", flight, "patrol_arm", "dead")
    \/ FlightStep("patrol_arm", "arm", Armed, "start_mission", "dead")
    \/ FlightStep("start_mission", "start_mission", "mission", "patrol", "dead")
    \/ flight # "mission" /\ Goto("patrol", "patrol_rtl")
    \/ flight = "mission" /\ mode \in {"GO_LOC", "RTL"} /\ Goto("patrol", "pause")
    \/ FlightStep("pause", "pause", "hold", "patrol_return", "patrol_return")
    \/ Goto("patrol_return", IF mode \in {"GO_LOC", "RTL"} THEN FirstPc(mode) ELSE "off")
    \/ FlightStep("patrol_rtl", "return_to_launch", "rtl", "off", "off")

\* Slip: after a return to launch main serves whatever mode says by then
\* (ImplementsExecutive).
ReturnToLaunchChained ==
    FlightStep("rtl", "return_to_launch", "rtl", FirstPc(mode), "off")

ReturnToLaunch == FlightStep("rtl", "return_to_launch", "rtl", "off", "off")

\* followPerson up to requestLocationUpdate: only a call that interrupts
\* nothing arms the vehicle.
FollowBegin ==
    \/ interrupt /\ Goto("follow_arm", "follow_start")
    \/ ~interrupt /\ FlightStep("follow_arm", "arm", Armed, "follow_start", "dead")
    \/ FlightStep("follow_start", "start_follow", "follow", "stop_old", "dead")

\* followStop: ask the previous location thread to end and join it.
FollowStopOld ==
    /\ mpc = "stop_old"
    /\ followEnd' = TRUE
    /\ mpc' = "join"
    /\ UNCHANGED <<mainKeeps, mode, activate, interrupt, mutex, lpc, flight>>

\* Slip: delete thread_ without join() (OneLocationThread).
FollowJoinSkipped ==
    /\ mpc = "join"
    /\ mpc' = "start_new"
    /\ UNCHANGED <<mainKeeps, flagVars, mutex, lpc, flight>>

FollowJoin ==
    /\ mpc = "join"
    /\ lpc \in {"none", "done"} /\ lpc' = "none"
    /\ mpc' = "start_new"
    /\ UNCHANGED <<mainKeeps, flagVars, mutex, flight>>

\* followStart: clear follow_end, then create the thread.
FollowStartNew ==
    /\ mpc = "start_new"
    /\ followEnd' = FALSE
    /\ mpc' = "spawn"
    /\ UNCHANGED <<mainKeeps, mode, activate, interrupt, mutex, lpc, flight>>

FollowSpawn ==
    /\ mpc = "spawn"
    /\ lpc' = "check"
    /\ mpc' = "following"
    /\ UNCHANGED <<mainKeeps, flagVars, mutex, flight>>

\* Slip: followPerson returns without stopping FollowMe (UnattendedFlight).
FollowFinishNoStop ==
    \/ followEnd /\ Goto("following", "off")
    \/ FlightStep("follow_stop", "stop_follow", "hold", "off", "dead")

\* The rest of followPerson: wait for follow_end, stop FollowMe. The thread is
\* not joined here and the queue keeps the positions nobody consumed.
FollowFinish ==
    \/ followEnd /\ Goto("following", "follow_stop")
    \/ FlightStep("follow_stop", "stop_follow", "hold", "off", "dead")

MainOff ==
    /\ mpc = "off"
    /\ activate' = FALSE
    /\ mpc' = "reset"
    /\ UNCHANGED <<mainKeeps, mode, interrupt, followEnd, mutex, lpc, flight>>

MainReset ==
    /\ mpc = "reset"
    /\ mode' = "INACTIVE"
    /\ mpc' = "pause80"
    /\ UNCHANGED <<mainKeeps, activate, interrupt, followEnd, mutex, lpc, flight>>

\* 80 ms later the lock goes out of scope; the loop never ends (i stays 0).
MainUnlock ==
    /\ mpc = "pause80"
    /\ mutex' = "free"
    /\ mpc' = "inactive"
    /\ UNCHANGED <<mainKeeps, flagVars, lpc, flight>>

Follow ==
    \/ FollowBegin \/ FollowStopOld \/ FollowJoin \/ FollowStartNew \/ FollowSpawn \/ FollowFinish

MainThread ==
    \/ MainBoot \/ MainInactive \/ MainLock \/ MainTest \/ MainSleep \/ MainDispatch
    \/ TestTakeoff \/ Patrol \/ Follow \/ ReturnToLaunch
    \/ MainOff \/ MainReset \/ MainUnlock

-----------------------------------------------------------------------------
(* Location thread: getLocations.                                          *)

LocationCheck ==
    /\ Alive /\ lpc = "check"
    /\ lpc' = IF followEnd THEN "done" ELSE IF targets > 0 THEN "pop" ELSE "check"
    /\ UNCHANGED <<sockVars, flagVars, mutex, mpc, targets, flight>>

LocationPop ==
    /\ Alive /\ lpc = "pop"
    /\ targets' = targets - 1
    /\ lpc' = "check"
    /\ UNCHANGED <<sockVars, flagVars, mutex, mpc, flight>>

LocationThread == LocationCheck \/ LocationPop

-----------------------------------------------------------------------------
(* The autopilot ends what it was asked to do.                             *)

Autopilot ==
    /\ Alive
    /\ \/ flight = "mission" /\ flight' = "mission_over"
       \/ flight \in {"landing", "rtl"} /\ flight' = "ground"
    /\ UNCHANGED <<sockVars, flagVars, mutex, mpc, locVars>>

Next ==
    \/ \E c \in ClientCommands : Send(c)
    \/ CloseClient
    \/ SocketThread \/ MainThread \/ SpuriousWakeup \/ LocationThread \/ Autopilot

Spec == Init /\ [][Next]_vars

\* Threads are scheduled and the autopilot finishes what it flies; nothing is
\* promised about TAS or about spurious wake-ups.
Fairness ==
    /\ WF_vars(SocketThread) /\ WF_vars(MainThread)
    /\ WF_vars(LocationThread) /\ WF_vars(Autopilot)

FairSpec == Spec /\ Fairness

-----------------------------------------------------------------------------
(* What must hold.                                                         *)

\* Every variable has its type.
TypeOK ==
    /\ client \in {"open", "closed"}
    /\ inbox \in Seq(Commands) /\ sent \in Nat
    /\ spc \in SocketPcs /\ scmd \in Commands
    /\ mode \in FlightModes \cup {"GARBAGE"}
    /\ activate \in BOOLEAN /\ interrupt \in BOOLEAN /\ followEnd \in BOOLEAN
    /\ mutex \in {"free", "main", "sock"}
    /\ mpc \in MainPcs
    /\ lpc \in {"none", "check", "pop", "done"}
    /\ targets \in Nat
    /\ flight \in FlightStates

\* While main flies an action, mode is not INACTIVE and the socket thread is
\* not on its way to accept a new command: the test of *mode that it makes
\* without the mutex cannot let a second action in.
NoAcceptanceInFlight ==
    mpc \in FlyingPcs => mode # "INACTIVE" /\ spc \notin {"lock", "set"}

\* follow_end stays set for as long as followStop waits for the old location
\* thread, so that thread does see it and the join returns.
JoinSeesEnd == mpc = "join" => followEnd

\* followStart never overwrites a thread_ that was not joined.
OneLocationThread == mpc \in {"start_new", "spawn"} => lpc = "none"

\* Main never sleeps on an accepted command unless its notification is under way.
NoLostWakeup == mpc = "asleep" /\ activate => spc = "notify"

\* What each thread may be waiting for.
MainWaits ==
    \/ mpc = "lock" /\ mutex # "free"
    \/ mpc = "asleep"
    \/ mpc = "test_wait" /\ flight \notin {"ground", "armed"}
    \/ mpc = "patrol" /\ flight = "mission" /\ mode \notin {"GO_LOC", "RTL"}
    \/ mpc = "join" /\ lpc \notin {"none", "done"}
    \/ mpc = "following" /\ ~followEnd
SocketWaits ==
    \/ spc = "lock" /\ mutex # "free"
    \/ spc = "read" /\ inbox = << >> /\ client = "open"
    \/ spc = "closed"
LocationWaits == lpc \in {"none", "done"} \/ (lpc = "check" /\ ~followEnd /\ targets = 0)
Steady == flight \notin {"mission", "landing", "rtl"}

\* The threads and the autopilot never all wait for one another: when nobody
\* can go on but TAS, main sleeps with nothing accepted, or it follows somebody.
NeverStuck ==
    Alive /\ MainWaits /\ SocketWaits /\ LocationWaits /\ Steady =>
        (mpc = "asleep" /\ ~activate) \/ (mpc = "following" /\ ~followEnd)

\* When a refused pause or return is ruled out, main never goes back to sleep
\* with the vehicle still flying a mission or following somebody.
UnattendedFlight ==
    {"pause", "return_to_launch"} \cap Refusable = {} =>
        (mpc = "asleep" => flight \notin {"mission", "mission_over", "follow"})

\* The threads together do what FlightExecutive promises.
phaseBar ==
    CASE mpc = "dead" -> "dead"
      [] mpc \in FlyingPcs -> "flying"
      [] activate /\ mpc \notin FlyingPcs \cup {"dead", "off"} -> "accepted"
      [] OTHER -> "idle"

jobBar ==
    CASE mpc \in TestPcs -> "TEST"
      [] mpc \in PatrolPcs -> "PATROL"
      [] mpc \in FollowPcs -> "GO_LOC"
      [] mpc = "rtl" -> "RTL"
      [] OTHER -> "none"

Executive == INSTANCE FlightExecutive WITH phase <- phaseBar, job <- jobBar

\* Every behaviour of the three threads is one of the abstract executive: one
\* acceptance per flight, no flight without one, only patrols are diverted.
ImplementsExecutive == Executive!Spec

\* The join in followStop returns.
JoinTerminates == mpc = "join" ~> mpc # "join"

\* A command accepted once main has reset mode (main.cpp:132) is flown, or the
\* process ends.  One accepted between the unlock at the end of the loop and that
\* reset is not: main finds INACTIVE and says "Error on Command!".
CommandServed ==
    (activate /\ mode # "INACTIVE" /\ mpc \in {"lock", "pred", "asleep", "dispatch"})
        ~> mpc \in FlyingPcs \cup {"dead"}

\* A call_drone accepted during a patrol diverts it to the caller, even when the
\* pause is refused, unless the mission ends before patrol() looks at the mode,
\* a call_rtl follows, or a refused step ends the process.
CallDivertsPatrol ==
    (mpc = "patrol" /\ mode = "GO_LOC") ~>
        (mpc \in FollowPcs \/ flight = "mission_over" \/ mode = "RTL" \/ mpc = "dead")

-----------------------------------------------------------------------------
(* What comments of the code say of it and it does not do.                 *)

\* Main does not sleep over a hovering vehicle after call_rtl.
RtlReturnsToLaunch == mpc = "asleep" /\ scmd = "call_rtl" => flight # "hold"

\* Once call_rtl is handled, follow mode is on its way out.
RtlStopsFollow == mpc = "following" /\ spc = "read" /\ mode = "RTL" => followEnd

\* unix_domain_socket.cpp:112, "stop current mission or follow mode and return
\* to launch".
RtlObeyed == RtlStopsFollow /\ RtlReturnsToLaunch

\* unix_domain_socket.cpp:84 answers a call_patrol "Already on Action": there is
\* one, so main is not asleep with a mode that nobody is going to reset.
BusyMeansAction ==
    spc = "busy" /\ scmd = "call_patrol" /\ mpc = "asleep" /\ mode # "INACTIVE" => activate
=============================================================================
