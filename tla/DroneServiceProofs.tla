-------------------------- MODULE DroneServiceProofs --------------------------
(***************************************************************************)
(* DroneService keeps its safety invariants for every bound and every set  *)
(* of refusable calls.                                                     *)
(***************************************************************************)
EXTENDS DroneService, TLAPS, SequenceTheorems

\* mutex_action has one owner at a time: main from the wake-up to the end of
\* the 80 ms pause, the socket thread in its critical section.
OneMutexOwner ==
    Alive => /\ mpc \in HoldingPcs <=> mutex = "main"
             /\ spc = "set" <=> mutex = "sock"

\* A command on its way through the lock was tested against a mode that only
\* main has touched since, and main only ever stores INACTIVE.
AcceptingSeesInactive == spc \in {"lock", "set"} => mode = "INACTIVE"

\* Nobody resets mode under a flight.
FlyingKeepsMode == mpc \in FlyingPcs => mode # "INACTIVE"

\* activate only changes under the mutex, so the test made in cv.wait is still
\* good when main goes to sleep.
SleepSeesInactive == mpc = "sleep" => ~activate

\* Main takes up an action only while activate is set: no other thread clears it.
DispatchAccepted == mpc = "dispatch" => activate

\* What the location thread pops is there: targets stays a natural number.
PopHasTarget == lpc = "pop" => targets # 0

IInv ==
    /\ TypeOK /\ OneMutexOwner
    /\ AcceptingSeesInactive /\ FlyingKeepsMode
    /\ JoinSeesEnd /\ OneLocationThread
    /\ SleepSeesInactive /\ NoLostWakeup /\ PopHasTarget /\ DispatchAccepted

\* The read removes a prefix of the stream and takes its first command.
LEMMA ReadTypes ==
    ASSUME TypeOK, inbox # << >>, NEW n \in Nat, n <= Len(inbox)
    PROVE  SubSeq(inbox, n + 1, Len(inbox)) \in Seq(Commands) /\ Head(inbox) \in Commands
<1>1. inbox \in Seq(Commands)
  BY DEF TypeOK
<1>2. Len(inbox) \in Nat /\ \A i \in 1..Len(inbox) : inbox[i] \in Commands
  BY <1>1, LenProperties, ElementOfSeq
<1>3. \A i \in (n + 1)..Len(inbox) : inbox[i] \in Commands
  BY <1>2
<1>4. SubSeq(inbox, n + 1, Len(inbox)) \in Seq(Commands)
  BY <1>2, <1>3, SubSeqProperties
<1>5. Head(inbox) \in Commands
  BY <1>1, HeadTailProperties
<1> QED  BY <1>4, <1>5

\* The invariant holds when the process starts.
LEMMA InitInv == Init => IInv
<1> SUFFICES ASSUME Init PROVE IInv
  OBVIOUS
<1>1. inbox \in Seq(Commands)
  BY EmptySeq DEF Init
<1> QED
  BY <1>1 DEF Init, IInv, TypeOK, OneMutexOwner, AcceptingSeesInactive, FlyingKeepsMode,
     JoinSeesEnd, OneLocationThread, SleepSeesInactive, NoLostWakeup, PopHasTarget, DispatchAccepted,
     Commands, FlightModes, FlightStates, SocketPcs, MainPcs, HoldingPcs, IdlePcs,
     FlyingPcs, TestPcs, PatrolPcs, FollowPcs, Alive

\* No step of TAS, of the socket thread, of the location thread or of the
\* autopilot breaks it.
LEMMA OthersInv ==
    ASSUME IInv, (\E c \in ClientCommands : Send(c)) \/ CloseClient \/ SocketThread \/ LocationThread \/ Autopilot
    PROVE  IInv'
<1> USE DEF IInv, TypeOK, OneMutexOwner, AcceptingSeesInactive, FlyingKeepsMode,
     JoinSeesEnd, OneLocationThread, SleepSeesInactive, NoLostWakeup, PopHasTarget, DispatchAccepted,
     flagVars, locVars, sockVars, Alive
<1> USE DEF Commands, FlightModes, FlightStates, SocketPcs, MainPcs, HoldingPcs, IdlePcs,
     FlyingPcs, TestPcs, PatrolPcs, FollowPcs
<1>1. ASSUME NEW c \in ClientCommands, Send(c) PROVE IInv'
  BY <1>1, ClientAssumption DEF Send
<1>2. CASE CloseClient
  BY <1>2 DEF CloseClient
<1>3. CASE SocketListen
  BY <1>3 DEF SocketListen
<1>4. CASE SocketRead
  <2>1. PICK n \in 1..MaxCoalesced : n <= Len(inbox) /\ inbox' = SubSeq(inbox, n + 1, Len(inbox))
    BY <1>4 DEF SocketRead
  <2>2. n \in Nat /\ inbox # << >>
    BY <2>1, BoundsAssumption, EmptySeq
  <2>3. inbox' \in Seq(Commands) /\ Head(inbox) \in Commands
    BY <2>1, <2>2, ReadTypes
  <2>4. scmd' = Head(inbox) /\ targets' \in Nat /\ (targets # 0 => targets' # 0)
    BY <1>4 DEF SocketRead
  <2>5. spc' \in {"read", "closed", "lock", "busy", "int_flag"} /\ (spc' = "lock" => mode = "INACTIVE")
    BY <1>4, <2>3 DEF SocketRead, Reply, Classify
  <2>6. mpc' \in {mpc, "dead"}
    BY <1>4, <2>3 DEF SocketRead, Reply
  <2>7. spc = "read" /\ UNCHANGED <<client, sent, flagVars, mutex, lpc, flight>>
    BY <1>4 DEF SocketRead
  <2> QED
    BY <2>3, <2>4, <2>5, <2>6, <2>7
<1>5. CASE SocketEof
  BY <1>5 DEF SocketEof
<1>6. CASE SocketBusy
  BY <1>6 DEF SocketBusy, Reply
<1>7. CASE SocketLock
  BY <1>7 DEF SocketLock
<1>8. CASE SocketSet
  <2>1. mpc # "join"
    BY <1>8 DEF SocketSet
  <2>2. JoinSeesEnd'
    BY <2>1, <1>8 DEF SocketSet
  <2>3. followEnd' \in BOOLEAN /\ activate' \in BOOLEAN /\ interrupt' \in BOOLEAN
    BY <1>8 DEF SocketSet
  <2>4. mode' \in FlightModes \ {"INACTIVE"} /\ spc' = "notify" /\ mutex' = "free"
    BY <1>8 DEF SocketSet, ModeOf
  <2>5. spc = "set" /\ Alive /\ UNCHANGED <<client, inbox, sent, scmd, mpc, lpc, targets, flight>>
    BY <1>8 DEF SocketSet
  <2> HIDE DEF JoinSeesEnd
  <2> QED
    BY <2>2, <2>3, <2>4, <2>5
<1>9. CASE SocketNotify
  BY <1>9 DEF SocketNotify
<1>10. CASE SocketInterrupt
  BY <1>10 DEF SocketInterrupt
<1>11. CASE SocketEndFollow
  BY <1>11 DEF SocketEndFollow
<1>12. CASE SocketSwitch
  BY <1>12 DEF SocketSwitch, ModeOf
<1>13. CASE LocationCheck
  BY <1>13 DEF LocationCheck
<1>14. CASE LocationPop
  BY <1>14 DEF LocationPop
<1>15. CASE Autopilot
  BY <1>15 DEF Autopilot
<1> QED
  BY <1>1, <1>2, <1>3, <1>4, <1>5, <1>6, <1>7, <1>8, <1>9, <1>10, <1>11, <1>12, <1>13, <1>14, <1>15
     DEF SocketThread, LocationThread

\* No step of the main thread breaks it.
LEMMA MainInv ==
    ASSUME IInv, MainThread \/ SpuriousWakeup
    PROVE  IInv'
<1> USE DEF IInv, TypeOK, OneMutexOwner, AcceptingSeesInactive, FlyingKeepsMode,
     JoinSeesEnd, OneLocationThread, SleepSeesInactive, NoLostWakeup, PopHasTarget, DispatchAccepted,
     flagVars, locVars, sockVars, mainKeeps, Alive
<1> USE DEF Commands, FlightModes, FlightStates, SocketPcs, MainPcs, HoldingPcs, IdlePcs,
     FlyingPcs, TestPcs, PatrolPcs, FollowPcs
<1> USE DEF Goto, FlightStep, Call
<1>1. CASE MainBoot
  BY <1>1 DEF MainBoot
<1>2. CASE MainInactive
  BY <1>2 DEF MainInactive
<1>3. CASE MainLock
  BY <1>3 DEF MainLock
<1>4. CASE MainTest
  BY <1>4 DEF MainTest
<1>5. CASE MainSleep
  BY <1>5 DEF MainSleep
<1>6. CASE SpuriousWakeup
  BY <1>6 DEF SpuriousWakeup
<1>7. CASE MainDispatch
  BY <1>7 DEF MainDispatch, FirstPc
<1>8. CASE TestTakeoff
  BY <1>8 DEF TestTakeoff, Armed
<1>9. CASE Patrol
  BY <1>9 DEF Patrol, Armed, FirstPc
<1>10. CASE ReturnToLaunch
  BY <1>10 DEF ReturnToLaunch
<1>11. CASE FollowBegin
  BY <1>11 DEF FollowBegin, Armed
<1>12. CASE FollowStopOld
  <2>1. followEnd' /\ followEnd' \in BOOLEAN
    BY <1>12 DEF FollowStopOld
  <2> QED
    BY <2>1, <1>12 DEF FollowStopOld
<1>13. CASE FollowJoin
  BY <1>13 DEF FollowJoin
<1>14. CASE FollowStartNew
  <2>1. mpc = "start_new" /\ mpc' = "spawn" /\ followEnd' \in BOOLEAN
    BY <1>14 DEF FollowStartNew
  <2>2. UNCHANGED <<client, inbox, sent, spc, scmd, mode, activate, interrupt, mutex, lpc, targets, flight>>
    BY <1>14 DEF FollowStartNew
  <2> QED
    BY <2>1, <2>2
<1>15. CASE FollowSpawn
  BY <1>15 DEF FollowSpawn
<1>16. CASE FollowFinish
  BY <1>16 DEF FollowFinish
<1>17. CASE MainOff
  <2>1. mpc = "off" /\ mpc' = "reset" /\ activate' \in BOOLEAN
    BY <1>17 DEF MainOff
  <2>2. UNCHANGED <<client, inbox, sent, spc, scmd, mode, interrupt, followEnd, mutex, lpc, targets, flight>>
    BY <1>17 DEF MainOff
  <2> QED
    BY <2>1, <2>2
<1>18. CASE MainReset
  BY <1>18 DEF MainReset
<1>19. CASE MainUnlock
  BY <1>19 DEF MainUnlock
<1> QED
  BY <1>1, <1>2, <1>3, <1>4, <1>5, <1>6, <1>7, <1>8, <1>9, <1>10, <1>11, <1>12, <1>13, <1>14,
     <1>15, <1>16, <1>17, <1>18, <1>19 DEF MainThread, Follow

LEMMA StepInv == IInv /\ [Next]_vars => IInv'
<1> SUFFICES ASSUME IInv, [Next]_vars PROVE IInv'
  OBVIOUS
<1>1. CASE UNCHANGED vars
  BY <1>1 DEF vars, IInv, TypeOK, OneMutexOwner, AcceptingSeesInactive, FlyingKeepsMode,
     JoinSeesEnd, OneLocationThread, SleepSeesInactive, NoLostWakeup, PopHasTarget, DispatchAccepted, Alive
<1>2. CASE Next
  BY <1>2, OthersInv, MainInv DEF Next
<1> QED  BY <1>1, <1>2

THEOREM Invariance == Spec => []IInv
BY InitInv, StepInv, PTL DEF Spec

\* Type correctness, for every bound and every set of refusable calls.
THEOREM TypeCorrect == Spec => []TypeOK
<1>1. IInv => TypeOK
  BY DEF IInv
<1> QED  BY <1>1, Invariance, PTL

\* The mutex has one owner, however the threads interleave.
THEOREM MutualExclusion == Spec => []OneMutexOwner
<1>1. IInv => OneMutexOwner
  BY DEF IInv
<1> QED  BY <1>1, Invariance, PTL

\* While an action is flown no second command is being accepted: the unlocked
\* test of *mode is safe against that.
THEOREM NothingAcceptedInFlight == Spec => []NoAcceptanceInFlight
<1>1. IInv => NoAcceptanceInFlight
  BY DEF IInv, AcceptingSeesInactive, FlyingKeepsMode, NoAcceptanceInFlight
<1> QED  BY <1>1, Invariance, PTL

\* The location thread that followStop joins has been told to end.
THEOREM JoinedThreadEnds == Spec => []JoinSeesEnd
<1>1. IInv => JoinSeesEnd
  BY DEF IInv
<1> QED  BY <1>1, Invariance, PTL

\* No second location thread is created before the first was joined.
THEOREM LocationThreadJoined == Spec => []OneLocationThread
<1>1. IInv => OneLocationThread
  BY DEF IInv
<1> QED  BY <1>1, Invariance, PTL

\* No wake-up is lost between the condition variable and its mutex.
THEOREM WakeupNotLost == Spec => []NoLostWakeup
<1>1. IInv => NoLostWakeup
  BY DEF IInv
<1> QED  BY <1>1, Invariance, PTL

-----------------------------------------------------------------------------
(* The refinement of FlightExecutive.                                      *)

LEMMA InitRefines == Init => Executive!Init
BY DEF Init, Executive!Init, phaseBar, jobBar, FlyingPcs, TestPcs, PatrolPcs, FollowPcs

\* Only two steps outside main show in the abstract state: the acceptance of a
\* command and the end of the process.
LEMMA OthersRefine ==
    ASSUME IInv, (\E c \in ClientCommands : Send(c)) \/ CloseClient \/ SocketThread \/ LocationThread \/ Autopilot
    PROVE  [Executive!Next]_(Executive!vars)
<1> USE DEF flagVars, locVars, sockVars, Alive, Executive!vars, phaseBar, jobBar,
     FlyingPcs, TestPcs, PatrolPcs, FollowPcs
<1>1. CASE UNCHANGED <<mpc, activate>>
  BY <1>1
<1>2. CASE Alive /\ mpc' = "dead"
  BY <1>2 DEF Executive!Next, Executive!Exit
<1>3. CASE SocketSet
  <2>1. mpc \notin HoldingPcs /\ mpc # "dead" /\ mpc' = mpc /\ activate'
    BY <1>3 DEF SocketSet, IInv, TypeOK, OneMutexOwner
  <2>2. phaseBar' = "accepted" /\ phaseBar \in {"idle", "accepted"} /\ jobBar = "none" /\ jobBar' = "none"
    BY <2>1 DEF HoldingPcs
  <2> QED
    BY <2>2 DEF Executive!Next, Executive!Accept
<1>4. CASE SocketNotify
  <2>1. (mpc = "asleep" /\ mpc' = "lock") \/ mpc' = mpc
    BY <1>4 DEF SocketNotify
  <2>2. activate' = activate
    BY <1>4 DEF SocketNotify
  <2> QED
    BY <2>1, <2>2
<1>5. CASE SocketRead
  <2>1. mpc' = mpc \/ mpc' = "dead"
    BY <1>5 DEF SocketRead, Reply
  <2>2. Alive /\ activate' = activate
    BY <1>5 DEF SocketRead
  <2> QED
    BY <2>1, <2>2, <1>1, <1>2
<1>6. CASE SocketBusy
  <2>1. mpc' = mpc \/ mpc' = "dead"
    BY <1>6 DEF SocketBusy, Reply
  <2>2. Alive /\ activate' = activate
    BY <1>6 DEF SocketBusy
  <2> QED
    BY <2>1, <2>2, <1>1, <1>2
<1>7. ASSUME \/ \E c \in ClientCommands : Send(c)
             \/ CloseClient \/ SocketListen \/ SocketEof \/ SocketLock \/ SocketInterrupt
             \/ SocketEndFollow \/ SocketSwitch \/ LocationThread \/ Autopilot
      PROVE  UNCHANGED <<mpc, activate>>
  BY <1>7 DEF Send, CloseClient, SocketListen, SocketEof, SocketLock, SocketInterrupt,
     SocketEndFollow, SocketSwitch, LocationThread, LocationCheck, LocationPop, Autopilot
<1> QED
  BY <1>1, <1>3, <1>4, <1>5, <1>6, <1>7 DEF SocketThread

\* Main's steps start, divert, finish or reject a flight, or end the process.
LEMMA MainRefines ==
    ASSUME IInv, MainThread \/ SpuriousWakeup
    PROVE  [Executive!Next]_(Executive!vars)
<1> USE DEF flagVars, mainKeeps, Executive!vars, phaseBar, jobBar,
     FlyingPcs, TestPcs, PatrolPcs, FollowPcs, Goto, FlightStep, Call
<1>1. CASE MainBoot \/ MainInactive \/ MainLock \/ MainTest \/ MainSleep \/ SpuriousWakeup
          \/ MainOff \/ MainReset \/ MainUnlock
  <2>1. /\ mpc \in {"boot", "inactive", "lock", "pred", "sleep", "asleep", "off", "reset", "pause80"}
        /\ mpc' \in {"inactive", "lock", "pred", "dispatch", "sleep", "asleep", "reset", "pause80", "dead"}
    BY <1>1 DEF MainBoot, MainInactive, MainLock, MainTest, MainSleep, SpuriousWakeup, MainOff, MainReset, MainUnlock
  <2>2. mpc # "off" => activate' = activate
    BY <1>1 DEF MainBoot, MainInactive, MainLock, MainTest, MainSleep, SpuriousWakeup, MainOff, MainReset, MainUnlock
  <2>3. mpc = "off" => activate' = FALSE /\ mpc' = "reset"
    BY <1>1 DEF MainBoot, MainInactive, MainLock, MainTest, MainSleep, SpuriousWakeup, MainOff, MainReset, MainUnlock
  <2>4. CASE mpc = "off"
    BY <2>3, <2>4
  <2>5. CASE mpc # "off" /\ mpc' # "dead"
    BY <2>1, <2>2, <2>5
  <2>6. CASE mpc # "off" /\ mpc' = "dead"
    BY <2>1, <2>6 DEF Executive!Next, Executive!Exit
  <2> QED
    BY <2>4, <2>5, <2>6
<1>2. CASE MainDispatch
  <2>1. activate /\ activate' = activate /\ mpc = "dispatch"
    BY <1>2 DEF MainDispatch, IInv, DispatchAccepted
  <2>2. mpc' \in {"test_arm", "upload", "follow_arm", "rtl", "off"}
    BY <1>2 DEF MainDispatch, FirstPc
  <2>3. phaseBar = "accepted" /\ jobBar = "none"
    BY <2>1
  <2>4. CASE mpc' = "off"
    BY <2>3, <2>4 DEF Executive!Next, Executive!Reject
  <2>5. CASE mpc' # "off"
    <3>1. phaseBar' = "flying" /\ jobBar' \in {"TEST", "PATROL", "GO_LOC", "RTL"}
      BY <2>2, <2>5
    <3> QED
      BY <2>3, <3>1 DEF Executive!Next, Executive!Start, Executive!Jobs
  <2> QED
    BY <2>4, <2>5
<1>3. ASSUME mpc \in FlyingPcs, mpc' \in FlyingPcs, jobBar' = jobBar
      PROVE  UNCHANGED <<phaseBar, jobBar>>
  BY <1>3
<1>4. ASSUME mpc \in FlyingPcs, mpc' = "off"
      PROVE  Executive!Finish
  BY <1>4 DEF Executive!Finish
<1>5. ASSUME mpc \in FlyingPcs, mpc' = "dead"
      PROVE  Executive!Exit
  BY <1>5 DEF Executive!Exit
<1>6. CASE TestTakeoff
  <2>1. mpc \in TestPcs /\ mpc' \in TestPcs \cup {"off"}
    BY <1>6 DEF TestTakeoff
  <2> QED
    BY <2>1, <1>4 DEF Executive!Next
<1>7. CASE Patrol
  <2>1. mpc \in PatrolPcs /\ mpc' \in PatrolPcs \cup {"off", "dead", "follow_arm", "rtl"}
    BY <1>7 DEF Patrol, FirstPc
  <2>2. CASE mpc' \in {"follow_arm", "rtl"}
    <3>1. phaseBar = "flying" /\ jobBar = "PATROL" /\ phaseBar' = "flying" /\ jobBar' \in {"GO_LOC", "RTL"}
      BY <2>1, <2>2
    <3> QED
      BY <3>1 DEF Executive!Next, Executive!Divert
  <2> QED
    BY <2>1, <2>2, <1>4, <1>5 DEF Executive!Next
<1>8. CASE Follow
  <2>1. mpc \in FollowPcs /\ mpc' \in FollowPcs \cup {"off", "dead"}
    BY <1>8 DEF Follow, FollowBegin, FollowStopOld, FollowJoin, FollowStartNew, FollowSpawn, FollowFinish
  <2> QED
    BY <2>1, <1>4, <1>5 DEF Executive!Next
<1>9. CASE ReturnToLaunch
  BY <1>9, <1>4 DEF ReturnToLaunch, Executive!Next
<1> QED
  BY <1>1, <1>2, <1>6, <1>7, <1>8, <1>9 DEF MainThread

\* The three threads implement the abstract executive, for every bound and
\* every set of refusable calls.
THEOREM Refinement == Spec => ImplementsExecutive
<1>1. IInv /\ [Next]_vars => [Executive!Next]_(Executive!vars)
  <2> SUFFICES ASSUME IInv, [Next]_vars PROVE [Executive!Next]_(Executive!vars)
    OBVIOUS
  <2>1. CASE UNCHANGED vars
    BY <2>1 DEF vars, Executive!vars, phaseBar, jobBar
  <2>2. CASE Next
    BY <2>2, OthersRefine, MainRefines DEF Next
  <2> QED  BY <2>1, <2>2
<1> QED
  BY <1>1, InitRefines, Invariance, PTL DEF Spec, ImplementsExecutive, Executive!Spec

-----------------------------------------------------------------------------
(* What the vehicle does while main sleeps.                                *)

CalmStates == FlightStates \ {"mission", "mission_over", "follow"}

\* The vehicle flies a mission or follows only inside the action that asked for
\* it, as long as pauses and returns are obeyed.
FlightInAction ==
    /\ mpc \notin {"patrol", "pause", "patrol_rtl", "dead"} \cup (FollowPcs \ {"follow_arm", "follow_start"})
          => flight \in CalmStates

\* An idle service has no mission and no follow in the air when pause and
\* return-to-launch are never refused.
THEOREM NothingUnattended == Spec => []UnattendedFlight
<1> DEFINE F == {"pause", "return_to_launch"} \cap Refusable = {} => FlightInAction
<1>1. Init => F
  BY DEF Init, FlightInAction, CalmStates, FlightStates
<1>2. IInv /\ F /\ [Next]_vars => F'
  <2> SUFFICES ASSUME IInv, F, [Next]_vars, "pause" \notin Refusable, "return_to_launch" \notin Refusable
               PROVE  FlightInAction'
    OBVIOUS
  <2> USE DEF FlightInAction, CalmStates, FlightStates, FollowPcs, flagVars, locVars, sockVars, mainKeeps
  <2>1. CASE UNCHANGED vars
    BY <2>1 DEF vars
  <2>2. CASE (\E c \in ClientCommands : Send(c)) \/ CloseClient \/ SocketThread \/ LocationThread
    <3>1. flight' = flight /\ (mpc' = mpc \/ mpc' = "dead" \/ mpc = "asleep")
      BY <2>2 DEF Send, CloseClient, SocketThread, SocketListen, SocketRead, SocketEof, SocketBusy,
         SocketLock, SocketSet, SocketNotify, SocketInterrupt, SocketEndFollow, SocketSwitch,
         Reply, LocationThread, LocationCheck, LocationPop
    <3> QED
      BY <3>1
  <2>3. CASE Autopilot
    BY <2>3 DEF Autopilot
  <2>4. CASE MainThread \/ SpuriousWakeup
    <3> USE DEF Goto, FlightStep, Call, Armed, IInv, TypeOK
    <3>1. CASE MainBoot \/ MainInactive \/ MainLock \/ MainTest \/ MainSleep \/ SpuriousWakeup
              \/ MainOff \/ MainReset \/ MainUnlock
      BY <3>1 DEF MainBoot, MainInactive, MainLock, MainTest, MainSleep, SpuriousWakeup, MainOff, MainReset, MainUnlock
    <3>2. CASE MainDispatch
      BY <3>2 DEF MainDispatch, FirstPc
    <3>3. CASE TestTakeoff
      BY <3>3 DEF TestTakeoff
    <3>4. CASE Patrol
      BY <3>4 DEF Patrol, FirstPc
    <3>5. CASE ReturnToLaunch
      BY <3>5 DEF ReturnToLaunch
    <3>6. CASE Follow
      BY <3>6 DEF Follow, FollowBegin, FollowStopOld, FollowJoin, FollowStartNew, FollowSpawn, FollowFinish
    <3> QED
      BY <2>4, <3>1, <3>2, <3>3, <3>4, <3>5, <3>6 DEF MainThread
  <2> QED
    BY <2>1, <2>2, <2>3, <2>4 DEF Next
<1>3. F => UnattendedFlight
  BY DEF UnattendedFlight, FlightInAction, CalmStates, FollowPcs
<1> QED
  BY <1>1, <1>2, <1>3, Invariance, PTL DEF Spec

-----------------------------------------------------------------------------
(* Nobody waits for somebody who waits in turn.                            *)

\* takeoff_and_land waits for a landing that it has begun.
LandingAwaited == mpc = "test_wait" => flight \in {"landing", "ground"}

LEMMA LandingStep ==
    ASSUME IInv, LandingAwaited, [Next]_vars
    PROVE  LandingAwaited'
<1> USE DEF LandingAwaited, flagVars, locVars, sockVars, mainKeeps
<1>1. CASE UNCHANGED vars
  BY <1>1 DEF vars
<1>2. CASE (\E c \in ClientCommands : Send(c)) \/ CloseClient \/ SocketThread \/ LocationThread
  <2>1. flight' = flight /\ (mpc' = mpc \/ mpc' = "dead" \/ (mpc = "asleep" /\ mpc' = "lock"))
    BY <1>2 DEF Send, CloseClient, SocketThread, SocketListen, SocketRead, SocketEof, SocketBusy,
       SocketLock, SocketSet, SocketNotify, SocketInterrupt, SocketEndFollow, SocketSwitch,
       Reply, LocationThread, LocationCheck, LocationPop
  <2> QED
    BY <2>1
<1>3. CASE Autopilot
  BY <1>3 DEF Autopilot
<1>4. CASE MainThread \/ SpuriousWakeup
  <2> USE DEF Goto, FlightStep, Call
  <2>1. CASE TestTakeoff
    BY <2>1 DEF TestTakeoff
  <2>2. CASE MainDispatch
    BY <2>2 DEF MainDispatch, FirstPc
  <2>3. CASE Patrol
    BY <2>3 DEF Patrol, FirstPc
  <2>4. CASE Follow
    BY <2>4 DEF Follow, FollowBegin, FollowStopOld, FollowJoin, FollowStartNew, FollowSpawn, FollowFinish
  <2>5. CASE MainBoot \/ MainInactive \/ MainLock \/ MainTest \/ MainSleep \/ SpuriousWakeup
            \/ ReturnToLaunch \/ MainOff \/ MainReset \/ MainUnlock
    BY <2>5 DEF MainBoot, MainInactive, MainLock, MainTest, MainSleep, SpuriousWakeup,
       ReturnToLaunch, MainOff, MainReset, MainUnlock
  <2> QED
    BY <1>4, <2>1, <2>2, <2>3, <2>4, <2>5 DEF MainThread
<1> QED
  BY <1>1, <1>2, <1>3, <1>4 DEF Next

\* Each of main's waits is answered: the holder of the mutex moves, an accepted
\* command is being notified, a landing or a mission ends, and the location
\* thread that is joined sees follow_end.
LEMMA WaitsAnswered ==
    ASSUME IInv, LandingAwaited
    PROVE  NeverStuck
<1> SUFFICES ASSUME Alive, MainWaits, SocketWaits, LocationWaits, Steady
             PROVE  (mpc = "asleep" /\ ~activate) \/ (mpc = "following" /\ ~followEnd)
  BY DEF NeverStuck
<1>1. ~(mpc = "lock" /\ mutex # "free")
  <2> SUFFICES ASSUME mpc = "lock", mutex # "free" PROVE FALSE
    OBVIOUS
  <2>1. mutex # "main"
    BY DEF IInv, OneMutexOwner, HoldingPcs, FlyingPcs, TestPcs, PatrolPcs, FollowPcs
  <2>2. spc = "set"
    BY <2>1 DEF IInv, TypeOK, OneMutexOwner
  <2> QED
    BY <2>2 DEF SocketWaits
<1>2. mpc = "asleep" => ~activate
  BY DEF IInv, NoLostWakeup, SocketWaits
<1>3. mpc = "test_wait" => flight \in {"ground", "armed"}
  BY DEF LandingAwaited, Steady
<1>4. ~(mpc = "patrol" /\ flight = "mission")
  BY DEF Steady
<1>5. mpc = "join" => lpc \in {"none", "done"}
  BY DEF IInv, JoinSeesEnd, LocationWaits
<1> QED
  BY <1>1, <1>2, <1>3, <1>4, <1>5 DEF MainWaits

\* The threads never deadlock, for every bound and every set of refusable calls:
\* when nobody but TAS can go on, main sleeps with nothing accepted or follows.
THEOREM DeadlockFreedom == Spec => []NeverStuck
<1>1. Init => LandingAwaited
  BY DEF Init, LandingAwaited
<1> QED
  BY <1>1, LandingStep, WaitsAnswered, Invariance, PTL DEF Spec
=============================================================================
