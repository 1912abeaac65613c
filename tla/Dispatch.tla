------------------------------- MODULE Dispatch -------------------------------
(***************************************************************************)
(* The dispatcher of the control server (src/Backend/App): which drone     *)
(* accompanies which caller.                                               *)
(*                                                                         *)
(* Node runs one handler at a time, so every MQTT message, HTTP request    *)
(* and timer is one step.  What the steps make the server post to Mobius   *)
(* about a drone is in TargetPosts.                                        *)
(*                                                                         *)
(* Distances are left out: a caller gets some free drone, which one is a   *)
(* choice.  The order in which callers are served is kept, because Map     *)
(* iterates in insertion order.                                            *)
(***************************************************************************)
CONSTANTS
    User, Drone, \* the ids of callers and drones
    NoUser       \* the empty id ''

ASSUME NoUserAssumption == NoUser \notin User

VARIABLES
    ustatus,  \* status in UserInfoGrp, "absent" for a user that has no entry
    earlier,  \* insertion order of UserInfoGrp, as a set of pairs
    dstatus,  \* status in DroneInfoGrp: "absent", "new" (''), "patrol", "accompany"
    target,   \* target in DroneInfoGrp
    gps,      \* entry of DroneGpsGrp: "none", "fresh", "old" (more than 10 s)
    lost      \* callers whose drone was taken from them: a history variable

vars == <<ustatus, earlier, dstatus, target, gps, lost>>

UserStatus == {"absent", "unmatched", "matched"}
DroneStatus == {"absent", "new", "patrol", "accompany"}
Target == User \cup {NoUser}

Init ==
    /\ ustatus = [u \in User |-> "absent"] /\ earlier = {}
    /\ dstatus = [d \in Drone |-> "absent"]
    /\ target = [d \in Drone |-> NoUser]
    /\ gps = [d \in Drone |-> "none"]
    /\ lost = {}

-----------------------------------------------------------------------------
(* matching() on the groups us, ds: the waiting users take free drones, the *)
(* first in the Map first, until either runs out.                          *)

Waiting(us) == {u \in User : us[u] = "unmatched"}

\* Slip: any drone but a new one is taken for free (OneDronePerCall).
FreeOrNearer(ds) == {d \in Drone : ds[d] \in {"patrol", "accompany"}}

Free(ds) == {d \in Drone : ds[d] = "patrol"}

\* Slip: the users are served last come, first served (FirstComeFirstServed).
AssignmentsReversed(us, ds, order) ==
    {g \in UNION {[S -> Waiting(us)] : S \in SUBSET Free(ds)} :
        /\ \A d, e \in DOMAIN g : g[d] = g[e] => d = e
        /\ DOMAIN g = Free(ds) \/ \A u \in Waiting(us) : \E d \in DOMAIN g : g[d] = u
        /\ \A d \in DOMAIN g, u \in Waiting(us) :
              <<g[d], u>> \in order => \E e \in DOMAIN g : g[e] = u}

Assignments(us, ds, order) ==
    {g \in UNION {[S -> Waiting(us)] : S \in SUBSET Free(ds)} :
        /\ \A d, e \in DOMAIN g : g[d] = g[e] => d = e
        /\ DOMAIN g = Free(ds) \/ \A u \in Waiting(us) : \E d \in DOMAIN g : g[d] = u
        /\ \A d \in DOMAIN g, u \in Waiting(us) :
              <<u, g[d]>> \in order => \E e \in DOMAIN g : g[e] = u}

\* The groups us, ds and tg after the assignment g.
UsersAfter(g, us) ==
    [u \in User |-> IF \E d \in DOMAIN g : g[d] = u THEN "matched" ELSE us[u]]
DronesAfter(g, ds) == [d \in Drone |-> IF d \in DOMAIN g THEN "accompany" ELSE ds[d]]
TargetsAfter(g, tg) == [d \in Drone |-> IF d \in DOMAIN g THEN g[d] ELSE tg[d]]

\* A handler that leaves the groups at us, ds and tg and ends with matching().
Settle(us, ds, tg, order) ==
    \E g \in Assignments(us, ds, order) :
        /\ ustatus' = UsersAfter(g, us)
        /\ dstatus' = DronesAfter(g, ds)
        /\ target' = TargetsAfter(g, tg)

-----------------------------------------------------------------------------
(* MQTT messages.                                                          *)

\* Slip: no test whether the user is known, so that a second handler, or the
\* next position, registers it again (OneDronePerUser).
UserGpsAgain(u) ==
    /\ earlier' = earlier \cup {<<v, u>> : v \in {w \in User \ {u} : ustatus[w] # "absent"}}
    /\ Settle([ustatus EXCEPT ![u] = "unmatched"], dstatus, target, earlier')
    /\ UNCHANGED <<gps, lost>>

\* The first position of an unknown user registers it; the position itself
\* only matters for distances.  Each connection of the MQTT client installs
\* another handler for the same messages: for them the user is known.
UserGps(u) ==
    /\ ustatus[u] = "absent"
    /\ earlier' = earlier \cup {<<v, u>> : v \in {w \in User : ustatus[w] # "absent"}}
    /\ Settle([ustatus EXCEPT ![u] = "unmatched"], dstatus, target, earlier')
    /\ UNCHANGED <<gps, lost>>

\* A notification with a position, of a registered drone or not.
DroneGps(d) ==
    /\ gps' = [gps EXCEPT ![d] = "fresh"]
    /\ UNCHANGED <<ustatus, earlier, dstatus, target, lost>>

\* Slip: a drone that registers is put on patrol at once (NobodyWaitsNextToAFreeDrone).
DroneHelloPatrols(d) ==
    /\ dstatus[d] = "absent"
    /\ dstatus' = [dstatus EXCEPT ![d] = "patrol"]
    /\ target' = [target EXCEPT ![d] = NoUser]
    /\ UNCHANGED <<ustatus, earlier, gps, lost>>

\* Slip: no test whether the drone is known already (MatchedHasDrone).
DroneHelloUnguarded(d) ==
    /\ dstatus' = [dstatus EXCEPT ![d] = "new"]
    /\ target' = [target EXCEPT ![d] = NoUser]
    /\ UNCHANGED <<ustatus, earlier, gps, lost>>

\* Any other notification about a drone: reading its content throws, and the
\* catch block registers the drone if it is unknown.
DroneHello(d) ==
    /\ dstatus[d] = "absent"
    /\ dstatus' = [dstatus EXCEPT ![d] = "new"]
    /\ target' = [target EXCEPT ![d] = NoUser]
    /\ UNCHANGED <<ustatus, earlier, gps, lost>>

-----------------------------------------------------------------------------
(* Requests of the control board and of the callers' page.                 *)

\* The drones in ds go their own way: their callers are lost if they had any.
LosesCallerOf(ds) == lost' = lost \cup {u \in User : \E d \in ds : target[d] = u}

\* GET /drones/patrol/:droneId. Nothing looks at the status the drone had; for
\* an unknown drone nothing changes.
PatrolRoute(d) ==
    /\ dstatus[d] # "absent"
    /\ Settle(ustatus, [dstatus EXCEPT ![d] = "patrol"], target, earlier)
    /\ LosesCallerOf({d})
    /\ UNCHANGED <<earlier, gps>>

Returning(u) == {d \in Drone : dstatus[d] # "absent" /\ target[d] = u}

\* Slip: returnToLaunch keeps drone.target (TargetIsMatched).
CallEndKeepsTarget(u) ==
    LET back == Returning(u)
        ds == [d \in Drone |-> IF d \in back THEN "patrol" ELSE dstatus[d]]
    IN  \E g \in (IF back = {} THEN {<< >>} ELSE Assignments(ustatus, ds, earlier)) :
          /\ ustatus' = [UsersAfter(g, ustatus) EXCEPT ![u] = "absent"]
          /\ dstatus' = DronesAfter(g, ds)
          /\ target' = TargetsAfter(g, target)
          /\ earlier' = {p \in earlier : p[1] # u /\ p[2] # u}
          /\ lost' = lost \ {u}
          /\ UNCHANGED gps

\* GET /drones/call/end/:userId: returnToLaunch, with its matching(), for the
\* drones that have this target, and only then the user is removed.  At most
\* one drone has it (OneDronePerUser), so the loop is one call.  Without one,
\* the handler does not call matching().
CallEnd(u) ==
    LET back == Returning(u)
        ds == [d \in Drone |-> IF d \in back THEN "patrol" ELSE dstatus[d]]
        tg == [d \in Drone |-> IF d \in back THEN NoUser ELSE target[d]]
    IN  \E g \in (IF back = {} THEN {<< >>} ELSE Assignments(ustatus, ds, earlier)) :
          /\ ustatus' = [UsersAfter(g, ustatus) EXCEPT ![u] = "absent"]
          /\ dstatus' = DronesAfter(g, ds)
          /\ target' = TargetsAfter(g, tg)
          /\ earlier' = {p \in earlier : p[1] # u /\ p[2] # u}
          /\ lost' = lost \ {u}
          /\ UNCHANGED gps

-----------------------------------------------------------------------------
(* The 10 s timer.                                                         *)

\* The last position of a drone becomes older than 10 s.
GpsAges(d) ==
    /\ gps[d] = "fresh"
    /\ gps' = [gps EXCEPT ![d] = "old"]
    /\ UNCHANGED <<ustatus, earlier, dstatus, target, lost>>

\* removeDisconnectedDrone: whoever the drone accompanies stays 'matched'.
RemoveDisconnectedDrone ==
    LET gone == {d \in Drone : gps[d] = "old"} IN
    /\ gone # {}
    /\ dstatus' = [d \in Drone |-> IF d \in gone THEN "absent" ELSE dstatus[d]]
    /\ target' = [d \in Drone |-> IF d \in gone THEN NoUser ELSE target[d]]
    /\ gps' = [d \in Drone |-> IF d \in gone THEN "none" ELSE gps[d]]
    /\ LosesCallerOf(gone)
    /\ UNCHANGED <<ustatus, earlier>>

\* The server ends and starts again: the groups live in memory.
Restart ==
    /\ ustatus' = [u \in User |-> "absent"] /\ earlier' = {}
    /\ dstatus' = [d \in Drone |-> "absent"]
    /\ target' = [d \in Drone |-> NoUser]
    /\ gps' = [d \in Drone |-> "none"]
    /\ lost' = {}

-----------------------------------------------------------------------------
Next ==
    \/ \E u \in User : UserGps(u) \/ CallEnd(u)
    \/ \E d \in Drone : DroneGps(d) \/ DroneHello(d) \/ PatrolRoute(d) \/ GpsAges(d)
    \/ RemoveDisconnectedDrone \/ Restart

Spec == Init /\ [][Next]_vars

-----------------------------------------------------------------------------
(* What must hold.                                                         *)

\* Every variable has its type.
TypeOK ==
    /\ ustatus \in [User -> UserStatus] /\ earlier \subseteq User \X User
    /\ dstatus \in [Drone -> DroneStatus]
    /\ target \in [Drone -> Target]
    /\ gps \in [Drone -> {"none", "fresh", "old"}]
    /\ lost \subseteq User

\* A drone only has a target that is registered and counts as matched: the end
\* of a call leaves no drone behind that still goes to the caller.
TargetIsMatched == \A d \in Drone : target[d] # NoUser => ustatus[target[d]] = "matched"

\* No two drones are sent to one caller, whatever the board does meanwhile.
OneDronePerUser == \A d, e \in Drone : target[d] = target[e] /\ target[d] # NoUser => d = e

\* A matched caller has a drone that accompanies it, unless the board sent that
\* drone on patrol or it was removed (nobody gives such a caller another one).
MatchedHasDrone ==
    \A u \in User \ lost : ustatus[u] = "matched" =>
        \E d \in Drone : target[d] = u /\ dstatus[d] = "accompany"

\* Between two handlers no caller waits next to a drone that is free.
NobodyWaitsNextToAFreeDrone == Waiting(ustatus) = {} \/ Free(dstatus) = {}

\* A caller is never served before one who was there first.
FirstComeFirstServed ==
    \A u, v \in User :
        <<v, u>> \in earlier /\ ustatus[u] = "matched" => ustatus[v] = "matched"

Accompanies(d, u) == target[d] = u /\ dstatus[d] = "accompany"

\* A step sends drones only to callers that waited or were unknown, and takes
\* none from a caller that is still served and not lost.
CallsKept ==
    \A d \in Drone, u \in User :
        /\ ~Accompanies(d, u) /\ Accompanies(d, u)' => ustatus[u] # "matched"
        /\ Accompanies(d, u) /\ ~Accompanies(d, u)' => ustatus'[u] = "absent" \/ u \in lost'

\* A call gets at most one drone and keeps it, whatever becomes of the other
\* calls: matching() takes nothing back, and nobody gets a second drone for
\* the one the board or the timeout took.
OneDronePerCall == [][CallsKept]_vars
=============================================================================
