---------------------------- MODULE DispatchProofs ----------------------------
(***************************************************************************)
(* Proofs about Dispatch, for any number of callers and drones.            *)
(*                                                                         *)
(* The invariants are inductive together, with two facts more: a drone     *)
(* that is not registered has no target, and the order of arrival is about *)
(* registered callers.  Handlers change the groups and then call           *)
(* matching(), so the argument is made about the values in between:        *)
(* Consistent says of any groups what the invariant says of the variables, *)
(* a handler's own changes keep it, and an assignment keeps it.            *)
(***************************************************************************)
EXTENDS Dispatch, TLAPS

Groups(us, ds, tg) ==
    us \in [User -> UserStatus] /\ ds \in [Drone -> DroneStatus] /\ tg \in [Drone -> Target]

\* CallEnd only looks at registered drones.
AbsentHasNoTarget(ds, tg) == \A d \in Drone : ds[d] = "absent" => tg[d] = NoUser

OrderIsOfPresent(us, order) ==
    \A u, v \in User : <<u, v>> \in order => us[u] # "absent" /\ us[v] # "absent"

Targeted(us, tg) == \A d \in Drone : tg[d] # NoUser => us[tg[d]] = "matched"

Distinct(tg) == \A d, e \in Drone : tg[d] = tg[e] /\ tg[d] # NoUser => d = e

Accompanied(us, ds, tg, gone) ==
    \A u \in User \ gone : us[u] = "matched" =>
        \E d \in Drone : tg[d] = u /\ ds[d] = "accompany"

InOrder(us, order) ==
    \A u, v \in User : <<v, u>> \in order /\ us[u] = "matched" => us[v] = "matched"

Consistent(us, ds, tg, order, gone) ==
    /\ Groups(us, ds, tg)
    /\ AbsentHasNoTarget(ds, tg)
    /\ OrderIsOfPresent(us, order)
    /\ Targeted(us, tg)
    /\ Distinct(tg)
    /\ Accompanied(us, ds, tg, gone)
    /\ InOrder(us, order)

Inv ==
    /\ TypeOK
    /\ Consistent(ustatus, dstatus, target, earlier, lost)
    /\ NobodyWaitsNextToAFreeDrone

-----------------------------------------------------------------------------
(* What matching() does.                                                   *)

\* matching() hands free drones to waiting callers, to each caller at most one,
\* until one side runs out, and passes over nobody.
LEMMA AssignmentFacts ==
    ASSUME NEW us, NEW ds, NEW order, NEW g \in Assignments(us, ds, order)
    PROVE  /\ \A d \in DOMAIN g : d \in Drone /\ ds[d] = "patrol"
           /\ \A d \in DOMAIN g : g[d] \in User /\ us[g[d]] = "unmatched"
           /\ \A d, e \in DOMAIN g : g[d] = g[e] => d = e
           /\ \/ \A d \in Drone : ds[d] = "patrol" => d \in DOMAIN g
              \/ \A u \in User : us[u] = "unmatched" => \E d \in DOMAIN g : g[d] = u
           /\ \A d \in DOMAIN g, u \in User :
                 us[u] = "unmatched" /\ <<u, g[d]>> \in order => \E e \in DOMAIN g : g[e] = u
<1>1. PICK S \in SUBSET Free(ds) : g \in [S -> Waiting(us)]
    BY DEF Assignments
<1>2. /\ DOMAIN g \subseteq Free(ds)
      /\ \A d \in DOMAIN g : g[d] \in Waiting(us)
    BY <1>1
<1>3. /\ \A d, e \in DOMAIN g : g[d] = g[e] => d = e
      /\ DOMAIN g = Free(ds) \/ \A u \in Waiting(us) : \E d \in DOMAIN g : g[d] = u
      /\ \A d \in DOMAIN g, u \in Waiting(us) :
            <<u, g[d]>> \in order => \E e \in DOMAIN g : g[e] = u
    BY DEF Assignments
<1> HIDE <1>1
<1> QED
    BY <1>2, <1>3 DEF Free, Waiting

\* An assignment keeps the groups consistent, and leaves no caller waiting next
\* to a free drone.
LEMMA AssignmentKeeps ==
    ASSUME NEW us, NEW ds, NEW tg, NEW order, NEW gone,
           Consistent(us, ds, tg, order, gone),
           NEW g \in Assignments(us, ds, order)
    PROVE  /\ Consistent(UsersAfter(g, us), DronesAfter(g, ds), TargetsAfter(g, tg), order, gone)
           /\ \A u \in User : UsersAfter(g, us)[u] = "absent" <=> us[u] = "absent"
           /\ Waiting(UsersAfter(g, us)) = {} \/ Free(DronesAfter(g, ds)) = {}
<1> DEFINE us2 == UsersAfter(g, us)
           ds2 == DronesAfter(g, ds)
           tg2 == TargetsAfter(g, tg)
<1>1. /\ Groups(us, ds, tg)
      /\ AbsentHasNoTarget(ds, tg)
      /\ OrderIsOfPresent(us, order)
      /\ Targeted(us, tg)
      /\ Distinct(tg)
      /\ Accompanied(us, ds, tg, gone)
      /\ InOrder(us, order)
    BY DEF Consistent
<1>2. /\ \A d \in DOMAIN g : d \in Drone /\ ds[d] = "patrol"
      /\ \A d \in DOMAIN g : g[d] \in User /\ us[g[d]] = "unmatched"
      /\ \A d, e \in DOMAIN g : g[d] = g[e] => d = e
      /\ \/ \A d \in Drone : ds[d] = "patrol" => d \in DOMAIN g
         \/ \A u \in User : us[u] = "unmatched" => \E d \in DOMAIN g : g[d] = u
      /\ \A d \in DOMAIN g, u \in User :
            us[u] = "unmatched" /\ <<u, g[d]>> \in order => \E e \in DOMAIN g : g[e] = u
    BY AssignmentFacts
<1>3. /\ us2 = [u \in User |-> IF \E d \in DOMAIN g : g[d] = u THEN "matched" ELSE us[u]]
      /\ ds2 = [d \in Drone |-> IF d \in DOMAIN g THEN "accompany" ELSE ds[d]]
      /\ tg2 = [d \in Drone |-> IF d \in DOMAIN g THEN g[d] ELSE tg[d]]
    BY DEF UsersAfter, DronesAfter, TargetsAfter
<1> HIDE DEF us2, ds2, tg2
<1>4. Groups(us2, ds2, tg2)
    BY <1>1, <1>2, <1>3 DEF Groups, UserStatus, DroneStatus, Target
<1>5. \A u \in User : us2[u] = "absent" <=> us[u] = "absent"
    BY <1>2, <1>3
<1>6. AbsentHasNoTarget(ds2, tg2)
    BY <1>1, <1>2, <1>3 DEF AbsentHasNoTarget
<1>7. OrderIsOfPresent(us2, order)
    BY <1>1, <1>5 DEF OrderIsOfPresent
<1>8. Targeted(us2, tg2)
    BY <1>1, <1>2, <1>3, NoUserAssumption DEF Targeted, Groups, Target
<1>9. Distinct(tg2)
    BY <1>1, <1>2, <1>3, NoUserAssumption DEF Distinct, Targeted, Groups, Target
<1>10. Accompanied(us2, ds2, tg2, gone)
  <2> SUFFICES ASSUME NEW u \in User \ gone, us2[u] = "matched"
               PROVE  \E d \in Drone : tg2[d] = u /\ ds2[d] = "accompany"
      BY DEF Accompanied
  <2>1. CASE \E d \in DOMAIN g : g[d] = u
      BY <2>1, <1>2, <1>3
  <2>2. CASE ~ \E d \in DOMAIN g : g[d] = u
    <3>1. us[u] = "matched"
        BY <2>2, <1>3
    <3>2. PICK d \in Drone : tg[d] = u /\ ds[d] = "accompany"
        BY <3>1, <1>1 DEF Accompanied
    <3>3. d \notin DOMAIN g
        BY <3>2, <1>2
    <3> QED
        BY <3>2, <3>3, <1>3
  <2> QED
      BY <2>1, <2>2
<1>11. InOrder(us2, order)
  <2> SUFFICES ASSUME NEW u \in User, NEW v \in User, <<v, u>> \in order,
                      us2[u] = "matched"
               PROVE  us2[v] = "matched"
      BY DEF InOrder
  <2>1. us[v] \in {"unmatched", "matched"}
      BY <1>1 DEF Groups, OrderIsOfPresent, UserStatus
  <2>2. CASE \E d \in DOMAIN g : g[d] = u
      BY <2>1, <2>2, <1>2, <1>3
  <2>3. CASE ~ \E d \in DOMAIN g : g[d] = u
      BY <2>3, <1>1, <1>3 DEF InOrder
  <2> QED
      BY <2>2, <2>3
<1>12. Waiting(us2) = {} \/ Free(ds2) = {}
    BY <1>2, <1>3 DEF Waiting, Free
<1> QED
    BY <1>4, <1>5, <1>6, <1>7, <1>8, <1>9, <1>10, <1>11, <1>12 DEF Consistent, us2, ds2, tg2

\* A caller no drone goes to can be forgotten.
LEMMA RemovalKeeps ==
    ASSUME NEW us, NEW ds, NEW tg, NEW order, NEW gone,
           Consistent(us, ds, tg, order, gone),
           NEW u \in User, \A d \in Drone : tg[d] # u
    PROVE  Consistent([us EXCEPT ![u] = "absent"], ds, tg,
                      {p \in order : p[1] # u /\ p[2] # u}, gone \ {u})
<1> DEFINE us2 == [us EXCEPT ![u] = "absent"]
           order2 == {p \in order : p[1] # u /\ p[2] # u}
<1>1. Groups(us, ds, tg)
    BY DEF Consistent
<1>2. Groups(us2, ds, tg)
    BY <1>1 DEF Groups, UserStatus
<1>3. \A v \in User : us2[v] = IF v = u THEN "absent" ELSE us[v]
    BY <1>1 DEF Groups
<1>4. \A v, w \in User : <<v, w>> \in order2 => <<v, w>> \in order /\ v # u /\ w # u
    OBVIOUS
<1> HIDE DEF us2, order2
<1>5. AbsentHasNoTarget(ds, tg) /\ Distinct(tg)
    BY DEF Consistent
<1>6. OrderIsOfPresent(us2, order2)
    BY <1>3, <1>4 DEF Consistent, OrderIsOfPresent
<1>7. Targeted(us2, tg)
    BY <1>1, <1>3 DEF Consistent, Targeted, Groups, Target
<1>8. Accompanied(us2, ds, tg, gone \ {u})
    BY <1>3 DEF Consistent, Accompanied
<1>9. InOrder(us2, order2)
    BY <1>3, <1>4 DEF Consistent, InOrder
<1> QED
    BY <1>2, <1>5, <1>6, <1>7, <1>8, <1>9 DEF Consistent, us2, order2

\* A handler that leaves consistent groups and ends with matching() reestablishes
\* the invariant.
LEMMA SettleKeeps ==
    ASSUME NEW us, NEW ds, NEW tg,
           Consistent(us, ds, tg, earlier', lost'),
           Settle(us, ds, tg, earlier'),
           earlier' \subseteq User \X User, lost' \subseteq User,
           gps' \in [Drone -> {"none", "fresh", "old"}]
    PROVE  Inv'
<1>1. PICK g \in Assignments(us, ds, earlier') :
        /\ ustatus' = UsersAfter(g, us)
        /\ dstatus' = DronesAfter(g, ds)
        /\ target' = TargetsAfter(g, tg)
    BY DEF Settle
<1>2. /\ Consistent(ustatus', dstatus', target', earlier', lost')
      /\ Waiting(ustatus') = {} \/ Free(dstatus') = {}
    BY <1>1, AssignmentKeeps
<1>3. TypeOK'
    BY <1>2 DEF TypeOK, Consistent, Groups
<1> QED
    BY <1>2, <1>3 DEF Inv, NobodyWaitsNextToAFreeDrone

-----------------------------------------------------------------------------
(* The invariant holds.                                                    *)

LEMMA InitInv == Init => Inv
<1> SUFFICES ASSUME Init PROVE Inv
    OBVIOUS
<1>1. TypeOK
    BY DEF Init, TypeOK, UserStatus, DroneStatus, Target
<1>2. Consistent(ustatus, dstatus, target, earlier, lost)
    BY <1>1 DEF Init, TypeOK, Consistent, Groups, AbsentHasNoTarget, OrderIsOfPresent, Targeted,
                Distinct, Accompanied, InOrder
<1>3. NobodyWaitsNextToAFreeDrone
    BY DEF Init, NobodyWaitsNextToAFreeDrone, Waiting
<1> QED
    BY <1>1, <1>2, <1>3 DEF Inv

\* The first position of a caller: nobody goes to it yet, and it comes last.
LEMMA UserGpsKeeps ==
    ASSUME Inv, NEW u \in User, UserGps(u)
    PROVE  Inv'
<1> DEFINE us == [ustatus EXCEPT ![u] = "unmatched"]
<1>1. /\ ustatus[u] = "absent"
      /\ earlier' = earlier \cup {<<v, u>> : v \in {w \in User : ustatus[w] # "absent"}}
      /\ Settle(us, dstatus, target, earlier')
      /\ gps' = gps /\ lost' = lost
    BY DEF UserGps
<1>2. TypeOK /\ Consistent(ustatus, dstatus, target, earlier, lost)
    BY DEF Inv
<1>3. /\ earlier' \subseteq User \X User /\ lost' \subseteq User
      /\ gps' \in [Drone -> {"none", "fresh", "old"}]
    BY <1>1, <1>2 DEF TypeOK
<1>4. \A v \in User : us[v] = IF v = u THEN "unmatched" ELSE ustatus[v]
    BY <1>2 DEF TypeOK
<1>5. \A v, w \in User : <<v, w>> \in earlier' =>
         <<v, w>> \in earlier \/ (w = u /\ v # u /\ ustatus[v] # "absent")
    BY <1>1
<1>6. Groups(us, dstatus, target)
    BY <1>2 DEF TypeOK, Groups, UserStatus
<1> HIDE DEF us
<1>7. AbsentHasNoTarget(dstatus, target) /\ Distinct(target)
    BY <1>2 DEF Consistent
<1>8. OrderIsOfPresent(us, earlier')
    BY <1>1, <1>2, <1>4, <1>5 DEF Consistent, OrderIsOfPresent
<1>9. Targeted(us, target)
    BY <1>1, <1>2, <1>4 DEF Consistent, Targeted, Groups, Target
<1>10. Accompanied(us, dstatus, target, lost')
    BY <1>1, <1>2, <1>4 DEF Consistent, Accompanied
<1>11. InOrder(us, earlier')
  <2>1. OrderIsOfPresent(ustatus, earlier) /\ InOrder(ustatus, earlier)
      BY <1>2 DEF Consistent
  <2> QED
      BY <2>1, <1>1, <1>4, <1>5 DEF OrderIsOfPresent, InOrder
<1>12. Consistent(us, dstatus, target, earlier', lost')
    BY <1>6, <1>7, <1>8, <1>9, <1>10, <1>11 DEF Consistent
<1> QED
    BY <1>1, <1>3, <1>12, SettleKeeps

\* A drone that registers has no target and is not free.
LEMMA DroneHelloKeeps ==
    ASSUME Inv, NEW d \in Drone, DroneHello(d)
    PROVE  Inv'
<1>1. TypeOK /\ Consistent(ustatus, dstatus, target, earlier, lost) /\ NobodyWaitsNextToAFreeDrone
    BY DEF Inv
<1>2. target[d] = NoUser
    BY <1>1 DEF Consistent, AbsentHasNoTarget, DroneHello
<1>3. /\ dstatus[d] = "absent"
      /\ target' = target
      /\ ustatus' = ustatus /\ earlier' = earlier /\ gps' = gps /\ lost' = lost
      /\ \A e \in Drone : dstatus'[e] = IF e = d THEN "new" ELSE dstatus[e]
    BY <1>1, <1>2 DEF DroneHello, TypeOK
<1>4. TypeOK'
    BY <1>1, <1>3 DEF TypeOK, DroneStatus, DroneHello
<1>5. Consistent(ustatus', dstatus', target', earlier', lost')
    BY <1>1, <1>3, <1>4 DEF Consistent, TypeOK, Groups, AbsentHasNoTarget, OrderIsOfPresent,
                            Targeted, Distinct, Accompanied, InOrder
<1>6. NobodyWaitsNextToAFreeDrone'
    BY <1>1, <1>3 DEF NobodyWaitsNextToAFreeDrone, Waiting, Free
<1> QED
    BY <1>4, <1>5, <1>6 DEF Inv

\* A drone sent on patrol leaves its caller behind, which is then lost.
LEMMA PatrolRouteKeeps ==
    ASSUME Inv, NEW d \in Drone, PatrolRoute(d)
    PROVE  Inv'
<1> DEFINE ds == [dstatus EXCEPT ![d] = "patrol"]
<1>1. /\ dstatus[d] # "absent"
      /\ Settle(ustatus, ds, target, earlier')
      /\ lost' = lost \cup {u \in User : target[d] = u}
      /\ earlier' = earlier /\ gps' = gps
    BY DEF PatrolRoute, LosesCallerOf
<1>2. TypeOK /\ Consistent(ustatus, dstatus, target, earlier, lost)
    BY DEF Inv
<1>3. /\ earlier' \subseteq User \X User /\ lost' \subseteq User
      /\ gps' \in [Drone -> {"none", "fresh", "old"}]
    BY <1>1, <1>2 DEF TypeOK
<1>4. \A e \in Drone : ds[e] = IF e = d THEN "patrol" ELSE dstatus[e]
    BY <1>2 DEF TypeOK
<1>5. Groups(ustatus, ds, target)
    BY <1>2 DEF TypeOK, Groups, DroneStatus
<1> HIDE DEF ds
<1>6. /\ OrderIsOfPresent(ustatus, earlier') /\ Targeted(ustatus, target)
      /\ Distinct(target) /\ InOrder(ustatus, earlier')
    BY <1>1, <1>2 DEF Consistent
<1>7. AbsentHasNoTarget(ds, target)
    BY <1>1, <1>2, <1>4 DEF Consistent, AbsentHasNoTarget
<1>8. Accompanied(ustatus, ds, target, lost')
    BY <1>1, <1>2, <1>4 DEF Consistent, Accompanied
<1>9. Consistent(ustatus, ds, target, earlier', lost')
    BY <1>5, <1>6, <1>7, <1>8 DEF Consistent
<1> QED
    BY <1>1, <1>3, <1>9, SettleKeeps

\* The end of a call: the drone that accompanied u becomes free, may get the
\* next caller, and u is forgotten when no drone goes to it any more.
LEMMA CallEndKeeps ==
    ASSUME Inv, NEW u \in User, CallEnd(u)
    PROVE  Inv'
<1> DEFINE back == Returning(u)
           ds == [d \in Drone |-> IF d \in back THEN "patrol" ELSE dstatus[d]]
           tg == [d \in Drone |-> IF d \in back THEN NoUser ELSE target[d]]
           order2 == {p \in earlier : p[1] # u /\ p[2] # u}
<1>1. PICK g \in (IF back = {} THEN {<< >>} ELSE Assignments(ustatus, ds, earlier)) :
        /\ ustatus' = [UsersAfter(g, ustatus) EXCEPT ![u] = "absent"]
        /\ dstatus' = DronesAfter(g, ds)
        /\ target' = TargetsAfter(g, tg)
        /\ earlier' = order2
        /\ lost' = lost \ {u}
        /\ gps' = gps
    BY DEF CallEnd
<1>2. /\ TypeOK /\ NobodyWaitsNextToAFreeDrone
      /\ Consistent(ustatus, dstatus, target, earlier, lost)
    BY DEF Inv
<1>3. /\ AbsentHasNoTarget(dstatus, target) /\ Targeted(ustatus, target)
      /\ Groups(ustatus, dstatus, target) /\ Distinct(target)
    BY <1>2 DEF Consistent
<1>4. /\ \A d \in Drone : d \in back <=> target[d] = u
      /\ u # NoUser
    BY <1>3, NoUserAssumption DEF Returning, AbsentHasNoTarget
<1>5. /\ \A d \in Drone : ds[d] = IF d \in back THEN "patrol" ELSE dstatus[d]
      /\ \A d \in Drone : tg[d] = IF d \in back THEN NoUser ELSE target[d]
      /\ back \subseteq Drone
      /\ \A v, w \in User : <<v, w>> \in order2 => <<v, w>> \in earlier
    BY DEF Returning
<1>6. Groups(ustatus, ds, tg)
    BY <1>3 DEF Groups, DroneStatus, Target
<1> HIDE DEF ds, tg, back, order2
<1>7. Consistent(ustatus, ds, tg, earlier, lost \cup {u})
  <2>1. AbsentHasNoTarget(ds, tg) /\ Targeted(ustatus, tg) /\ Distinct(tg)
      BY <1>3, <1>4, <1>5 DEF AbsentHasNoTarget, Targeted, Distinct
  <2>2. Accompanied(ustatus, ds, tg, lost \cup {u})
      BY <1>2, <1>4, <1>5 DEF Consistent, Accompanied
  <2> QED
      BY <1>2, <1>6, <2>1, <2>2 DEF Consistent
<1>8. \A d \in Drone : tg[d] # u
    BY <1>4, <1>5
<1> DEFINE us3 == UsersAfter(g, ustatus)
<1>9. /\ Consistent(us3, dstatus', target', earlier, lost \cup {u})
      /\ \A d \in Drone : target'[d] # u
      /\ Waiting(us3) = {} \/ Free(dstatus') = {}
  <2>1. CASE back = {}
    <3>1. g = << >>
        BY <1>1, <2>1
    <3>2. DOMAIN g = {}
        BY <3>1
    <3>3. dstatus' = ds /\ target' = tg /\ us3 = ustatus
        BY <3>2, <1>1, <1>6 DEF UsersAfter, DronesAfter, TargetsAfter, Groups
    <3>4. ds = dstatus
        BY <2>1, <1>5, <1>3, <1>6 DEF Groups
    <3> QED
        BY <3>3, <3>4, <1>7, <1>8, <1>2 DEF NobodyWaitsNextToAFreeDrone
  <2>2. CASE back # {}
    <3>1. g \in Assignments(ustatus, ds, earlier)
        BY <1>1, <2>2
    <3>2. /\ Consistent(us3, dstatus', target', earlier, lost \cup {u})
          /\ Waiting(us3) = {} \/ Free(dstatus') = {}
        BY <3>1, <1>1, <1>7, AssignmentKeeps
    <3>3. ustatus[u] = "matched"
        BY <2>2, <1>3, <1>4, <1>5 DEF Targeted
    <3>4. \A d \in DOMAIN g : g[d] # u
        BY <3>1, <3>3, AssignmentFacts
    <3>5. \A d \in Drone : target'[d] # u
        BY <3>4, <1>1, <1>8 DEF TargetsAfter
    <3> QED
        BY <3>2, <3>5
  <2> QED
      BY <2>1, <2>2
<1> HIDE DEF us3
<1>10. Consistent(ustatus', dstatus', target', earlier', lost')
  <2>1. ustatus' = [us3 EXCEPT ![u] = "absent"]
      BY <1>1 DEF us3
  <2>2. lost' = (lost \cup {u}) \ {u}
      BY <1>1
  <2>3. earlier' = {p \in earlier : p[1] # u /\ p[2] # u}
      BY <1>1 DEF order2
  <2> QED
      BY <2>1, <2>2, <2>3, <1>9, RemovalKeeps
<1>11. NobodyWaitsNextToAFreeDrone'
  <2>1. us3 \in [User -> UserStatus]
      BY <1>9 DEF Consistent, Groups
  <2>2. \A v \in User : ustatus'[v] = IF v = u THEN "absent" ELSE us3[v]
      BY <2>1, <1>1 DEF us3
  <2>3. Waiting(ustatus') \subseteq Waiting(us3)
      BY <2>2 DEF Waiting
  <2> QED
      BY <2>3, <1>9 DEF NobodyWaitsNextToAFreeDrone
<1>12. TypeOK'
  <2>1. earlier' \subseteq User \X User /\ lost' \subseteq User
      BY <1>1, <1>2 DEF TypeOK, order2
  <2> QED
      BY <2>1, <1>1, <1>2, <1>10 DEF TypeOK, Consistent, Groups
<1> QED
    BY <1>10, <1>11, <1>12 DEF Inv

\* The drones that were silent for too long lose their entries; their callers
\* are lost.
LEMMA RemoveDisconnectedDroneKeeps ==
    ASSUME Inv, RemoveDisconnectedDrone
    PROVE  Inv'
<1> DEFINE gone == {d \in Drone : gps[d] = "old"}
<1>1. /\ TypeOK /\ NobodyWaitsNextToAFreeDrone
      /\ Consistent(ustatus, dstatus, target, earlier, lost)
    BY DEF Inv
<1>2. /\ dstatus' = [d \in Drone |-> IF d \in gone THEN "absent" ELSE dstatus[d]]
      /\ target' = [d \in Drone |-> IF d \in gone THEN NoUser ELSE target[d]]
      /\ gps' = [d \in Drone |-> IF d \in gone THEN "none" ELSE gps[d]]
      /\ lost' = lost \cup {u \in User : \E d \in gone : target[d] = u}
      /\ ustatus' = ustatus /\ earlier' = earlier
    BY DEF RemoveDisconnectedDrone, LosesCallerOf
<1> HIDE DEF gone
<1>3. TypeOK'
    BY <1>1, <1>2 DEF TypeOK, DroneStatus, Target
<1>4. /\ AbsentHasNoTarget(dstatus', target') /\ Targeted(ustatus', target')
      /\ Distinct(target')
    BY <1>1, <1>2 DEF Consistent, AbsentHasNoTarget, Targeted, Distinct
<1>5. Accompanied(ustatus', dstatus', target', lost')
    BY <1>1, <1>2 DEF Consistent, Accompanied
<1>6. Consistent(ustatus', dstatus', target', earlier', lost')
    BY <1>1, <1>2, <1>3, <1>4, <1>5 DEF Consistent, TypeOK, Groups
<1>7. NobodyWaitsNextToAFreeDrone'
    BY <1>1, <1>2 DEF NobodyWaitsNextToAFreeDrone, Waiting, Free
<1> QED
    BY <1>3, <1>6, <1>7 DEF Inv

\* After a restart the groups are as they were at the start.
LEMMA RestartKeeps ==
    ASSUME Restart
    PROVE  Inv'
<1>1. TypeOK'
    BY DEF Restart, TypeOK, UserStatus, DroneStatus, Target
<1>2. Consistent(ustatus', dstatus', target', earlier', lost')
    BY <1>1 DEF Restart, TypeOK, Consistent, Groups, AbsentHasNoTarget, OrderIsOfPresent, Targeted,
                Distinct, Accompanied, InOrder
<1>3. NobodyWaitsNextToAFreeDrone'
    BY DEF Restart, NobodyWaitsNextToAFreeDrone, Waiting
<1> QED
    BY <1>1, <1>2, <1>3 DEF Inv

LEMMA NextKeepsInv == Inv /\ [Next]_vars => Inv'
<1> SUFFICES ASSUME Inv, [Next]_vars PROVE Inv'
    OBVIOUS
<1>1. ASSUME NEW u \in User, UserGps(u) PROVE Inv'
    BY <1>1, UserGpsKeeps
<1>2. ASSUME NEW u \in User, CallEnd(u) PROVE Inv'
    BY <1>2, CallEndKeeps
<1>3. ASSUME NEW d \in Drone, DroneHello(d) PROVE Inv'
    BY <1>3, DroneHelloKeeps
<1>4. ASSUME NEW d \in Drone, PatrolRoute(d) PROVE Inv'
    BY <1>4, PatrolRouteKeeps
<1>5. CASE RemoveDisconnectedDrone
    BY <1>5, RemoveDisconnectedDroneKeeps
<1>6. ASSUME ustatus' = ustatus, earlier' = earlier, dstatus' = dstatus, target' = target,
             lost' = lost, gps' \in [Drone -> {"none", "fresh", "old"}]
      PROVE  Inv'
  <2>1. TypeOK'
      BY <1>6 DEF Inv, TypeOK
  <2>2. Consistent(ustatus', dstatus', target', earlier', lost')
      BY <1>6 DEF Inv
  <2>3. NobodyWaitsNextToAFreeDrone'
      BY <1>6 DEF Inv, NobodyWaitsNextToAFreeDrone
  <2> QED
      BY <2>1, <2>2, <2>3 DEF Inv
<1>7. ASSUME NEW d \in Drone, DroneGps(d) PROVE Inv'
    BY <1>7, <1>6 DEF DroneGps, Inv, TypeOK
<1>8. ASSUME NEW d \in Drone, GpsAges(d) PROVE Inv'
    BY <1>8, <1>6 DEF GpsAges, Inv, TypeOK
<1>9. CASE Restart
    BY <1>9, RestartKeeps
<1>10. CASE UNCHANGED vars
    BY <1>10, <1>6 DEF vars, Inv, TypeOK
<1> QED
    BY <1>1, <1>2, <1>3, <1>4, <1>5, <1>7, <1>8, <1>9, <1>10 DEF Next

LEMMA Invariance == Spec => []Inv
<1> QED
    BY InitInv, NextKeepsInv, PTL DEF Spec

-----------------------------------------------------------------------------
(* The results.                                                            *)

\* Every variable has its type.
THEOREM TypeCorrect == Spec => []TypeOK
<1>1. Inv => TypeOK
    BY DEF Inv
<1> QED
    BY <1>1, Invariance, PTL

\* A drone only has a target that is registered and counts as matched.
THEOREM TargetsMatched == Spec => []TargetIsMatched
<1>1. Inv => TargetIsMatched
    BY DEF Inv, Consistent, Targeted, TargetIsMatched
<1> QED
    BY <1>1, Invariance, PTL

\* No two drones are sent to one caller.
THEOREM DronesDistinct == Spec => []OneDronePerUser
<1>1. Inv => OneDronePerUser
    BY DEF Inv, Consistent, Distinct, OneDronePerUser
<1> QED
    BY <1>1, Invariance, PTL

\* A matched caller that did not lose its drone is accompanied.
THEOREM MatchedAccompanied == Spec => []MatchedHasDrone
<1>1. Inv => MatchedHasDrone
    BY DEF Inv, Consistent, Accompanied, MatchedHasDrone
<1> QED
    BY <1>1, Invariance, PTL

\* Between two handlers no caller waits next to a free drone.
THEOREM NobodyWaits == Spec => []NobodyWaitsNextToAFreeDrone
<1>1. Inv => NobodyWaitsNextToAFreeDrone
    BY DEF Inv
<1> QED
    BY <1>1, Invariance, PTL

\* A caller is never served before one who was there first.
THEOREM ServedInOrder == Spec => []FirstComeFirstServed
<1>1. Inv => FirstComeFirstServed
    BY DEF Inv, Consistent, InOrder, FirstComeFirstServed
<1> QED
    BY <1>1, Invariance, PTL

-----------------------------------------------------------------------------
(* Who keeps its drone.                                                    *)

\* matching() takes no drone that accompanies somebody, and sends one to nobody
\* but a waiting caller.
LEMMA AssignmentSteady ==
    ASSUME NEW us, NEW ds, NEW tg, NEW order, NEW g \in Assignments(us, ds, order),
           NEW d \in Drone, NEW u \in User
    PROVE  /\ tg[d] = u /\ ds[d] = "accompany" =>
                  TargetsAfter(g, tg)[d] = u /\ DronesAfter(g, ds)[d] = "accompany"
           /\ TargetsAfter(g, tg)[d] = u /\ DronesAfter(g, ds)[d] = "accompany" =>
                  (tg[d] = u /\ ds[d] = "accompany") \/ us[u] = "unmatched"
<1>1. d \in DOMAIN g => ds[d] = "patrol" /\ us[g[d]] = "unmatched"
    BY AssignmentFacts
<1>2. /\ TargetsAfter(g, tg)[d] = IF d \in DOMAIN g THEN g[d] ELSE tg[d]
      /\ DronesAfter(g, ds)[d] = IF d \in DOMAIN g THEN "accompany" ELSE ds[d]
    BY DEF TargetsAfter, DronesAfter
<1> QED
    BY <1>1, <1>2

LEMMA SettleSteady ==
    ASSUME NEW us, NEW ds, NEW tg, NEW order, Settle(us, ds, tg, order),
           NEW d \in Drone, NEW u \in User
    PROVE  /\ tg[d] = u /\ ds[d] = "accompany" => Accompanies(d, u)'
           /\ Accompanies(d, u)' => (tg[d] = u /\ ds[d] = "accompany") \/ us[u] = "unmatched"
<1>1. PICK g \in Assignments(us, ds, order) :
        dstatus' = DronesAfter(g, ds) /\ target' = TargetsAfter(g, tg)
    BY DEF Settle
<1>2. Accompanies(d, u)' <=> TargetsAfter(g, tg)[d] = u /\ DronesAfter(g, ds)[d] = "accompany"
    BY <1>1 DEF Accompanies
<1> QED
    BY <1>2, AssignmentSteady

\* No handler ends a call that goes on, and none sends a drone to a caller that
\* is served already.
LEMMA NextKeepsCalls == TypeOK /\ [Next]_vars => CallsKept
<1> SUFFICES ASSUME TypeOK, [Next]_vars, NEW d \in Drone, NEW u \in User
             PROVE  /\ ~Accompanies(d, u) /\ Accompanies(d, u)' => ustatus[u] # "matched"
                    /\ Accompanies(d, u) /\ ~Accompanies(d, u)' => ustatus'[u] = "absent" \/ u \in lost'
    BY DEF CallsKept
<1>1. ASSUME NEW v \in User, UserGps(v)
      PROVE  /\ ~Accompanies(d, u) /\ Accompanies(d, u)' => ustatus[u] # "matched"
             /\ Accompanies(d, u) => Accompanies(d, u)'
  <2> DEFINE us == [ustatus EXCEPT ![v] = "unmatched"]
  <2>1. ustatus[v] = "absent" /\ Settle(us, dstatus, target, earlier')
      BY <1>1 DEF UserGps
  <2>2. us[u] = "unmatched" => ustatus[u] \in {"unmatched", "absent"}
      BY <2>1 DEF TypeOK
  <2> HIDE DEF us
  <2> QED
      BY <2>1, <2>2, SettleSteady DEF Accompanies
<1>2. ASSUME NEW e \in Drone, DroneHello(e)
      PROVE  Accompanies(d, u) <=> Accompanies(d, u)'
    BY <1>2, NoUserAssumption DEF DroneHello, Accompanies, TypeOK
<1>3. ASSUME NEW e \in Drone, PatrolRoute(e)
      PROVE  /\ ~Accompanies(d, u) /\ Accompanies(d, u)' => ustatus[u] # "matched"
             /\ Accompanies(d, u) /\ ~Accompanies(d, u)' => u \in lost'
  <2> DEFINE ds == [dstatus EXCEPT ![e] = "patrol"]
  <2>1. Settle(ustatus, ds, target, earlier) /\ (target[e] = u => u \in lost')
      BY <1>3 DEF PatrolRoute, LosesCallerOf
  <2>2. ds[d] = IF d = e THEN "patrol" ELSE dstatus[d]
      BY DEF TypeOK
  <2> HIDE DEF ds
  <2> QED
      BY <2>1, <2>2, SettleSteady DEF Accompanies
<1>4. ASSUME NEW v \in User, CallEnd(v)
      PROVE  /\ ~Accompanies(d, u) /\ Accompanies(d, u)' => ustatus[u] # "matched"
             /\ Accompanies(d, u) /\ ~Accompanies(d, u)' => ustatus'[u] = "absent"
  <2> DEFINE back == Returning(v)
             ds == [e \in Drone |-> IF e \in back THEN "patrol" ELSE dstatus[e]]
             tg == [e \in Drone |-> IF e \in back THEN NoUser ELSE target[e]]
  <2>1. PICK g \in (IF back = {} THEN {<< >>} ELSE Assignments(ustatus, ds, earlier)) :
          /\ ustatus' = [UsersAfter(g, ustatus) EXCEPT ![v] = "absent"]
          /\ dstatus' = DronesAfter(g, ds)
          /\ target' = TargetsAfter(g, tg)
      BY <1>4 DEF CallEnd
  <2>2. Accompanies(d, u)' <=> TargetsAfter(g, tg)[d] = u /\ DronesAfter(g, ds)[d] = "accompany"
      BY <2>1 DEF Accompanies
  <2>3. tg[d] = u /\ ds[d] = "accompany" <=> d \notin back /\ Accompanies(d, u)
      BY NoUserAssumption DEF Accompanies
  <2>4. ustatus'[v] = "absent"
      BY <2>1 DEF UsersAfter
  <2>5. d \in back => target[d] = v
      BY DEF Returning
  <2> HIDE DEF ds, tg, back
  <2>6. CASE back = {}
    <3>1. DOMAIN g = {}
        BY <2>1, <2>6
    <3>2. Accompanies(d, u)' <=> tg[d] = u /\ ds[d] = "accompany"
        BY <2>2, <3>1 DEF TargetsAfter, DronesAfter
    <3> QED
        BY <2>3, <2>6, <3>2
  <2>7. CASE back # {}
    <3>1. g \in Assignments(ustatus, ds, earlier)
        BY <2>1, <2>7
    <3>2. /\ tg[d] = u /\ ds[d] = "accompany" => Accompanies(d, u)'
          /\ Accompanies(d, u)' => (tg[d] = u /\ ds[d] = "accompany") \/ ustatus[u] = "unmatched"
        BY <2>2, <3>1, AssignmentSteady
    <3> QED
        BY <2>3, <2>4, <2>5, <3>2 DEF Accompanies
  <2> QED
      BY <2>6, <2>7
<1>5. CASE RemoveDisconnectedDrone
    BY <1>5, NoUserAssumption DEF RemoveDisconnectedDrone, LosesCallerOf, Accompanies
<1>6. CASE Restart
    BY <1>6 DEF Restart, Accompanies
<1>7. CASE UNCHANGED <<dstatus, target>>
    BY <1>7 DEF Accompanies
<1>8. ASSUME NEW e \in Drone, DroneGps(e) \/ GpsAges(e) PROVE UNCHANGED <<dstatus, target>>
    BY <1>8 DEF DroneGps, GpsAges
<1> QED
    BY <1>1, <1>2, <1>3, <1>4, <1>5, <1>6, <1>7, <1>8 DEF Next, vars

\* A caller keeps its drone until its call ends or the drone is taken by the
\* board or the timeout, and gets no other.
THEOREM CallsSteady == Spec => OneDronePerCall
<1>1. TypeOK /\ [Next]_vars => [CallsKept]_vars
    BY NextKeepsCalls
<1> QED
    BY <1>1, TypeCorrect, PTL DEF Spec, OneDronePerCall
=============================================================================
