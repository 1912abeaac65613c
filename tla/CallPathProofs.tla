---------------------------- MODULE CallPathProofs ----------------------------
(***************************************************************************)
(* Proofs about CallPath, for any number of callers, drones and messages.  *)
(*                                                                         *)
(* The composition implements Dispatch: pages, queues and faults only say  *)
(* when a handler runs, so what DispatchProofs proves holds here as well.  *)
(*                                                                         *)
(* BoardKnown speaks of the moments when every message has arrived.  What  *)
(* is inductive speaks of all: whoever the board shows once it has read    *)
(* its queue is known to the dispatcher, or will be when it has read its   *)
(* own, or is named by a removal on its way (Accounted).                   *)
(***************************************************************************)
EXTENDS CallPath, DispatchProofs, FiniteSetTheorems, SequenceTheorems

Entry == [about : Id, gone : BOOLEAN]

\* The handlers that tell pages and board nothing.
Handler(d) == OnHello(d) \/ OnPatrol(d) \/ FallsSilent(d)

CallTypeOK ==
    /\ calling \subseteq User /\ locating \subseteq User /\ ending \subseteq User
    /\ inbox \in Seq(Id) /\ removals \in Seq(Id) /\ feed \in Seq(Entry)
    /\ board \subseteq Id /\ unended \subseteq User /\ missed \subseteq Id

\* Of a board that shows b and has the messages f to read: the last message
\* about x shows it, or x is shown and there is none.
Shows(x, b, f) ==
    \/ \E i \in DOMAIN f : f[i] = Shown(x) /\ \A j \in DOMAIN f : j > i => f[j].about # x
    \/ x \in b /\ \A i \in DOMAIN f : f[i].about # x

WillShow(x) == Shows(x, board, feed)

In(x, s) == \E i \in DOMAIN s : s[i] = x

Accounted ==
    \A x \in Id \ missed : WillShow(x) => Known(x) \/ In(x, inbox) \/ In(x, removals)

CallInv == CallTypeOK /\ TerminatedCallEnds /\ Accounted

-----------------------------------------------------------------------------
(* The composition implements Dispatch.                                    *)

LEMMA StepIsDispatch == [CallNext]_callVars => [Next]_vars
<1> SUFFICES ASSUME [CallNext]_callVars PROVE Next \/ UNCHANGED vars
    OBVIOUS
<1>1. ASSUME NEW u \in User, Page(u) PROVE UNCHANGED vars
    BY <1>1 DEF Page, Call, Locate, Publish, LocateFails, Mount, HangUp, Leave
<1>2. ASSUME NEW u \in User, OnPosition(u) PROVE Next \/ UNCHANGED vars
    BY <1>2 DEF OnPosition, Next
<1>3. ASSUME NEW u \in User, EndCall(u) PROVE Next
    BY <1>3 DEF EndCall, Next
<1>4. ASSUME NEW d \in Drone, OnGps(d) PROVE Next
    BY <1>4 DEF OnGps, Next
<1>5. ASSUME NEW d \in Drone, Notify(d) PROVE UNCHANGED vars
    BY <1>5 DEF Notify
<1>6. CASE RemoveSilent
    BY <1>6 DEF RemoveSilent, Next
<1>7. ASSUME NEW d \in Drone, Handler(d) PROVE Next
    BY <1>7 DEF Handler, OnHello, OnPatrol, FallsSilent, Next
<1>8. CASE ServerRestart
    BY <1>8 DEF ServerRestart, Next
<1>9. CASE RemovalSent \/ OnFeed \/ Disconnect \/ BoardOpens
    BY <1>9 DEF RemovalSent, OnFeed, Disconnect, BoardOpens
<1>10. CASE UNCHANGED callVars
    BY <1>10 DEF callVars
<1> QED
    BY <1>1, <1>2, <1>3, <1>4, <1>5, <1>6, <1>7, <1>8, <1>9, <1>10 DEF CallNext, Handler

\* Pages, queues, lost messages and restarts show the dispatcher nothing that
\* Dispatch does not allow: every invariant of Dispatch holds here.
THEOREM ImplementsDispatch == CallSpec => Spec
<1>1. CallInit => Init
    BY DEF CallInit
<1> QED
    BY <1>1, StepIsDispatch, PTL DEF CallSpec, Spec

-----------------------------------------------------------------------------
(* Whom the handlers of Dispatch register and forget.                      *)

LEMMA SettlePresence ==
    ASSUME NEW us \in [User -> UserStatus], NEW ds, NEW tg, NEW order, Settle(us, ds, tg, order)
    PROVE  \A v \in User : ustatus'[v] = "absent" <=> us[v] = "absent"
<1>1. PICK g \in Assignments(us, ds, order) : ustatus' = UsersAfter(g, us)
    BY DEF Settle
<1>2. \A d \in DOMAIN g : g[d] \in User /\ us[g[d]] = "unmatched"
    BY AssignmentFacts
<1> QED
    BY <1>1, <1>2 DEF UsersAfter

LEMMA UserGpsPresence ==
    ASSUME TypeOK, NEW u \in User, UserGps(u)
    PROVE  /\ \A v \in User : ustatus'[v] # "absent" <=> v = u \/ ustatus[v] # "absent"
           /\ gps' = gps
<1> DEFINE us == [ustatus EXCEPT ![u] = "unmatched"]
<1>1. us \in [User -> UserStatus]
    BY DEF TypeOK, UserStatus
<1>2. Settle(us, dstatus, target, earlier') /\ gps' = gps
    BY DEF UserGps
<1>3. \A v \in User : us[v] = IF v = u THEN "unmatched" ELSE ustatus[v]
    BY DEF TypeOK
<1> HIDE DEF us
<1>4. \A v \in User : ustatus'[v] = "absent" <=> us[v] = "absent"
    BY <1>1, <1>2, SettlePresence
<1> QED
    BY <1>2, <1>3, <1>4

LEMMA CallEndPresence ==
    ASSUME TypeOK, NEW u \in User, CallEnd(u)
    PROVE  /\ \A v \in User : ustatus'[v] # "absent" <=> v # u /\ ustatus[v] # "absent"
           /\ gps' = gps
<1> DEFINE back == Returning(u)
           ds == [d \in Drone |-> IF d \in back THEN "patrol" ELSE dstatus[d]]
<1>1. PICK g \in (IF back = {} THEN {<< >>} ELSE Assignments(ustatus, ds, earlier)) :
        ustatus' = [UsersAfter(g, ustatus) EXCEPT ![u] = "absent"] /\ gps' = gps
    BY DEF CallEnd
<1>2. \A d \in DOMAIN g : g[d] \in User /\ ustatus[g[d]] = "unmatched"
  <2>1. CASE back = {}
    <3>1. g = << >>
        BY <1>1, <2>1
    <3>2. DOMAIN g = {}
        BY <3>1
    <3> QED
        BY <3>2
  <2>2. CASE back # {}
    <3>1. g \in Assignments(ustatus, ds, earlier)
        BY <1>1, <2>2
    <3> HIDE DEF ds, back
    <3> QED
        BY <3>1, AssignmentFacts
  <2> QED
      BY <2>1, <2>2
<1>3. UsersAfter(g, ustatus) = [v \in User |-> IF \E d \in DOMAIN g : g[d] = v THEN "matched" ELSE ustatus[v]]
    BY DEF UsersAfter
<1> HIDE DEF ds, back
<1>4. \A v \in User : UsersAfter(g, ustatus)[v] = "absent" <=> ustatus[v] = "absent"
    BY <1>2, <1>3
<1>5. \A v \in User : ustatus'[v] = IF v = u THEN "absent" ELSE UsersAfter(g, ustatus)[v]
    BY <1>1, <1>3
<1> QED
    BY <1>1, <1>4, <1>5

\* Notifications, the patrol route and the age of positions make nobody known
\* or unknown.
LEMMA HandlerPresence ==
    ASSUME TypeOK, NEW d \in Drone, DroneHello(d) \/ PatrolRoute(d) \/ GpsAges(d)
    PROVE  /\ \A v \in User : ustatus'[v] # "absent" <=> ustatus[v] # "absent"
           /\ \A e \in Drone : gps'[e] # "none" <=> gps[e] # "none"
<1>1. CASE DroneHello(d)
    BY <1>1 DEF DroneHello
<1>2. CASE PatrolRoute(d)
  <2>1. Settle(ustatus, [dstatus EXCEPT ![d] = "patrol"], target, earlier) /\ gps' = gps
      BY <1>2 DEF PatrolRoute
  <2>2. ustatus \in [User -> UserStatus]
      BY DEF TypeOK
  <2> QED
      BY <2>1, <2>2, SettlePresence
<1>3. CASE GpsAges(d)
    BY <1>3 DEF GpsAges, TypeOK
<1> QED
    BY <1>1, <1>2, <1>3

LEMMA RemoveSilentPresence ==
    ASSUME TypeOK, removals \in Seq(Id), RemoveSilent
    PROVE  /\ ustatus' = ustatus
           /\ removals' \in Seq(Id)
           /\ \A d \in Drone : gps[d] # "none" => gps'[d] # "none" \/ In(d, removals')
           /\ \A x : In(x, removals) => In(x, removals')
<1> DEFINE gone == {d \in Drone : gps[d] = "old"}
           n == Cardinality(gone)
           m == Len(removals)
<1>1. n \in Nat
  <2>1. gone \in SUBSET Drone /\ IsFiniteSet(Drone)
      BY CallPathAssumption
  <2>2. IsFiniteSet(gone)
      BY <2>1, FS_Subset
  <2> QED
      BY <2>2, FS_CardinalityType
<1>2. PICK s \in [1..n -> gone] :
        (\A d \in gone : \E i \in DOMAIN s : s[i] = d) /\ removals' = removals \o s
    BY DEF RemoveSilent
<1>3. ustatus' = ustatus /\ gps' = [d \in Drone |-> IF d \in gone THEN "none" ELSE gps[d]]
    BY DEF RemoveSilent, RemoveDisconnectedDrone
<1>4. \A d \in gone : d \in Id
    BY DEF Id
<1> HIDE DEF gone, n
<1>5. s \in Seq(Id) /\ Len(s) = n /\ DOMAIN s = 1..n
    BY <1>1, <1>2, <1>4
<1>6. /\ removals' \in Seq(Id) /\ m \in Nat /\ DOMAIN removals = 1..m
      /\ DOMAIN removals' = 1..(m + n)
      /\ \A i \in 1..(m + n) : removals'[i] = IF i <= m THEN removals[i] ELSE s[i - m]
  <2>1. /\ removals \o s \in Seq(Id) /\ Len(removals \o s) = m + n
        /\ \A i \in 1..(m + n) : (removals \o s)[i] = IF i <= m THEN removals[i] ELSE s[i - m]
      BY <1>5, ConcatProperties, Zenon
  <2>2. m \in Nat /\ DOMAIN removals = 1..m
      OBVIOUS
  <2>3. removals' = removals \o s
      BY <1>2
  <2> QED
      BY <2>1, <2>2, <2>3
<1>7. ASSUME NEW x, In(x, removals) PROVE In(x, removals')
  <2>1. PICK i \in 1..m : removals[i] = x
      BY <1>6, <1>7 DEF In
  <2>2. i \in 1..(m + n) /\ removals'[i] = x
      BY <1>1, <1>6, <2>1
  <2> QED
      BY <1>6, <2>2 DEF In
<1>8. ASSUME NEW d \in gone PROVE In(d, removals')
  <2>1. PICK i \in 1..n : s[i] = d
      BY <1>2, <1>5
  <2>2. m + i \in 1..(m + n) /\ removals'[m + i] = s[i]
      BY <1>1, <1>6
  <2> QED
      BY <1>6, <2>1, <2>2 DEF In
<1>9. \A d \in Drone : gps[d] # "none" => gps'[d] # "none" \/ In(d, removals')
    BY <1>3, <1>8
<1> QED
    BY <1>3, <1>6, <1>7, <1>9

-----------------------------------------------------------------------------
(* What the board will show.                                               *)

LEMMA ShowsAppend ==
    ASSUME NEW x \in Id, NEW b, NEW f \in Seq(Entry), NEW e \in Entry, Shows(x, b, Append(f, e))
    PROVE  e = Shown(x) \/ (e.about # x /\ Shows(x, b, f))
<1> DEFINE g == Append(f, e)
           n == Len(f)
<1>1. /\ n \in Nat /\ DOMAIN f = 1..n /\ DOMAIN g = 1..(n + 1)
      /\ g[n + 1] = e /\ \A i \in 1..n : g[i] = f[i]
    OBVIOUS
<1> HIDE DEF g, n
<1>2. CASE \E i \in DOMAIN g : g[i] = Shown(x) /\ \A j \in DOMAIN g : j > i => g[j].about # x
  <2>1. PICK i \in DOMAIN g : g[i] = Shown(x) /\ \A j \in DOMAIN g : j > i => g[j].about # x
      BY <1>2
  <2>2. CASE i = n + 1
      BY <1>1, <2>1, <2>2
  <2>3. CASE i # n + 1
    <3>1. i \in 1..n /\ n + 1 > i
        BY <1>1, <2>1, <2>3
    <3>2. e.about # x
        BY <1>1, <2>1, <3>1
    <3>3. \A j \in DOMAIN f : j > i => f[j].about # x
        BY <1>1, <2>1
    <3>4. f[i] = Shown(x) /\ i \in DOMAIN f
        BY <1>1, <2>1, <3>1
    <3> QED
        BY <3>2, <3>3, <3>4 DEF Shows
  <2> QED
      BY <2>2, <2>3
<1>3. CASE x \in b /\ \A i \in DOMAIN g : g[i].about # x
  <2>1. e.about # x
      BY <1>1, <1>3
  <2>2. \A i \in DOMAIN f : f[i].about # x
      BY <1>1, <1>3
  <2> QED
      BY <1>3, <2>1, <2>2 DEF Shows
<1> QED
    BY <1>2, <1>3 DEF Shows, g

LEMMA ShowsTail ==
    ASSUME NEW x \in Id, NEW b, NEW f \in Seq(Entry), f # << >>,
           Shows(x, IF Head(f).gone THEN b \ {Head(f).about} ELSE b \cup {Head(f).about}, Tail(f))
    PROVE  Shows(x, b, f)
<1> DEFINE t == Tail(f)
           n == Len(f)
           c == IF Head(f).gone THEN b \ {Head(f).about} ELSE b \cup {Head(f).about}
<1>1. /\ n \in Nat \ {0} /\ DOMAIN f = 1..n /\ DOMAIN t = 1..(n - 1)
      /\ Head(f) = f[1] /\ \A i \in 1..(n - 1) : t[i] = f[i + 1]
    OBVIOUS
<1>2. f[1] \in Entry
    BY <1>1
<1>3. c = IF f[1].gone THEN b \ {f[1].about} ELSE b \cup {f[1].about}
    BY <1>1
<1> HIDE DEF t, n, c
<1>4. CASE \E i \in DOMAIN t : t[i] = Shown(x) /\ \A j \in DOMAIN t : j > i => t[j].about # x
  <2>1. PICK i \in DOMAIN t : t[i] = Shown(x) /\ \A j \in DOMAIN t : j > i => t[j].about # x
      BY <1>4
  <2>2. i + 1 \in DOMAIN f /\ f[i + 1] = Shown(x)
      BY <1>1, <2>1
  <2>3. ASSUME NEW j \in DOMAIN f, j > i + 1 PROVE f[j].about # x
    <3>1. j - 1 \in DOMAIN t /\ j - 1 > i /\ t[j - 1] = f[j]
        BY <1>1, <2>1, <2>3
    <3> QED
        BY <2>1, <3>1
  <2> QED
      BY <2>2, <2>3 DEF Shows
<1>5. CASE x \in c /\ \A i \in DOMAIN t : t[i].about # x
  <2>1. ASSUME NEW j \in DOMAIN f, j > 1 PROVE f[j].about # x
    <3>1. j - 1 \in DOMAIN t /\ t[j - 1] = f[j]
        BY <1>1, <2>1
    <3> QED
        BY <1>5, <3>1
  <2>2. CASE f[1].about = x
    <3>1. f[1] = Shown(x)
        BY <1>2, <1>3, <1>5, <2>2 DEF Entry, Shown
    <3> QED
        BY <1>1, <2>1, <3>1 DEF Shows
  <2>3. CASE f[1].about # x
    <3>1. x \in b
        BY <1>3, <1>5, <2>3
    <3>2. \A j \in DOMAIN f : f[j].about # x
        BY <1>1, <2>1, <2>3
    <3> QED
        BY <3>1, <3>2 DEF Shows
  <2> QED
      BY <2>2, <2>3
<1> QED
    BY <1>4, <1>5 DEF Shows, t, c

LEMMA ShowsEmpty ==
    ASSUME NEW x \in Id, NEW b
    PROVE  Shows(x, b, << >>) <=> x \in b
<1>1. DOMAIN << >> = {}
    OBVIOUS
<1> QED
    BY <1>1 DEF Shows

\* Whoever the board will show is pictured.
LEMMA ShownIsPictured ==
    ASSUME NEW x \in Id, WillShow(x)
    PROVE  x \in Pictured
    BY DEF WillShow, Shows, Pictured, Shown

-----------------------------------------------------------------------------
(* Queues.                                                                 *)

LEMMA InAppend ==
    ASSUME NEW S, NEW s \in Seq(S), NEW y \in S
    PROVE  In(y, Append(s, y)) /\ \A x : In(x, s) => In(x, Append(s, y))
<1>1. /\ DOMAIN s = 1..Len(s) /\ DOMAIN Append(s, y) = 1..(Len(s) + 1) /\ Len(s) \in Nat
      /\ Append(s, y)[Len(s) + 1] = y /\ \A i \in 1..Len(s) : Append(s, y)[i] = s[i]
    OBVIOUS
<1> QED
    BY <1>1 DEF In

LEMMA InTail ==
    ASSUME NEW S, NEW s \in Seq(S), s # << >>, NEW x, In(x, s)
    PROVE  x = Head(s) \/ In(x, Tail(s))
<1>1. /\ DOMAIN s = 1..Len(s) /\ DOMAIN Tail(s) = 1..(Len(s) - 1) /\ Len(s) \in Nat
      /\ Head(s) = s[1] /\ \A i \in 1..(Len(s) - 1) : Tail(s)[i] = s[i + 1]
    OBVIOUS
<1>2. PICK i \in DOMAIN s : s[i] = x
    BY DEF In
<1>3. CASE i = 1
    BY <1>1, <1>2, <1>3
<1>4. CASE i # 1
  <2>1. i - 1 \in DOMAIN Tail(s) /\ Tail(s)[i - 1] = x
      BY <1>1, <1>2, <1>4
  <2> QED
      BY <2>1 DEF In
<1> QED
    BY <1>3, <1>4

-----------------------------------------------------------------------------
(* The steps, on an invariant that the types of Dispatch complete.         *)

\* A step that leaves the dispatcher, the queues and the board alone.
LEMMA PageKeeps ==
    ASSUME CallInv, NEW u \in User,
           Call(u) \/ Locate(u) \/ LocateFails(u) \/ Mount(u) \/ HangUp(u) \/ Leave(u)
    PROVE  CallInv'
<1> USE DEF CallInv
<1>1. UNCHANGED <<vars, inbox, removals, boardVars>>
    BY DEF Call, Locate, LocateFails, Mount, HangUp, Leave
<1>2. CallTypeOK'
    BY <1>1 DEF CallTypeOK, Call, Locate, LocateFails, Mount, HangUp, Leave, boardVars
<1>3. TerminatedCallEnds'
    BY <1>1 DEF TerminatedCallEnds, Call, Locate, LocateFails, Mount, HangUp, Leave, vars
<1>4. Accounted'
    BY <1>1 DEF Accounted, WillShow, Known, In, vars, boardVars
<1> QED
    BY <1>2, <1>3, <1>4

\* A message that both the dispatcher and the board will get.
LEMMA BroadcastKeeps ==
    ASSUME CallTypeOK, Accounted, NEW x \in Id, Broadcast(x), UNCHANGED <<vars, removals, board>>
    PROVE  inbox' \in Seq(Id) /\ feed' \in Seq(Entry) /\ missed' \subseteq Id /\ Accounted'
<1>1. /\ inbox' = Append(inbox, x) /\ feed' = Append(feed, Shown(x)) /\ missed' = missed \ {x}
      /\ removals' = removals /\ board' = board /\ ustatus' = ustatus /\ gps' = gps
    BY DEF Broadcast, vars
<1>2. inbox \in Seq(Id) /\ feed \in Seq(Entry) /\ missed \subseteq Id /\ Shown(x) \in Entry
    BY DEF CallTypeOK, Entry, Shown
<1>3. inbox' \in Seq(Id) /\ feed' \in Seq(Entry) /\ missed' \subseteq Id
    BY <1>1, <1>2
<1>4. ASSUME NEW y \in Id \ missed', WillShow(y)'
      PROVE  Known(y)' \/ In(y, inbox') \/ In(y, removals')
  <2>1. CASE y = x
      BY <1>1, <1>2, <2>1, InAppend
  <2>2. CASE y # x
    <3>1. Shows(y, board, Append(feed, Shown(x)))
        BY <1>1, <1>4 DEF WillShow
    <3>2. Shown(x) # Shown(y)
        BY <2>2 DEF Shown
    <3>3. Shows(y, board, feed)
        BY <1>2, <3>1, <3>2, ShowsAppend
    <3>4. Known(y) \/ In(y, inbox) \/ In(y, removals)
        BY <1>1, <2>2, <3>3 DEF Accounted, WillShow
    <3>5. Known(y)' = Known(y)
        BY <1>1 DEF Known
    <3>6. In(y, inbox) => In(y, inbox')
        BY <1>1, <1>2, InAppend
    <3> QED
        BY <1>1, <3>4, <3>5, <3>6
  <2> QED
      BY <2>1, <2>2
<1> QED
    BY <1>3, <1>4 DEF Accounted

LEMMA PublishKeeps ==
    ASSUME CallInv, NEW u \in User, Publish(u)
    PROVE  CallInv'
<1>1. Broadcast(u) /\ UNCHANGED <<vars, calling, ending, removals, board, unended>>
      /\ locating' = locating \ {u}
    BY DEF Publish
<1>2. u \in Id
    BY DEF Id
<1>3. inbox' \in Seq(Id) /\ feed' \in Seq(Entry) /\ missed' \subseteq Id /\ Accounted'
    BY <1>1, <1>2, BroadcastKeeps DEF CallInv
<1>4. CallTypeOK'
    BY <1>1, <1>3 DEF CallInv, CallTypeOK
<1>5. TerminatedCallEnds'
    BY <1>1 DEF CallInv, TerminatedCallEnds, vars
<1> QED
    BY <1>3, <1>4, <1>5 DEF CallInv

LEMMA NotifyKeeps ==
    ASSUME CallInv, NEW d \in Drone, Notify(d)
    PROVE  CallInv'
<1>1. Broadcast(d) /\ UNCHANGED <<vars, pageVars, removals, board, unended>>
    BY DEF Notify
<1>2. d \in Id
    BY DEF Id
<1>3. inbox' \in Seq(Id) /\ feed' \in Seq(Entry) /\ missed' \subseteq Id /\ Accounted'
    BY <1>1, <1>2, BroadcastKeeps DEF CallInv
<1>4. CallTypeOK'
    BY <1>1, <1>3 DEF CallInv, CallTypeOK, pageVars
<1>5. TerminatedCallEnds'
    BY <1>1 DEF CallInv, TerminatedCallEnds, vars, pageVars
<1> QED
    BY <1>3, <1>4, <1>5 DEF CallInv

\* A step that takes x off the inbox, and after which it is known.
LEMMA DeliveryAccounted ==
    ASSUME NEW x \in Id, CallTypeOK, Accounted, inbox # << >>, Head(inbox) = x,
           inbox' = Tail(inbox), UNCHANGED <<removals, boardVars>>, Known(x)',
           \A y \in Id : Known(y) => Known(y)'
    PROVE  inbox' \in Seq(Id) /\ Accounted'
<1>1. inbox \in Seq(Id)
    BY DEF CallTypeOK
<1>2. \A y \in Id : In(y, inbox) => y = x \/ In(y, inbox')
    BY <1>1, InTail
<1>3. \A y : WillShow(y)' = WillShow(y)
    BY DEF WillShow, boardVars
<1>4. missed' = missed /\ removals' = removals
    BY DEF boardVars
<1>5. ASSUME NEW y \in Id \ missed', WillShow(y)'
      PROVE  Known(y)' \/ In(y, inbox') \/ In(y, removals')
    BY <1>2, <1>3, <1>4, <1>5 DEF Accounted
<1> QED
    BY <1>1, <1>5 DEF Accounted

LEMMA OnPositionKeeps ==
    ASSUME TypeOK, CallInv, NEW u \in User, OnPosition(u)
    PROVE  CallInv'
<1>1. /\ inbox # << >> /\ Head(inbox) = u /\ inbox' = Tail(inbox)
      /\ UNCHANGED <<pageVars, removals, boardVars>>
      /\ unended' = IF u \in calling \cup ending THEN unended ELSE unended \cup {u}
    BY DEF OnPosition
<1>2. (\A v \in User : ustatus'[v] # "absent" <=> v = u \/ ustatus[v] # "absent") /\ gps' = gps
  <2>1. CASE ustatus[u] = "absent"
      BY <2>1, UserGpsPresence DEF OnPosition
  <2>2. CASE ustatus[u] # "absent"
      BY <2>2 DEF OnPosition, vars
  <2> QED
      BY <2>1, <2>2
<1>3. u \in Id /\ Known(u)' /\ \A y \in Id : Known(y) => Known(y)'
    BY <1>2 DEF Id, Known
<1>4. inbox' \in Seq(Id) /\ Accounted'
    BY <1>1, <1>3, DeliveryAccounted DEF CallInv
<1>5. CallTypeOK'
    BY <1>1, <1>4 DEF CallInv, CallTypeOK, pageVars, boardVars
<1>6. TerminatedCallEnds'
    BY <1>1, <1>2 DEF CallInv, TerminatedCallEnds, pageVars
<1> QED
    BY <1>4, <1>5, <1>6 DEF CallInv

LEMMA OnGpsKeeps ==
    ASSUME TypeOK, CallInv, NEW d \in Drone, OnGps(d)
    PROVE  CallInv'
<1>1. /\ inbox # << >> /\ Head(inbox) = d /\ inbox' = Tail(inbox)
      /\ UNCHANGED <<pageVars, removals, boardVars, unended>>
    BY DEF OnGps
<1>2. ustatus' = ustatus /\ gps' = [gps EXCEPT ![d] = "fresh"]
    BY DEF OnGps, DroneGps
<1>3. d \in Id /\ Known(d)' /\ \A y \in Id : Known(y) => Known(y)'
    BY <1>2, CallPathAssumption DEF Id, Known, TypeOK
<1>4. inbox' \in Seq(Id) /\ Accounted'
    BY <1>1, <1>3, DeliveryAccounted DEF CallInv
<1>5. CallTypeOK'
    BY <1>1, <1>4 DEF CallInv, CallTypeOK, pageVars, boardVars
<1>6. TerminatedCallEnds'
    BY <1>1, <1>2 DEF CallInv, TerminatedCallEnds, pageVars
<1> QED
    BY <1>4, <1>5, <1>6 DEF CallInv

LEMMA EndCallKeeps ==
    ASSUME TypeOK, CallInv, NEW u \in User, EndCall(u)
    PROVE  CallInv'
<1>1. /\ ending' = ending \ {u} /\ unended' = unended \ {u} /\ removals' = Append(removals, u)
      /\ UNCHANGED <<calling, locating, inbox, boardVars>>
    BY DEF EndCall
<1>2. (\A v \in User : ustatus'[v] # "absent" <=> v # u /\ ustatus[v] # "absent") /\ gps' = gps
    BY CallEndPresence DEF EndCall
<1>3. removals \in Seq(Id) /\ u \in Id
    BY DEF CallInv, CallTypeOK, Id
<1>4. CallTypeOK'
  <2>1. removals' \in Seq(Id)
      BY <1>1, <1>3
  <2> QED
      BY <1>1, <2>1 DEF CallInv, CallTypeOK, boardVars
<1>5. TerminatedCallEnds'
    BY <1>1, <1>2 DEF CallInv, TerminatedCallEnds
<1>6. ASSUME NEW y \in Id \ missed', WillShow(y)'
      PROVE  Known(y)' \/ In(y, inbox') \/ In(y, removals')
  <2>1. Known(y) \/ In(y, inbox) \/ In(y, removals)
      BY <1>1, <1>6 DEF CallInv, Accounted, WillShow, boardVars
  <2>2. Known(y) => y = u \/ Known(y)'
      BY <1>2 DEF Known
  <2>3. In(u, removals') /\ (In(y, removals) => In(y, removals'))
      BY <1>1, <1>3, InAppend
  <2> QED
      BY <1>1, <2>1, <2>2, <2>3
<1> QED
    BY <1>4, <1>5, <1>6 DEF CallInv, Accounted

LEMMA RemoveSilentKeeps ==
    ASSUME TypeOK, CallInv, RemoveSilent
    PROVE  CallInv'
<1>1. UNCHANGED <<pageVars, inbox, boardVars, unended>>
    BY DEF RemoveSilent
<1>2. removals \in Seq(Id)
    BY DEF CallInv, CallTypeOK
<1>3. /\ ustatus' = ustatus /\ removals' \in Seq(Id)
      /\ \A d \in Drone : gps[d] # "none" => gps'[d] # "none" \/ In(d, removals')
      /\ \A x : In(x, removals) => In(x, removals')
    BY <1>2, RemoveSilentPresence
<1>4. CallTypeOK'
    BY <1>1, <1>3 DEF CallInv, CallTypeOK, pageVars, boardVars
<1>5. TerminatedCallEnds'
    BY <1>1, <1>3 DEF CallInv, TerminatedCallEnds, pageVars
<1>6. ASSUME NEW y \in Id \ missed', WillShow(y)'
      PROVE  Known(y)' \/ In(y, inbox') \/ In(y, removals')
  <2>1. Known(y) \/ In(y, inbox) \/ In(y, removals)
      BY <1>1, <1>6 DEF CallInv, Accounted, WillShow, boardVars
  <2>2. Known(y) => Known(y)' \/ In(y, removals')
      BY <1>3 DEF Known, Id
  <2> QED
      BY <1>1, <1>3, <2>1, <2>2
<1> QED
    BY <1>4, <1>5, <1>6 DEF CallInv, Accounted

LEMMA HandlerKeeps ==
    ASSUME TypeOK, CallInv, NEW d \in Drone, Handler(d)
    PROVE  CallInv'
<1>1. UNCHANGED <<pageVars, inbox, removals, boardVars, unended>>
    BY DEF Handler, OnHello, OnPatrol, FallsSilent
<1>2. /\ \A v \in User : ustatus'[v] # "absent" <=> ustatus[v] # "absent"
      /\ \A e \in Drone : gps'[e] # "none" <=> gps[e] # "none"
  <2>1. DroneHello(d) \/ PatrolRoute(d) \/ GpsAges(d)
      BY DEF Handler, OnHello, OnPatrol, FallsSilent
  <2> QED
      BY <2>1, HandlerPresence
<1>3. CallTypeOK'
    BY <1>1 DEF CallInv, CallTypeOK, pageVars, boardVars
<1>4. TerminatedCallEnds'
    BY <1>1, <1>2 DEF CallInv, TerminatedCallEnds, pageVars
<1>5. \A y \in Id : (Known(y)' <=> Known(y)) /\ (WillShow(y)' <=> WillShow(y))
    BY <1>1, <1>2 DEF Known, Id, WillShow, boardVars
<1>6. Accounted'
    BY <1>1, <1>5 DEF CallInv, Accounted, boardVars
<1> QED
    BY <1>3, <1>4, <1>6 DEF CallInv

LEMMA PicturedType ==
    ASSUME CallTypeOK
    PROVE  Pictured \subseteq Id
<1>1. feed \in Seq(Entry) /\ board \subseteq Id
    BY DEF CallTypeOK
<1>2. \A i \in DOMAIN feed : feed[i] \in Entry
    BY <1>1
<1>3. \A e \in Entry : e.about \in Id
    BY DEF Entry
<1> QED
    BY <1>1, <1>2, <1>3 DEF Pictured

LEMMA ServerRestartKeeps ==
    ASSUME CallInv, ServerRestart
    PROVE  CallInv'
<1>1. /\ ending' = {} /\ inbox' = << >> /\ removals' = << >> /\ unended' = {}
      /\ missed' = missed \cup Pictured /\ UNCHANGED <<calling, locating, feed, board>>
    BY DEF ServerRestart
<1>2. CallTypeOK'
  <2>1. Pictured \subseteq Id
      BY PicturedType DEF CallInv
  <2> QED
      BY <1>1, <2>1 DEF CallInv, CallTypeOK
<1>3. TerminatedCallEnds'
    BY DEF TerminatedCallEnds, ServerRestart, Restart
<1>4. \A y \in Id \ missed' : ~ WillShow(y)'
  <2>1. \A y \in Id : WillShow(y) => y \in Pictured
      BY ShownIsPictured
  <2> QED
      BY <1>1, <2>1 DEF WillShow
<1> QED
    BY <1>2, <1>3, <1>4 DEF CallInv, Accounted

LEMMA RemovalSentKeeps ==
    ASSUME CallInv, RemovalSent
    PROVE  CallInv'
<1> DEFINE h == Head(removals)
<1>1. /\ removals # << >> /\ removals' = Tail(removals) /\ feed' = Append(feed, Gone(h))
      /\ missed' = missed \ {h} /\ UNCHANGED <<vars, pageVars, inbox, board, unended>>
    BY DEF RemovalSent
<1>2. removals \in Seq(Id) /\ feed \in Seq(Entry) /\ missed \subseteq Id
    BY DEF CallInv, CallTypeOK
<1>3. h \in Id /\ Gone(h) \in Entry
    BY <1>1, <1>2 DEF Entry, Gone
<1>4. \A y \in Id : In(y, removals) => y = h \/ In(y, removals')
    BY <1>1, <1>2, InTail
<1> HIDE DEF h
<1>5. CallTypeOK'
  <2>1. removals' \in Seq(Id) /\ feed' \in Seq(Entry)
      BY <1>1, <1>2, <1>3
  <2> QED
      BY <1>1, <2>1 DEF CallInv, CallTypeOK, pageVars
<1>6. TerminatedCallEnds'
    BY <1>1 DEF CallInv, TerminatedCallEnds, pageVars, vars
<1>7. ASSUME NEW y \in Id \ missed', WillShow(y)'
      PROVE  Known(y)' \/ In(y, inbox') \/ In(y, removals')
  <2>1. Shows(y, board, Append(feed, Gone(h)))
      BY <1>1, <1>7 DEF WillShow
  <2>2. Gone(h) # Shown(y)
      BY DEF Gone, Shown
  <2>3. y # h /\ Shows(y, board, feed)
    <3>1. Gone(h).about = h
        BY DEF Gone
    <3>2. Gone(h).about # y /\ Shows(y, board, feed)
        BY <1>2, <1>3, <2>1, <2>2, ShowsAppend
    <3> QED
        BY <3>1, <3>2
  <2>4. Known(y) \/ In(y, inbox) \/ In(y, removals)
      BY <1>1, <2>3 DEF CallInv, Accounted, WillShow
  <2>5. Known(y)' = Known(y)
      BY <1>1 DEF Known, vars
  <2> QED
      BY <1>1, <1>4, <2>3, <2>4, <2>5
<1> QED
    BY <1>5, <1>6, <1>7 DEF CallInv, Accounted

\* A step of the board and its broker after which it will show nobody new.
LEMMA FeedAccounted ==
    ASSUME Accounted, UNCHANGED <<vars, inbox, removals>>, missed \subseteq missed',
           \A y \in Id \ missed' : WillShow(y)' => WillShow(y)
    PROVE  Accounted'
<1>1. \A y \in Id : Known(y)' = Known(y)
    BY DEF Known, vars
<1> QED
    BY <1>1 DEF Accounted

LEMMA OnFeedKeeps ==
    ASSUME CallInv, OnFeed
    PROVE  CallInv'
<1> DEFINE m == Head(feed)
<1>1. /\ feed # << >> /\ feed' = Tail(feed)
      /\ board' = IF m.gone THEN board \ {m.about} ELSE board \cup {m.about}
      /\ UNCHANGED <<vars, pageVars, inbox, removals, unended, missed>>
    BY DEF OnFeed
<1>2. feed \in Seq(Entry) /\ board \subseteq Id
    BY DEF CallInv, CallTypeOK
<1>3. \A y \in Id : WillShow(y)' => WillShow(y)
    BY <1>1, <1>2, ShowsTail DEF WillShow
<1>4. m.about \in Id
  <2>1. m \in Entry
      BY <1>1, <1>2
  <2> QED
      BY <2>1 DEF Entry
<1>5. CallTypeOK'
    BY <1>1, <1>2, <1>4 DEF CallInv, CallTypeOK, pageVars
<1>6. TerminatedCallEnds'
    BY <1>1 DEF CallInv, TerminatedCallEnds, pageVars, vars
<1>7. Accounted'
    BY <1>1, <1>3, FeedAccounted DEF CallInv
<1> QED
    BY <1>5, <1>6, <1>7 DEF CallInv

LEMMA DisconnectKeeps ==
    ASSUME CallInv, Disconnect
    PROVE  CallInv'
<1>1. /\ (inbox' = << >> /\ feed' = feed) \/ (feed' = << >> /\ inbox' = inbox)
      /\ missed' = missed \cup Pictured /\ UNCHANGED <<vars, pageVars, removals, board, unended>>
    BY DEF Disconnect
<1>2. CallTypeOK'
  <2>1. Pictured \subseteq Id
      BY PicturedType DEF CallInv
  <2>2. feed' \in Seq(Entry) /\ inbox' \in Seq(Id)
    <3>1. feed \in Seq(Entry) /\ inbox \in Seq(Id)
        BY DEF CallInv, CallTypeOK
    <3>2. feed' \in {feed, << >>} /\ inbox' \in {inbox, << >>}
        BY <1>1
    <3>3. << >> \in Seq(Entry) /\ << >> \in Seq(Id)
        OBVIOUS
    <3> QED
        BY <3>1, <3>2, <3>3, Zenon
  <2> QED
      BY <1>1, <2>1, <2>2 DEF CallInv, CallTypeOK, pageVars
<1>3. TerminatedCallEnds'
    BY <1>1 DEF CallInv, TerminatedCallEnds, pageVars, vars
<1>4. ASSUME NEW y \in Id \ missed' PROVE ~ WillShow(y)'
  <2>1. y \notin Pictured
      BY <1>1, <1>4
  <2>2. CASE feed' = feed
      BY <1>1, <2>1, <2>2, ShownIsPictured DEF WillShow
  <2>3. CASE feed' = << >>
      BY <1>1, <2>1, <2>3, ShowsEmpty DEF WillShow, Pictured
  <2> QED
      BY <1>1, <2>2, <2>3
<1> QED
    BY <1>2, <1>3, <1>4 DEF CallInv, Accounted

LEMMA BoardOpensKeeps ==
    ASSUME CallInv, BoardOpens
    PROVE  CallInv'
<1>1. /\ board' = {} /\ feed' = << >> /\ missed' = {}
      /\ UNCHANGED <<vars, pageVars, inbox, removals, unended>>
    BY DEF BoardOpens
<1>2. CallTypeOK'
    BY <1>1 DEF CallInv, CallTypeOK, pageVars
<1>3. TerminatedCallEnds'
    BY <1>1 DEF CallInv, TerminatedCallEnds, pageVars, vars
<1>4. \A y \in Id : ~ WillShow(y)'
    BY <1>1, ShowsEmpty DEF WillShow
<1> QED
    BY <1>2, <1>3, <1>4 DEF CallInv, Accounted

LEMMA InitCallInv == CallInit => CallInv
<1> SUFFICES ASSUME CallInit PROVE CallInv
    OBVIOUS
<1>1. \A y \in Id : ~ WillShow(y)
    BY ShowsEmpty DEF CallInit, WillShow
<1> QED
    BY <1>1 DEF CallInit, Init, CallInv, CallTypeOK, TerminatedCallEnds, Accounted

LEMMA CallNextKeeps == TypeOK /\ CallInv /\ [CallNext]_callVars => CallInv'
<1> SUFFICES ASSUME TypeOK, CallInv, [CallNext]_callVars PROVE CallInv'
    OBVIOUS
<1>1. ASSUME NEW u \in User, Page(u) PROVE CallInv'
    BY <1>1, PageKeeps, PublishKeeps DEF Page
<1>2. ASSUME NEW u \in User, OnPosition(u) \/ EndCall(u) PROVE CallInv'
    BY <1>2, OnPositionKeeps, EndCallKeeps
<1>3. ASSUME NEW d \in Drone, OnGps(d) \/ Notify(d) \/ Handler(d) PROVE CallInv'
    BY <1>3, OnGpsKeeps, NotifyKeeps, HandlerKeeps
<1>4. CASE RemoveSilent \/ ServerRestart
    BY <1>4, RemoveSilentKeeps, ServerRestartKeeps
<1>5. CASE RemovalSent \/ OnFeed \/ Disconnect \/ BoardOpens
    BY <1>5, RemovalSentKeeps, OnFeedKeeps, DisconnectKeeps, BoardOpensKeeps
<1>6. CASE UNCHANGED callVars
    BY <1>6 DEF callVars, vars, pageVars, boardVars, CallInv, CallTypeOK, TerminatedCallEnds,
                Accounted, WillShow, Known
<1> QED
    BY <1>1, <1>2, <1>3, <1>4, <1>5, <1>6 DEF CallNext, Handler

LEMMA CallInvariance == CallSpec => []CallInv
<1>1. CallSpec => []TypeOK
    BY ImplementsDispatch, TypeCorrect, PTL
<1> QED
    BY <1>1, InitCallInv, CallNextKeeps, PTL DEF CallSpec

-----------------------------------------------------------------------------
(* The theorems.                                                           *)

\* The dispatcher (removeDisconnectedUser in the route call/end, against the
\* handler of positions) only serves callers whose page calls or ends its call,
\* for any number of them and any delay of positions and requests.
THEOREM CallsEnd == CallSpec => []TerminatedCallEnds
<1>1. CallInv => TerminatedCallEnds
    BY DEF CallInv
<1> QED
    BY <1>1, CallInvariance, PTL

\* Once every message has arrived, whoever the control board shows is known to
\* the dispatcher, unless one of the two lost messages about it: each removal in
\* infoManager.ts and drone.ts is told the board after the positions it ends.
THEOREM BoardIsKnown == CallSpec => []BoardKnown
<1>1. CallInv => BoardKnown
  <2> SUFFICES ASSUME CallInv, inbox = << >>, removals = << >>, feed = << >>, NEW x \in board \ missed
               PROVE  Known(x)
      BY DEF BoardKnown
  <2>1. x \in Id /\ WillShow(x)
      BY ShowsEmpty DEF CallInv, CallTypeOK, WillShow
  <2>2. ~ In(x, << >>)
      BY DEF In
  <2> QED
      BY <2>1, <2>2 DEF CallInv, Accounted
<1> QED
    BY <1>1, CallInvariance, PTL

-----------------------------------------------------------------------------
(* What Dispatch promises, from the callers' pages to the drones.          *)

\* The properties of Dispatch hold of a dispatcher that gets its messages late,
\* out of order or never.
THEOREM DispatchHolds ==
    CallSpec => /\ [](TargetIsMatched /\ OneDronePerUser /\ MatchedHasDrone)
                /\ [](NobodyWaitsNextToAFreeDrone /\ FirstComeFirstServed)
                /\ OneDronePerCall
BY ImplementsDispatch, TargetsMatched, DronesDistinct, MatchedAccompanied, NobodyWaits, ServedInOrder,
   CallsSteady, PTL

\* A drone only has a target that calls, or that is about to be ended, or that
\* nobody ends (TerminatedCallEnds).
DronesForCallers ==
    \A d \in Drone : target[d] # NoUser => target[d] \in calling \cup ending \cup unended

\* No drone goes on to somebody who hung up: TargetIsMatched is about the
\* dispatcher, TerminatedCallEnds about its callers, and together they tie the
\* drones to the pages.
THEOREM DronesFollowPages == CallSpec => []DronesForCallers
<1>1. TypeOK /\ TargetIsMatched /\ TerminatedCallEnds => DronesForCallers
  <2> SUFFICES ASSUME TypeOK, TargetIsMatched, TerminatedCallEnds, NEW d \in Drone, target[d] # NoUser
               PROVE  target[d] \in calling \cup ending \cup unended
      BY DEF DronesForCallers
  <2>1. target[d] \in User /\ ustatus[target[d]] = "matched"
      BY DEF TypeOK, Target, TargetIsMatched
  <2> QED
      BY <2>1 DEF TerminatedCallEnds
<1> QED
    BY <1>1, ImplementsDispatch, TypeCorrect, TargetsMatched, CallsEnd, PTL
=============================================================================
