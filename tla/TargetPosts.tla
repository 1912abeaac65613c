------------------------------ MODULE TargetPosts ------------------------------
(***************************************************************************)
(* How the dispatcher tells one drone its caller (setTargetUserID and      *)
(* droneCall in src/Backend/App/utils/oneM2M.ts).                          *)
(*                                                                         *)
(* Each change of target is a POST to the drone's userId container; when   *)
(* its answer comes, the callback POSTs 0 or 1 to the call container.      *)
(* Every request has a connection of its own: Mobius may serve them in any *)
(* order, and nobody repeats one that fails.  Drones do not share requests,*)
(* so one drone is enough; its targets change as they do in Dispatch.      *)
(***************************************************************************)
EXTENDS Naturals, Sequences

CONSTANTS
    User, NoUser, \* ids of callers, and the empty id ''
    MaxRequests   \* bound: requests under way

ASSUME PostsAssumption == NoUser \notin User /\ MaxRequests \in Nat

VARIABLES
    target,   \* what DroneInfoGrp says
    posts,    \* requests Mobius has not served
    acks,     \* userId requests served, whose callback has not run
    abandoned, \* requests that may still reach Mobius, whose callback has seen an
              \* error or is gone with the dispatcher
    stored,   \* the latest userId and call instances in Mobius
    disturbed \* TRUE after a request overlapped another or failed, the drone was
              \* removed or the dispatcher restarted, until the next request that
              \* finds none under way: a history variable, no code reads it

vars == <<target, posts, acks, abandoned, stored, disturbed>>

Target == User \cup {NoUser}
Post == [rn : {"userId"}, con : Target] \cup [rn : {"call"}, con : BOOLEAN]

InFlight == posts # << >> \/ acks # << >> \/ abandoned # << >>

Init ==
    /\ target = NoUser
    /\ posts = << >> /\ acks = << >> /\ abandoned = << >>
    /\ stored = [userId |-> NoUser, call |-> FALSE]
    /\ disturbed = FALSE

-----------------------------------------------------------------------------
UserIdPost(u) == [rn |-> "userId", con |-> u]

HasRoom(n) == Len(posts) + Len(acks) + Len(abandoned) + n <= MaxRequests

\* matching() gives the drone to u; a target it had is overwritten.
Matched(u) ==
    /\ target # u /\ HasRoom(1)
    /\ target' = u
    /\ posts' = Append(posts, UserIdPost(u))
    /\ disturbed' = InFlight
    /\ UNCHANGED <<acks, abandoned, stored>>

\* returnToLaunch, and nobody waits for the drone.
Returned ==
    /\ target # NoUser /\ HasRoom(1)
    /\ target' = NoUser
    /\ posts' = Append(posts, UserIdPost(NoUser))
    /\ disturbed' = InFlight
    /\ UNCHANGED <<acks, abandoned, stored>>

\* returnToLaunch, whose matching() gives the drone to the next caller at once:
\* two requests race.
ReturnedAndMatched(u) ==
    /\ target \notin {NoUser, u} /\ HasRoom(2)
    /\ target' = u
    /\ posts' = posts \o << UserIdPost(NoUser), UserIdPost(u) >>
    /\ disturbed' = TRUE
    /\ UNCHANGED <<acks, abandoned, stored>>

\* removeDisconnectedDrone forgets the target and tells the drone nothing.
Removed ==
    /\ target' = NoUser
    /\ disturbed' = TRUE
    /\ UNCHANGED <<posts, acks, abandoned, stored>>

\* The dispatcher restarts: no callback runs, Mobius may still serve what it had
\* sent.
Restart ==
    /\ target' = NoUser /\ posts' = << >> /\ acks' = << >>
    /\ abandoned' = abandoned \o posts
    /\ disturbed' = TRUE
    /\ UNCHANGED stored

-----------------------------------------------------------------------------
Without(s, i) == SubSeq(s, 1, i - 1) \o SubSeq(s, i + 1, Len(s))

\* Mobius creates the content instance.
Store(p) ==
    stored' = IF p.rn = "userId" THEN [stored EXCEPT !.userId = p.con]
                                 ELSE [stored EXCEPT !.call = p.con]

Served(i) ==
    /\ posts' = Without(posts, i)
    /\ Store(posts[i])
    /\ acks' = IF posts[i].rn = "userId" THEN Append(acks, posts[i].con) ELSE acks
    /\ UNCHANGED <<target, abandoned, disturbed>>

\* The callback gets an error: the request has not arrived, or its answer has not.
Failed(i) ==
    /\ posts' = Without(posts, i)
    /\ abandoned' = Append(abandoned, posts[i])
    /\ disturbed' = TRUE
    /\ UNCHANGED <<target, acks, stored>>

\* A request without a callback is served late, or lost.
Late(i) ==
    /\ abandoned' = Without(abandoned, i)
    /\ UNCHANGED stored \/ Store(abandoned[i])
    /\ UNCHANGED <<target, posts, acks, disturbed>>

\* Mobius answers with an error status and stores nothing; the callback, which
\* only looks for an error of the connection, goes on all the same.
Refused(i) ==
    /\ posts' = Without(posts, i)
    /\ acks' = IF posts[i].rn = "userId" THEN Append(acks, posts[i].con) ELSE acks
    /\ disturbed' = TRUE
    /\ UNCHANGED <<target, abandoned, stored>>

\* Slip: droneCall(droneID, 1) for the empty id too (MobiusAgrees).
CallbackCalls(i) ==
    /\ acks' = Without(acks, i)
    /\ posts' = Append(posts, [rn |-> "call", con |-> TRUE])
    /\ UNCHANGED <<target, abandoned, stored, disturbed>>

\* Slip: the callback only prints the body (DroneIsTold).
CallbackPrints(i) ==
    /\ acks' = Without(acks, i)
    /\ UNCHANGED <<target, posts, abandoned, stored, disturbed>>

\* The callback of setTargetUserID: droneCall with 0 for the empty id, else 1.
Callback(i) ==
    /\ acks' = Without(acks, i)
    /\ posts' = Append(posts, [rn |-> "call", con |-> acks[i] # NoUser])
    /\ UNCHANGED <<target, abandoned, stored, disturbed>>

AnyServed == \E i \in 1..Len(posts) : Served(i)
AnyFailed == \E i \in 1..Len(posts) : Failed(i) \/ Refused(i)
AnyLate == \E i \in 1..Len(abandoned) : Late(i)
AnyCallback == \E i \in 1..Len(acks) : Callback(i)

Next ==
    \/ \E u \in User : Matched(u) \/ ReturnedAndMatched(u)
    \/ Returned \/ Removed \/ Restart
    \/ AnyServed \/ AnyFailed \/ AnyLate \/ AnyCallback

Spec == Init /\ [][Next]_vars

\* Mobius serves or refuses what it gets, and Node runs the callbacks.
FairSpec == Spec /\ WF_vars(AnyServed \/ AnyFailed) /\ WF_vars(AnyCallback)

-----------------------------------------------------------------------------
(* What must hold.                                                         *)

\* Every variable has its type.
TypeOK ==
    /\ target \in Target
    /\ posts \in Seq(Post) /\ acks \in Seq(Target) /\ abandoned \in Seq(Post)
    /\ stored \in [userId : Target, call : BOOLEAN]
    /\ disturbed \in BOOLEAN

\* When no request is under way, Mobius has told the drone what the dispatcher
\* believes, unless the last requests overlapped, one of them failed, or the
\* drone or the dispatcher was away since: the next caller mends it.
MobiusAgrees ==
    ~InFlight /\ ~disturbed => stored = [userId |-> target, call |-> target # NoUser]

\* A drone that gets a caller is told so.
DroneIsTold ==
    \A u \in User : target = u ~> stored = [userId |-> u, call |-> TRUE] \/ target # u \/ disturbed
=============================================================================
