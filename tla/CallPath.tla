-------------------------------- MODULE CallPath --------------------------------
(***************************************************************************)
(* The dispatcher between the callers' pages and the control board: a      *)
(* caller's page (components/user/user.js) publishes its position by MQTT  *)
(* and ends its call by HTTP, the drones' notifications come by MQTT, and  *)
(* the control board (components/admin/admin.js, utils/Mqtt.js) gets all   *)
(* of these messages and the dispatcher's removals on a queue of its own.  *)
(*                                                                         *)
(* What a handler of the dispatcher does is Dispatch; this module says     *)
(* when it runs.  A caller's page is reduced to whether it calls, a marker *)
(* on the map to whether it is there.                                      *)
(***************************************************************************)
EXTENDS Dispatch, Naturals, Sequences, FiniteSets

CONSTANTS
    MaxInbox, \* bound: messages the dispatcher has not got
    MaxFeed   \* bound: messages the board has not got, those of the dispatcher included

ASSUME CallPathAssumption ==
    User \cap Drone = {} /\ IsFiniteSet(Drone) /\ MaxInbox \in Nat /\ MaxFeed \in Nat

VARIABLES
    calling,  \* the callers whose page has isCall
    locating, \* the callers whose page waits for a position, or for it to be sent
    ending,   \* the callers with a GET call/end under way (bound: one each)
    inbox,    \* positions and notifications for the dispatcher: whom they are of
    removals, \* messages of the dispatcher that have not reached the broker
    feed,     \* messages for the board: [about, gone]
    board,    \* userGrp and droneGrp of the board
    unended,  \* callers nobody ends the call of: the page left without a GET that
              \* arrived, or a position came after it.  A history variable
    missed    \* callers and drones the board or the dispatcher lost messages
              \* about since the last one was sent.  A history variable

pageVars == <<calling, locating, ending>>
boardVars == <<feed, board, missed>>

Id == User \cup Drone
Shown(x) == [about |-> x, gone |-> FALSE]
Gone(x) == [about |-> x, gone |-> TRUE]

CallInit ==
    /\ Init
    /\ calling = {} /\ locating = {} /\ ending = {}
    /\ inbox = << >> /\ removals = << >> /\ feed = << >>
    /\ board = {} /\ unended = {} /\ missed = {}

\* Those the board shows or is about to.
Pictured == board \cup {feed[i].about : i \in DOMAIN feed}

HasRoom(n) == Len(removals) + Len(feed) + n <= MaxFeed

-----------------------------------------------------------------------------
(* The caller's page.                                                      *)

Call(u) ==
    /\ u \notin calling
    /\ calling' = calling \cup {u}
    /\ UNCHANGED <<vars, locating, ending, inbox, removals, boardVars, unended>>

\* The interval asks for the position, once a second.
Locate(u) ==
    /\ u \in calling /\ u \notin locating
    /\ locating' = locating \cup {u}
    /\ UNCHANGED <<vars, calling, ending, inbox, removals, boardVars, unended>>

\* The broker forwards a message to its two subscribers.
Broadcast(x) ==
    /\ Len(inbox) < MaxInbox /\ HasRoom(1)
    /\ inbox' = Append(inbox, x)
    /\ feed' = Append(feed, Shown(x))
    /\ missed' = missed \ {x}

\* The position is published, also when the call has ended meanwhile:
\* clearInterval does not take back a request.
Publish(u) ==
    /\ u \in locating
    /\ locating' = locating \ {u}
    /\ Broadcast(u)
    /\ UNCHANGED <<vars, calling, ending, removals, board, unended>>

LocateFails(u) ==
    /\ u \in locating
    /\ locating' = locating \ {u}
    /\ UNCHANGED <<vars, calling, ending, inbox, removals, boardVars, unended>>

\* The page is opened: its effect runs with isCall false.
Mount(u) ==
    /\ u \notin calling \cup ending
    /\ ending' = ending \cup {u}
    /\ UNCHANGED <<vars, calling, locating, inbox, removals, boardVars, unended>>

\* Slip: the page only stops the interval when the caller logs out, and leaves
\* the dispatcher to notice (TerminatedCallEnds).
HangUpSilently(u) ==
    /\ u \in calling \ ending
    /\ calling' = calling \ {u}
    /\ UNCHANGED <<vars, locating, ending, inbox, removals, boardVars, unended>>

\* Terminate or logout.  The GET is lost when the server's address is not known
\* yet after a reload, or the server is down: nobody repeats it.
HangUp(u) ==
    /\ u \in calling \ ending
    /\ calling' = calling \ {u}
    /\ \/ ending' = ending \cup {u} /\ UNCHANGED unended
       \/ unended' = unended \cup {u} /\ UNCHANGED ending
    /\ UNCHANGED <<vars, locating, inbox, removals, boardVars>>

\* The page is closed or loaded again: no effect is cleaned up.
Leave(u) ==
    /\ u \in calling
    /\ calling' = calling \ {u}
    /\ locating' \in {locating, locating \ {u}}
    /\ unended' = unended \cup {u}
    /\ UNCHANGED <<vars, ending, inbox, removals, boardVars>>

-----------------------------------------------------------------------------
(* The dispatcher.                                                         *)

\* A position: the handler registers a caller it does not know.
OnPosition(u) ==
    /\ inbox # << >> /\ Head(inbox) = u
    /\ inbox' = Tail(inbox)
    /\ IF ustatus[u] = "absent" THEN UserGps(u) ELSE UNCHANGED vars
    /\ unended' = IF u \in calling \cup ending THEN unended ELSE unended \cup {u}
    /\ UNCHANGED <<pageVars, removals, boardVars>>

OnGps(d) ==
    /\ inbox # << >> /\ Head(inbox) = d
    /\ inbox' = Tail(inbox)
    /\ DroneGps(d)
    /\ UNCHANGED <<pageVars, removals, boardVars, unended>>

\* Slip: the caller is forgotten, and the board not told (BoardKnown).
EndCallSilently(u) ==
    /\ u \in ending
    /\ ending' = ending \ {u}
    /\ CallEnd(u)
    /\ unended' = unended \ {u}
    /\ UNCHANGED <<calling, locating, inbox, removals, boardVars>>

\* The route call/end: returnToLaunch and removeDisconnectedUser.
EndCall(u) ==
    /\ u \in ending /\ HasRoom(1)
    /\ ending' = ending \ {u}
    /\ CallEnd(u)
    /\ removals' = Append(removals, u)
    /\ unended' = unended \ {u}
    /\ UNCHANGED <<calling, locating, inbox, boardVars>>

\* The timer: a message for each drone that was silent.
RemoveSilent ==
    LET gone == {d \in Drone : gps[d] = "old"} IN
    /\ RemoveDisconnectedDrone
    /\ HasRoom(Cardinality(gone))
    /\ \E s \in [1..Cardinality(gone) -> gone] :
          /\ \A d \in gone : \E i \in DOMAIN s : s[i] = d
          /\ removals' = removals \o s
    /\ UNCHANGED <<pageVars, inbox, boardVars, unended>>

\* The handlers that tell pages and board nothing: a drone's hello, the board's
\* order to patrol, and the 10 s that make a drone silent.
OnHello(d) == DroneHello(d) /\ UNCHANGED <<pageVars, inbox, removals, boardVars, unended>>

OnPatrol(d) == PatrolRoute(d) /\ UNCHANGED <<pageVars, inbox, removals, boardVars, unended>>

FallsSilent(d) == GpsAges(d) /\ UNCHANGED <<pageVars, inbox, removals, boardVars, unended>>

\* The groups, the requests and the messages under way are gone.
ServerRestart ==
    /\ Restart
    /\ ending' = {} /\ inbox' = << >> /\ removals' = << >>
    /\ unended' = {} /\ missed' = missed \cup Pictured
    /\ UNCHANGED <<calling, locating, feed, board>>

-----------------------------------------------------------------------------
(* The broker and the control board.                                       *)

\* A drone's position, from Mobius.
Notify(d) ==
    /\ Broadcast(d)
    /\ UNCHANGED <<vars, pageVars, removals, board, unended>>

RemovalSent ==
    /\ removals # << >>
    /\ removals' = Tail(removals)
    /\ feed' = Append(feed, Gone(Head(removals)))
    /\ missed' = missed \ {Head(removals)}
    /\ UNCHANGED <<vars, pageVars, inbox, board, unended>>

\* The handler of the board.
OnFeed ==
    /\ feed # << >>
    /\ feed' = Tail(feed)
    /\ board' = IF Head(feed).gone THEN board \ {Head(feed).about} ELSE board \cup {Head(feed).about}
    /\ UNCHANGED <<vars, pageVars, inbox, removals, unended, missed>>

\* A connection to the broker breaks: what was not delivered is dropped (QoS 0).
Disconnect ==
    /\ \/ inbox' = << >> /\ UNCHANGED feed
       \/ feed' = << >> /\ UNCHANGED inbox
    /\ missed' = missed \cup Pictured
    /\ UNCHANGED <<vars, pageVars, removals, board, unended>>

\* The board is loaded again, with empty groups.
BoardOpens ==
    /\ board' = {} /\ feed' = << >> /\ missed' = {}
    /\ UNCHANGED <<vars, pageVars, inbox, removals, unended>>

-----------------------------------------------------------------------------
Page(u) == Call(u) \/ Locate(u) \/ Publish(u) \/ LocateFails(u) \/ Mount(u) \/ HangUp(u) \/ Leave(u)

CallNext ==
    \/ \E u \in User : Page(u) \/ OnPosition(u) \/ EndCall(u)
    \/ \E d \in Drone : OnGps(d) \/ Notify(d) \/ OnHello(d) \/ OnPatrol(d) \/ FallsSilent(d)
    \/ RemoveSilent \/ ServerRestart
    \/ RemovalSent \/ OnFeed \/ Disconnect \/ BoardOpens

callVars == <<vars, pageVars, inbox, removals, boardVars, unended>>

CallSpec == CallInit /\ [][CallNext]_callVars

-----------------------------------------------------------------------------
(* What must hold.                                                         *)

\* The dispatcher only serves a caller whose page calls or whose call/end is on
\* its way, however positions and requests overtake each other, unless the page
\* left without one or a position came after it.
TerminatedCallEnds ==
    \A u \in User : ustatus[u] # "absent" => u \in calling \cup ending \cup unended

Known(x) == IF x \in User THEN ustatus[x] # "absent" ELSE gps[x] # "none"

\* When every message has arrived, the board shows no caller and no drone that
\* the dispatcher has forgotten, unless one of them lost messages about it.
BoardKnown ==
    inbox = << >> /\ removals = << >> /\ feed = << >> =>
        \A x \in board \ missed : Known(x)
=============================================================================
