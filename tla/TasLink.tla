-------------------------------- MODULE TasLink --------------------------------
(***************************************************************************)
(* The drone's TAS (src/Drone/tas/tas_get_gps/app.js) between Thyme        *)
(* (thyme_tas.js) and the flight service.                                  *)
(*                                                                         *)
(* TAS is a TCP client of Thyme.  It says hello for each container it      *)
(* downloads; Thyme echoes it and remembers the socket the container's     *)
(* notifications go to.  Commands go on to the Unix socket; a caller's id  *)
(* goes back to Thyme, which then posts the positions the caller publishes *)
(* and hands each of them to TAS twice: when Mobius answers the post, and  *)
(* when Mobius notifies Thyme of its own instance.  TAS also uploads the   *)
(* drone's own position, which matters here only as a line that may come   *)
(* in one chunk with another.                                              *)
(*                                                                         *)
(* A line is a text and the mark <EOF>.  TCP does not keep lines apart: a  *)
(* read may end in a text or in a mark.  The containers call, patrol and   *)
(* takeoff are one, and so are clients that follow one caller for one      *)
(* socket.                                                                 *)
(***************************************************************************)
EXTENDS Naturals, Sequences

CONSTANTS
    User,          \* callers
    MaxCommands,   \* bound: commands in a behaviour
    MaxUnread,     \* bound: lines a side has not read, or clients not connected,
                   \* when a new one is due
    MaxFaults,     \* bound: restarts, late echoes, service down
    MaxExtras      \* bound: registrations lost or completed twice, marks split by a
                   \* read, positions of callers

ASSUME TasAssumption ==
    MaxCommands \in Nat /\ MaxUnread \in Nat /\ MaxFaults \in Nat /\ MaxExtras \in Nat

VARIABLES
    tas_state, tas_download_count, \* of TAS; "dead" once an exception ended it
    callbacks,  \* 'connect' listeners on upload_client, 2 for more than one
    unix,       \* UnixdomainSocket: "none", "open" or "dead"
    served,     \* commands written to it
    target,     \* coordinates of the last position written to it, in order
    link,       \* TCP: "none", "connecting", "open", or "broken" at Thyme's end
    up, down,   \* lines to Thyme and to TAS
    tas_buffer, \* Thyme has read the text of Head(up), and not its mark
    cut,        \* where TAS's last read ended: in no line ("none"), or in the text
                \* or the mark of Head(down)
    leftover,   \* what the previous connection holds for Thyme
    torn,       \* a hello's echo has been lost on this connection: a history variable
    ready, registered, \* Thyme: TCP server listens; sh_state is 'crtci'
    handlers,   \* 'message' listeners of mqtt_client
    socket_arr, \* of Thyme: "none", the current socket, or an old one
    opening,    \* MQTT clients that have not connected, in order: the line that
                \* will name their topic, and the socket they were opened for
    clients,    \* those that follow a caller, and the socket
    posts,      \* sockets of target_gps posts without an answer
    notis,      \* notifications of target_gps to come
    issued,     \* commands so far
    asked,      \* lines sent on this connection, but for callers' ids that
                \* Thyme read while it registered, ahead of another line of the
                \* same chunk, or shortly before another id, and for lines whose
                \* mark a read of TAS split: a history variable
    faults, extras \* what MaxFaults and MaxExtras bound, so far

tasVars == <<tas_state, tas_download_count, callbacks>>
serviceVars == <<unix, served, target>>
streams == <<link, up, down, tas_buffer, cut, leftover, torn>>
thymeVars == <<ready, registered, handlers, socket_arr, opening, clients>>
feedVars == <<posts, notis>>
bounds == <<faults, extras>>
vars == <<tasVars, serviceVars, streams, thymeVars, feedVars, issued, asked, bounds>>

Downloads == <<"call", "target_gps", "userId">>
Download == {"call", "target_gps", "userId"}
Command == 1..MaxCommands
LatLon == <<"lat", "lon">>
LonLat == <<"lon", "lat">>

\* Lines.  A hello is known by its place among those of its connection; the
\* container it names comes round every third.
Hello(k) == [kind |-> "hello", con |-> k]
Call(c) == [kind |-> "call", con |-> c]
UserId(u) == [kind |-> "userId", con |-> u]
TargetGps(p) == [kind |-> "target_gps", con |-> p]
Gps == [kind |-> "gps", con |-> "fix"]

Greeted(k) == Downloads[((k - 1) % 3) + 1]
MaxHello == 6
Line ==
    [kind : {"hello"}, con : 1..MaxHello] \cup [kind : {"call"}, con : Command]
        \cup [kind : {"userId"}, con : User] \cup [kind : {"target_gps"}, con : {LatLon, LonLat}] \cup {Gps}

\* The line l is about container n.
About(l, n) == IF l.kind = "hello" THEN Greeted(l.con) = n ELSE l.kind = n

Init ==
    /\ tas_state = "init" /\ tas_download_count = 0 /\ callbacks = 0
    /\ unix = "none" /\ served = << >> /\ target = << >>
    /\ link = "none" /\ up = << >> /\ down = << >> /\ leftover = << >>
    /\ tas_buffer = FALSE /\ cut = "none" /\ torn = FALSE
    /\ ready = FALSE /\ registered = FALSE /\ handlers = 0
    /\ socket_arr = [n \in Download |-> "none"] /\ opening = << >> /\ clients = {}
    /\ posts = << >> /\ notis = 0
    /\ issued = 0 /\ asked = {} /\ faults = 0 /\ extras = 0

Fault == faults < MaxFaults /\ faults' = faults + 1 /\ UNCHANGED extras
Extra == extras < MaxExtras /\ extras' = extras + 1 /\ UNCHANGED faults

\* What follows the first n lines.
After(s, n) == SubSeq(s, n + 1, Len(s))

-----------------------------------------------------------------------------
(* TAS: tas_watchdog and the events of upload_client.                      *)

TickInit ==
    /\ tas_state = "init" /\ tas_state' = "init_udsock"
    /\ UNCHANGED <<tas_download_count, callbacks, serviceVars, streams, thymeVars, feedVars, issued, asked, bounds>>

\* The flight service may not be there.
TickUnix ==
    /\ tas_state = "init_udsock" /\ tas_state' = "connect"
    /\ \/ unix' = "open" /\ UNCHANGED bounds
       \/ unix' = "dead" /\ Fault
    /\ UNCHANGED <<tas_download_count, callbacks, served, target, streams, thymeVars, feedVars, issued, asked>>

\* A listener is added by each connect() and only removed when one succeeds.
Listen == callbacks' = IF callbacks < 2 THEN callbacks + 1 ELSE callbacks

TickConnect ==
    /\ tas_state \in {"connect", "reconnect"} /\ link = "none"
    /\ link' = "connecting"
    /\ Listen
    /\ UNCHANGED <<tas_state, tas_download_count, serviceVars, up, down, tas_buffer, cut, leftover, torn>>
    /\ UNCHANGED <<thymeVars, feedVars, issued, asked, bounds>>

\* The socket closes at TAS: its data is gone, Thyme may still have to read.
Closed ==
    /\ link' = "none" /\ up' = << >> /\ down' = << >> /\ tas_buffer' = FALSE /\ cut' = "none"
    /\ leftover' = leftover \o up /\ torn' = FALSE
    /\ socket_arr' = [n \in Download |-> IF socket_arr[n] = "current" THEN "old" ELSE socket_arr[n]]
    /\ opening' = [i \in DOMAIN opening |-> [opening[i] EXCEPT !.socket = "old"]]
    /\ clients' = {[c EXCEPT !.socket = "old"] : c \in clients}
    /\ posts' = [i \in DOMAIN posts |-> "old"]
    /\ asked' = {}

Items(s) == {s[i] : i \in DOMAIN s}

\* A hello or its echo is under way.
Awaited == \E l \in Items(up) \cup Items(down) : l.kind = "hello"

\* connect() fails on a socket in use, and 'error' and 'close' follow.
ConnectsAgain ==
    /\ tas_state \in {"connect", "reconnect"}
    /\ Closed
    /\ tas_state' = "reconnect"
    /\ Listen
    /\ UNCHANGED <<tas_download_count, serviceVars, ready, registered, handlers, notis, issued>>

\* The connection or the echoes take more than 3 s, ...
TickLate ==
    /\ link = "connecting" \/ (link = "open" /\ Awaited)
    /\ Fault
    /\ ConnectsAgain

\* ... or an echo that TAS waits for will not come.
TickMissing ==
    /\ link = "open" /\ ~Awaited
    /\ ConnectsAgain /\ UNCHANGED bounds

Refused ==
    /\ link = "connecting" /\ ~ready
    /\ link' = "none"
    /\ tas_state' = "reconnect"
    /\ UNCHANGED <<tas_download_count, callbacks, serviceVars, up, down, tas_buffer, cut, leftover, torn>>
    /\ UNCHANGED <<thymeVars, feedVars, issued, asked, bounds>>

\* What n listeners say, one after the other.
Hellos(n) == [k \in 1..(3 * n) |-> Hello(k)]

\* Slip: the count is not reset (Routed).
ConnectedKeepsCount ==
    /\ link = "connecting" /\ ready
    /\ link' = "open"
    /\ callbacks' = 0
    /\ up' = Hellos(callbacks)
    /\ UNCHANGED <<tas_state, tas_download_count, serviceVars, down, tas_buffer, cut, leftover, torn>>
    /\ UNCHANGED <<thymeVars, feedVars, issued, asked, bounds>>

\* All listeners run, and each says hello.
Connected ==
    /\ link = "connecting" /\ ready
    /\ link' = "open"
    /\ tas_download_count' = 0
    /\ callbacks' = 0
    /\ up' = Hellos(callbacks)
    /\ UNCHANGED <<tas_state, serviceVars, down, tas_buffer, cut, leftover, torn>>
    /\ UNCHANGED <<thymeVars, feedVars, issued, asked, bounds>>

ClosedByThyme ==
    /\ link = "broken" /\ down = << >> /\ tas_state # "dead"
    /\ Closed
    /\ tas_state' = "reconnect"
    /\ UNCHANGED <<tas_download_count, callbacks, serviceVars, ready, registered, handlers, notis, issued, bounds>>

-----------------------------------------------------------------------------
(* TAS: on_receive.  A chunk of several lines is handled line by line and   *)
(* leaves nothing behind, so that it is the same as several chunks.         *)

\* send_to_server: a socket that did not open or was closed swallows the write.
SendToServer(l) ==
    /\ served' = IF unix = "open" /\ l.kind = "call" THEN Append(served, l.con) ELSE served
    /\ target' = IF unix = "open" /\ l.kind = "target_gps" THEN l.con ELSE target

Reads == tas_state \in {"connect", "reconnect", "upload"} /\ link \in {"open", "broken"} /\ down # << >>

\* Slip: a caller's id is not sent back to Thyme (Delivered).
ReceiveNoReply ==
    LET l == Head(down)
        count == IF l.kind = "hello" THEN tas_download_count + 1 ELSE tas_download_count
    IN  /\ Reads /\ cut = "none"
        /\ down' = Tail(down)
        /\ tas_download_count' = count
        /\ tas_state' = IF l.kind = "hello" /\ count >= 3 THEN "upload" ELSE tas_state
        /\ UNCHANGED up
        /\ SendToServer(l)
        /\ UNCHANGED <<callbacks, unix, link, tas_buffer, cut, leftover, torn, thymeVars, feedVars, issued, asked, bounds>>

Receive ==
    LET l == Head(down)
        count == IF l.kind = "hello" THEN tas_download_count + 1 ELSE tas_download_count
    IN  /\ Reads /\ cut = "none"
        /\ down' = Tail(down)
        /\ tas_download_count' = count
        /\ tas_state' = IF l.kind = "hello" /\ count >= 3 THEN "upload" ELSE tas_state
        /\ up' = IF l.kind = "userId" /\ link = "open" THEN Append(up, l) ELSE up
        /\ SendToServer(l)
        /\ UNCHANGED <<callbacks, unix, link, tas_buffer, cut, leftover, torn, thymeVars, feedVars, issued, asked, bounds>>

\* TAS has no buffer: what follows the last mark of a chunk is dropped.  The next
\* read begins in the text, before the mark or in it.
ReceiveCut ==
    /\ Reads /\ cut # "mark" /\ cut' \in {"text", "mark"} \ {cut}
    /\ IF cut' = "mark" THEN Extra ELSE UNCHANGED bounds
    /\ UNCHANGED <<tasVars, serviceVars, link, up, down, tas_buffer, leftover, torn, thymeVars, feedVars, issued, asked>>

\* JSON.parse throws on the rest of a text, on nothing before a mark, and on the
\* rest of a mark with a text behind it.  TAS ends, and its socket with it.
ReceiveMark ==
    /\ Reads
    /\ cut = "text" \/ (cut = "mark" /\ Len(down) > 1)
    /\ Closed
    /\ tas_state' = "dead"
    /\ UNCHANGED <<tas_download_count, callbacks, serviceVars, ready, registered, handlers, notis, issued, bounds>>

\* A chunk of the rest of a mark, with nothing behind it or with a line that is
\* cut itself, holds no mark: the line is lost.
ReceiveRest ==
    LET l == Head(down) IN
    /\ Reads /\ cut = "mark"
    /\ down' = Tail(down)
    /\ cut' \in IF Tail(down) = << >> THEN {"none"} ELSE {"none", "text", "mark"}
    /\ IF cut' = "mark" THEN Extra ELSE UNCHANGED bounds
    /\ torn' = (torn \/ l.kind = "hello")
    /\ asked' = IF l \in Items(Tail(down)) THEN asked ELSE asked \ {l}
    /\ UNCHANGED <<tasVars, serviceVars, link, up, tas_buffer, leftover, thymeVars, feedVars, issued>>

\* saveLastestData: the flight service tells the drone's position.
Upload ==
    /\ tas_state = "upload" /\ unix = "open" /\ link = "open" /\ Len(up) < MaxUnread
    /\ up' = Append(up, Gps)
    /\ UNCHANGED <<tasVars, serviceVars, link, down, tas_buffer, cut, leftover, torn, thymeVars, feedVars, issued, asked, bounds>>

\* The flight service closes the Unix socket; nothing opens it again.
ServiceGone ==
    /\ unix = "open" /\ unix' = "dead"
    /\ Fault
    /\ UNCHANGED <<tasVars, served, target, streams, thymeVars, feedVars, issued, asked>>

-----------------------------------------------------------------------------
(* Thyme: the TCP server and tas_handler.                                  *)

\* The bootstrap is complete (ThymeBootstrap): ready_for_notification, tas.ready().
Ready ==
    /\ ~ready
    /\ ready' = TRUE /\ registered' = TRUE /\ handlers' = 1
    /\ UNCHANGED <<tasVars, serviceVars, streams, socket_arr, opening, clients, feedVars, issued, asked, bounds>>

\* An upload is answered with 5000: sh_state leaves 'crtci' for a while.
Unregister ==
    /\ registered /\ registered' = FALSE
    /\ Extra
    /\ UNCHANGED <<tasVars, serviceVars, streams, ready, handlers, socket_arr, opening, clients, feedVars, issued, asked>>

\* Slip: the registration takes the listener of an earlier one away first, and
\* with it its own (AskedIsUnderway).
RegisterUnheard ==
    /\ ready /\ ~registered
    /\ registered' = TRUE /\ handlers' = handlers - 1
    /\ UNCHANGED <<tasVars, serviceVars, streams, ready, socket_arr, opening, clients, feedVars, issued, asked, bounds>>

\* ready_for_notification adds its listener to an mqtt_client that has one.
Register ==
    /\ ready /\ ~registered
    /\ registered' = TRUE /\ handlers' = handlers + 1
    /\ UNCHANGED <<tasVars, serviceVars, streams, ready, socket_arr, opening, clients, feedVars, issued, asked, bounds>>

\* So it does when a second answer to the last crtsub comes.
RegisterAgain ==
    /\ registered /\ handlers' = handlers + 1
    /\ Extra
    /\ UNCHANGED <<tasVars, serviceVars, streams, ready, registered, socket_arr, opening, clients, feedVars, issued, asked>>

\* Thyme ends and starts again; what TAS has received it can still read.
Restart ==
    /\ ready /\ Fault
    /\ ready' = FALSE /\ registered' = FALSE /\ handlers' = 0
    /\ socket_arr' = [n \in Download |-> "none"] /\ opening' = << >> /\ clients' = {}
    /\ link' = IF link = "open" THEN "broken" ELSE link
    /\ up' = << >> /\ tas_buffer' = FALSE /\ leftover' = << >>
    /\ posts' = << >> /\ notis' = 0 /\ asked' = {}
    /\ UNCHANGED <<tasVars, serviceVars, down, cut, torn, issued>>

RouteTo(ls, socket) ==
    socket_arr' = [n \in Download |-> IF \E i \in DOMAIN ls : About(ls[i], n) THEN socket ELSE socket_arr[n]]

Callers(ls) == {ls[i] : i \in {j \in DOMAIN ls : ls[j].kind = "userId"}}

\* The callers' ids in the chunk ls.  `content` is one variable for all lines
\* of a chunk: when a client has connected and subscribes, it holds that of
\* the last line, whatever that is.
Follow(ls, socket) ==
    LET last == ls[Len(ls)]
        opens == registered /\ Callers(ls) # {}
    IN  /\ opening' = IF opens THEN Append(opening, [line |-> last, socket |-> socket]) ELSE opening
        /\ asked' = asked \ (IF opens THEN Callers(ls) \ {last} ELSE Callers(ls))

\* A text is kept until its mark comes.
TasHandlerBuffers ==
    /\ link = "open" /\ leftover = << >> /\ up # << >>
    /\ ~tas_buffer /\ tas_buffer' = TRUE
    /\ UNCHANGED <<tasVars, serviceVars, link, up, down, cut, leftover, torn, thymeVars, feedVars, issued, asked, bounds>>

\* Slip: a text that was kept is not put before the rest, and its line is
\* taken for another (EchoUnderway, Reconnects).
TasHandlerHelloDrops ==
    /\ link = "open" /\ leftover = << >> /\ up # << >> /\ Head(up).kind = "hello"
    /\ up' = Tail(up) /\ tas_buffer' = FALSE
    /\ IF tas_buffer
       THEN UNCHANGED <<socket_arr, down>>
       ELSE /\ RouteTo(<<Head(up)>>, "current")
            /\ down' = Append(down, Head(up))
    /\ UNCHANGED <<tasVars, serviceVars, link, cut, leftover, torn, ready, registered, handlers>>
    /\ UNCHANGED <<opening, clients, feedVars, issued, asked, bounds>>

\* A hello is echoed.  A chunk may hold several and other lines behind them
\* (TAS sends its hellos first); the others are TasHandler's.  What is left of
\* the previous connection was readable first and is read first.
TasHandlerHello ==
    /\ link = "open" /\ leftover = << >> /\ up # << >> /\ Head(up).kind = "hello"
    /\ up' = Tail(up) /\ tas_buffer' = FALSE
    /\ RouteTo(<<Head(up)>>, "current")
    /\ down' = Append(down, Head(up))
    /\ UNCHANGED <<tasVars, serviceVars, link, cut, leftover, torn, ready, registered, handlers>>
    /\ UNCHANGED <<opening, clients, feedVars, issued, asked, bounds>>

\* A chunk of n lines, or the end of a chunk that began with hellos.
TasHandler ==
    \E n \in 1..Len(up) :
        LET ls == SubSeq(up, 1, n) IN
        /\ link = "open" /\ leftover = << >>
        /\ \A i \in 1..n : up[i].kind # "hello"
        /\ up' = After(up, n) /\ tas_buffer' = FALSE
        /\ RouteTo(ls, "current") /\ Follow(ls, "current")
        /\ UNCHANGED <<tasVars, serviceVars, link, down, cut, leftover, torn>>
        /\ UNCHANGED <<ready, registered, handlers, clients, feedVars, issued, bounds>>

\* The same for the socket TAS has closed; the echoes go nowhere.
TasHandlerOld ==
    \E n \in 1..Len(leftover) :
        LET ls == SubSeq(leftover, 1, n) IN
        /\ leftover' = After(leftover, n)
        /\ RouteTo(ls, "old") /\ Follow(ls, "old")
        /\ UNCHANGED <<tasVars, serviceVars, link, up, down, tas_buffer, cut, torn>>
        /\ UNCHANGED <<ready, registered, handlers, clients, feedVars, issued, bounds>>

\* The first client connects.  `client` is one variable for all of them: it is
\* the one opened last that subscribes, and it passes on what is about the
\* caller it was opened for.
ClientConnects ==
    LET first == Head(opening)
        latest == opening[Len(opening)]
        same == first.line = latest.line
    IN  /\ opening # << >>
        /\ opening' = Tail(opening)
        /\ clients' = IF same /\ latest.line.kind = "userId"
                       THEN clients \cup {[user |-> latest.line.con, socket |-> latest.socket]} ELSE clients
        /\ asked' = IF same THEN asked ELSE asked \ {first.line}
        /\ UNCHANGED <<tasVars, serviceVars, streams, ready, registered, handlers, socket_arr, feedVars, issued, bounds>>

-----------------------------------------------------------------------------
(* Thyme: notifications and the callers' positions.                        *)

\* The line l, n times, behind those of s.
Extended(s, l, n) == s \o [i \in 1..n |-> l]

\* A line is written n times to a socket; one that is closed swallows it.
Write(socket, l, n) ==
    IF socket = "current" /\ link = "open"
    THEN /\ down' = Extended(down, l, n)
         /\ asked' = IF l.kind = "target_gps" THEN asked ELSE asked \cup {l}
    ELSE UNCHANGED <<down, asked>>

HasRoom == ready /\ Len(down) < MaxUnread

\* Slip: a handler passes the command on twice (ImplementsChannel).
NotifyCommandTwice ==
    /\ HasRoom /\ issued < MaxCommands
    /\ issued' = issued + 1
    /\ Write(socket_arr["call"], Call(issued + 1), 2 * handlers)
    /\ UNCHANGED <<tasVars, serviceVars, link, up, tas_buffer, cut, leftover, torn, thymeVars, feedVars, bounds>>

\* Every handler calls tas.noti: for a command of the dispatcher, ...
NotifyCommand ==
    /\ HasRoom /\ issued < MaxCommands
    /\ issued' = issued + 1
    /\ Write(socket_arr["call"], Call(issued + 1), handlers)
    /\ UNCHANGED <<tasVars, serviceVars, link, up, tas_buffer, cut, leftover, torn, thymeVars, feedVars, bounds>>

\* ... for the id of a caller (TAS ignores the empty id, whose con Mobius
\* removes; one copy stands for all: what a second one leads to, a single one
\* does when Thyme reads it with a later line) ...
NotifyCaller(u) ==
    /\ HasRoom
    /\ UserId(u) \notin asked /\ Len(opening) < MaxUnread
    /\ Write(socket_arr["userId"], UserId(u), 1)
    /\ UNCHANGED <<tasVars, serviceVars, link, up, tas_buffer, cut, leftover, torn, thymeVars, feedVars, issued, bounds>>

\* ... and for an instance of target_gps, which Thyme made itself: [lon, lat].
NotifyTarget ==
    /\ HasRoom /\ notis > 0
    /\ notis' = notis - 1
    /\ Write(socket_arr["target_gps"], TargetGps(LonLat), handlers)
    /\ UNCHANGED <<tasVars, serviceVars, link, up, tas_buffer, cut, leftover, torn, thymeVars, posts, issued, bounds>>

\* A caller publishes a position: the client posts it and Mobius stores it.
Position(c) ==
    /\ HasRoom /\ c \in clients
    /\ posts' = Append(posts, c.socket)
    /\ notis' = notis + 1
    /\ Extra
    /\ UNCHANGED <<tasVars, serviceVars, streams, thymeVars, issued, asked>>

\* The callback of the post: [lat, lon] to the socket the client was opened for.
PositionPosted ==
    /\ HasRoom /\ posts # << >>
    /\ posts' = Tail(posts)
    /\ Write(Head(posts), TargetGps(LatLon), 1)
    /\ UNCHANGED <<tasVars, serviceVars, link, up, tas_buffer, cut, leftover, torn, thymeVars, notis, issued, bounds>>

-----------------------------------------------------------------------------
TasTick == TickInit \/ TickUnix \/ TickConnect
OnReceive == Receive \/ ReceiveCut \/ ReceiveMark \/ ReceiveRest
OnData == TasHandlerHello \/ TasHandler

Next ==
    \/ TasTick \/ TickLate \/ TickMissing \/ Refused \/ Connected \/ ClosedByThyme \/ OnReceive \/ Upload
    \/ ServiceGone \/ Ready \/ Unregister \/ Register \/ RegisterAgain \/ Restart
    \/ TasHandlerBuffers \/ OnData \/ TasHandlerOld \/ ClientConnects
    \/ NotifyCommand \/ NotifyTarget \/ PositionPosted
    \/ \E u \in User : NotifyCaller(u)
    \/ \E c \in clients : Position(c)

Spec == Init /\ [][Next]_vars

\* The timer ticks, the sockets deliver, Thyme comes up and registers.  Late
\* echoes, restarts, split marks and the end of the service are bounded
\* by MaxFaults and MaxExtras.
FairSpec ==
    /\ Spec
    /\ WF_vars(TasTick \/ TickMissing \/ Refused \/ Connected \/ ClosedByThyme)
    /\ WF_vars(OnReceive)
    /\ WF_vars(Ready \/ Register) /\ WF_vars(OnData \/ TasHandlerOld)
    /\ WF_vars(ClientConnects)

-----------------------------------------------------------------------------
(* What must hold.                                                         *)

Socket == {"none", "current", "old"}

\* Every variable has its type.
TypeOK ==
    /\ tas_state \in {"init", "init_udsock", "connect", "reconnect", "upload", "dead"}
    /\ tas_download_count \in 0..MaxHello /\ callbacks \in 0..2
    /\ unix \in {"none", "open", "dead"} /\ served \in Seq(Command)
    /\ target \in {<< >>, LatLon, LonLat}
    /\ link \in {"none", "connecting", "open", "broken"}
    /\ up \in Seq(Line) /\ down \in Seq(Line) /\ leftover \in Seq(Line)
    /\ tas_buffer \in BOOLEAN /\ cut \in {"none", "text", "mark"} /\ torn \in BOOLEAN
    /\ ready \in BOOLEAN /\ registered \in BOOLEAN /\ handlers \in Nat
    /\ socket_arr \in [Download -> Socket]
    /\ opening \in Seq([line : Line, socket : Socket])
    /\ clients \subseteq [user : User, socket : Socket]
    /\ posts \in Seq(Socket) /\ notis \in Nat
    /\ issued \in 0..MaxCommands /\ asked \subseteq Line /\ faults \in 0..MaxFaults /\ extras \in 0..MaxExtras

\* TAS only believes to be connected when the notifications of every container
\* come its way, whatever was left of earlier connections.
Routed == tas_state = "upload" /\ link = "open" => \A n \in Download : socket_arr[n] = "current"

\* The flight service gets the commands in the order Mobius notified them, across
\* reconnections and registrations; copies of one come next to each other.
CommandsInOrder == \A i, j \in DOMAIN served : i < j => served[i] <= served[j]

\* The session as CommandChannel sees it.
pendingBar == {c \in Command : Call(c) \in Items(down)}

repeatedBar == {c \in Command : \E i, j \in DOMAIN down : i < j /\ down[i] = Call(c) /\ down[j] = Call(c)}

sinkBar ==
    CASE tas_state = "dead" \/ unix = "dead" -> "gone"
      [] tas_state # "dead" /\ unix = "open" -> "open"
      [] OTHER -> "absent"

Channel ==
    INSTANCE CommandChannel WITH
        pending <- pendingBar, repeated <- repeatedBar, sink <- sinkBar, doubled <- handlers > 1

\* Between Mobius and the flight service no command is overtaken, and none is
\* repeated that was notified while Thyme had one listener.
ImplementsChannel == Channel!Spec

\* TAS finds its way back after restarts, late echoes and lost ones, unless a
\* read that split a line has ended it.
Reconnects == <>[](tas_state = "dead" \/ (tas_state = "upload" /\ link = "open" /\ callbacks = 0))

Done(l) ==
    \/ l.kind = "call" /\ (unix = "dead" \/ l.con \in Items(served))
    \/ l.kind = "userId" /\ \E c \in clients : c.user = l.con

\* Again and again nothing that Thyme has written to TAS on the present connection
\* waits: a command is written to the flight service while that is there, and a
\* caller's positions are subscribed to, unless a read splits the mark of its
\* last copy, Thyme is registering again by then, reads the id in one chunk with
\* a later line, or opens another client before this one has connected.
Delivered ==
    []<>(tas_state # "dead" => \A l \in asked : l.kind \in {"call", "userId"} => Done(l))

\* A command is on its way to TAS; a caller's id goes back to Thyme and is then
\* the topic of a client that has not connected.
OnItsWay(l) ==
    \/ l \in Items(down)
    \/ l.kind = "userId" /\ (l \in Items(up) \/ \E o \in Items(opening) : o.line = l)

\* Nothing that Thyme has written to TAS on this connection is lost between the
\* reads, the handlers and the clients of several lines, but for a line whose
\* own mark a read has split.
AskedIsUnderway ==
    tas_state # "dead" => \A l \in asked : l.kind \in {"call", "userId"} => Done(l) \/ OnItsWay(l)

\* TAS and Thyme only wait for each other when a read has split the mark of an
\* echo (TickMissing ends that): while TAS has not counted its echoes on an open
\* connection, a hello or its echo is under way.
EchoUnderway == tas_state \in {"connect", "reconnect"} /\ link = "open" /\ ~torn => Awaited

\* unix_domain_socket.cpp:126 logs the first number of a target as "latitude".
LatitudeFirst == target \in {<< >>, LatLon}
=============================================================================
