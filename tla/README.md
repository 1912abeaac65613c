# Specifications of the patrol drone system

This directory holds TLA+ specifications of the system in `src/`: drones that
patrol, fly to a caller and accompany them. Each module is translated from the
source files it names. TLC checks it on small instances; the theorems are checked
by TLAPS and hold for all values of the constants.

- [The system](#the-system): its parts, their state, how they interact
- [Modules](#modules): what models what
- [Runs](#runs): what TLC checks, with which bounds and which fairness
- [Theorems](#theorems): what is proved, and how
- [What the code does differently](#what-the-code-does-differently-from-what-it-says)
- [Plan](#plan) and [what is not modelled](#not-modelled)

## The system

A caller presses "call" on a page. The page tells the control server and
publishes the caller's position. The server chooses a free drone and posts the
caller's id to the drone's containers on Mobius, a oneM2M server. Mobius
notifies the drone's application entity (Thyme) by MQTT, Thyme passes it by TCP
to the TAS on the drone, and the TAS writes a command to the Unix socket of the
flight service, which flies the vehicle through MAVSDK.

```
Frontend --HTTP--> App server --HTTP--> Mobius --> sgn_man --MQTT--> Thyme --TCP--> TAS --unix--> DroneService
    \---- MQTT: positions ---^                                         |               \--- positions of the caller
     \---------------------- MQTT: positions of the caller -----------/
```

There is no README and no test suite in the repository; the code and its
comments are all there is to go by.

### Parts

| Part (source) | State | Operations | What makes it hard, and correct |
|---|---|---|---|
| **DroneService** (`Drone/DroneControl/DroneService`: `main.cpp`, `unix_domain_socket.cpp`, `drone_control.cpp`) | `mode`, `activate`, `interrupt`, `follow_end`, a mutex and a condition variable, the queue of follow positions, the vehicle | commands `call_test`, `call_patrol`, `call_drone`, `call_rtl`, `target`, `get_gps`, `quit`; the flights they start | Three threads; `mode` is read without the lock that guards it. One flight at a time, no lost wake-up, no join that hangs, nothing left in the air. |
| **Dispatcher** (`Backend/App`: `routes/drone.ts`, `infoManager.ts`, `gpsManager.ts`, `mqtt.ts`) | maps of users and drones with status and target, last positions | call, call/end, patrol and landing routes; MQTT positions and hellos; removal of silent drones after 10 s | Handlers run in any order, positions outlive the call they belong to. Each caller one drone, nobody waits next to a free drone, no drone keeps a target that is gone. |
| **Posts to Mobius** (`Backend/App/utils/oneM2M.ts`) | requests under way | the chain of `userId` and `call` posts | Never repeated, not ordered. Mobius and the dispatcher agree when all is quiet. |
| **Mobius, containers** (`Backend/app.js`, `mobius/resource.js`, `mobius/sql_action.js`, `cnt_man.js`) | rows of containers, instances and subscriptions in MySQL; in a container's row the counter `cni` and the list `subl` | create, update and delete of subscriptions and instances, update of a container, removal of instances beyond `mni` | Clustered workers over one database. The list is read, changed and written back; rows are counted, then deleted. Who was told that he is subscribed is notified; the limit is kept. |
| **Mobius, the rest** (`Backend/*.js`, `Backend/mobius/`) | the resource tree in MySQL | retrieve, discovery, groups, access control | No state of its own beyond the rows. |
| **Mobius notifications** (`Backend/sgn_man.js`, `mobius/sgn.js`) | count of failures per subscription, array of MQTT requests without an answer | POST `/sgn`, answers by MQTT and HTTP, the 5 s limit, removal of a subscription | Counts are shared by overlapping requests and by successive subscriptions of one name. Only silence removes a subscription, and silence does in the end. |
| **Thyme bootstrap** (`Drone/http_app.js`, `http_adn.js`, `conf.js`, `thyme.js`) | `sh_state`, `request_count`, `return_count` | `http_watchdog` and its callbacks | Late, lost and repeated answers are not told apart. All containers and subscriptions exist when it ends. |
| **Thyme and TAS** (`Drone/thyme_tas.js`, `noti.js`, `tas/tas_get_gps/app.js`, `conf.xml`) | sockets per container, text buffers, MQTT clients for callers, `tas_state`, count of echoes | hello and echo, notifications, positions, reconnection every 3 s | TCP splits messages; either side restarts. TAS is connected when it thinks so; commands arrive in order, and once per listener of Thyme's. |
| **Caller's page** (`Frontend/src/components/user`) | `isCall`, the interval that publishes positions | call, terminate, logout | Positions go by MQTT, the end of a call by HTTP, once, and neither waits for the other. Who has hung up is not served. |
| **Control board** (`Frontend/src/components/admin`, `utils/Mqtt.js`) | markers of callers and drones, cameras | messages of callers, drones and the dispatcher; patrol and landing | It learns from a removal, sent once, that somebody is gone. It shows whom the dispatcher knows. |
| **Frontend, the rest** | redux store | login, sign-up | One request each. |
| **Camera relay, GPS simulator, watchdog timers** | lists of clients, timers | | No protocol. |
| **Mobius: MQTT, CoAP, WebSocket bindings; time series; transactions; hit statistics** | request tables, timers | | Used by no client of this repository, or statistics. |

### Interactions

- Frontend → App: HTTP routes; positions by MQTT topic. The handlers are the
  actions of `Dispatch` (`UserGps`, `CallEnd`, `PatrolRoute`, ...), in any order;
  `CallPath` composes them with the page and the queues that decide on the order.
- App → control board: removals by MQTT (`CallPath`).
- App → Mobius: every post is a request on a connection of its own
  (`TargetPosts`).
- Mobius → Thyme: `sgn_man` posts notifications by MQTT and counts failures
  (`SgnMan`); Thyme's subscriptions come from `ThymeBootstrap`.
- Mobius, within: whom a new instance is announced to is the list of
  `ContainerRow`; each entry's notifications are the posts of `SgnMan`, whose
  removal of a silent subscription is a DELETE of `ContainerRow` again.
- Thyme → TAS → DroneService: `TasLink` ends with the writes to the Unix
  socket, whose other end is the `client` of `DroneService`.

`CallPath` extends `Dispatch` and has its variables; `DroneService` instantiates
`FlightExecutive`, `TasLink` instantiates `CommandChannel`. The other modules share none. Where one relies on another it takes the
other's promise as an action: `TasLink!Ready` stands for the end of the
bootstrap, `TargetPosts!Matched`/`Returned` for the steps of `Dispatch`,
`SgnMan!NotifyAny` for a subscription that `ContainerRow` lists, and
`DroneService!Send` for any command the TAS may write at any time.

## Modules

| Module | Models | Source |
|---|---|---|
| `FlightExecutive` | what the flight service promises: accept, fly, finish; only patrols are diverted | abstract |
| `DroneService` | the three threads, their locks and flags, the vehicle | `main.cpp`, `unix_domain_socket.cpp`, `drone_control.cpp` |
| `DroneServiceProofs` | its invariants, and that it implements `FlightExecutive` | |
| `Dispatch`, `DispatchMC` | the dispatcher; the instance for TLC with its symmetry | `Backend/App` |
| `DispatchProofs` | its invariants | |
| `CallPath` | the callers' pages, the broker and the control board around `Dispatch` | `user.js`, `Mqtt.js`, `admin.js`, `mqtt.ts` |
| `CallPathProofs` | its invariants, and that it implements `Dispatch` | |
| `TargetPosts`, `TargetPostsProofs` | the posts of one drone's target and call state | `oneM2M.ts` |
| `ThymeBootstrap`, `ThymeBootstrapProofs` | the watchdog that registers the drone | `http_app.js` |
| `CommandChannel` | what Thyme and TAS promise about commands: one by one, the earliest first, none twice that one listener passed on; lost all together, or one by one when nobody takes them | abstract |
| `TasLink` | the TCP session between Thyme and TAS, the MQTT clients that follow callers, and what reaches the flight service | `thyme_tas.js`, `app.js` of the TAS |
| `TasLinkProofs` | its invariants, and that it implements `CommandChannel` | |
| `SgnMan`, `SgnManProofs` | notifications, failure counts and removal of subscriptions | `sgn_man.js`, `sgn.js` |
| `ContainerRow`, `ContainerRowProofs` | one container: its list of subscriptions, its counter and limit of instances, under overlapping requests | `resource.js`, `sql_action.js`, `app.js`, `cnt_man.js` |

Each module with properties contains, before some definitions, a variant marked
"Slip": the definition with a plausible mistake. No action uses one; they are
there to show that a property fails when the code is wrong in that way.

### DroneService

A program counter per thread stands for the place in the source: `spc` in
`socketAccept`, `mpc` in `main`'s loop and the functions it calls, `lpc` in the
location thread. Each shared access is a step of its own, so that the tests
of `*mode` without the mutex, the gap between predicate and sleep of `cv.wait`,
and `follow_end` between `followStart` and `followStop` interleave as they do on
a machine. `mode` is uninitialised until `main` first assigns it and starts as
any value. The wait for `health_all_ok` is the time before `MainBoot`. A read takes up
to `MaxCoalesced` commands and serves the first, as `strncmp` on the buffer does. Autopilot calls succeed or, if in `Refusable`,
fail; the branches after a failure are the code's. A write to a closed stream
ends the process (SIGPIPE). Positions are counted, not named. The command
`call_land`, which the TAS sends for `takeoff '0'`, has no branch in the handler and
behaves as an unknown command does.

### Dispatch and TargetPosts

Node runs a handler to its end, so every message, request or timer is one
action, with the `matching()` that ends it. Distances only choose between free
drones; the choice is left open (`Assignments`). The insertion order of the map
of users, which decides who is served first, is kept as the relation `earlier`.
`Restart` empties the groups, which live in memory; the handlers that a
reconnection of the MQTT client adds to the first change nothing, because the
second to get a message finds the caller or drone known (the slip `UserGpsAgain`
is the code without that test).

What happens between the handlers, the posts, is separate because drones do not
share requests: `TargetPosts` follows one drone through any change of target.
A post may be served, end in an error of the connection (`Failed`), or be refused
by Mobius (`Refused`: the callback looks only for such an error and posts the
call all the same), and the dispatcher may restart over what it has sent.
`abandoned` are the requests whose callback has seen an error or is gone with the
dispatcher: Mobius may still serve them, at any later time, or never (`Late`).
`disturbed` is set by each of these, by overlap and by the removal of the drone, and
cleared by the next change of target that finds no request under way: what went
wrong once is mended by the next caller, and the properties demand that.

### CallPath

The page of a caller is `calling` (its `isCall`), `locating` (a request for the
position, or a position that is not yet sent) and `ending` (its GET
`call/end`). `Publish` does not ask whether the page still calls, because
`clearInterval` does not take back a request. The broker puts a message into the
queue of the dispatcher (`inbox`) and that of the board (`feed`); a removal waits in
`removals` until the broker has it. So a position, a call/end and a removal overtake
each other as they may in the system, while messages of one sender stay in order.
The dispatcher's actions are those of `Dispatch`, each with its messages
(`EndCall`, `RemoveSilent`, and `OnHello`, `OnPatrol`, `FallsSilent` for drones).
Connections break (`Disconnect`), the server and the pages are started again
(`ServerRestart`, `Leave`, `BoardOpens`).

Two history variables say where the code has no remedy. `unended` names the
callers that nobody ends the call of: the page went without a GET that arrived, or
a position came after it, which registers the caller once more. `missed` names those
about whom the board or the dispatcher has lost messages since the last one was sent.
Everybody else must come to an end and disappear: `TerminatedCallEnds`, `BoardKnown`.

### ThymeBootstrap

`http_watchdog` is `Tick`; each request occupies a connection from the moment it
is sent until its callback runs, and Mobius, the network and the callbacks act on
any connection at any time. The containers and subscriptions that Mobius holds
are part of the state, from any earlier run. `cbor`/`xml` and the bindings other
than HTTP are not modelled: `conf.js` selects HTTP and JSON.

### TasLink

The streams are sequences of lines, a text and the mark `<EOF>` each. TCP does not
keep them apart: a read of either side may end in a text or, on TAS's side, in a
mark. Thyme keeps what it has read (`tas_buffer`); TAS drops what follows the last
mark (`ReceiveCut`). What the next read gives depends on where it begins and how much
it holds. A rest with a mark in it does not parse, and TAS ends with an exception
(`ReceiveMark`). The rest of a mark alone, or with a piece of the next line, holds no
mark and is dropped in silence (`ReceiveRest`): the line is lost and TAS lives. A lost
echo is recorded in `torn`, and TAS then waits until its watchdog calls `connect()`
on the open socket, which ends the connection (`TickMissing`); a lost command or id
leaves `asked`. A read may also return several lines: TAS handles
them one by one, which is the same as several reads, but Thyme's callbacks share
one `content` and one `client`, so `TasHandler` takes any number of lines and
`Follow` says whose caller is followed in the end. An id opens an MQTT
client (`opening`) that subscribes when it has connected (`ClientConnects`), to the
topic the line names that `content` holds by then. Uploads of the drone's own
position (`Upload`) matter as lines that come in one chunk with others.

`handlers` counts the `message` listeners on Thyme's MQTT client. Each registration
that follows a 5000 adds one (`Register`), and so does a second answer to the last
`crtsub` (`RegisterAgain`); only a restart takes them away. Every listener writes
every command and every position of `target_gps`. Of an id only one copy is kept:
a second copy opens a second client for the same caller, and what that can do to
others, a single id does when Thyme reads it with a later line.

Sockets are "current" or "old"; an old one swallows writes. What the connection
before this one left for Thyme (`leftover`) is read first. Two budgets bound what may
go wrong: `MaxFaults` restarts of Thyme, late echoes and the flight service not there;
`MaxExtras` registrations that are lost or completed twice, split marks, and the
positions callers publish.

### SgnMan

A request goes from `sent` to `waiting` (or `removing`, if the count is at the
limit) and ends with an answer or after 5 s. Its connection is its identity; the
array `resp_mqtt_rqi_arr` and the counts are the code's. Subscriptions are known by
their path, as in the code, so one made again inherits the count of the one before.
Two history variables say what the code does not record: `silence`, how many
requests of a subscription went without an answer since the last answer and the last
DELETE for it (so that each DELETE needs failures of its own), and `crowded`, whether
more were open than the array holds. Two branches of `sgn_man.js` are not there: a
client that an MQTT error has set to null is a subscriber that does not answer, and an
unsupported URI is answered 400 and changes nothing.

### ContainerRow

One container in the database, and `Worker` requests that are served at one
time. A request's stage (`at`) is the SQL statement it comes to next; a statement is one
step, and requests interleave between statements, as the pool of connections and
the processes of the cluster make them do. `copy` and `seen` are what
the request has read and holds in memory: the list, and the number of rows. So
`Subscribe` reads the container, `InsertSub` inserts the row, and `WriteBack`
writes the list that was read in the beginning, changed by `Applied`. `Amend` (PUT of
a subscription) and `Update` (PUT of the container) write the list too. `cni` is
changed by atomic statements (`Bump`) and is unsigned, so that the database
refuses to take 1 from 0. `ManCounts` and `ManTrims` are `cnt_man`, which counts and
deletes, up to `MaxTrim` rows at a time, but does not touch `cni`; only `Update`
writes what it has counted. `Update` also changes the limit `mni`, in memory at first
(`limit`) and in the row with its last statement; `cnt_man` works with the limit that
the POST has read (`told`), however old that is by then.

Abstractions: the two rows of a resource (`lookup` and its own table) are one, so the
moment between the two statements is left out, in which a trim can take the `lookup` row
and make the second fail, and so is the half-made subscription that a
failure there leaves (a retry is answered 409, as after a failure of `WriteBack`). Instances
have one size, so `mni` is the only limit; the state tag `st` is left out (it is
overwritten as the list is); the container is neither created nor deleted. History
variables say what the code does not record: `answered`, the subscriptions whose
client was told 201; `spoiled`, those whose entry an overlapping request or a
failed statement has changed; `drift`, `alone` and `raced`, for the counter; and
`most`, the limit in force. The last trim decides which limit that is: the one
that the newest instance's POST has read, or that of a PUT since then that nothing
has overlapped.

## Runs

| Run | Module, specification | Bounds | Shows |
|---|---|---|---|
| `service_safety` | `DroneService`, `Spec` | all 7 commands, every call refusable; `MaxInbox` 2, `MaxSent` 4, `MaxCoalesced` 2 | `NeverStuck`, `NoAcceptanceInFlight`, `OneLocationThread`, `NoLostWakeup`, and that it implements `FlightExecutive` |
| `service_live` | `DroneService`, `FairSpec` | 4 commands, pause and return not refusable; `MaxSent` 4, one at a time | `JoinTerminates`, `CommandServed`, `CallDivertsPatrol`, `UnattendedFlight` |
| `service_rtlobeyed`, `service_busymeansaction` | `DroneService`, `Spec` | nothing refused, `MaxSent` 3 | violated: see the findings |
| `dispatch_safety` | `DispatchMC`, `Spec` | 4 callers, 3 drones, symmetric | the matching is sound, nobody waits needlessly and a call keeps its drone (`OneDronePerCall`), across restarts |
| `call_path` | `CallPath`, `CallSpec` | 1 caller, 1 drone; 2 messages for the dispatcher, 3 for the board | `TerminatedCallEnds`, `BoardKnown` |
| `posts` | `TargetPosts`, `FairSpec` | 2 callers, 4 requests | `MobiusAgrees`, `DroneIsTold` |
| `bootstrap` | `ThymeBootstrap`, `FairSpec` | 2 containers, 2 connections, 2 faults | complete and in order, and in the end up |
| `tas_link` | `TasLink`, `FairSpec` | 1 caller, 2 commands, 2 unread lines, 2 faults, 1 extra | `Routed`, `AskedIsUnderway`, `EchoUnderway`, `Reconnects`, `Delivered`, and that it implements `CommandChannel` |
| `tas_latitude` | `TasLink`, `Spec` | 1 command, no fault | violated: see the findings |
| `sgn_man` | `SgnMan`, `FairSpec` | 2 subscriptions (MQTT and HTTP), 2 requests, limit 2, array of 1, 1 failing DELETE | `GivesUpOnlySilent`, `InTimeIsHeard`, `GoneIsRemoved` |
| `container_row` | `ContainerRow`, `FairSpec` | 2 requests at a time, 4 in all; 2 subscriptions, 2 instances, `mni` 1 or 2, 1 row per trim; 1 failing statement | `AnsweredIsListed`, `ListIsExact`, `CounterExplained`, `WithinLimit`, `LimitRestored` |

Why the bounds are enough to be of interest:

- *DroneService.* Every hazard needs at most three commands: one to start a
  flight, one to interrupt it, one to follow while the first two are handled;
  four leave room for one that comes after the flight. `MaxInbox` 2 with
  `MaxCoalesced` 2 makes a read swallow a command.
- *Dispatch.* Four callers and three drones let a caller wait while each of two
  others loses or gives up a drone. There is no other bound.
- *CallPath.* What the properties say of one caller or drone depends on the
  messages about that one; the others only wait in the same queues. Two
  positions and a removal fill the queue of the board, and the late one of them is
  the case in question. The proofs cover any number.
- *TargetPosts.* `ReturnedAndMatched` posts two requests at once; four requests
  allow the race of two such changes, with requests of the time before a restart
  served among them.
- *ThymeBootstrap.* Two containers have a first and a last; two connections let
  a repeated request overlap the first; two faults lose a request and its repeat.
- *TasLink.* Three downloads; a repeated connect() says hello for each twice. Two
  unread lines let a read take or split them together, and a command be written twice;
  two faults let a restart meet a late echo or another restart. One extra is one split
  mark, one more listener, or one position. Safety is proved for any bounds.
- *SgnMan.* The limit 2 separates "one failure" from "given up"; the array of one
  entry overflows with two requests; the repeated removal needs one failing DELETE.
- *ContainerRow.* Two overlapping requests are enough for a write that is lost or undone;
  four in all leave two to prepare it (a subscription to be deleted, an instance to
  be removed). Two instances exceed `mni` 1, and both workers and `cnt_man` may count
  the same two; a PUT that lowers `mni` from 2 to 1 overlaps a POST that has read 2.

`CHECK_DEADLOCK FALSE` stands where the system may stop: the service's
process ends, no request is open, or the bounds are used up.

### Fairness

- `DroneService`: weak fairness of the socket, main and location thread (an
  operating system schedules every thread that can run; a mutex that is free long
  enough is acquired) and of the autopilot's progress (missions and landings end).
  Nothing is assumed of TAS.
- `Dispatch` and `CallPath`: none; their properties are about safety.
- `TargetPosts`: requests are served or fail, and Node runs callbacks. Which
  of the two happens is not assumed, nor that an abandoned request arrives.
- `ThymeBootstrap`: the timer ticks; requests are served or lost, callbacks
  run. Lost requests are bounded by `MaxFaults`.
- `TasLink`: the 3 s timer, the sockets, Thyme's start and registration, and MQTT
  clients that connect. No notification is assumed. The timer includes `TickMissing`,
  the `connect()` that the watchdog calls on an open socket while TAS has not counted
  its echoes. `TickLate` is the same call while the echoes are still coming; it is
  not fair and draws on `MaxFaults`. `Delivered` says "again and again" (`[]<>`).
- `SgnMan`: handlers, timers and Mobius's DELETE are weakly fair. A subscription
  that stands is notified again and again: strong fairness of `NotifyAny(s)`, because
  all of the `Rqi` requests that bound the model may be open for a while.
  Answers are not promised at all.
- `ContainerRow`: the statements of `cnt_man` are answered (weak fairness of `Man(i)`).
  Nothing is assumed of the clients' requests; `LimitRestored` excepts a statement
  that failed, since `cnt_man` does not try again.

## Theorems

All proofs are in the modules `*Proofs`. The assumptions are those the modules
name (`BoundsAssumption`, `NoUserAssumption`, ...), on types of the constants and
that sentinels are no ids. `SgnMan` also assumes that finitely many requests are open,
`CallPath` that drones are finitely many and no id is both a caller's and a drone's,
`ContainerRow` that workers and instances are finitely many and that the values of
`mni` are above 0 (with 0 Mobius refuses every instance).

**DroneServiceProofs.** `IInv` is the conjunction of the run's invariants with
what makes them inductive: a command between the test of `mode` and the lock saw
`INACTIVE`, and only main has written `mode` since (`AcceptingSeesInactive`); no
flight lets `mode` go back (`FlyingKeepsMode`); `activate` changes only under the
mutex (`SleepSeesInactive`). `DeadlockFreedom` (`NeverStuck`) takes each wait in
turn: who holds the mutex is not waiting for anybody (`OneMutexOwner`); main sleeps
over an accepted command only while the notification is on its way; the location
thread that main joins sees `follow_end`; and a test flight waits only for a landing,
which the autopilot finishes (`LandingAwaited`). What a thread waits for is written
out in `MainWaits`, `SocketWaits` and `LocationWaits`, since `ENABLED` cannot be proved
about; TLC confirmed that each is the negation of `ENABLED` of the thread's steps
as long as the process lives. Theorems: `TypeCorrect`, `MutualExclusion` (the mutex has
one owner), `NothingAcceptedInFlight`, `JoinedThreadEnds`, `LocationThreadJoined`,
`WakeupNotLost`, `DeadlockFreedom`; `NothingUnattended`, if a pause or
return is never refused; and `Refinement`: each step is an abstract one or a stutter
under the mapping `phaseBar`, `jobBar`.

**DispatchProofs.** `Consistent(us, ds, tg, order, gone)` states the invariant of
any groups, so that the argument can stop between a handler's own assignments and
its call of `matching()`. `AssignmentFacts` states what a matching gives.
Beyond the run's invariants it needs that absent drones have no target and that
the order is one of registered callers. `CallsSteady` proves the action property
`OneDronePerCall` handler by handler: a matching touches free drones and waiting
callers only (`AssignmentSteady`, `SettleSteady`), and what a handler takes from a
call it takes with the caller or puts into `lost`. Theorems: `TypeCorrect`,
`TargetsMatched`, `DronesDistinct`, `MatchedAccompanied`, `NobodyWaits`,
`ServedInOrder`, `CallsSteady`.

**CallPathProofs.** Every step of the composition is a step of `Dispatch` or leaves
its variables alone (`StepIsDispatch`), so that the theorems about
`Dispatch` hold here too (`ImplementsDispatch`), and the proof takes the types from
them. `BoardKnown` speaks of the moments when every message has arrived and is not
inductive. `Accounted` is: whoever the board will show once it has read its queue
(`Shows`) is known to the dispatcher, or will be when it has read its own, or is
named by a removal on its way. Lemmas say what a message put on or taken off a queue
does to that (`ShowsAppend`, `ShowsTail`, `InTail`) and whom each handler registers
and forgets (`UserGpsPresence`, `CallEndPresence`, ...). Theorems:
`ImplementsDispatch`, `CallsEnd`, `BoardIsKnown`; `DispatchHolds`, the properties of
`Dispatch` behind queues that delay and lose; and `DronesFollowPages`, which joins
the two halves: a drone only flies to a caller whose page calls or is about to end
the call, or whom nobody ends.

**TargetPostsProofs.** `Chain`: as long as nothing overlapped or failed, no request is
abandoned and the chain of posts is in one of four places. Theorems: `TypeCorrect`, `Agreement`.

**ThymeBootstrapProofs.** Containers are never deleted, so `ContainersInv` is about
the containers that each message presupposes, however late it is. Subscriptions
are deleted, so `SubscribedInv` needs `SingleInv`: while nothing was repeated at
most one message is under way, and it belongs to the state. Theorems:
`TypeCorrect`, `RequestsInRange`, `ContainersFirst`, `Subscribed`, `HandledOnce`.

**TasLinkProofs.** `Routed` is about the moment when TAS has counted the last echo, and
depends on all that was said before. `HellosInOrder`: the hellos of a connection
are under way in increasing order, to Thyme or back. While no echo is lost they go on
where TAS has counted to (`Unbroken`), so that its count names the last echo; a count
that stays behind only delays `upload`. `Routes`: whatever TAS has heard the echo
of, or will, goes to its present socket. What an earlier connection has left could
take that back; `Fresh` says that it is read before the first echo. `CommandsUnderway`
gives `CommandsInOrder`: the commands on their way follow the ones served, copies of
one next to each other. `Heard`: while Thyme is up it has a listener.

`SessionInv` is about what must not get lost. `AskedIsUnderway` is inductive with
`Attached` (in which states of TAS there is a connection and a flight service),
and each action that takes a line has to say where it went: `ItemsAppend`, `ItemsTail`,
`ItemsAfter` say so for the sequences. `EchoUnderway` follows from `Expecting`: while TAS waits and no echo was
torn, the third hello, whose echo ends the wait, is under way.

`ChannelRefinement` maps the lines of commands that are under way to `pending`, those
under way in several copies to `repeated`, more than one listener to `doubled`, and the
flight service's socket to `sink`. A line that TAS reads is `Serve`, or `Drop`
when nobody is at the socket any more or its mark was split; a connection that breaks
or a restart is `Lose`. It needs both invariants: that the first command under way is
the earliest pending one is `CommandsUnderway`; that the socket is open when TAS serves
is `Attached`.
Theorems: `TypeCorrect`, `RoutedWhenUp`, `ServedInOrder`, `NothingForgotten`,
`NeitherWaits`, `ChannelRefinement`.

**SgnManProofs.** `Backed`: a count never runs ahead of the silence it stands for,
which is what a late timer or a count that was created again could break. `NotTooSoon`
is then about steps: a request that becomes a DELETE found its count at the limit.
`Indexed`: the array names every MQTT request that waits, once, as long as it was
never too small; a push drops an entry only when at least `MaxPending` requests
wait (`DistinctLength`). Theorems: `TypeCorrect`, `Heeded`, `NotTooSoon`.

**ContainerRowProofs.** `Served`: which statements a request of each kind can come to.
The list rests on three invariants about entries that are not spoiled: at most one
request edits an entry (`Sole`); the list differs from the rows by exactly what that
request has still to write (`Lists`); nobody edits the entry of a
subscription that was answered and not asked to be deleted (`Kept`). `Lists` needs the stage before
the row is deleted, too, or a row could go whose entry another request is adding.
The counter rests on `Fresh`, no instance is inserted twice, and on `Settled`: while
nothing has overlapped it, what an update has counted is the number of rows and
nobody is about to change the counter. Each step then moves both sides
of `CounterExplained` alike (`PendingJoins`, `PendingLeaves`, `TrimmedRows`). `LimitInv`
is for `WithinLimit`: while there are more rows than the limit in force, a `cnt_man` that was
told this limit is at work (`Bounded`), and it stops only when a count, or the lack of
rows, says so; an update that nothing has overlapped since it counted has kept its own
limit (`Restored`). Theorems: `TypeCorrect`, `LimitKept`, `AnsweredAreListed`,
`ListExact`, `CounterKept`.

Only model-checked: the liveness properties (`JoinTerminates`, `CommandServed`,
`CallDivertsPatrol`, `DroneIsTold`, `Bootstraps`, `Reconnects`, `Delivered`,
`GoneIsRemoved`, `LimitRestored`), which rest on fairness and so on `ENABLED`, out of
the prover's reach. Every safety property, action property and refinement that a
passing run checks is proved.

Proved and not checked by a run, because other properties of the run say more:
`TypeOK` of every module but `ContainerRow` (where it says that the unsigned counter
never goes below 0), `OneMutexOwner` and `JoinSeesEnd` of `DroneService`,
`CommandsInOrder` of `TasLink` (`ImplementsChannel` includes it), and
`DronesForCallers` of `CallPath`.

## What the code does differently from what it says

- `RtlObeyed`, in two ways. A `call_rtl` that ends a follow leaves the vehicle
  hovering: the follow branch of `main` does not fly home, unlike the comment at
  `unix_domain_socket.cpp:112` (`RtlReturnsToLaunch`). And `followStart` clears
  `follow_end` after `call_rtl` has set it; the follow then goes on
  (`RtlStopsFollow`, the shorter way, which TLC prints).
- `BusyMeansAction`: `mode` is not initialised, so a `call_drone` read during the start
  may find it other than `INACTIVE` and take the branch of a busy service. If it stores
  its mode (`unix_domain_socket.cpp:99`) after `main.cpp:132` has reset `mode`, nobody
  resets it again, and every `call_patrol` is answered "Already on Action"
  (`unix_domain_socket.cpp:84`) though nothing was flown.
- `LatitudeFirst`: positions of the caller reach the flight service as
  `<lon> <lat>` when they come by the notification of Thyme's own instance.

Each is a run that ends with a violation. Others that the models show without
a line of the code that forbids them: a position that arrives after call/end
registers the caller again, and a drone sets out; a tab that is closed, or a reload
before the server's address is known, leaves a caller that is served for ever; a board
that misses one removal shows its subject until it is loaded again; two ids that come
close together follow one caller twice and the other never; the MQTT clients of earlier
callers are never closed; a DELETE that a silent subscriber has earned also removes a
subscription that was made again meanwhile; a `delsub` served late leaves a bootstrap
that is complete without a subscription; a command that comes between the end of one
action and `main.cpp:132` loses its mode and is answered "Error on Command!"; a read
that splits the mark of a line loses a command, an id or an echo without a word; and
after a registration that follows a 5000 every command comes twice, after the next one
three times.

In `ContainerRow` the histories stand for behaviours that the code does not prevent
and that no line of it forbids: of two overlapping writes of the list the later one
wins, so a subscriber may be lost or come back; a create and a delete of one
subscription that cross leave an entry without a row; a subscription whose list
could not be written is refused with 409 when it is tried again. `cni` does not go
down when instances are trimmed, two DELETEs of one instance take 2 off it,
and two trims that counted the same rows delete more than the limit asks. A POST that
read `mni` before a PUT lowered it, and inserts its instance after the PUT has counted,
leaves more instances than the new limit until the next POST. Seen in
the same files and not modelled: `del_expired_resource` (`app.js:108`) is said to delete
expired resources; the master waits for an event `death` (`app.js:130`) to start a worker again.

## Plan

Done: the flight service, the dispatcher, its posts, its callers and its control
board, the bootstrap, the session of the TAS, the notifications, the list of
subscriptions and the instances of a container; proofs of every safety property,
action property and refinement that the passing runs check.

What could come next, in this order:

1. **The list and the notifications composed**: `ContainerRow` and `SgnMan` over one
   set of subscriptions, with the DELETE of a silent one as a request of
   `ContainerRow`, to state that whoever is listed and answers stays listed.
2. **The command path**: `CallPath`, `TargetPosts`, `SgnMan`, `TasLink` and
   `DroneService` composed over an abstract channel that reorders; commands
   travel on separate connections.
3. **Mobius: the rest of a container** (`resource.js`, `sql_action.js`): its own
   creation and removal while requests about its children are served, the limit
   of bytes `mbs`, and the state tag.
4. **Mobius: MQTT binding** (`pxy_mqtt.js`): start-up states and the correlation
   of requests and responses.
5. **Mobius: groups, transactions and time series** (`grp.js`/`fopt.js`,
   `tm.js`/`tr.js`, `ts_agent.js`): fan-out and its merged answer; lock, execute
   and commit; missing data. No client of this repository uses them.

## Not modelled

- *Frontend* beyond the call and the markers: login, rendering, and the cameras of the
  board, which are looked up by one request per drone (an answer that comes after the
  drone is removed leaves a camera). The board subscribes when its client connects
  after the page is up; a page that is entered on an open connection gets nothing until
  the next one, which is a `Disconnect` that lasts.
- *Accounts* (`routes/user.ts`): one database query per request.
- *Serialisation, access control, discovery* in Mobius: no state of their own.
- *Other bindings of Thyme and Mobius* (CoAP, WebSocket, MQTT requests): not
  selected by any configuration in the repository.
- *The answers to uploads of the drone's position*: TAS ignores them.
- *A subscription that is made again under its name while a DELETE for the earlier one is
  under way* is removed in `SgnMan`; Mobius cannot tell the two apart, and no property
  demands it.
- *Camera relay, simulator, vendored examples* of MAVSDK and jsmpeg. The
  recordings `Drone/Camera/2.jsmpeg/recordings/*.ts` are MPEG transport streams and
  not TypeScript; they are most of what counts as lines of `.ts` files here.
- *Hit statistics* (`hit_man.js`) count requests per day for a page.
