---------------------------- MODULE ThymeBootstrap ----------------------------
(***************************************************************************)
(* How the drone's AE registers with Mobius: the watchdog of               *)
(* src/Drone/http_app.js (conf.useprotocol is 'http').                     *)
(*                                                                         *)
(* http_watchdog runs every 2 s and, by sh_state, creates the AE, creates  *)
(* its containers, deletes the subscriptions left from an earlier run and  *)
(* creates them anew, one request at a time.  A request without an answer  *)
(* is repeated on the third tick (the AE requests on every tick).  Nothing *)
(* ties an answer to the state it is for: the callback of a slow request   *)
(* overwrites sh_state and request_count whatever they are by then.        *)
(*                                                                         *)
(* Every request has an HTTP connection of its own.  A container has one   *)
(* subscription (conf.js builds one sub per cnt), both known by its index. *)
(***************************************************************************)
EXTENDS Integers

CONSTANTS
    N,          \* number of containers, and of subscriptions (conf.cnt, conf.sub)
    Conn, Idle, \* connections, their number bounds the requests under way
    MaxFaults   \* bound: lost requests or answers, and errors of Mobius

ASSUME BootstrapAssumption == N \in Nat \ {0} /\ MaxFaults \in Nat

VARIABLES
    sh_state,      \* step of the bootstrap, 'crtci' when it is complete
    request_count, \* index of the container or subscription to ask for
    return_count,  \* ticks since the last request
    conn,          \* request or answer on each connection, or Idle
    ae,            \* AE in Mobius: "absent", "ours", "foreign" (another AE-ID)
    cnts, subs,    \* containers and subscriptions in Mobius
    handlers,      \* 'message' handlers on the MQTT client, 2 for more than one
    faults,        \* faults so far
    repeated,      \* TRUE once a request was sent while another was under way
    refused,       \* TRUE once Mobius refused a container or subscription
    failed         \* TRUE once Mobius answered 5000 to an upload

history == <<repeated, refused, failed>>   \* no code reads these
mobius == <<ae, cnts, subs>>
vars == <<sh_state, request_count, return_count, conn, mobius, handlers, faults, history>>

Index == 0..(N - 1)
ByIndex == {"crtct", "delsub", "crtsub"}
ShState == {"crtae", "rtvae", "crtci"} \cup ByIndex

Answer == {"created", "exists", "done"}
Message == [op : {"crtae", "rtvae"} \cup ByIndex, i : Index, is : {"request"} \cup Answer]

\* The process starts, maybe not for the first time.
Init ==
    /\ sh_state = "crtae" /\ request_count = 0 /\ return_count = 0
    /\ conn = [c \in Conn |-> Idle]
    /\ ae \in {"absent", "ours", "foreign"}
    /\ cnts \in SUBSET Index /\ subs \in SUBSET cnts /\ (ae = "absent" => cnts = {})
    /\ handlers = 0 /\ faults = 0
    /\ repeated = FALSE /\ refused = FALSE /\ failed = FALSE

-----------------------------------------------------------------------------
(* http_watchdog.                                                          *)

Busy(c) == conn[c] # Idle

\* Slip: the counter is never reset, so nothing is repeated (Bootstraps).
NextReturnStuck(n) == IF n + 1 >= 3 THEN n ELSE n + 1

NextReturn(n) == IF n + 1 >= 3 THEN 0 ELSE n + 1

Send(c, op, i) ==
    /\ ~Busy(c)
    /\ conn' = [conn EXCEPT ![c] = [op |-> op, i |-> i, is |-> "request"]]
    /\ repeated' = (repeated \/ \E d \in Conn : Busy(d))

\* crtae or rtvae, on every tick.
TickAE ==
    /\ sh_state \in {"crtae", "rtvae"}
    /\ \E c \in Conn : Send(c, sh_state, 0)
    /\ UNCHANGED <<sh_state, request_count, return_count, mobius, handlers, faults, refused, failed>>

\* create_cnt_all, delete_sub_all or create_sub_all, on every third tick.
TickSend ==
    /\ sh_state \in ByIndex /\ return_count = 0
    /\ \E c \in Conn : Send(c, sh_state, request_count)
    /\ return_count' = NextReturn(return_count)
    /\ UNCHANGED <<sh_state, request_count, mobius, handlers, faults, refused, failed>>

TickWait ==
    /\ sh_state \in ByIndex /\ return_count # 0
    /\ return_count' = NextReturn(return_count)
    /\ UNCHANGED <<sh_state, request_count, conn, mobius, handlers, faults, history>>

-----------------------------------------------------------------------------
(* Mobius and the network.                                                 *)

Requested(c, op) == Busy(c) /\ conn[c].op = op /\ conn[c].is = "request"

AnswerWith(c, a) == conn' = [conn EXCEPT ![c].is = a]

\* An AE that exists is a conflict (4105).
ServeCrtae(c) ==
    /\ Requested(c, "crtae")
    /\ AnswerWith(c, IF ae = "absent" THEN "created" ELSE "exists")
    /\ ae' = IF ae = "absent" THEN "ours" ELSE ae
    /\ UNCHANGED <<sh_state, request_count, return_count, cnts, subs, handlers, faults, history>>

\* Any answer but an AE with our AE-ID changes nothing in the watchdog.
ServeRtvae(c) ==
    /\ Requested(c, "rtvae")
    /\ IF ae = "ours" THEN AnswerWith(c, "done") ELSE conn' = [conn EXCEPT ![c] = Idle]
    /\ UNCHANGED <<sh_state, request_count, return_count, mobius, handlers, faults, history>>

ServeCrtct(c) ==
    /\ Requested(c, "crtct")
    /\ cnts' = cnts \cup {conn[c].i}
    /\ AnswerWith(c, "done")
    /\ UNCHANGED <<sh_state, request_count, return_count, ae, subs, handlers, faults, history>>

ServeDelsub(c) ==
    /\ Requested(c, "delsub")
    /\ subs' = subs \ {conn[c].i}
    /\ AnswerWith(c, "done")
    /\ UNCHANGED <<sh_state, request_count, return_count, ae, cnts, handlers, faults, history>>

\* A subscription needs its container.
ServeCrtsub(c) ==
    /\ Requested(c, "crtsub")
    /\ subs' = subs \cup ({conn[c].i} \cap cnts)
    /\ AnswerWith(c, "done")
    /\ UNCHANGED <<sh_state, request_count, return_count, ae, cnts, handlers, faults, history>>

ServeByIndex(c) == ServeCrtct(c) \/ ServeDelsub(c) \/ ServeCrtsub(c)

\* Mobius answers with an error; the callback gets '9999' and goes on as if it
\* were done.
Refuse(c) ==
    /\ \E op \in ByIndex : Requested(c, op)
    /\ AnswerWith(c, "done")
    /\ refused' = TRUE
    /\ UNCHANGED <<sh_state, request_count, return_count, mobius, handlers, faults, repeated, failed>>

Fault == faults < MaxFaults /\ faults' = faults + 1

\* The request or its answer is lost (or crtae gets another error).
Lose(c) ==
    /\ Busy(c) /\ Fault
    /\ conn' = [conn EXCEPT ![c] = Idle]
    /\ UNCHANGED <<sh_state, request_count, return_count, mobius, handlers, history>>

\* Mobius answers 5000 to an upload of the TAS (thyme_tas.js), which runs since
\* tas.ready(): register again.
UploadFails ==
    /\ handlers > 0 /\ Fault
    /\ sh_state' = "crtae"
    /\ failed' = TRUE
    /\ UNCHANGED <<request_count, return_count, conn, mobius, handlers, repeated, refused>>

-----------------------------------------------------------------------------
(* The callbacks.                                                          *)

Answered(c, op, a) == Busy(c) /\ conn[c].op = op /\ conn[c].is = a

Consume(c) == conn' = [conn EXCEPT ![c] = Idle]

\* crtae created the AE, or rtvae found it.
AnswerAE(c) ==
    /\ Answered(c, "crtae", "created") \/ Answered(c, "rtvae", "done")
    /\ Consume(c)
    /\ sh_state' = "crtct" /\ request_count' = 0 /\ return_count' = 0
    /\ UNCHANGED <<mobius, handlers, faults, history>>

AnswerExists(c) ==
    /\ Answered(c, "crtae", "exists")
    /\ Consume(c)
    /\ sh_state' = "rtvae"
    /\ UNCHANGED <<request_count, return_count, mobius, handlers, faults, history>>

\* Slip: conf.cnt.length < count (RequestInRange).
LastLate(i) == N < i + 1

\* Slip: the last one is left out (ContainersComplete, SubscribedWhenReady).
LastEarly(i) == N <= i + 2

Last(i) == N <= i + 1

\* crtct or delsub answered: the next index, or the next state.
AnswerStep(c, op, next) ==
    LET i == conn[c].i IN
    /\ Answered(c, op, "done")
    /\ Consume(c)
    /\ return_count' = 0
    /\ request_count' = IF Last(i) THEN 0 ELSE i + 1
    /\ sh_state' = IF Last(i) THEN next ELSE sh_state
    /\ UNCHANGED <<mobius, handlers, faults, history>>

\* Slip: ready_for_notification for each subscription (OneHandler).
AnswerCrtsubReadies(c) ==
    LET i == conn[c].i IN
    /\ Answered(c, "crtsub", "done")
    /\ Consume(c)
    /\ return_count' = 0
    /\ request_count' = i + 1
    /\ sh_state' = IF Last(i) THEN "crtci" ELSE sh_state
    /\ handlers' = IF handlers < 2 THEN handlers + 1 ELSE handlers
    /\ UNCHANGED <<mobius, faults, history>>

\* crtsub answered.  After the last one ready_for_notification adds a handler
\* to the MQTT client, new or not, and tas.ready() listens for the TAS.
AnswerCrtsub(c) ==
    LET i == conn[c].i IN
    /\ Answered(c, "crtsub", "done")
    /\ Consume(c)
    /\ return_count' = 0
    /\ request_count' = i + 1
    /\ sh_state' = IF Last(i) THEN "crtci" ELSE sh_state
    /\ handlers' = IF Last(i) /\ handlers < 2 THEN handlers + 1 ELSE handlers
    /\ UNCHANGED <<mobius, faults, history>>

-----------------------------------------------------------------------------
Tick == TickAE \/ TickSend \/ TickWait

Serve(c) == ServeCrtae(c) \/ ServeRtvae(c) \/ ServeByIndex(c) \/ Refuse(c)

Callback(c) ==
    \/ AnswerAE(c) \/ AnswerExists(c)
    \/ AnswerStep(c, "crtct", "delsub") \/ AnswerStep(c, "delsub", "crtsub")
    \/ AnswerCrtsub(c)

Next == Tick \/ UploadFails \/ \E c \in Conn : Serve(c) \/ Lose(c) \/ Callback(c)

Spec == Init /\ [][Next]_vars

\* The timer ticks, every request is answered or lost, every callback runs.
FairSpec ==
    /\ Spec /\ WF_vars(Tick)
    /\ \A c \in Conn : WF_vars(Serve(c)) /\ WF_vars(Callback(c))

-----------------------------------------------------------------------------
(* What must hold.                                                         *)

\* Every variable has its type.
TypeOK ==
    /\ sh_state \in ShState /\ request_count \in 0..N /\ return_count \in 0..2
    /\ conn \in [Conn -> Message \cup {Idle}]
    /\ ae \in {"absent", "ours", "foreign"} /\ cnts \subseteq Index /\ subs \subseteq Index
    /\ handlers \in 0..2 /\ faults \in 0..MaxFaults
    /\ repeated \in BOOLEAN /\ refused \in BOOLEAN /\ failed \in BOOLEAN

\* However late the answers, http_watchdog never asks for a container or
\* subscription that is not in conf (conf.cnt[count].parent would throw and end
\* the process).
RequestInRange == sh_state \in ByIndex => request_count < N

\* However late the answers, subscriptions are only handled, and uploads only
\* accepted, when all containers exist, unless Mobius refused one.
ContainersComplete ==
    ~refused /\ sh_state \in {"delsub", "crtsub", "crtci"} => cnts = Index

\* When the bootstrap is complete every container has its subscription, unless
\* Mobius refused a request or one was repeated while the first was still under
\* way (a delsub served late deletes a subscription that was just created).
SubscribedWhenReady == sh_state = "crtci" /\ ~refused /\ ~repeated => subs = Index

\* A notification is handled once: unless requests were repeated or the AE
\* registered again, there is one handler.
OneHandler == ~repeated /\ ~failed => handlers < 2

\* In the end the AE is up and stays so, unless its name belongs to another.
Bootstraps == ae # "foreign" => <>[](sh_state = "crtci")
=============================================================================
