-------------------------------- MODULE SgnMan --------------------------------
(***************************************************************************)
(* How Mobius notifies subscribers and gives up those that do not answer   *)
(* (src/Backend/sgn_man.js, fed by src/Backend/mobius/sgn.js).             *)
(*                                                                         *)
(* A worker of Mobius posts each notification to sgn_man on a connection   *)
(* of its own.  sgn_man hands it to the subscriber, by MQTT or HTTP, and   *)
(* keeps the connection open until the answer comes or 5 s have passed.    *)
(* It counts, per subscription, the connections that ended that way; an    *)
(* answer deletes the count, and at the limit the next notification is not *)
(* handed on but turned into a DELETE of the subscription.                 *)
(*                                                                         *)
(* The name of a subscription is its path: one that an AE creates again    *)
(* has the name, and the count, of the one before.  CoAP works as HTTP     *)
(* does here; WebSocket, which no subscriber uses, is left out.            *)
(***************************************************************************)
EXTENDS Naturals, FiniteSets, SequencesExt

CONSTANTS
    Sub,        \* names of subscriptions
    Rqi,        \* bound: ids of the requests that are open at one time
    Free,       \* no request has this id
    Http,       \* subscriptions with an http: notification URI, others: mqtt:
    Always,     \* subscriptions with exc '0'
    MaxRetry,   \* MAX_NUM_RETRY, 16
    MaxPending, \* resp_mqtt_rqi_arr_max_size, 512
    MaxFaults   \* bound: DELETE requests that fail

ASSUME SgnAssumption ==
    /\ Http \subseteq Sub /\ Always \subseteq Sub /\ Free \notin Sub /\ IsFiniteSet(Rqi)
    /\ MaxRetry \in Nat \ {0} /\ MaxPending \in Nat \ {0} /\ MaxFaults \in Nat

VARIABLES
    subs,              \* subscriptions that Mobius holds
    nid,               \* whose notification request r carries, or Free
    stage,             \* where request r is
    counted,           \* keys of ss_fail_count
    ss_fail_count,     \* its values, 0 without a key
    resp_mqtt_rqi_arr, \* requests that wait for an answer by MQTT
    dead,              \* subscribers that have ended: no answer of theirs is on its way
    silence,           \* requests of s that timed out since its last answer and
                       \* its last DELETE, up to MaxRetry: a history variable
    crowded,           \* TRUE after more than MaxPending MQTT requests were open
                       \* at once: a history variable
    faults             \* DELETE requests that failed

vars == <<subs, nid, stage, counted, ss_fail_count, resp_mqtt_rqi_arr, dead, silence, crowded, faults>>

Stage == {
    "free",
    "sent",     \* posted to sgn_man, not handled yet
    "waiting",  \* handed to the subscriber
    "unheard",  \* answered by MQTT when the request was no longer in the array
    "removing", \* not handed on; the DELETE is under way
    "removed",  \* not handed on; the DELETE has been answered
    "late",     \* timed out; the HTTP subscriber may still answer
    "deleting"} \* timed out; the DELETE is still under way

Init ==
    /\ subs = {} /\ dead = {}
    /\ nid = [r \in Rqi |-> Free] /\ stage = [r \in Rqi |-> "free"]
    /\ counted = {} /\ ss_fail_count = [s \in Sub |-> 0]
    /\ resp_mqtt_rqi_arr = << >>
    /\ silence = [s \in Sub |-> 0] /\ crowded = FALSE
    /\ faults = 0

-----------------------------------------------------------------------------
(* Requests.                                                               *)

Open(r, s) ==
    /\ stage[r] = "free"
    /\ stage' = [stage EXCEPT ![r] = "sent"]
    /\ nid' = [nid EXCEPT ![r] = s]

Moves(r, to) == stage' = [stage EXCEPT ![r] = to] /\ UNCHANGED nid

Ends(r) ==
    /\ stage' = [stage EXCEPT ![r] = "free"]
    /\ nid' = [nid EXCEPT ![r] = Free]

counts == <<counted, ss_fail_count>>

SetCount(s, n) == counted' = counted \cup {s} /\ ss_fail_count' = [ss_fail_count EXCEPT ![s] = n]
DeleteCount(s) == counted' = counted \ {s} /\ ss_fail_count' = [ss_fail_count EXCEPT ![s] = 0]

\* The MQTT requests whose connection is open.
MqttOpen == {r \in Rqi : stage[r] \in {"waiting", "unheard"} /\ nid[r] \notin Http}

-----------------------------------------------------------------------------
(* Mobius: subscriptions, and sgn.js.                                      *)

\* The AE subscribes.  A notification for verification is posted first, even
\* if the subscription is there and the request is refused for that.
Subscribe(s, r) ==
    /\ s \notin dead
    /\ Open(r, s)
    /\ subs' = subs \cup {s}
    /\ UNCHANGED <<counts, resp_mqtt_rqi_arr, dead, silence, crowded, faults>>

Unsubscribe(s) ==
    /\ s \in subs \ dead
    /\ subs' = subs \ {s}
    /\ UNCHANGED <<nid, stage, counts, resp_mqtt_rqi_arr, dead, silence, crowded, faults>>

\* Something happens to the resource that s watches.
Notify(s, r) ==
    /\ s \in subs
    /\ Open(r, s)
    /\ UNCHANGED <<subs, counts, resp_mqtt_rqi_arr, dead, silence, crowded, faults>>

-----------------------------------------------------------------------------
(* sgn_man: POST /sgn.                                                     *)

\* Slip: every notification starts the count again.
FailuresForgotten(s) == 0

\* The count the handler goes by.
Failures(s) == IF s \in Always THEN 0 ELSE ss_fail_count[s]

\* The array drops its oldest entry when it is full.
Pushed(arr, r) == Append(IF Len(arr) >= MaxPending THEN Tail(arr) ELSE arr, r)

\* Slip: the oldest entry goes, not that of the request.
SplicedFirst(arr, r) == IF arr = << >> THEN arr ELSE Tail(arr)

Spliced(arr, r) == IF r \in Range(arr) THEN RemoveAt(arr, CHOOSE i \in DOMAIN arr : arr[i] = r) ELSE arr

GiveUp(r) ==
    /\ stage[r] = "sent" /\ Failures(nid[r]) >= MaxRetry
    /\ DeleteCount(nid[r])
    /\ silence' = [silence EXCEPT ![nid[r]] = 0]
    /\ Moves(r, "removing")
    /\ UNCHANGED <<subs, resp_mqtt_rqi_arr, dead, crowded, faults>>

\* Without a client of the broker (sgn_mqtt_client is null after an error) the
\* request waits as if the subscriber did not answer.
HandOn(r) ==
    /\ stage[r] = "sent" /\ Failures(nid[r]) < MaxRetry
    /\ SetCount(nid[r], Failures(nid[r]))
    /\ Moves(r, "waiting")
    /\ IF nid[r] \in Http THEN UNCHANGED <<resp_mqtt_rqi_arr, crowded>>
       ELSE /\ resp_mqtt_rqi_arr' = Pushed(resp_mqtt_rqi_arr, r)
            /\ crowded' = (crowded \/ Cardinality(MqttOpen) >= MaxPending)
    /\ UNCHANGED <<subs, dead, silence, faults>>

-----------------------------------------------------------------------------
(* Answers and their absence.                                              *)

\* Slip: an answer does not delete the count.
HeardKeepsCount(s) == UNCHANGED counts /\ silence' = [silence EXCEPT ![s] = 0]

Heard(s) == DeleteCount(s) /\ silence' = [silence EXCEPT ![s] = 0]

\* By MQTT: the request is looked up in the array.
AnswerMqtt(r) ==
    /\ stage[r] = "waiting" /\ nid[r] \notin Http \cup dead
    /\ IF r \in Range(resp_mqtt_rqi_arr)
       THEN /\ Heard(nid[r])
            /\ resp_mqtt_rqi_arr' = Spliced(resp_mqtt_rqi_arr, r)
            /\ Ends(r)
       ELSE /\ Moves(r, "unheard")
            /\ UNCHANGED <<counts, silence, resp_mqtt_rqi_arr>>
    /\ UNCHANGED <<subs, dead, crowded, faults>>

\* By HTTP, with 200 or 201 (any other answer is as none): also when it is late.
AnswerHttp(r) ==
    /\ stage[r] \in {"waiting", "late"} /\ nid[r] \in Http \ dead
    /\ Heard(nid[r])
    /\ Ends(r)
    /\ UNCHANGED <<subs, resp_mqtt_rqi_arr, dead, crowded, faults>>

\* The connection to the HTTP subscriber ends without an answer.
NoAnswer(r) ==
    /\ stage[r] = "late"
    /\ Ends(r)
    /\ UNCHANGED <<subs, counts, resp_mqtt_rqi_arr, dead, silence, crowded, faults>>

AfterTimeout(r) ==
    CASE stage[r] = "waiting" /\ nid[r] \in Http -> Moves(r, "late")
      [] stage[r] = "removing" -> Moves(r, "deleting")
      [] OTHER -> Ends(r)

Silent(s) == silence' = [silence EXCEPT ![s] = IF @ < MaxRetry THEN @ + 1 ELSE @]

\* 5 s without traffic on the connection.
Timeout(r) ==
    /\ stage[r] \in {"waiting", "unheard", "removing", "removed"}
    /\ IF nid[r] \in counted THEN SetCount(nid[r], ss_fail_count[nid[r]] + 1) ELSE UNCHANGED counts
    /\ resp_mqtt_rqi_arr' = Spliced(resp_mqtt_rqi_arr, r)
    /\ Silent(nid[r])
    /\ AfterTimeout(r)
    /\ UNCHANGED <<subs, dead, crowded, faults>>

-----------------------------------------------------------------------------
(* delete_sub: its answer is only printed.                                 *)

AfterDelete(r) == IF stage[r] = "removing" THEN Moves(r, "removed") ELSE Ends(r)

Deleted(r) ==
    /\ stage[r] \in {"removing", "deleting"}
    /\ subs' = subs \ {nid[r]}
    /\ AfterDelete(r)
    /\ UNCHANGED <<counts, resp_mqtt_rqi_arr, dead, silence, crowded, faults>>

DeleteFails(r) ==
    /\ stage[r] \in {"removing", "deleting"}
    /\ faults < MaxFaults /\ faults' = faults + 1
    /\ AfterDelete(r)
    /\ UNCHANGED <<subs, counts, resp_mqtt_rqi_arr, dead, silence, crowded>>

\* A subscriber ends and does not come back.
Dies(s) ==
    /\ s \notin dead
    /\ dead' = dead \cup {s}
    /\ UNCHANGED <<subs, nid, stage, counts, resp_mqtt_rqi_arr, silence, crowded, faults>>

-----------------------------------------------------------------------------
NotifyAny(s) == \E r \in Rqi : Notify(s, r)
Handle(r) == GiveUp(r) \/ HandOn(r)

Next ==
    \/ \E s \in Sub : Unsubscribe(s) \/ Dies(s) \/ NotifyAny(s) \/ \E r \in Rqi : Subscribe(s, r)
    \/ \E r \in Rqi : \/ Handle(r) \/ AnswerMqtt(r) \/ AnswerHttp(r) \/ NoAnswer(r) \/ Timeout(r)
                      \/ Deleted(r) \/ DeleteFails(r)

Spec == Init /\ [][Next]_vars

\* What is subscribed to goes on happening, posts arrive, timers fire, Mobius
\* serves a DELETE, connections end.  Answers are not promised.
FairSpec ==
    /\ Spec
    /\ \A s \in Sub : SF_vars(NotifyAny(s))
    /\ \A r \in Rqi : WF_vars(Handle(r)) /\ WF_vars(NoAnswer(r)) /\ WF_vars(Timeout(r)) /\ WF_vars(Deleted(r))

-----------------------------------------------------------------------------
(* What must hold.                                                         *)

\* Every variable has its type.
TypeOK ==
    /\ subs \subseteq Sub /\ dead \subseteq Sub
    /\ nid \in [Rqi -> Sub \cup {Free}] /\ stage \in [Rqi -> Stage]
    /\ \A r \in Rqi : nid[r] = Free <=> stage[r] = "free"
    /\ counted \subseteq Sub /\ ss_fail_count \in [Sub -> Nat]
    /\ resp_mqtt_rqi_arr \in Seq(Rqi)
    /\ silence \in [Sub -> 0..MaxRetry] /\ crowded \in BOOLEAN
    /\ faults \in 0..MaxFaults

\* Each DELETE is earned by MaxRetry requests of its own that timed out since the
\* last answer and the last DELETE, however the requests overlap, and none is
\* sent when exc is '0'.  (A request that was turned into a DELETE counts as one
\* that timed out.)
GivesUpOnlySilent ==
    [][\A r \in Rqi : stage[r] # "removing" /\ stage'[r] = "removing" =>
            silence[nid[r]] = MaxRetry /\ nid[r] \notin Always]_vars

\* An answer by MQTT that comes in time is heard, unless more requests than the
\* array holds were open at once.
InTimeIsHeard == ~crowded => \A r \in Rqi : stage[r] # "unheard"

\* A subscriber that is gone loses its subscription in the end.
GoneIsRemoved == \A s \in Sub \ Always : s \in dead ~> s \notin subs
=============================================================================
