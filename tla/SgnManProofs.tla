----------------------------- MODULE SgnManProofs -----------------------------
(***************************************************************************)
(* Proofs about SgnMan, for any subscriptions, limits and number of open   *)
(* requests.                                                               *)
(*                                                                         *)
(* GivesUpOnlySilent rests on Backed: a count never runs ahead of the      *)
(* silence it stands for.  InTimeIsHeard rests on Indexed: the array names *)
(* each MQTT request that waits, once, as long as it was never too small.  *)
(***************************************************************************)
EXTENDS SgnMan, FiniteSetTheorems, TLAPS

Distinct(q) == \A i, j \in 1..Len(q) : q[i] = q[j] => i = j

Waits(r) == stage[r] = "waiting" /\ nid[r] \notin Http

Backed == \A s \in Sub : ss_fail_count[s] <= silence[s] \/ silence[s] = MaxRetry

Indexed ==
    /\ Distinct(resp_mqtt_rqi_arr)
    /\ \A r \in Range(resp_mqtt_rqi_arr) : Waits(r)
    /\ ~crowded => \A r \in Rqi : Waits(r) => r \in Range(resp_mqtt_rqi_arr)

-----------------------------------------------------------------------------
(* Sequences.                                                              *)

LEMMA RangeOf ==
    ASSUME NEW S, NEW q \in Seq(S)
    PROVE  /\ Range(q) \subseteq S
           /\ \A x : x \in Range(q) <=> \E i \in 1..Len(q) : q[i] = x
    BY DEF Range

LEMMA SplicedFacts ==
    ASSUME NEW S, NEW q \in Seq(S), Distinct(q), NEW r
    PROVE  /\ Spliced(q, r) \in Seq(S)
           /\ Distinct(Spliced(q, r))
           /\ \A x : x \in Range(Spliced(q, r)) <=> x \in Range(q) /\ x # r
<1>1. CASE r \notin Range(q)
    BY <1>1 DEF Spliced
<1>2. CASE r \in Range(q)
  <2> DEFINE i == CHOOSE k \in DOMAIN q : q[k] = r
  <2>1. i \in 1..Len(q) /\ q[i] = r
      BY <1>2 DEF Range
  <2> HIDE DEF i
  <2> DEFINE t == SubSeq(q, 1, i - 1) \o SubSeq(q, i + 1, Len(q))
  <2>2. Spliced(q, r) = t
      BY <1>2 DEF Spliced, RemoveAt, i
  <2> DEFINE a == SubSeq(q, 1, i - 1)
               b == SubSeq(q, i + 1, Len(q))
  <2>3. /\ a \in Seq(S) /\ Len(a) = i - 1
        /\ \A k \in 1..(i - 1) : a[k] = q[k]
      BY <2>1
  <2>4. /\ b \in Seq(S) /\ Len(b) = Len(q) - i
        /\ \A k \in 1..(Len(q) - i) : b[k] = q[i + k]
      BY <2>1
  <2> HIDE DEF a, b
  <2>5. t = a \o b
      BY DEF a, b
  <2> HIDE DEF t
  <2>6. t \in Seq(S) /\ Len(t) = Len(q) - 1
      BY <2>1, <2>3, <2>4, <2>5
  <2>7. \A k \in 1..Len(t) : t[k] = IF k < i THEN q[k] ELSE q[k + 1]
    <3> TAKE k \in 1..Len(t)
    <3>1. CASE k < i
        BY <2>1, <2>6, <2>3, <2>4, <2>5, <3>1
    <3>2. CASE ~(k < i)
      <4>1. k - (i - 1) \in 1..(Len(q) - i) /\ t[k] = b[k - (i - 1)]
          BY <2>1, <2>6, <2>3, <2>4, <2>5, <3>2
      <4>2. i + (k - (i - 1)) = k + 1
          BY <2>1
      <4> QED
          BY <2>4, <3>2, <4>1, <4>2
    <3> QED
        BY <3>1, <3>2
  <2> HIDE DEF t
  <2>8. Distinct(t)
      BY <2>1, <2>6, <2>7 DEF Distinct
  <2>9. ASSUME NEW x PROVE x \in Range(t) <=> x \in Range(q) /\ x # r
    <3>1. ASSUME x \in Range(t) PROVE x \in Range(q) /\ x # r
      <4>1. PICK k \in 1..Len(t) : t[k] = x
          BY <2>6, <3>1, RangeOf
      <4>2. PICK m \in 1..Len(q) : m # i /\ q[m] = x
          BY <2>1, <2>6, <2>7, <4>1
      <4> QED
          BY <2>1, <4>2, RangeOf DEF Distinct
    <3>2. ASSUME x \in Range(q), x # r PROVE x \in Range(t)
      <4>1. PICK m \in 1..Len(q) : q[m] = x
          BY <3>2, RangeOf
      <4>2. m # i
          BY <2>1, <3>2, <4>1
      <4>3. CASE m < i
          BY <2>1, <2>6, <2>7, <4>1, <4>3, RangeOf
      <4>4. CASE m > i
        <5>1. m - 1 \in 1..Len(t) /\ t[m - 1] = x
            BY <2>1, <2>6, <2>7, <4>1, <4>4
        <5> QED
            BY <2>6, <5>1, RangeOf
      <4> QED
          BY <2>1, <4>1, <4>2, <4>3, <4>4
    <3> QED
        BY <3>1, <3>2
  <2> QED
      BY <2>2, <2>6, <2>8, <2>9
<1> QED
    BY <1>1, <1>2

LEMMA TailFacts ==
    ASSUME NEW S, NEW q \in Seq(S), Distinct(q), q # << >>
    PROVE  Tail(q) \in Seq(S) /\ Distinct(Tail(q)) /\ Range(Tail(q)) \subseteq Range(q)
<1>1. /\ Tail(q) \in Seq(S) /\ Len(Tail(q)) = Len(q) - 1
      /\ \A k \in 1..Len(Tail(q)) : Tail(q)[k] = q[k + 1]
    OBVIOUS
<1>2. Distinct(Tail(q))
    BY <1>1 DEF Distinct
<1>3. ASSUME NEW x \in Range(Tail(q)) PROVE x \in Range(q)
  <2>1. PICK k \in 1..Len(Tail(q)) : Tail(q)[k] = x
      BY <1>1, RangeOf
  <2>2. k + 1 \in 1..Len(q) /\ q[k + 1] = x
      BY <1>1, <2>1
  <2> QED
      BY <2>2, RangeOf
<1> QED
    BY <1>1, <1>2, <1>3

LEMMA AppendFacts ==
    ASSUME NEW S, NEW q \in Seq(S), Distinct(q), NEW r \in S, r \notin Range(q)
    PROVE  /\ Append(q, r) \in Seq(S) /\ Distinct(Append(q, r))
           /\ Range(Append(q, r)) = Range(q) \cup {r}
<1>1. /\ Append(q, r) \in Seq(S) /\ Len(Append(q, r)) = Len(q) + 1
      /\ \A k \in 1..Len(q) : Append(q, r)[k] = q[k]
      /\ Append(q, r)[Len(q) + 1] = r
    OBVIOUS
<1>2. \A k \in 1..Len(q) : q[k] # r
    BY RangeOf
<1>3. Distinct(Append(q, r))
    BY <1>1, <1>2 DEF Distinct
<1>4. ASSUME NEW x PROVE x \in Range(Append(q, r)) <=> x \in Range(q) \cup {r}
  <2>1. x \in Range(Append(q, r)) <=> \E k \in 1..(Len(q) + 1) : Append(q, r)[k] = x
      BY <1>1, RangeOf, ZenonT(40)
  <2>2. x \in Range(q) <=> \E k \in 1..Len(q) : q[k] = x
      BY RangeOf
  <2> QED
      BY <1>1, <2>1, <2>2
<1> QED
    BY <1>1, <1>3, <1>4

\* A sequence without repetitions is no longer than the set it draws from.
LEMMA DistinctLength ==
    ASSUME NEW S, NEW T, IsFiniteSet(T), NEW q \in Seq(S), Distinct(q), Range(q) \subseteq T
    PROVE  Len(q) <= Cardinality(T)
<1>1. q \in [1..Len(q) -> S] /\ \A i \in 1..Len(q) : q[i] \in T
    BY RangeOf
<1>2. q \in Injection(1..Len(q), T)
    BY <1>1 DEF Injection, IsInjective, Distinct
<1>3. Cardinality(1..Len(q)) = Len(q)
  <2>1. Len(q) \in Nat
      OBVIOUS
  <2> QED
      BY <2>1, FS_Interval, SMTT(30)
<1>4. Cardinality(1..Len(q)) <= Cardinality(T)
    BY <1>2, FS_Injection
<1> QED
    BY <1>3, <1>4
-----------------------------------------------------------------------------
(* Types.                                                                  *)

LEMMA InitType == Init => TypeOK
<1> SUFFICES ASSUME Init PROVE TypeOK
    OBVIOUS
<1>1. MaxRetry \in Nat /\ MaxFaults \in Nat /\ Free \notin Sub
    BY SgnAssumption
<1>2. subs \subseteq Sub /\ dead \subseteq Sub /\ counted \subseteq Sub
    BY DEF Init
<1>3. /\ nid \in [Rqi -> Sub \cup {Free}] /\ stage \in [Rqi -> Stage]
      /\ \A r \in Rqi : nid[r] = Free <=> stage[r] = "free"
    BY DEF Init, Stage
<1>4. ss_fail_count \in [Sub -> Nat]
    BY DEF Init
<1>5. silence \in [Sub -> 0..MaxRetry]
    BY <1>1 DEF Init
<1>6. resp_mqtt_rqi_arr \in Seq(Rqi)
    BY DEF Init
<1>7. crowded \in BOOLEAN
    BY DEF Init
<1>8. faults \in 0..MaxFaults
    BY <1>1 DEF Init
<1> QED
    BY <1>2, <1>3, <1>4, <1>5, <1>6, <1>7, <1>8 DEF TypeOK

\* What the steps of a request do to its stage.
LEMMA RequestSteps ==
    ASSUME TypeOK, NEW r \in Rqi, NEW to \in Stage \ {"free"}
    PROVE  /\ (\E s \in Sub : Open(r, s)) \/ Ends(r) \/ (stage[r] # "free" /\ Moves(r, to)) =>
                 /\ nid' \in [Rqi -> Sub \cup {Free}] /\ stage' \in [Rqi -> Stage]
                 /\ \A x \in Rqi : nid'[x] = Free <=> stage'[x] = "free"
                 /\ \A x \in Rqi \ {r} : nid'[x] = nid[x] /\ stage'[x] = stage[x]
           /\ \A s \in Sub : Open(r, s) => stage'[r] = "sent" /\ nid'[r] = s
           /\ Ends(r) => stage'[r] = "free"
           /\ Moves(r, to) => stage'[r] = to /\ nid'[r] = nid[r]
           /\ stage[r] # "free" => nid[r] \in Sub
    BY SgnAssumption, ZenonT(40) DEF TypeOK, Open, Ends, Moves, Stage

LEMMA CountSteps ==
    ASSUME TypeOK, NEW s \in Sub, NEW n \in Nat, SetCount(s, n) \/ (n = 0 /\ DeleteCount(s))
    PROVE  /\ counted' \subseteq Sub /\ ss_fail_count' \in [Sub -> Nat]
           /\ \A x \in Sub : ss_fail_count'[x] = IF x = s THEN n ELSE ss_fail_count[x]
<1>1. counted \subseteq Sub /\ ss_fail_count \in [Sub -> Nat]
    BY DEF TypeOK
<1>2. ss_fail_count' = [ss_fail_count EXCEPT ![s] = n]
    BY DEF SetCount, DeleteCount
<1>3. counted' \subseteq Sub
    BY <1>1 DEF SetCount, DeleteCount
<1> QED
    BY <1>1, <1>2, <1>3

LEMMA NidOfOpen ==
    ASSUME TypeOK, NEW r \in Rqi, stage[r] # "free"
    PROVE  nid[r] \in Sub
    BY DEF TypeOK

\* The variables that the counts and the array do not meet in.
LEMMA PlainTypes ==
    ASSUME TypeOK, Next
    PROVE  /\ subs' \subseteq Sub /\ dead' \subseteq Sub
           /\ crowded' \in BOOLEAN /\ faults' \in 0..MaxFaults
<1>1. /\ subs \subseteq Sub /\ dead \subseteq Sub
      /\ crowded \in BOOLEAN /\ faults \in 0..MaxFaults /\ MaxFaults \in Nat
    BY SgnAssumption DEF TypeOK
<1>2. CASE \E s \in Sub : Unsubscribe(s) \/ Dies(s) \/ NotifyAny(s) \/ \E r \in Rqi : Subscribe(s, r)
    BY <1>1, <1>2 DEF Unsubscribe, Dies, NotifyAny, Notify, Subscribe
<1>3. ASSUME NEW r \in Rqi, GiveUp(r) \/ AnswerMqtt(r) \/ AnswerHttp(r) \/ NoAnswer(r) \/ Timeout(r) \/ Deleted(r)
      PROVE  /\ subs' \subseteq subs /\ dead' = dead
             /\ crowded' = crowded /\ faults' = faults
    BY <1>3 DEF GiveUp, AnswerMqtt, AnswerHttp, NoAnswer, Timeout, Deleted
<1>4. ASSUME NEW r \in Rqi, HandOn(r)
      PROVE  subs' = subs /\ dead' = dead /\ crowded' \in BOOLEAN /\ faults' = faults
  <2>1. subs' = subs /\ dead' = dead /\ faults' = faults
      BY <1>4 DEF HandOn
  <2>2. crowded' = crowded \/ crowded' = (crowded \/ Cardinality(MqttOpen) >= MaxPending)
      BY <1>4 DEF HandOn
  <2> QED
      BY <1>1, <2>1, <2>2
<1>5. ASSUME NEW r \in Rqi, DeleteFails(r)
      PROVE  subs' = subs /\ dead' = dead /\ crowded' = crowded /\ faults' \in 0..MaxFaults
  <2>1. subs' = subs /\ dead' = dead /\ crowded' = crowded /\ faults < MaxFaults /\ faults' = faults + 1
      BY <1>5 DEF DeleteFails
  <2> QED
      BY <1>1, <2>1
<1> QED
    BY <1>1, <1>2, <1>3, <1>4, <1>5 DEF Next, Handle

-----------------------------------------------------------------------------
(* Counts and silence.                                                     *)

CountTypes ==
    counted \subseteq Sub /\ ss_fail_count \in [Sub -> Nat] /\ silence \in [Sub -> 0..MaxRetry]

LEMMA CountsKept ==
    ASSUME TypeOK, Backed, Next
    PROVE  CountTypes' /\ Backed'
<1> USE DEF CountTypes
<1>1. CountTypes /\ MaxRetry \in Nat \ {0}
    BY SgnAssumption DEF TypeOK
<1>2. ASSUME UNCHANGED counts, UNCHANGED silence PROVE CountTypes' /\ Backed'
    BY <1>1, <1>2 DEF Backed, counts
<1>3. ASSUME NEW s \in Sub, Heard(s) PROVE CountTypes' /\ Backed'
  <2>1. /\ counted' \subseteq Sub /\ ss_fail_count' \in [Sub -> Nat]
        /\ \A x \in Sub : ss_fail_count'[x] = IF x = s THEN 0 ELSE ss_fail_count[x]
      BY <1>3, CountSteps DEF Heard
  <2>2. silence' = [silence EXCEPT ![s] = 0]
      BY <1>3 DEF Heard
  <2>3. /\ silence' \in [Sub -> 0..MaxRetry]
        /\ \A x \in Sub : silence'[x] = IF x = s THEN 0 ELSE silence[x]
      BY <1>1, <2>2
  <2> QED
      BY <2>1, <2>3 DEF Backed
<1>4. ASSUME NEW r \in Rqi, GiveUp(r) PROVE CountTypes' /\ Backed'
  <2>1. nid[r] \in Sub /\ Heard(nid[r])
      BY <1>4, NidOfOpen DEF GiveUp, Heard
  <2> QED
      BY <1>3, <2>1
<1>5. ASSUME NEW r \in Rqi, HandOn(r) PROVE CountTypes' /\ Backed'
  <2>1. nid[r] \in Sub /\ SetCount(nid[r], Failures(nid[r])) /\ UNCHANGED silence
      BY <1>5, NidOfOpen DEF HandOn
  <2>2. Failures(nid[r]) \in Nat /\ Failures(nid[r]) <= ss_fail_count[nid[r]]
      BY <1>1, <2>1 DEF Failures
  <2>3. /\ counted' \subseteq Sub /\ ss_fail_count' \in [Sub -> Nat]
        /\ \A x \in Sub : ss_fail_count'[x] = IF x = nid[r] THEN Failures(nid[r]) ELSE ss_fail_count[x]
      BY <2>1, <2>2, CountSteps
  <2>4. \A x \in Sub : ss_fail_count'[x] <= ss_fail_count[x]
      BY <1>1, <2>2, <2>3
  <2> QED
      BY <1>1, <2>1, <2>3, <2>4 DEF Backed
<1>6. ASSUME NEW r \in Rqi, Timeout(r) PROVE CountTypes' /\ Backed'
  <2> DEFINE s == nid[r]
  <2>1. s \in Sub
      BY <1>6, NidOfOpen DEF Timeout
  <2>2. \/ SetCount(s, ss_fail_count[s] + 1)
        \/ UNCHANGED counts
      BY <1>6 DEF Timeout
  <2>3. silence' = [silence EXCEPT ![s] = IF @ < MaxRetry THEN @ + 1 ELSE @]
      BY <1>6 DEF Timeout, Silent
  <2>4. ss_fail_count[s] + 1 \in Nat
      BY <1>1, <2>1
  <2> HIDE DEF s
  <2>5. /\ counted' \subseteq Sub /\ ss_fail_count' \in [Sub -> Nat]
        /\ \A x \in Sub \ {s} : ss_fail_count'[x] = ss_fail_count[x]
        /\ ss_fail_count'[s] <= ss_fail_count[s] + 1
    <3>1. CASE SetCount(s, ss_fail_count[s] + 1)
        BY <2>1, <2>4, <3>1, CountSteps
    <3>2. CASE UNCHANGED counts
        BY <1>1, <2>1, <3>2 DEF counts
    <3> QED
        BY <2>2, <3>1, <3>2
  <2>6. /\ silence' \in [Sub -> 0..MaxRetry]
        /\ \A x \in Sub \ {s} : silence'[x] = silence[x]
        /\ silence'[s] = MaxRetry \/ silence'[s] = silence[s] + 1
      BY <1>1, <2>1, <2>3
  <2>7. silence[s] = MaxRetry => silence'[s] = MaxRetry
      BY <1>1, <2>1, <2>3
  <2>8. ss_fail_count'[s] <= silence'[s] \/ silence'[s] = MaxRetry
      BY <1>1, <2>1, <2>5, <2>6, <2>7 DEF Backed
  <2> QED
      BY <2>1, <2>5, <2>6, <2>8 DEF Backed
<1>7. ASSUME NEW r \in Rqi, AnswerMqtt(r) \/ AnswerHttp(r) PROVE CountTypes' /\ Backed'
  <2>1. nid[r] \in Sub
      BY <1>7, NidOfOpen DEF AnswerMqtt, AnswerHttp
  <2>2. Heard(nid[r]) \/ UNCHANGED <<counts, silence>>
      BY <1>7 DEF AnswerMqtt, AnswerHttp
  <2> QED
      BY <1>2, <1>3, <2>1, <2>2
<1>8. ASSUME NEW r \in Rqi, NoAnswer(r) \/ Deleted(r) \/ DeleteFails(r) PROVE UNCHANGED <<counts, silence>>
    BY <1>8 DEF NoAnswer, Deleted, DeleteFails
<1>9. ASSUME NEW s \in Sub, Unsubscribe(s) \/ Dies(s) \/ NotifyAny(s) \/ \E r \in Rqi : Subscribe(s, r)
      PROVE  UNCHANGED <<counts, silence>>
    BY <1>9 DEF Unsubscribe, Dies, NotifyAny, Notify, Subscribe
<1> QED
    BY <1>2, <1>4, <1>5, <1>6, <1>7, <1>8, <1>9 DEF Next, Handle

-----------------------------------------------------------------------------
(* Requests and the array.                                                 *)

RequestTypes ==
    /\ nid \in [Rqi -> Sub \cup {Free}] /\ stage \in [Rqi -> Stage]
    /\ \A r \in Rqi : nid[r] = Free <=> stage[r] = "free"
    /\ resp_mqtt_rqi_arr \in Seq(Rqi)

RequestInv == RequestTypes /\ Indexed /\ InTimeIsHeard

\* A step of a request that neither waits by MQTT before nor after it.
LEMMA Aside ==
    ASSUME TypeOK, Indexed, InTimeIsHeard, NEW r \in Rqi, NEW to \in Stage \ {"free"},
           (\E s \in Sub : Open(r, s)) \/ Ends(r) \/ (stage[r] # "free" /\ Moves(r, to)),
           ~Waits(r), ~Waits(r)', stage'[r] # "unheard",
           resp_mqtt_rqi_arr' = resp_mqtt_rqi_arr, crowded' = crowded
    PROVE  RequestInv'
<1>1. /\ nid' \in [Rqi -> Sub \cup {Free}] /\ stage' \in [Rqi -> Stage]
      /\ \A x \in Rqi : nid'[x] = Free <=> stage'[x] = "free"
      /\ \A x \in Rqi \ {r} : nid'[x] = nid[x] /\ stage'[x] = stage[x]
    BY RequestSteps
<1>2. \A x \in Rqi : Waits(x)' <=> Waits(x)
    BY <1>1 DEF Waits
<1>3. RequestTypes'
    BY <1>1 DEF RequestTypes, TypeOK
<1>4. Range(resp_mqtt_rqi_arr) \subseteq Rqi
    BY RangeOf DEF TypeOK
<1>5. Indexed'
    BY <1>2, <1>4 DEF Indexed
<1>6. InTimeIsHeard'
    BY <1>1 DEF InTimeIsHeard
<1> QED
    BY <1>3, <1>5, <1>6 DEF RequestInv

\* The request is handed on by MQTT: the array drops an entry only if as many
\* requests wait as it has room for.
LEMMA PushedKeeps ==
    ASSUME TypeOK, Indexed, InTimeIsHeard, NEW r \in Rqi, HandOn(r), nid[r] \notin Http
    PROVE  RequestInv'
<1> DEFINE arr == resp_mqtt_rqi_arr
<1>1. /\ stage[r] = "sent" /\ Moves(r, "waiting")
      /\ arr' = Pushed(arr, r)
      /\ crowded' = (crowded \/ Cardinality(MqttOpen) >= MaxPending)
    BY DEF HandOn
<1>2. /\ nid' \in [Rqi -> Sub \cup {Free}] /\ stage' \in [Rqi -> Stage]
      /\ \A x \in Rqi : nid'[x] = Free <=> stage'[x] = "free"
      /\ \A x \in Rqi \ {r} : nid'[x] = nid[x] /\ stage'[x] = stage[x]
      /\ stage'[r] = "waiting" /\ nid'[r] = nid[r]
    BY <1>1, RequestSteps DEF Stage
<1>3. /\ Waits(r)' /\ ~Waits(r)
      /\ \A x \in Rqi \ {r} : Waits(x)' <=> Waits(x)
    BY <1>1, <1>2 DEF Waits
<1>4. /\ arr \in Seq(Rqi) /\ Distinct(arr) /\ Range(arr) \subseteq Rqi /\ r \notin Range(arr)
      /\ Len(arr) \in Nat /\ MaxPending \in Nat \ {0}
    BY <1>3, RangeOf, SgnAssumption DEF TypeOK, Indexed
<1>5. Len(arr) <= Cardinality(MqttOpen) /\ Cardinality(MqttOpen) \in Nat
  <2>1. IsFiniteSet(MqttOpen)
    <3>1. IsFiniteSet(Rqi) /\ MqttOpen \subseteq Rqi
        BY SgnAssumption DEF MqttOpen
    <3> QED
        BY <3>1, FS_Subset
  <2>2. Range(arr) \subseteq MqttOpen
      BY <1>4 DEF Indexed, Waits, MqttOpen
  <2> QED
      BY <1>4, <2>1, <2>2, DistinctLength, FS_CardinalityType
<1>6. CASE Len(arr) >= MaxPending
  <2>1. crowded'
    <3> DEFINE n == Cardinality(MqttOpen)
    <3> HIDE DEF n
    <3>1. Len(arr) \in Nat /\ MaxPending \in Nat /\ n \in Nat /\ Len(arr) <= n
        BY <1>4, <1>5 DEF n
    <3>2. n >= MaxPending
        BY <1>6, <3>1
    <3> QED
        BY <1>1, <3>2, Zenon DEF n
  <2>2. arr' = Append(Tail(arr), r) /\ arr # << >>
      BY <1>1, <1>4, <1>6 DEF Pushed
  <2>3. Tail(arr) \in Seq(Rqi) /\ Distinct(Tail(arr)) /\ Range(Tail(arr)) \subseteq Range(arr)
      BY <1>4, <2>2, TailFacts
  <2>4. arr' \in Seq(Rqi) /\ Distinct(arr') /\ Range(arr') = Range(Tail(arr)) \cup {r}
      BY <1>4, <2>2, <2>3, AppendFacts
  <2>5. \A x \in Range(arr') : Waits(x)'
      BY <1>3, <1>4, <2>3, <2>4 DEF Indexed
  <2>6. Indexed'
      BY <2>1, <2>4, <2>5 DEF Indexed
  <2> QED
      BY <1>2, <2>1, <2>4, <2>6 DEF RequestInv, RequestTypes, InTimeIsHeard
<1>7. CASE ~(Len(arr) >= MaxPending)
  <2>1. arr' = Append(arr, r)
      BY <1>1, <1>7 DEF Pushed
  <2>2. arr' \in Seq(Rqi) /\ Distinct(arr') /\ Range(arr') = Range(arr) \cup {r}
      BY <1>4, <2>1, AppendFacts
  <2>3. ~crowded' => ~crowded
      BY <1>1
  <2>4. \A x \in Range(arr') : Waits(x)'
      BY <1>3, <1>4, <2>2 DEF Indexed
  <2>5. ~crowded' => \A x \in Rqi : Waits(x)' => x \in Range(arr')
      BY <1>3, <2>2, <2>3 DEF Indexed
  <2>6. Indexed'
      BY <2>2, <2>4, <2>5 DEF Indexed
  <2>7. InTimeIsHeard'
      BY <1>2, <2>3 DEF InTimeIsHeard
  <2> QED
      BY <1>2, <2>2, <2>6, <2>7 DEF RequestInv, RequestTypes
<1> QED
    BY <1>6, <1>7

\* The request leaves the array and waits no longer.
LEMMA SplicedKeeps ==
    ASSUME TypeOK, Indexed, InTimeIsHeard, NEW r \in Rqi, NEW to \in Stage \ {"free", "unheard", "waiting"},
           stage[r] # "free", Ends(r) \/ Moves(r, to) \/ (Moves(r, "late") /\ nid[r] \in Http),
           resp_mqtt_rqi_arr' = Spliced(resp_mqtt_rqi_arr, r), crowded' = crowded
    PROVE  RequestInv'
<1> DEFINE arr == resp_mqtt_rqi_arr
<1>1. /\ nid' \in [Rqi -> Sub \cup {Free}] /\ stage' \in [Rqi -> Stage]
      /\ \A x \in Rqi : nid'[x] = Free <=> stage'[x] = "free"
      /\ \A x \in Rqi \ {r} : nid'[x] = nid[x] /\ stage'[x] = stage[x]
    BY RequestSteps DEF Stage
<1>2. stage'[r] \notin {"waiting", "unheard"}
    BY RequestSteps DEF Stage
<1>3. /\ ~Waits(r)'
      /\ \A x \in Rqi \ {r} : Waits(x)' <=> Waits(x)
    BY <1>1, <1>2 DEF Waits
<1>4. arr \in Seq(Rqi) /\ Distinct(arr) /\ Range(arr) \subseteq Rqi
    BY RangeOf DEF TypeOK, Indexed
<1>5. /\ arr' \in Seq(Rqi) /\ Distinct(arr')
      /\ \A x : x \in Range(arr') <=> x \in Range(arr) /\ x # r
    BY <1>4, SplicedFacts
<1>6. \A x \in Range(arr') : Waits(x)'
    BY <1>3, <1>4, <1>5 DEF Indexed
<1>7. ~crowded' => \A x \in Rqi : Waits(x)' => x \in Range(arr')
    BY <1>3, <1>5 DEF Indexed
<1>8. Indexed'
    BY <1>5, <1>6, <1>7 DEF Indexed
<1>9. InTimeIsHeard'
    BY <1>1, <1>2 DEF InTimeIsHeard
<1> QED
    BY <1>1, <1>5, <1>8, <1>9 DEF RequestInv, RequestTypes

LEMMA RequestsKept ==
    ASSUME TypeOK, Indexed, InTimeIsHeard, Next
    PROVE  RequestInv'
<1>1. ASSUME NEW s \in Sub, NEW r \in Rqi, Subscribe(s, r) \/ Notify(s, r) PROVE RequestInv'
  <2>1. /\ stage[r] = "free" /\ Open(r, s)
        /\ resp_mqtt_rqi_arr' = resp_mqtt_rqi_arr /\ crowded' = crowded
      BY <1>1 DEF Subscribe, Notify, Open
  <2>2. stage'[r] = "sent"
      BY <2>1, RequestSteps DEF Stage
  <2>3. ~Waits(r) /\ ~Waits(r)'
      BY <2>1, <2>2 DEF Waits
  <2> QED
      BY <2>1, <2>2, <2>3, Aside DEF Stage
<1>2. ASSUME NEW r \in Rqi, GiveUp(r) PROVE RequestInv'
  <2>1. /\ stage[r] = "sent" /\ Moves(r, "removing")
        /\ resp_mqtt_rqi_arr' = resp_mqtt_rqi_arr /\ crowded' = crowded
      BY <1>2 DEF GiveUp
  <2>2. stage'[r] = "removing"
      BY <2>1, RequestSteps DEF Stage
  <2>3. ~Waits(r) /\ ~Waits(r)'
      BY <2>1, <2>2 DEF Waits
  <2> QED
      BY <2>1, <2>2, <2>3, Aside DEF Stage
<1>3. ASSUME NEW r \in Rqi, HandOn(r) PROVE RequestInv'
  <2>1. CASE nid[r] \notin Http
      BY <1>3, <2>1, PushedKeeps
  <2>2. CASE nid[r] \in Http
    <3>1. /\ stage[r] = "sent" /\ Moves(r, "waiting")
          /\ resp_mqtt_rqi_arr' = resp_mqtt_rqi_arr /\ crowded' = crowded
        BY <1>3, <2>2 DEF HandOn
    <3>2. stage'[r] = "waiting" /\ nid'[r] = nid[r]
        BY <3>1, RequestSteps DEF Stage
    <3>3. ~Waits(r) /\ ~Waits(r)'
        BY <2>2, <3>2 DEF Waits
    <3> QED
        BY <3>1, <3>2, <3>3, Aside DEF Stage
  <2> QED
      BY <2>1, <2>2
<1>4. ASSUME NEW r \in Rqi, AnswerMqtt(r) PROVE RequestInv'
  <2>1. stage[r] = "waiting" /\ nid[r] \notin Http /\ crowded' = crowded
      BY <1>4 DEF AnswerMqtt
  <2>2. CASE r \in Range(resp_mqtt_rqi_arr)
    <3>1. Ends(r) /\ resp_mqtt_rqi_arr' = Spliced(resp_mqtt_rqi_arr, r)
        BY <1>4, <2>2 DEF AnswerMqtt
    <3> QED
        BY <2>1, <3>1, SplicedKeeps DEF Stage
  <2>3. CASE r \notin Range(resp_mqtt_rqi_arr)
    <3>1. Moves(r, "unheard") /\ resp_mqtt_rqi_arr' = resp_mqtt_rqi_arr
        BY <1>4, <2>3 DEF AnswerMqtt
    <3>2. crowded /\ crowded'
        BY <2>1, <2>3 DEF Indexed, Waits
    <3>3. /\ nid' \in [Rqi -> Sub \cup {Free}] /\ stage' \in [Rqi -> Stage]
          /\ \A x \in Rqi : nid'[x] = Free <=> stage'[x] = "free"
          /\ \A x \in Rqi \ {r} : nid'[x] = nid[x] /\ stage'[x] = stage[x]
        BY <2>1, <3>1, RequestSteps DEF Stage
    <3>4. Indexed'
        BY <2>3, <3>1, <3>2, <3>3, RangeOf DEF Indexed, Waits, TypeOK
    <3> QED
        BY <3>1, <3>2, <3>3, <3>4 DEF RequestInv, RequestTypes, InTimeIsHeard, TypeOK
  <2> QED
      BY <2>2, <2>3
<1>5. ASSUME NEW r \in Rqi, AnswerHttp(r) \/ NoAnswer(r) PROVE RequestInv'
  <2>1. /\ stage[r] = "late" \/ nid[r] \in Http
        /\ Ends(r) /\ resp_mqtt_rqi_arr' = resp_mqtt_rqi_arr /\ crowded' = crowded
      BY <1>5 DEF AnswerHttp, NoAnswer
  <2>2. stage'[r] = "free"
      BY <2>1, RequestSteps DEF Stage
  <2>3. ~Waits(r) /\ ~Waits(r)'
      BY <2>1, <2>2 DEF Waits
  <2> QED
      BY <2>1, <2>2, <2>3, Aside DEF Stage
<1>6. ASSUME NEW r \in Rqi, Timeout(r) PROVE RequestInv'
  <2>1. /\ stage[r] # "free" /\ resp_mqtt_rqi_arr' = Spliced(resp_mqtt_rqi_arr, r) /\ crowded' = crowded
      BY <1>6 DEF Timeout
  <2>2. (Moves(r, "late") /\ nid[r] \in Http) \/ Moves(r, "deleting") \/ Ends(r)
      BY <1>6 DEF Timeout, AfterTimeout
  <2> QED
      BY <2>1, <2>2, SplicedKeeps DEF Stage
<1>7. ASSUME NEW r \in Rqi, Deleted(r) \/ DeleteFails(r) PROVE RequestInv'
  <2>1. /\ stage[r] \in {"removing", "deleting"}
        /\ Ends(r) \/ Moves(r, "removed")
        /\ resp_mqtt_rqi_arr' = resp_mqtt_rqi_arr /\ crowded' = crowded
      BY <1>7 DEF Deleted, DeleteFails, AfterDelete
  <2>2. stage'[r] \in {"free", "removed"}
      BY <2>1, RequestSteps DEF Stage
  <2>3. ~Waits(r) /\ ~Waits(r)'
      BY <2>1, <2>2 DEF Waits
  <2> QED
      BY <2>1, <2>2, <2>3, Aside DEF Stage
<1>8. ASSUME NEW s \in Sub, Unsubscribe(s) \/ Dies(s) PROVE RequestInv'
  <2>1. UNCHANGED <<nid, stage, resp_mqtt_rqi_arr, crowded>>
      BY <1>8 DEF Unsubscribe, Dies
  <2> QED
      BY <2>1 DEF RequestInv, RequestTypes, Indexed, Waits, InTimeIsHeard, TypeOK
<1> QED
    BY <1>1, <1>2, <1>3, <1>4, <1>5, <1>6, <1>7, <1>8 DEF Next, Handle, NotifyAny

-----------------------------------------------------------------------------
(* The invariant, and what follows.                                        *)

SgnInv == TypeOK /\ Backed /\ Indexed /\ InTimeIsHeard

LEMMA SgnInvInit == Init => SgnInv
<1> SUFFICES ASSUME Init PROVE SgnInv
    OBVIOUS
<1>1. TypeOK
    BY InitType
<1>2. Backed
    BY DEF Init, Backed
<1>3. resp_mqtt_rqi_arr = << >> /\ \A r \in Rqi : stage[r] = "free"
    BY DEF Init
<1>4. Indexed /\ InTimeIsHeard
    BY <1>3 DEF Indexed, InTimeIsHeard, Distinct, Waits, Range
<1> QED
    BY <1>1, <1>2, <1>4 DEF SgnInv

LEMMA SgnInvStep == SgnInv /\ [Next]_vars => SgnInv'
<1> SUFFICES ASSUME SgnInv, [Next]_vars PROVE SgnInv'
    OBVIOUS
<1>1. CASE Next
  <2>1. /\ subs' \subseteq Sub /\ dead' \subseteq Sub
        /\ crowded' \in BOOLEAN /\ faults' \in 0..MaxFaults
      BY <1>1, PlainTypes DEF SgnInv
  <2>2. CountTypes' /\ Backed'
      BY <1>1, CountsKept DEF SgnInv
  <2>3. RequestInv'
      BY <1>1, RequestsKept DEF SgnInv
  <2>4. TypeOK'
      BY <2>1, <2>2, <2>3 DEF TypeOK, CountTypes, RequestInv, RequestTypes
  <2> QED
      BY <2>2, <2>3, <2>4 DEF SgnInv, RequestInv
<1>2. CASE UNCHANGED vars
  <2>1. UNCHANGED <<subs, nid, stage, counted, ss_fail_count, resp_mqtt_rqi_arr, dead, silence, crowded, faults>>
      BY <1>2 DEF vars
  <2>2. TypeOK'
      BY <2>1 DEF SgnInv, TypeOK
  <2>3. Backed' /\ Indexed' /\ InTimeIsHeard'
      BY <2>1 DEF SgnInv, Backed, Indexed, Waits, InTimeIsHeard
  <2> QED
      BY <2>2, <2>3 DEF SgnInv
<1> QED
    BY <1>1, <1>2

THEOREM Invariance == Spec => []SgnInv
    BY SgnInvInit, SgnInvStep, PTL DEF Spec

\* Every variable of sgn_man keeps its type, whatever the limits.
THEOREM TypeCorrect == Spec => []TypeOK
<1>1. SgnInv => TypeOK
    BY DEF SgnInv
<1> QED
    BY <1>1, Invariance, PTL

\* An answer by MQTT that comes within the 5 s is heard, for any number of
\* subscriptions and open requests, unless the array was too small for them.
THEOREM Heeded == Spec => []InTimeIsHeard
<1>1. SgnInv => InTimeIsHeard
    BY DEF SgnInv
<1> QED
    BY <1>1, Invariance, PTL

OnlySilent ==
    \A r \in Rqi : stage[r] # "removing" /\ stage'[r] = "removing" =>
        silence[nid[r]] = MaxRetry /\ nid[r] \notin Always

\* Only GiveUp turns a request into a DELETE, and the count it goes by is
\* backed by as many requests without an answer.
LEMMA OnlySilentStep == SgnInv /\ [Next]_vars => OnlySilent
<1> SUFFICES ASSUME SgnInv, [Next]_vars, NEW q \in Rqi, stage[q] # "removing", stage'[q] = "removing"
             PROVE  silence[nid[q]] = MaxRetry /\ nid[q] \notin Always
    BY DEF OnlySilent
<1>1. stage \in [Rqi -> Stage]
    BY DEF SgnInv, TypeOK
<1>2. GiveUp(q)
  <2>1. ASSUME NEW r \in Rqi, NEW s \in Sub PROVE ~Open(r, s)
      BY <1>1 DEF Open
  <2>2. ASSUME NEW r \in Rqi PROVE ~Ends(r)
      BY <1>1 DEF Ends
  <2>3. ASSUME NEW r \in Rqi, NEW to \in Stage \ {"removing"} PROVE ~Moves(r, to)
      BY <1>1 DEF Moves
  <2>4. stage' # stage
      OBVIOUS
  <2>5. ASSUME NEW r \in Rqi, GiveUp(r) PROVE r = q
      BY <1>1, <2>5 DEF GiveUp, Moves
  <2>6. ASSUME NEW r \in Rqi PROVE ~HandOn(r) /\ ~AnswerMqtt(r) /\ ~AnswerHttp(r) /\ ~NoAnswer(r)
      BY <2>2, <2>3 DEF HandOn, AnswerMqtt, AnswerHttp, NoAnswer, Stage
  <2>7. ASSUME NEW r \in Rqi PROVE ~Timeout(r) /\ ~Deleted(r) /\ ~DeleteFails(r)
      BY <2>2, <2>3 DEF Timeout, AfterTimeout, Deleted, DeleteFails, AfterDelete, Stage
  <2>8. ASSUME NEW s \in Sub PROVE ~Unsubscribe(s) /\ ~Dies(s) /\ ~NotifyAny(s) /\ \A r \in Rqi : ~Subscribe(s, r)
      BY <2>1, <2>4 DEF Unsubscribe, Dies, NotifyAny, Notify, Subscribe
  <2> QED
      BY <2>4, <2>5, <2>6, <2>7, <2>8 DEF Next, Handle, vars
<1>3. nid[q] \in Sub /\ Failures(nid[q]) >= MaxRetry
    BY <1>2, NidOfOpen DEF GiveUp, SgnInv
<1>4. /\ ss_fail_count \in [Sub -> Nat] /\ silence \in [Sub -> 0..MaxRetry]
      /\ MaxRetry \in Nat \ {0}
    BY SgnAssumption DEF SgnInv, TypeOK
<1>5. nid[q] \notin Always /\ ss_fail_count[nid[q]] >= MaxRetry
    BY <1>3, <1>4 DEF Failures
<1>6. silence[nid[q]] = MaxRetry
    BY <1>3, <1>4, <1>5 DEF SgnInv, Backed
<1> QED
    BY <1>5, <1>6

\* No subscription is removed for silence that was not there: as many requests
\* as the limit timed out since the last answer, and none counts for two DELETEs.
THEOREM NotTooSoon == Spec => GivesUpOnlySilent
<1>1. Spec => [][OnlySilent]_vars
    BY Invariance, OnlySilentStep, PTL DEF Spec
<1> QED
    BY <1>1, PTL DEF GivesUpOnlySilent, OnlySilent
=============================================================================
