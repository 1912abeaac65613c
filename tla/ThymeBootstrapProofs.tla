-------------------------- MODULE ThymeBootstrapProofs --------------------------
(***************************************************************************)
(* Proofs about ThymeBootstrap, for any number of containers, connections  *)
(* and faults.                                                             *)
(*                                                                         *)
(* Two arguments.  Whatever the answers do to sh_state, a request for the  *)
(* container i exists only when the ones before i are there, and one about *)
(* a subscription only when all containers are: nothing deletes them.      *)
(* Subscriptions are deleted, so theirs needs more: as long as no request  *)
(* was repeated, at most one is under way, and it is the one the state is  *)
(* waiting for (or the AE has started to register again).                  *)
(***************************************************************************)
EXTENDS ThymeBootstrap, TLAPS

Below(i, S) == \A j \in Index : j < i => j \in S

\* Of a message: the containers it presupposes.
Founded(m) ==
    /\ m.op = "crtct" => Below(m.i, cnts) /\ (m.is = "done" => m.i \in cnts)
    /\ m.op \in {"delsub", "crtsub"} => cnts = Index

ContainersInv ==
    ~refused =>
        /\ sh_state = "crtct" => Below(request_count, cnts)
        /\ sh_state \in {"delsub", "crtsub", "crtci"} => cnts = Index
        /\ \A c \in Conn : Busy(c) => Founded(conn[c])

SingleInv ==
    ~repeated =>
        /\ \A c, d \in Conn : Busy(c) /\ Busy(d) => c = d
        /\ \A c \in Conn : Busy(c) => sh_state \in {conn[c].op, "crtae"}

SubscribedInv ==
    ~repeated /\ ~refused =>
        /\ sh_state = "crtsub" => Below(request_count, subs)
        /\ sh_state = "crtci" => subs = Index
        /\ \A c \in Conn : Busy(c) /\ conn[c].op = "crtsub" =>
               Below(conn[c].i, subs) /\ (conn[c].is = "done" => conn[c].i \in subs)

HandlerInv ==
    ~repeated /\ ~failed => handlers < 2 /\ (sh_state # "crtci" => handlers = 0)

Inv ==
    /\ TypeOK /\ RequestInRange
    /\ ContainersInv /\ SingleInv /\ SubscribedInv /\ HandlerInv

-----------------------------------------------------------------------------
(* Types.                                                                  *)

USE BootstrapAssumption

\* The connections but c keep their message, and c gets m.
LEMMA Overwrite ==
    ASSUME NEW c \in Conn, NEW m, TypeOK, conn' = [conn EXCEPT ![c] = m]
    PROVE  \A d \in Conn : conn'[d] = IF d = c THEN m ELSE conn[d]
    BY DEF TypeOK

\* A message that is under way, and what an answer makes of it.
LEMMA MessageType ==
    ASSUME NEW c \in Conn, Busy(c), TypeOK
    PROVE  /\ conn[c] \in Message
           /\ conn[c].op \in {"crtae", "rtvae"} \cup ByIndex
           /\ conn[c].i \in Index
           /\ \A a \in Answer :
                /\ [conn[c] EXCEPT !.is = a] \in Message
                /\ [conn[c] EXCEPT !.is = a].op = conn[c].op
                /\ [conn[c] EXCEPT !.is = a].i = conn[c].i
                /\ [conn[c] EXCEPT !.is = a].is = a
<1>1. conn[c] \in Message
    BY DEF TypeOK, Busy
<1> QED
    BY <1>1 DEF Message

LEMMA IndexFacts ==
    /\ 0 \in Index
    /\ \A i \in Index : i \in 0..N /\ i + 1 \in 0..N /\ (~Last(i) => i + 1 \in Index)
    BY DEF Index, Last

\* One more element: Below goes on, and after the last index S is everything.
LEMMA BelowNext ==
    ASSUME NEW i \in Index, NEW S \in SUBSET Index, Below(i, S), i \in S
    PROVE  Below(i + 1, S) /\ (Last(i) => S = Index)
<1>1. \A j \in Index : j < i + 1 => j < i \/ j = i
    BY DEF Index
<1>2. Last(i) => \A j \in Index : j < i + 1
    BY DEF Index, Last
<1> QED
    BY <1>1, <1>2 DEF Below

LEMMA InitType == Init => TypeOK /\ RequestInRange
<1> SUFFICES ASSUME Init PROVE TypeOK /\ RequestInRange
    OBVIOUS
<1>1. conn \in [Conn -> Message \cup {Idle}]
    BY DEF Init
<1>2. cnts \subseteq Index /\ subs \subseteq Index
    BY DEF Init
<1>3. repeated \in BOOLEAN /\ refused \in BOOLEAN /\ failed \in BOOLEAN
    BY DEF Init
<1>4. /\ sh_state \in ShState /\ request_count \in 0..N /\ return_count \in 0..2
      /\ ae \in {"absent", "ours", "foreign"} /\ handlers \in 0..2 /\ faults \in 0..MaxFaults
    BY DEF Init, ShState
<1>5. RequestInRange
    BY DEF Init, RequestInRange, ByIndex
<1> QED
    BY <1>1, <1>2, <1>3, <1>4, <1>5 DEF TypeOK

LEMMA NextKeepsType == TypeOK /\ RequestInRange /\ [Next]_vars => TypeOK' /\ RequestInRange'
<1> SUFFICES ASSUME TypeOK, RequestInRange, [Next]_vars PROVE TypeOK' /\ RequestInRange'
    OBVIOUS
<1> USE DEF TypeOK, RequestInRange, history, mobius
<1>1. CASE TickAE
  <2>1. PICK c \in Conn : Send(c, sh_state, 0)
      BY <1>1 DEF TickAE
  <2>2. [op |-> sh_state, i |-> 0, is |-> "request"] \in Message
      BY <1>1, IndexFacts DEF TickAE, Message
  <2>3. conn' \in [Conn -> Message \cup {Idle}] /\ repeated' \in BOOLEAN
      BY <2>1, <2>2 DEF Send
  <2> QED
      BY <1>1, <2>3 DEF TickAE
<1>2. CASE TickSend
  <2>1. PICK c \in Conn : Send(c, sh_state, request_count)
      BY <1>2 DEF TickSend
  <2>2. [op |-> sh_state, i |-> request_count, is |-> "request"] \in Message
      BY <1>2 DEF TickSend, Message, Index
  <2>3. conn' \in [Conn -> Message \cup {Idle}] /\ repeated' \in BOOLEAN
      BY <2>1, <2>2 DEF Send
  <2> QED
      BY <1>2, <2>3 DEF TickSend, NextReturn
<1>3. CASE TickWait
    BY <1>3 DEF TickWait, NextReturn
<1>4. CASE UploadFails
    BY <1>4 DEF UploadFails, Fault, ShState, ByIndex
<1>5. ASSUME NEW c \in Conn, Busy(c), NEW a \in Answer, AnswerWith(c, a)
      PROVE  conn' \in [Conn -> Message \cup {Idle}]
    BY <1>5, MessageType DEF AnswerWith
<1>6. ASSUME NEW c \in Conn, Consume(c)
      PROVE  conn' \in [Conn -> Message \cup {Idle}]
    BY <1>6 DEF Consume
<1>7. ASSUME NEW c \in Conn, ServeCrtae(c) PROVE TypeOK' /\ RequestInRange'
  <2>1. (IF ae = "absent" THEN "created" ELSE "exists") \in Answer /\ Busy(c)
      BY <1>7 DEF ServeCrtae, Requested, Answer
  <2>2. conn' \in [Conn -> Message \cup {Idle}]
      BY <2>1, <1>5, <1>7 DEF ServeCrtae
  <2> QED
      BY <1>7, <2>2 DEF ServeCrtae
<1>8. ASSUME NEW c \in Conn, ServeRtvae(c) PROVE TypeOK' /\ RequestInRange'
  <2>1. "done" \in Answer /\ Busy(c)
      BY <1>8 DEF ServeRtvae, Requested, Answer
  <2>2. conn' \in [Conn -> Message \cup {Idle}]
      BY <2>1, <1>5, <1>8 DEF ServeRtvae
  <2> QED
      BY <1>8, <2>2 DEF ServeRtvae
<1>9. ASSUME NEW c \in Conn, ServeByIndex(c) PROVE TypeOK' /\ RequestInRange'
  <2>1. "done" \in Answer /\ Busy(c)
      BY <1>9 DEF ServeByIndex, ServeCrtct, ServeDelsub, ServeCrtsub, Requested, Answer
  <2>2. conn' \in [Conn -> Message \cup {Idle}]
      BY <2>1, <1>5, <1>9 DEF ServeByIndex, ServeCrtct, ServeDelsub, ServeCrtsub
  <2>3. cnts' \subseteq Index /\ subs' \subseteq Index
      BY <2>1, <1>9, MessageType DEF ServeByIndex, ServeCrtct, ServeDelsub, ServeCrtsub
  <2> QED
      BY <1>9, <2>2, <2>3 DEF ServeByIndex, ServeCrtct, ServeDelsub, ServeCrtsub
<1>10. ASSUME NEW c \in Conn, Refuse(c) PROVE TypeOK' /\ RequestInRange'
  <2>1. "done" \in Answer /\ Busy(c)
      BY <1>10 DEF Refuse, Requested, Answer
  <2>2. conn' \in [Conn -> Message \cup {Idle}]
      BY <2>1, <1>5, <1>10 DEF Refuse
  <2> QED
      BY <1>10, <2>2 DEF Refuse
<1>11. ASSUME NEW c \in Conn, Lose(c) PROVE TypeOK' /\ RequestInRange'
    BY <1>11 DEF Lose, Fault
<1>12. ASSUME NEW c \in Conn, AnswerAE(c) PROVE TypeOK' /\ RequestInRange'
  <2>1. conn' \in [Conn -> Message \cup {Idle}]
      BY <1>6, <1>12 DEF AnswerAE
  <2> QED
      BY <1>12, <2>1 DEF AnswerAE, ShState, ByIndex
<1>13. ASSUME NEW c \in Conn, AnswerExists(c) PROVE TypeOK' /\ RequestInRange'
  <2>1. conn' \in [Conn -> Message \cup {Idle}]
      BY <1>6, <1>13 DEF AnswerExists
  <2> QED
      BY <1>13, <2>1 DEF AnswerExists, ShState, ByIndex
<1>14. ASSUME NEW c \in Conn, NEW op, NEW next \in ByIndex, AnswerStep(c, op, next)
       PROVE  TypeOK' /\ RequestInRange'
  <2>1. conn' \in [Conn -> Message \cup {Idle}]
      BY <1>6, <1>14 DEF AnswerStep
  <2>2. conn[c].i \in Index
      BY <1>14, MessageType DEF AnswerStep, Answered
  <2>3. request_count' \in 0..N /\ request_count' < N
      BY <2>2, <1>14 DEF AnswerStep, Last, Index
  <2> QED
      BY <1>14, <2>1, <2>3 DEF AnswerStep, ShState
<1>15. ASSUME NEW c \in Conn, AnswerCrtsub(c) PROVE TypeOK' /\ RequestInRange'
  <2>1. conn' \in [Conn -> Message \cup {Idle}]
      BY <1>6, <1>15 DEF AnswerCrtsub
  <2>2. conn[c].i \in Index
      BY <1>15, MessageType DEF AnswerCrtsub, Answered
  <2>3. request_count' \in 0..N /\ (request_count' < N \/ sh_state' = "crtci")
      BY <2>2, <1>15 DEF AnswerCrtsub, Last, Index
  <2> QED
      BY <1>15, <2>1, <2>3 DEF AnswerCrtsub, ShState, ByIndex
<1>16. CASE UNCHANGED vars
    BY <1>16 DEF vars
<1> QED
    BY <1>1, <1>2, <1>3, <1>4, <1>7, <1>8, <1>9, <1>10, <1>11, <1>12, <1>13, <1>14, <1>15, <1>16
    DEF Next, Tick, Serve, Callback, ByIndex

\* Every variable has its type.
THEOREM TypeCorrect == Spec => []TypeOK
<1>1. Spec => [](TypeOK /\ RequestInRange)
    BY InitType, NextKeepsType, PTL DEF Spec
<1> QED
    BY <1>1, PTL

\* However late the answers, the watchdog never asks beyond the end of conf.
THEOREM RequestsInRange == Spec => []RequestInRange
<1>1. Spec => [](TypeOK /\ RequestInRange)
    BY InitType, NextKeepsType, PTL DEF Spec
<1> QED
    BY <1>1, PTL

-----------------------------------------------------------------------------
(* Containers.                                                             *)

LEMMA InitContainers == Init => ContainersInv
    BY DEF Init, ContainersInv, Busy

\* Messages that were founded stay so: containers are never deleted.
LEMMA FoundedStays ==
    ASSUME NEW m, Founded(m), cnts \subseteq cnts', cnts' \subseteq Index
    PROVE  Founded(m)'
    BY DEF Founded, Below

LEMMA NextKeepsContainers ==
    TypeOK /\ RequestInRange /\ TypeOK' /\ ContainersInv /\ [Next]_vars => ContainersInv'
<1> SUFFICES ASSUME TypeOK, RequestInRange, TypeOK', ContainersInv, [Next]_vars, ~refused'
             PROVE  ContainersInv'
    BY DEF ContainersInv
<1> USE DEF history, mobius
<1>1. cnts \subseteq Index /\ cnts' \subseteq Index /\ refused \in BOOLEAN
    BY DEF TypeOK
\* Nothing but the state of the watchdog changes in the steps that leave
\* Mobius alone, and messages disappear.
<1>2. ASSUME NEW c \in Conn, Busy(c), Consume(c), UNCHANGED <<cnts, refused>>,
             sh_state' = "crtct" => Below(request_count', cnts),
             sh_state' \in {"delsub", "crtsub", "crtci"} => cnts = Index
      PROVE  ContainersInv'
  <2>1. \A d \in Conn : Busy(d)' => Busy(d) /\ conn'[d] = conn[d]
      BY <1>2, Overwrite DEF Consume, Busy
  <2> QED
      BY <1>2, <2>1 DEF ContainersInv, Founded, Below
<1>3. ASSUME NEW c \in Conn, Send(c, sh_state, request_count) \/ Send(c, sh_state, 0),
             UNCHANGED <<cnts, refused, sh_state, request_count>>,
             sh_state \in {"crtae", "rtvae"} \cup ByIndex,
             sh_state \in ByIndex => Send(c, sh_state, request_count)
      PROVE  ContainersInv'
  <2> PICK i : /\ conn' = [conn EXCEPT ![c] = [op |-> sh_state, i |-> i, is |-> "request"]]
               /\ sh_state \in ByIndex => i = request_count
      BY <1>3 DEF Send
  <2> DEFINE m == [op |-> sh_state, i |-> i, is |-> "request"]
  <2>1. \A d \in Conn : conn'[d] = IF d = c THEN m ELSE conn[d]
      BY Overwrite
  <2>2. Founded(m)
      BY <1>3 DEF ContainersInv, Founded, ByIndex
  <2>3. \A d \in Conn : Busy(d)' => Founded(conn'[d])
      BY <1>3, <2>1, <2>2 DEF ContainersInv, Busy
  <2> QED
      BY <1>3, <2>3 DEF ContainersInv, Founded, Below
<1>4. CASE TickAE
    BY <1>3, <1>4 DEF TickAE, ByIndex
<1>5. CASE TickSend
    BY <1>3, <1>5 DEF TickSend
<1>6. CASE TickWait
    BY <1>6 DEF TickWait, ContainersInv, Busy, Founded, Below
<1>7. CASE UploadFails
    BY <1>7 DEF UploadFails, ContainersInv, Busy, Founded, Below
\* Mobius answers: the containers grow.
<1>8. ASSUME NEW c \in Conn, Busy(c), NEW a \in Answer, AnswerWith(c, a),
             UNCHANGED <<refused, sh_state, request_count>>,
             cnts \subseteq cnts', conn[c].op = "crtct" => conn[c].i \in cnts'
      PROVE  ContainersInv'
  <2> DEFINE m == [conn[c] EXCEPT !.is = a]
  <2>1. \A d \in Conn : conn'[d] = IF d = c THEN m ELSE conn[d]
      BY <1>8, Overwrite DEF AnswerWith
  <2>2. m.op = conn[c].op /\ m.i = conn[c].i
      BY <1>8, MessageType
  <2> HIDE DEF m
  <2>3. \A d \in Conn : Busy(d) => Founded(conn[d])'
    <3>1. ASSUME NEW d \in Conn, Busy(d), d # c PROVE Founded(conn[d])'
        BY <1>1, <1>8, <2>1, <3>1 DEF ContainersInv, Founded, Below
    <3>2. Founded(conn[c])'
        BY <1>1, <1>8, <2>1, <2>2 DEF ContainersInv, Founded, Below
    <3> QED
        BY <3>1, <3>2
  <2>4. \A d \in Conn : Busy(d)' => Founded(conn[d])'
      BY <1>8, <2>1, <2>3 DEF Busy
  <2> QED
      BY <1>1, <1>8, <2>4 DEF ContainersInv, Below
<1>9. ASSUME NEW c \in Conn, ServeCrtae(c) PROVE ContainersInv'
  <2>1. (IF ae = "absent" THEN "created" ELSE "exists") \in Answer /\ Busy(c)
        /\ conn[c].op = "crtae"
      BY <1>9 DEF ServeCrtae, Requested, Answer
  <2> QED
      BY <2>1, <1>8, <1>9 DEF ServeCrtae
<1>10. ASSUME NEW c \in Conn, ServeRtvae(c) PROVE ContainersInv'
  <2>1. "done" \in Answer /\ Busy(c) /\ conn[c].op = "rtvae"
      BY <1>10 DEF ServeRtvae, Requested, Answer
  <2>2. CASE ae = "ours"
      BY <2>1, <2>2, <1>8, <1>10 DEF ServeRtvae
  <2>3. CASE ae # "ours"
    <3>1. Consume(c)
        BY <2>3, <1>10 DEF ServeRtvae, Consume
    <3> QED
        BY <2>1, <3>1, <1>2, <1>10 DEF ServeRtvae, ContainersInv
  <2> QED
      BY <2>2, <2>3
<1>11. ASSUME NEW c \in Conn, ServeByIndex(c) PROVE ContainersInv'
  <2>1. "done" \in Answer /\ Busy(c)
      BY <1>11 DEF ServeByIndex, ServeCrtct, ServeDelsub, ServeCrtsub, Requested, Answer
  <2>2. cnts \subseteq cnts' /\ (conn[c].op = "crtct" => conn[c].i \in cnts')
      BY <1>11 DEF ServeByIndex, ServeCrtct, ServeDelsub, ServeCrtsub, Requested
  <2> QED
      BY <2>1, <2>2, <1>8, <1>11 DEF ServeByIndex, ServeCrtct, ServeDelsub, ServeCrtsub
<1>12. ASSUME NEW c \in Conn, Refuse(c) PROVE FALSE
    BY <1>12 DEF Refuse
<1>13. ASSUME NEW c \in Conn, Lose(c) PROVE ContainersInv'
    BY <1>2, <1>13 DEF Lose, Consume, ContainersInv
<1>14. ASSUME NEW c \in Conn, AnswerAE(c) PROVE ContainersInv'
    BY <1>2, <1>14 DEF AnswerAE, Answered, Below, Index
<1>15. ASSUME NEW c \in Conn, AnswerExists(c) PROVE ContainersInv'
    BY <1>2, <1>15 DEF AnswerExists, Answered
<1>16. ASSUME NEW c \in Conn, AnswerStep(c, "crtct", "delsub") PROVE ContainersInv'
  <2>1. Busy(c) /\ Below(conn[c].i, cnts) /\ conn[c].i \in cnts
      BY <1>16 DEF AnswerStep, Answered, ContainersInv, Founded
  <2>2. (Last(conn[c].i) => cnts = Index) /\ Below(conn[c].i + 1, cnts)
      BY <1>1, <2>1, MessageType, BelowNext
  <2> QED
      BY <1>2, <1>16, <2>1, <2>2 DEF AnswerStep, ContainersInv
<1>17. ASSUME NEW c \in Conn, AnswerStep(c, "delsub", "crtsub") PROVE ContainersInv'
  <2>1. Busy(c) /\ cnts = Index
      BY <1>17 DEF AnswerStep, Answered, ContainersInv, Founded
  <2> QED
      BY <1>2, <1>17, <2>1 DEF AnswerStep, Below
<1>18. ASSUME NEW c \in Conn, AnswerCrtsub(c) PROVE ContainersInv'
  <2>1. Busy(c) /\ cnts = Index
      BY <1>18 DEF AnswerCrtsub, Answered, ContainersInv, Founded
  <2> QED
      BY <1>2, <1>18, <2>1 DEF AnswerCrtsub, Below
<1>19. CASE UNCHANGED vars
    BY <1>19 DEF vars, ContainersInv, Busy, Founded, Below
<1> QED
    BY <1>4, <1>5, <1>6, <1>7, <1>9, <1>10, <1>11, <1>12, <1>13, <1>14, <1>15, <1>16, <1>17,
       <1>18, <1>19
    DEF Next, Tick, Serve, Callback

\* Subscriptions are only handled, and uploads only accepted, when all
\* containers exist, unless Mobius refused one.
THEOREM ContainersFirst == Spec => []ContainersComplete
<1>1. Spec => [](TypeOK /\ RequestInRange /\ ContainersInv)
    BY InitType, NextKeepsType, InitContainers, NextKeepsContainers, PTL DEF Spec
<1>2. ContainersInv => ContainersComplete
    BY DEF ContainersInv, ContainersComplete
<1> QED
    BY <1>1, <1>2, PTL

-----------------------------------------------------------------------------
(* One request at a time.                                                  *)

LEMMA InitSingle == Init => SingleInv /\ SubscribedInv /\ HandlerInv
    BY DEF Init, SingleInv, SubscribedInv, HandlerInv, Busy

\* The request under way is the only one, and the state waits for it.
LEMMA Single ==
    ASSUME NEW c \in Conn, Busy(c), SingleInv, ~repeated
    PROVE  sh_state \in {conn[c].op, "crtae"} /\ \A d \in Conn : Busy(d) => d = c
    BY DEF SingleInv

\* ... so that nothing is under way when its answer is taken.
LEMMA NoneLeft ==
    ASSUME NEW c \in Conn, Busy(c), TypeOK, SingleInv, ~repeated, Consume(c)
    PROVE  \A d \in Conn : ~Busy(d)'
<1>1. \A d \in Conn : conn'[d] = IF d = c THEN Idle ELSE conn[d]
    BY Overwrite DEF Consume
<1> QED
    BY <1>1, Single DEF Busy

\* Every step of a connection either answers or frees it.
LEMMA ConnectionStep ==
    ASSUME NEW c \in Conn, Serve(c) \/ Lose(c) \/ Callback(c), TypeOK
    PROVE  /\ Busy(c) /\ repeated' = repeated
           /\ \/ Consume(c)
              \/ /\ sh_state' = sh_state /\ request_count' = request_count
                 /\ \E a \in Answer : AnswerWith(c, a)
<1> USE DEF history
<1>1. CASE ServeCrtae(c)
  <2>1. (IF ae = "absent" THEN "created" ELSE "exists") \in Answer
      BY DEF Answer
  <2> QED
      BY <1>1, <2>1 DEF ServeCrtae, Requested
<1>2. CASE ServeRtvae(c)
    BY <1>2 DEF ServeRtvae, Requested, Answer, Consume, AnswerWith
<1>3. CASE ServeByIndex(c)
    BY <1>3 DEF ServeByIndex, ServeCrtct, ServeDelsub, ServeCrtsub, Requested, Answer
<1>4. CASE Refuse(c)
    BY <1>4 DEF Refuse, Requested, Answer
<1>5. CASE Lose(c)
    BY <1>5 DEF Lose, Consume
<1>6. CASE Callback(c)
    BY <1>6 DEF Callback, AnswerAE, AnswerExists, AnswerStep, AnswerCrtsub, Answered
<1> QED
    BY <1>1, <1>2, <1>3, <1>4, <1>5, <1>6 DEF Serve

LEMMA NextKeepsSingle ==
    TypeOK /\ SingleInv /\ [Next]_vars => SingleInv'
<1> SUFFICES ASSUME TypeOK, SingleInv, [Next]_vars, ~repeated' PROVE SingleInv'
    BY DEF SingleInv
<1> USE DEF history
<1>1. ASSUME NEW c \in Conn, NEW i, Send(c, sh_state, i), sh_state' = sh_state PROVE SingleInv'
  <2>1. \A d \in Conn : ~Busy(d)
      BY <1>1 DEF Send, TypeOK
  <2> DEFINE m == [op |-> sh_state, i |-> i, is |-> "request"]
  <2>2. \A d \in Conn : conn'[d] = IF d = c THEN m ELSE conn[d]
      BY <1>1, Overwrite DEF Send
  <2>3. m.op = sh_state
      OBVIOUS
  <2> HIDE DEF m
  <2>4. \A d \in Conn : Busy(d)' => d = c
      BY <2>1, <2>2 DEF Busy
  <2> QED
      BY <1>1, <2>2, <2>3, <2>4 DEF SingleInv
<1>2. CASE TickAE
    BY <1>1, <1>2 DEF TickAE
<1>3. CASE TickSend
    BY <1>1, <1>3 DEF TickSend
<1>4. CASE TickWait
    BY <1>4 DEF TickWait, SingleInv, Busy
<1>5. CASE UploadFails
    BY <1>5 DEF UploadFails, SingleInv, Busy
<1>6. ASSUME NEW c \in Conn, Serve(c) \/ Lose(c) \/ Callback(c) PROVE SingleInv'
  <2>1. Busy(c) /\ ~repeated
      BY <1>6, ConnectionStep
  <2>2. CASE Consume(c)
      BY <2>1, <2>2, NoneLeft DEF SingleInv
  <2>3. ASSUME NEW a \in Answer, AnswerWith(c, a), sh_state' = sh_state PROVE SingleInv'
    <3> DEFINE m == [conn[c] EXCEPT !.is = a]
    <3>1. \A d \in Conn : conn'[d] = IF d = c THEN m ELSE conn[d]
        BY <2>3, Overwrite DEF AnswerWith
    <3>2. m.op = conn[c].op
        BY <2>1, MessageType
    <3> HIDE DEF m
    <3>3. \A d \in Conn : Busy(d)' => d = c
        BY <2>1, <3>1, Single DEF Busy
    <3> QED
        BY <2>1, <2>3, <3>1, <3>2, <3>3, Single DEF SingleInv
  <2> QED
      BY <1>6, <2>2, <2>3, ConnectionStep
<1>7. CASE UNCHANGED vars
    BY <1>7 DEF vars, SingleInv, Busy
<1> QED
    BY <1>2, <1>3, <1>4, <1>5, <1>6, <1>7 DEF Next, Tick

-----------------------------------------------------------------------------
(* Subscriptions and handlers.                                             *)

LEMMA NextKeepsSubscribed ==
    /\ TypeOK /\ RequestInRange /\ TypeOK' /\ ContainersInv /\ SingleInv
    /\ SubscribedInv /\ [Next]_vars
    => SubscribedInv'
<1> SUFFICES ASSUME TypeOK, RequestInRange, TypeOK', ContainersInv, SingleInv, SubscribedInv,
                    [Next]_vars, ~repeated', ~refused'
             PROVE  SubscribedInv'
    BY DEF SubscribedInv
<1> USE DEF history, mobius
<1>1. subs \subseteq Index /\ subs' \subseteq Index /\ refused \in BOOLEAN /\ repeated \in BOOLEAN
    BY DEF TypeOK
<1>2. ASSUME NEW c \in Conn, NEW i, Send(c, sh_state, i),
             UNCHANGED <<subs, refused, sh_state, request_count>>,
             sh_state = "crtsub" => i = request_count
      PROVE  SubscribedInv'
  <2>1. \A d \in Conn : ~Busy(d)
      BY <1>2 DEF Send
  <2> DEFINE m == [op |-> sh_state, i |-> i, is |-> "request"]
  <2>2. \A d \in Conn : conn'[d] = IF d = c THEN m ELSE conn[d]
      BY <1>2, Overwrite DEF Send
  <2>3. m.op = sh_state /\ m.i = i /\ m.is = "request"
      OBVIOUS
  <2> HIDE DEF m
  <2>4. ~repeated /\ ~refused
      BY <1>1, <1>2 DEF Send
  <2>5. \A d \in Conn : Busy(d)' => d = c
      BY <2>1, <2>2 DEF Busy
  <2> QED
      BY <1>2, <2>2, <2>3, <2>4, <2>5 DEF SubscribedInv, Below
<1>3. CASE TickAE
    BY <1>2, <1>3 DEF TickAE
<1>4. CASE TickSend
    BY <1>2, <1>4 DEF TickSend
<1>5. CASE TickWait
    BY <1>5 DEF TickWait, SubscribedInv, Busy, Below
<1>6. CASE UploadFails
    BY <1>6 DEF UploadFails, SubscribedInv, Busy, Below
\* The request under way is taken by its callback.
<1>7. ASSUME NEW c \in Conn, Busy(c), Consume(c), ~repeated, UNCHANGED <<subs, refused>>,
             sh_state' = "crtsub" => Below(request_count', subs),
             sh_state' = "crtci" => subs = Index
      PROVE  SubscribedInv'
    BY <1>7, NoneLeft DEF SubscribedInv, Below
<1>8. Below(0, subs)
    BY DEF Below, Index
\* Mobius answers.
<1>9. ASSUME NEW c \in Conn, Busy(c), NEW a \in Answer, AnswerWith(c, a), ~repeated, ~refused,
             UNCHANGED <<sh_state, request_count>>,
             sh_state \in {"crtsub", "crtci"} => subs \subseteq subs',
             conn[c].op = "crtsub" => subs \subseteq subs' /\ conn[c].i \in subs'
      PROVE  SubscribedInv'
  <2> DEFINE m == [conn[c] EXCEPT !.is = a]
  <2>1. \A d \in Conn : conn'[d] = IF d = c THEN m ELSE conn[d]
      BY <1>9, Overwrite DEF AnswerWith
  <2>2. m.op = conn[c].op /\ m.i = conn[c].i
      BY <1>9, MessageType
  <2> HIDE DEF m
  <2>3. \A d \in Conn : Busy(d)' => d = c
      BY <1>9, <2>1, Single DEF Busy
  <2>4. conn[c].op = "crtsub" => Below(conn[c].i, subs)
      BY <1>9 DEF SubscribedInv
  <2> QED
      BY <1>1, <1>9, <2>1, <2>2, <2>3, <2>4 DEF SubscribedInv, Below
<1>10. ASSUME NEW c \in Conn, Serve(c) \/ Lose(c) \/ Callback(c)
       PROVE  Busy(c) /\ ~repeated
    BY <1>10, ConnectionStep
<1>11. ASSUME NEW c \in Conn, ServeCrtae(c) PROVE SubscribedInv'
  <2>1. (IF ae = "absent" THEN "created" ELSE "exists") \in Answer /\ conn[c].op = "crtae"
      BY <1>11 DEF ServeCrtae, Requested, Answer
  <2> QED
      BY <2>1, <1>9, <1>10, <1>11 DEF ServeCrtae, Serve
<1>12. ASSUME NEW c \in Conn, ServeRtvae(c) PROVE SubscribedInv'
  <2>1. "done" \in Answer /\ Busy(c) /\ ~repeated /\ conn[c].op = "rtvae"
      BY <1>10, <1>12 DEF ServeRtvae, Requested, Answer, Serve
  <2>2. CASE ae = "ours"
      BY <2>1, <2>2, <1>9, <1>12 DEF ServeRtvae
  <2>3. CASE ae # "ours"
    <3>1. Consume(c)
        BY <2>3, <1>12 DEF ServeRtvae, Consume
    <3> QED
        BY <2>1, <3>1, <1>7, <1>12 DEF ServeRtvae, SubscribedInv
  <2> QED
      BY <2>2, <2>3
<1>13. ASSUME NEW c \in Conn, ServeByIndex(c) PROVE SubscribedInv'
  <2>1. "done" \in Answer /\ Busy(c) /\ ~repeated /\ ~refused /\ AnswerWith(c, "done")
        /\ UNCHANGED <<sh_state, request_count>>
      BY <1>10, <1>13 DEF ServeByIndex, ServeCrtct, ServeDelsub, ServeCrtsub, Answer, Serve
  <2>2. CASE conn[c].op = "crtct"
      BY <2>1, <2>2, <1>9, <1>13 DEF ServeByIndex, ServeCrtct, ServeDelsub, ServeCrtsub, Requested
  <2>3. CASE conn[c].op = "delsub"
      BY <2>1, <2>3, <1>9, <1>13, Single DEF ServeByIndex, ServeCrtct, ServeDelsub, ServeCrtsub, Requested
  <2>4. CASE conn[c].op = "crtsub"
    <3>1. conn[c].i \in cnts
        BY <2>1, <2>4, MessageType DEF ContainersInv, Founded
    <3> QED
        BY <2>1, <2>4, <3>1, <1>9, <1>13 DEF ServeByIndex, ServeCrtct, ServeDelsub, ServeCrtsub, Requested
  <2> QED
      BY <1>13, <2>2, <2>3, <2>4 DEF ServeByIndex, ServeCrtct, ServeDelsub, ServeCrtsub, Requested
<1>14. ASSUME NEW c \in Conn, Refuse(c) PROVE FALSE
    BY <1>14 DEF Refuse
<1>15. ASSUME NEW c \in Conn, Lose(c) PROVE SubscribedInv'
    BY <1>7, <1>10, <1>15 DEF Lose, Consume, SubscribedInv
<1>16. ASSUME NEW c \in Conn, Callback(c)
       PROVE  Busy(c) /\ Consume(c) /\ ~repeated /\ UNCHANGED <<subs, refused>>
    BY <1>10, <1>16 DEF Callback, AnswerAE, AnswerExists, AnswerStep, AnswerCrtsub
<1>17. ASSUME NEW c \in Conn, AnswerAE(c) PROVE SubscribedInv'
    BY <1>7, <1>16, <1>17 DEF AnswerAE, Callback
<1>18. ASSUME NEW c \in Conn, AnswerExists(c) PROVE SubscribedInv'
    BY <1>7, <1>16, <1>18 DEF AnswerExists, Callback
<1>19. ASSUME NEW c \in Conn, AnswerStep(c, "crtct", "delsub") PROVE SubscribedInv'
  <2>1. sh_state \in {"crtct", "crtae"}
      BY <1>16, <1>19, Single DEF AnswerStep, Answered, Callback
  <2> QED
      BY <2>1, <1>7, <1>16, <1>19 DEF AnswerStep, Callback
<1>20. ASSUME NEW c \in Conn, AnswerStep(c, "delsub", "crtsub") PROVE SubscribedInv'
  <2>1. sh_state \in {"delsub", "crtae"}
      BY <1>16, <1>20, Single DEF AnswerStep, Answered, Callback
  <2> QED
      BY <2>1, <1>7, <1>8, <1>16, <1>20 DEF AnswerStep, Callback
<1>21. ASSUME NEW c \in Conn, AnswerCrtsub(c) PROVE SubscribedInv'
  <2>1. sh_state \in {"crtsub", "crtae"} /\ conn[c].i \in Index
      BY <1>16, <1>21, Single, MessageType DEF AnswerCrtsub, Answered, Callback
  <2>2. Below(conn[c].i, subs) /\ conn[c].i \in subs
      BY <1>1, <1>16, <1>21 DEF AnswerCrtsub, Answered, Callback, SubscribedInv
  <2>3. Below(conn[c].i + 1, subs) /\ (Last(conn[c].i) => subs = Index)
      BY <1>1, <2>1, <2>2, BelowNext
  <2> QED
      BY <2>1, <2>3, <1>7, <1>16, <1>21 DEF AnswerCrtsub, Callback
<1>22. CASE UNCHANGED vars
    BY <1>22 DEF vars, SubscribedInv, Busy, Below
<1> QED
    BY <1>3, <1>4, <1>5, <1>6, <1>11, <1>12, <1>13, <1>14, <1>15, <1>17, <1>18, <1>19, <1>20,
       <1>21, <1>22
    DEF Next, Tick, Serve, Callback

LEMMA NextKeepsHandler == TypeOK /\ SingleInv /\ HandlerInv /\ [Next]_vars => HandlerInv'
<1> SUFFICES ASSUME TypeOK, SingleInv, HandlerInv, [Next]_vars, ~repeated', ~failed'
             PROVE  handlers' < 2 /\ (sh_state' # "crtci" => handlers' = 0)
    BY DEF HandlerInv
<1> USE DEF history, mobius
<1>1. handlers \in 0..2
    BY DEF TypeOK
<1>2. CASE Tick
  <2>1. ~repeated /\ UNCHANGED <<sh_state, handlers, failed>>
    <3>1. ASSUME NEW c \in Conn, NEW i, Send(c, sh_state, i) PROVE ~repeated
        BY <3>1 DEF Send, TypeOK
    <3> QED
        BY <1>2, <3>1 DEF Tick, TickAE, TickSend, TickWait
  <2> QED
      BY <2>1 DEF HandlerInv
<1>3. CASE UploadFails
    BY <1>3 DEF UploadFails
<1>4. ASSUME NEW c \in Conn, Serve(c) \/ Lose(c) \/ Callback(c)
      PROVE  Busy(c) /\ ~repeated /\ sh_state \in {conn[c].op, "crtae"}
    BY <1>4, ConnectionStep, Single
<1>5. ASSUME NEW c \in Conn, Serve(c) \/ Lose(c)
      PROVE  handlers' < 2 /\ (sh_state' # "crtci" => handlers' = 0)
  <2>1. UNCHANGED <<sh_state, handlers, failed>>
      BY <1>5 DEF Serve, Lose, ServeCrtae, ServeRtvae, ServeByIndex, ServeCrtct, ServeDelsub, ServeCrtsub, Refuse
  <2> QED
      BY <1>4, <1>5, <2>1 DEF HandlerInv
<1>6. ASSUME NEW c \in Conn, Callback(c)
      PROVE  handlers' < 2 /\ (sh_state' # "crtci" => handlers' = 0)
  <2>1. ~failed /\ sh_state # "crtci"
      BY <1>4, <1>6
      DEF Callback, AnswerAE, AnswerExists, AnswerStep, AnswerCrtsub, Answered
  <2>2. handlers = 0
      BY <1>4, <1>6, <2>1 DEF HandlerInv
  <2>3. CASE AnswerCrtsub(c)
      BY <2>1, <2>2, <2>3 DEF AnswerCrtsub
  <2>4. CASE ~AnswerCrtsub(c)
      BY <1>6, <2>2, <2>4 DEF Callback, AnswerAE, AnswerExists, AnswerStep
  <2> QED
      BY <2>3, <2>4
<1>7. CASE UNCHANGED vars
    BY <1>7 DEF vars, HandlerInv
<1> QED
    BY <1>2, <1>3, <1>5, <1>6, <1>7 DEF Next

LEMMA InvInductive == (Init => Inv) /\ (Inv /\ [Next]_vars => Inv')
<1>1. Init => Inv
    BY InitType, InitContainers, InitSingle DEF Inv
<1>2. ASSUME Inv, [Next]_vars PROVE Inv'
  <2>1. TypeOK' /\ RequestInRange'
      BY <1>2, NextKeepsType DEF Inv
  <2> QED
      BY <1>2, <2>1, NextKeepsContainers, NextKeepsSingle, NextKeepsSubscribed, NextKeepsHandler
      DEF Inv
<1> QED
    BY <1>1, <1>2

\* When the bootstrap is complete every container has its subscription, unless
\* a request was refused or repeated.
THEOREM Subscribed == Spec => []SubscribedWhenReady
<1>1. Spec => []Inv
    BY InvInductive, PTL DEF Spec
<1>2. Inv => SubscribedWhenReady
    BY DEF Inv, SubscribedInv, SubscribedWhenReady
<1> QED
    BY <1>1, <1>2, PTL

\* A notification is handled once, unless requests were repeated or the AE
\* registered again.
THEOREM HandledOnce == Spec => []OneHandler
<1>1. Spec => []Inv
    BY InvInductive, PTL DEF Spec
<1>2. Inv => OneHandler
    BY DEF Inv, HandlerInv, OneHandler
<1> QED
    BY <1>1, <1>2, PTL
=============================================================================
