-------------------------- MODULE ContainerRowProofs --------------------------
(***************************************************************************)
(* Proofs about ContainerRow, for any subscriptions, instances, limits and *)
(* number of requests.                                                     *)
(*                                                                         *)
(* The list of subscriptions rests on Sole and Lists: requests that edit   *)
(* the same entry at one time have spoiled it, and for an entry that is    *)
(* not spoiled the list is behind the rows by what such a request has      *)
(* still to write.  The counter rests on Fresh, no instance is inserted    *)
(* twice, and Settled, what a lone update has counted stays true.          *)
(***************************************************************************)
EXTENDS ContainerRow, FiniteSetTheorems, TLAPS

Served ==
    \A w \in Worker :
        /\ op[w] = "none" => at[w] = "none" /\ on[w] = None
        /\ op[w] = "subscribe" => at[w] \in {"insert", "write"} /\ on[w] \in Sub
        /\ op[w] = "unsubscribe" => at[w] \in {"delete", "reread", "write"} /\ on[w] \in Sub
        /\ op[w] = "amend" => at[w] \in {"reread", "write"} /\ on[w] \in Sub
        /\ op[w] = "post" => at[w] \in {"insert", "bump"} /\ on[w] \in posted
        /\ op[w] = "remove" => at[w] \in {"delete", "bump"} /\ on[w] \in posted
        /\ op[w] = "update" => /\ at[w] \in {"count", "trim", "write", "set"} /\ on[w] = None
                               /\ limit[w] \in Limit

Posting(w) == op[w] = "post" /\ at[w] = "insert"

Fresh ==
    \A w \in Worker : Posting(w) =>
        on[w] \notin insts /\ \A v \in Worker \ {w} : Posting(v) => on[v] # on[w]

Edits(w, s) == op[w] \in {"subscribe", "unsubscribe"} /\ on[w] = s
Adding(w, s) == op[w] = "subscribe" /\ at[w] = "write" /\ on[w] = s
Poised(w, s) == op[w] = "unsubscribe" /\ at[w] = "delete" /\ on[w] = s
Leaving(w, s) == op[w] = "unsubscribe" /\ at[w] \in {"reread", "write"} /\ on[w] = s

Sole == \A s \in Sub \ spoiled : \A v, w \in Worker : Edits(v, s) /\ Edits(w, s) => v = w

Lists ==
    \A s \in Sub \ spoiled :
        /\ \A w \in Worker : Adding(w, s) => s \in subs /\ subl[s] = 0
        /\ \A w \in Worker : Poised(w, s) => s \in subs
        /\ \A w \in Worker : Leaving(w, s) => s \notin subs /\ subl[s] = 1
        /\ (\A w \in Worker : ~Adding(w, s) /\ ~Leaving(w, s)) =>
               subl[s] = IF s \in subs THEN 1 ELSE 0

Kept ==
    \A s \in answered \ spoiled :
        /\ s \in subs
        /\ \A w \in Worker : ~Adding(w, s) /\ ~Poised(w, s) /\ ~Leaving(w, s)

Settled ==
    /\ alone # {} => \A v \in Worker : at[v] # "bump"
    /\ \A w \in alone : at[w] \in {"trim", "write", "set"} /\ op[w] = "update" =>
           seen[w] = Cardinality(insts)

-----------------------------------------------------------------------------
(* The jobs of the workers and the types.                                  *)

JobTypes ==
    /\ op \in [Worker -> Op] /\ at \in [Worker -> At]
    /\ on \in [Worker -> Sub \cup Inst \cup {None}]
    /\ copy \in [Worker -> [Sub -> Nat]] /\ seen \in [Worker -> Nat]
    /\ limit \in [Worker -> Limit \cup {0}]
    /\ asked \in 0..MaxAsked

RowTypes ==
    /\ subs \subseteq Sub /\ insts \subseteq posted /\ posted \subseteq Inst
    /\ subl \in [Sub -> Nat] /\ cni \in Nat /\ mni \in Limit
    /\ told \in [Inst -> Limit \cup {0}]
    /\ man \in [Inst -> {"none", "count", "trim"}] /\ counted \in [Inst -> Nat]
    /\ faults \in 0..MaxFaults

PastTypes ==
    /\ answered \subseteq Sub /\ spoiled \subseteq Sub /\ drift \in Int
    /\ alone \subseteq Worker /\ raced \in BOOLEAN /\ most \in Limit \cup {0}

Fits(o, a, x) ==
    /\ o = "none" => a = "none" /\ x = None
    /\ o = "subscribe" => a \in {"insert", "write"} /\ x \in Sub
    /\ o = "unsubscribe" => a \in {"delete", "reread", "write"} /\ x \in Sub
    /\ o = "amend" => a \in {"reread", "write"} /\ x \in Sub
    /\ o = "post" => a \in {"insert", "bump"} /\ x \in posted'
    /\ o = "remove" => a \in {"delete", "bump"} /\ x \in posted'
    /\ o = "update" => a \in {"count", "trim", "write", "set"} /\ x = None

TypeInv == TypeOK /\ Served

LEMMA JobTyping == TypeOK => JobTypes
    BY DEF TypeOK, JobTypes

LEMMA BeginsFits ==
    ASSUME JobTypes, Served, posted \subseteq posted',
           NEW w \in Worker, NEW o \in Op, NEW x \in Sub \cup Inst \cup {None},
           NEW a \in At, NEW read \in [Sub -> Nat], NEW n \in Limit \cup {0},
           Begins(w, o, x, a, read, n), Fits(o, a, x), o = "update" => n \in Limit
    PROVE  JobTypes' /\ Served'
<1>1. JobTypes'
    BY ContainerAssumption DEF JobTypes, Begins
<1>2. /\ op'[w] = o /\ at'[w] = a /\ on'[w] = x /\ limit'[w] = n
      /\ \A v \in Worker \ {w} : op'[v] = op[v] /\ at'[v] = at[v] /\ on'[v] = on[v] /\ limit'[v] = limit[v]
    BY DEF JobTypes, Begins
<1>3. Served'
    BY <1>2 DEF Served, Fits
<1> QED
    BY <1>1, <1>3

LEMMA GoesFits ==
    ASSUME JobTypes, Served, posted \subseteq posted',
           NEW w \in Worker, NEW a \in At, Goes(w, a), Fits(op[w], a, on[w])
    PROVE  JobTypes' /\ Served'
<1>1. JobTypes'
    BY DEF JobTypes, Goes
<1>2. /\ op' = op /\ on' = on /\ limit' = limit /\ at'[w] = a
      /\ \A v \in Worker \ {w} : at'[v] = at[v]
    BY DEF JobTypes, Goes
<1>3. Served'
    BY <1>2 DEF Served, Fits
<1> QED
    BY <1>1, <1>3

LEMMA EndsFits ==
    ASSUME JobTypes, Served, posted \subseteq posted', NEW w \in Worker, Ends(w)
    PROVE  JobTypes' /\ Served'
<1>1. JobTypes'
    BY DEF JobTypes, Ends, Op, At, Unread
<1>2. /\ op'[w] = "none" /\ at'[w] = "none" /\ on'[w] = None
      /\ \A v \in Worker \ {w} : op'[v] = op[v] /\ at'[v] = at[v] /\ on'[v] = on[v] /\ limit'[v] = limit[v]
    BY DEF JobTypes, Ends
<1>3. Served'
    BY <1>2 DEF Served
<1> QED
    BY <1>1, <1>3

LEMMA AppliedFacts ==
    ASSUME NEW o, NEW s, NEW list \in [Sub -> Nat],
           o \in {"subscribe", "unsubscribe"} => s \in Sub
    PROVE  /\ Applied(o, s, list) \in [Sub -> Nat]
           /\ \A x \in Sub : Applied(o, s, list)[x] =
                IF o = "subscribe" /\ x = s THEN list[x] + 1
                ELSE IF o = "unsubscribe" /\ x = s /\ list[x] > 0 THEN list[x] - 1
                ELSE list[x]
<1>1. CASE o = "subscribe"
    BY <1>1 DEF Applied
<1>2. CASE o = "unsubscribe"
  <2>1. CASE list[s] > 0
      BY <1>2, <2>1 DEF Applied
  <2>2. CASE ~(list[s] > 0)
    <3>1. Applied(o, s, list) = list
        BY <1>2, <2>2 DEF Applied
    <3> QED
        BY <1>2, <2>2, <3>1
  <2> QED
      BY <2>1, <2>2
<1>3. CASE o \notin {"subscribe", "unsubscribe"}
    BY <1>3 DEF Applied
<1> QED
    BY <1>1, <1>2, <1>3

LEMMA FiniteRows ==
    ASSUME NEW S \in SUBSET Inst
    PROVE  IsFiniteSet(S) /\ Cardinality(S) \in Nat
    BY FS_Subset, FS_CardinalityType, ContainerAssumption

LEMMA BumpedType == ASSUME NEW o, NEW n \in Nat PROVE Bumped(o, n) \in Nat
    BY DEF Bumped

-----------------------------------------------------------------------------
LEMMA UnreadType == Unread \in [Sub -> Nat]
    BY DEF Unread

LEMMA InitType == Init => TypeInv
<1> SUFFICES ASSUME Init PROVE TypeInv
    OBVIOUS
<1>1. /\ subs = {} /\ subl \in [Sub -> Nat] /\ insts = {} /\ posted = {} /\ cni \in Nat /\ mni \in Limit
    BY UnreadType DEF Init
<1>2. JobTypes
    BY UnreadType, ContainerAssumption DEF Init, JobTypes, Op, At
<1>3. RowTypes
    BY <1>1, ContainerAssumption DEF Init, RowTypes
<1>4. PastTypes
  <2>1. raced \in BOOLEAN
      BY Zenon DEF Init
  <2>2. answered = {} /\ spoiled = {} /\ alone = {} /\ drift \in Int /\ most = 0
      BY DEF Init
  <2> QED
      BY <2>1, <2>2 DEF PastTypes
<1>5. Served
    BY DEF Init, Served
<1> QED
    BY <1>1, <1>2, <1>3, <1>4, <1>5 DEF TypeInv, TypeOK, JobTypes, RowTypes, PastTypes

\* Every step keeps the types, and leaves no job in a state it cannot be in.
LEMMA StepType == TypeInv /\ [Next]_vars => TypeInv'
<1> SUFFICES ASSUME TypeInv, [Next]_vars PROVE TypeInv'
    OBVIOUS
<1> USE DEF TypeInv
<1>a. JobTypes /\ RowTypes /\ PastTypes /\ Served
    BY DEF TypeOK, JobTypes, RowTypes, PastTypes
<1>b. ASSUME JobTypes', Served', RowTypes', PastTypes' PROVE TypeInv'
    BY <1>b DEF TypeOK, JobTypes, RowTypes, PastTypes
<1>c. Cardinality(insts) \in Nat
    BY <1>a, FiniteRows DEF RowTypes
<1>1. ASSUME NEW w \in Worker, NEW s \in Sub, Subscribe(w, s) PROVE TypeInv'
  <2>1. JobTypes' /\ Served'
      BY <1>a, <1>1, BeginsFits DEF Subscribe, RowTypes, Fits, Op, At, rows
  <2>2. RowTypes' /\ PastTypes'
      BY <1>a, <1>1 DEF Subscribe, RowTypes, PastTypes, rows, trims, Crossed
  <2> QED
      BY <1>b, <2>1, <2>2
<1>2. ASSUME NEW w \in Worker, InsertSub(w) PROVE TypeInv'
  <2>0. on[w] \in Sub
      BY <1>a, <1>2 DEF InsertSub, Served
  <2>1. JobTypes' /\ Served'
    <3>1. CASE on[w] \in subs
        BY <1>a, <1>2, <3>1, EndsFits DEF InsertSub
    <3>2. CASE on[w] \notin subs
        BY <1>a, <1>2, <2>0, <3>2, GoesFits DEF InsertSub, Fits, At
    <3> QED
        BY <3>1, <3>2
  <2>2. RowTypes' /\ PastTypes'
      BY <1>a, <1>2, <2>0 DEF InsertSub, RowTypes, PastTypes, trims, history
  <2> QED
      BY <1>b, <2>1, <2>2
<1>3. ASSUME NEW w \in Worker, NEW s \in Sub, Unsubscribe(w, s) PROVE TypeInv'
  <2>1. JobTypes' /\ Served'
      BY <1>a, <1>3, BeginsFits, UnreadType DEF Unsubscribe, Fits, Op, At, rows
  <2>2. RowTypes' /\ PastTypes'
      BY <1>a, <1>3 DEF Unsubscribe, RowTypes, PastTypes, rows, trims, Crossed
  <2> QED
      BY <1>b, <2>1, <2>2
<1>4. ASSUME NEW w \in Worker, DeleteSub(w) PROVE TypeInv'
  <2>1. JobTypes' /\ Served'
      BY <1>a, <1>4, GoesFits DEF DeleteSub, Served, Fits, At
  <2>2. RowTypes' /\ PastTypes'
      BY <1>a, <1>4 DEF DeleteSub, RowTypes, PastTypes, trims, history
  <2> QED
      BY <1>b, <2>1, <2>2
<1>5. ASSUME NEW w \in Worker, NEW s \in Sub, Amend(w, s) PROVE TypeInv'
  <2>1. JobTypes' /\ Served'
      BY <1>a, <1>5, BeginsFits, UnreadType DEF Amend, Fits, Op, At, rows
  <2>2. RowTypes' /\ PastTypes'
      BY <1>a, <1>5 DEF Amend, RowTypes, PastTypes, rows, trims, history
  <2> QED
      BY <1>b, <2>1, <2>2
<1>6. ASSUME NEW w \in Worker, Reread(w) PROVE TypeInv'
  <2>1. JobTypes'
      BY <1>a, <1>6 DEF Reread, JobTypes, RowTypes, At
  <2>2. Served'
      BY <1>a, <1>6 DEF Reread, JobTypes, Served, rows
  <2>3. RowTypes' /\ PastTypes'
      BY <1>a, <1>6 DEF Reread, RowTypes, PastTypes, rows, trims, history
  <2> QED
      BY <1>b, <2>1, <2>2, <2>3
<1>7. ASSUME NEW w \in Worker, WriteBack(w) PROVE TypeInv'
  <2>0. /\ op[w] \in {"subscribe", "unsubscribe"} => on[w] \in Sub
        /\ copy[w] \in [Sub -> Nat]
      BY <1>a DEF Served, JobTypes
  <2>1. JobTypes' /\ Served'
    <3>1. CASE op[w] = "update"
        BY <1>a, <1>7, <3>1, GoesFits DEF WriteBack, Served, Fits, At
    <3>2. CASE op[w] # "update"
        BY <1>a, <1>7, <3>2, EndsFits DEF WriteBack
    <3> QED
        BY <3>1, <3>2
  <2>2. subl' \in [Sub -> Nat]
      BY <1>7, <2>0, AppliedFacts DEF WriteBack
  <2>3. RowTypes' /\ PastTypes'
      BY <1>a, <1>7, <2>0, <2>2 DEF WriteBack, RowTypes, PastTypes, trims, Undone
  <2> QED
      BY <1>b, <2>1, <2>3
<1>8. ASSUME NEW w \in Worker, NEW i \in Inst, Post(w, i) PROVE TypeInv'
  <2>1. JobTypes' /\ Served'
      BY <1>a, <1>8, BeginsFits, UnreadType DEF Post, Fits, Op, At, RowTypes
  <2>2. RowTypes' /\ PastTypes'
      BY <1>a, <1>8 DEF Post, RowTypes, PastTypes, trims, history
  <2> QED
      BY <1>b, <2>1, <2>2
<1>9. ASSUME NEW w \in Worker, InsertInst(w) PROVE TypeInv'
  <2>0. on[w] \in posted /\ op[w] = "post"
      BY <1>a, <1>9 DEF InsertInst, Served
  <2>1. JobTypes' /\ Served'
      BY <1>a, <1>9, <2>0, GoesFits DEF InsertInst, Fits, At
  <2>2. RowTypes' /\ PastTypes'
      BY <1>a, <1>9, <2>0 DEF InsertInst, JobTypes, RowTypes, PastTypes
  <2> QED
      BY <1>b, <2>1, <2>2
<1>10. ASSUME NEW w \in Worker, NEW i \in Inst, Remove(w, i) PROVE TypeInv'
  <2>1. JobTypes' /\ Served'
      BY <1>a, <1>10, BeginsFits, UnreadType DEF Remove, Fits, Op, At, rows, RowTypes
  <2>2. RowTypes' /\ PastTypes'
      BY <1>a, <1>10 DEF Remove, RowTypes, PastTypes, rows, trims, history
  <2> QED
      BY <1>b, <2>1, <2>2
<1>11. ASSUME NEW w \in Worker, DeleteInst(w) PROVE TypeInv'
  <2>1. JobTypes' /\ Served'
      BY <1>a, <1>11, GoesFits DEF DeleteInst, Served, Fits, At
  <2>2. RowTypes' /\ PastTypes'
      BY <1>a, <1>11 DEF DeleteInst, RowTypes, PastTypes, trims
  <2> QED
      BY <1>b, <2>1, <2>2
<1>12. ASSUME NEW w \in Worker, Bump(w) PROVE TypeInv'
  <2>1. JobTypes' /\ Served'
      BY <1>a, <1>12, EndsFits DEF Bump
  <2>2. RowTypes' /\ PastTypes'
      BY <1>a, <1>12, BumpedType DEF Bump, RowTypes, PastTypes, trims
  <2> QED
      BY <1>b, <2>1, <2>2
<1>13. ASSUME NEW w \in Worker, NEW n \in Limit, Update(w, n) PROVE TypeInv'
  <2>1. JobTypes' /\ Served'
      BY <1>a, <1>13, BeginsFits DEF Update, RowTypes, Fits, Op, At, rows
  <2>2. RowTypes' /\ PastTypes'
      BY <1>a, <1>13 DEF Update, RowTypes, PastTypes, rows, trims, history
  <2> QED
      BY <1>b, <2>1, <2>2
<1>14. ASSUME NEW w \in Worker, Count(w) PROVE TypeInv'
  <2>1. JobTypes'
      BY <1>a, <1>c, <1>14 DEF Count, JobTypes, At
  <2>2. Served'
      BY <1>a, <1>14 DEF Count, JobTypes, Served, rows
  <2>3. RowTypes' /\ PastTypes'
      BY <1>a, <1>14 DEF Count, RowTypes, PastTypes, rows, trims
  <2> QED
      BY <1>b, <2>1, <2>2, <2>3
<1>15. ASSUME NEW w \in Worker, NEW gone \in SUBSET insts, Trim(w, gone) PROVE TypeInv'
  <2>1. JobTypes' /\ Served'
      BY <1>a, <1>15, GoesFits DEF Trim, AfterTrim, Served, Fits, At
  <2>2. Cardinality(gone) \in Nat
      BY <1>a, FiniteRows DEF RowTypes
  <2>3. RowTypes' /\ PastTypes'
      BY <1>a, <1>15, <2>2 DEF Trim, Trims, RowTypes, PastTypes, trims
  <2> QED
      BY <1>b, <2>1, <2>3
<1>16. ASSUME NEW w \in Worker, SetCounter(w) PROVE TypeInv'
  <2>1. JobTypes' /\ Served'
      BY <1>a, <1>16, EndsFits DEF SetCounter
  <2>2. RowTypes' /\ PastTypes'
    <3>1. op[w] = "update" /\ limit[w] \in Limit
        BY <1>a, <1>16 DEF SetCounter, Served, JobTypes, Op
    <3> QED
        BY <1>a, <1>16, <3>1 DEF SetCounter, JobTypes, RowTypes, PastTypes, trims
  <2> QED
      BY <1>b, <2>1, <2>2
<1>17. ASSUME NEW i \in Inst, ManCounts(i) PROVE TypeInv'
    BY <1>a, <1>b, <1>c, <1>17 DEF ManCounts, JobTypes, Served, RowTypes, PastTypes, rows, jobs, history
<1>18. ASSUME NEW i \in Inst, NEW gone \in SUBSET insts, ManTrims(i, gone) PROVE TypeInv'
  <2>1. JobTypes' /\ Served'
      BY <1>a, <1>18 DEF ManTrims, JobTypes, Served, jobs
  <2>2. Cardinality(gone) \in Nat
      BY <1>a, FiniteRows DEF RowTypes
  <2>3. RowTypes' /\ PastTypes'
      BY <1>a, <1>18, <2>2 DEF ManTrims, Trims, AfterTrim, RowTypes, PastTypes
  <2> QED
      BY <1>b, <2>1, <2>3
<1>19. ASSUME NEW w \in Worker, Fails(w) PROVE TypeInv'
  <2>1. JobTypes' /\ Served'
    <3>1. CASE at[w] = "trim"
        BY <1>a, <1>19, <3>1, GoesFits DEF Fails, Served, Fits, At, rows
    <3>2. CASE at[w] # "trim"
        BY <1>a, <1>19, <3>2, EndsFits DEF Fails, rows
    <3> QED
        BY <3>1, <3>2
  <2>2. op[w] \in {"subscribe", "unsubscribe"} => on[w] \in Sub
      BY <1>a DEF Served
  <2>3. RowTypes' /\ PastTypes'
      BY <1>a, <1>19, <2>2, ContainerAssumption DEF Fails, RowTypes, PastTypes, rows, trims
  <2> QED
      BY <1>b, <2>1, <2>3
<1>20. ASSUME NEW i \in Inst, ManFails(i) PROVE TypeInv'
    BY <1>a, <1>b, <1>20, ContainerAssumption DEF ManFails, JobTypes, Served, RowTypes, PastTypes, rows, jobs, history
<1>21. CASE UNCHANGED vars
    BY <1>a, <1>b, <1>21 DEF vars, JobTypes, Served, RowTypes, PastTypes, rows, jobs, trims, history
<1> QED
    BY <1>1, <1>2, <1>3, <1>4, <1>5, <1>6, <1>7, <1>8, <1>9, <1>10, <1>11, <1>12, <1>13, <1>14,
       <1>15, <1>16, <1>17, <1>18, <1>19, <1>20, <1>21 DEF Next, Asked, Serves, Man

\* Every variable keeps its type, for any number of requests and any limit.
THEOREM TypeCorrect == Spec => []TypeOK
<1>1. Spec => []TypeInv
    BY InitType, StepType, PTL DEF Spec
<1>2. TypeInv => TypeOK
    BY DEF TypeInv
<1> QED
    BY <1>1, <1>2, PTL
-----------------------------------------------------------------------------
(* The limit.                                                              *)

\* Until the limit in force is kept, cnt_man is at work on account of an instance
\* whose POST had read it.
Bounded == Cardinality(insts) <= most \/ \E i \in Inst : man[i] # "none" /\ told[i] = most

\* An update that nothing has overlapped since it counted has kept its limit when
\* it comes to write.
Restored == \A w \in alone : op[w] = "update" /\ at[w] \in {"write", "set"} => Cardinality(insts) <= limit[w]

LimitInv == faults = 0 => Bounded /\ Restored

LEMMA InitLimit == Init => LimitInv
    BY FS_EmptySet DEF Init, LimitInv, Bounded, Restored

\* Statements that have failed stay failed.
LEMMA FaultsGrow == TypeInv /\ [Next]_vars /\ faults' = 0 => faults = 0
<1> SUFFICES ASSUME TypeInv, [Next]_vars, faults' = 0 PROVE faults = 0
    OBVIOUS
<1>1. faults \in Nat
    BY ContainerAssumption DEF TypeInv, TypeOK
<1>2. ASSUME NEW w \in Worker, Asked(w) PROVE faults' = faults
    BY <1>2 DEF Asked, Subscribe, Unsubscribe, Amend, Post, Remove, Update
<1>3. ASSUME NEW w \in Worker, Serves(w) PROVE faults' = faults
    BY <1>3 DEF Serves, InsertSub, DeleteSub, Reread, WriteBack, InsertInst, DeleteInst, Bump, Count, SetCounter, Trim
<1>4. ASSUME NEW i \in Inst, Man(i) PROVE faults' = faults
    BY <1>4 DEF Man, ManCounts, ManTrims
<1>5. faults' = faults \/ faults' = faults + 1
    BY <1>2, <1>3, <1>4 DEF Next, Fails, ManFails, vars
<1> QED
    BY <1>1, <1>5

LEMMA StepLimit == TypeInv /\ LimitInv /\ [Next]_vars => LimitInv'
<1> SUFFICES ASSUME TypeInv, LimitInv, [Next]_vars, faults = 0, faults' = 0 PROVE Bounded' /\ Restored'
    BY FaultsGrow DEF LimitInv
<1>a. /\ insts \in SUBSET Inst /\ IsFiniteSet(insts) /\ Cardinality(insts) \in Nat
      /\ man \in [Inst -> {"none", "count", "trim"}]
      /\ JobTypes /\ Served /\ Bounded /\ Restored /\ alone \subseteq Worker
    BY FiniteRows, JobTyping DEF TypeInv, TypeOK, LimitInv
<1>n. /\ told \in [Inst -> Nat] /\ limit \in [Worker -> Nat] /\ most \in Nat
      /\ counted \in [Inst -> Nat] /\ seen \in [Worker -> Nat]
  <2>1. Limit \cup {0} \subseteq Nat
      BY ContainerAssumption
  <2> QED
      BY <2>1 DEF TypeInv, TypeOK
<1>b. ASSUME insts' \subseteq insts, man' = man, told' = told, most' = most PROVE Bounded'
  <2>1. Cardinality(insts') \in Nat /\ Cardinality(insts') <= Cardinality(insts)
      BY <1>a, <1>b, FS_Subset, FS_CardinalityType
  <2> QED
      BY <1>a, <1>b, <1>n, <2>1 DEF Bounded
<1>c. ASSUME insts' = insts, alone' \subseteq alone,
             \A v \in alone : op'[v] = "update" /\ at'[v] \in {"write", "set"} =>
                 op[v] = "update" /\ at[v] \in {"write", "set"} /\ limit'[v] = limit[v]
      PROVE  Restored'
    BY <1>a, <1>c DEF Restored
<1>1. ASSUME NEW w \in Worker, Asked(w) PROVE Bounded' /\ Restored'
  <2>1. Bounded'
      BY <1>b, <1>1 DEF Asked, Subscribe, Unsubscribe, Amend, Post, Remove, Update, rows, trims, history
  <2>2. /\ insts' = insts /\ alone' = alone /\ at'[w] \notin {"write", "set"}
        /\ \A v \in Worker \ {w} : op'[v] = op[v] /\ at'[v] = at[v] /\ limit'[v] = limit[v]
      BY <1>a, <1>1 DEF Asked, Subscribe, Unsubscribe, Amend, Post, Remove, Update, Begins, JobTypes, rows, history
  <2> QED
      BY <1>a, <1>c, <2>1, <2>2
<1>2. ASSUME NEW w \in Worker, InsertInst(w) PROVE Bounded' /\ Restored'
  <2>1. on[w] \in Inst
      BY <1>2 DEF TypeInv, TypeOK, Served, InsertInst
  <2>2. man'[on[w]] = "count" /\ told'[on[w]] = most'
      BY <1>a, <1>n, <1>2, <2>1 DEF InsertInst
  <2> QED
      BY <1>2, <2>1, <2>2 DEF Bounded, Restored, InsertInst
<1>3. ASSUME NEW w \in Worker, DeleteInst(w) \/ Bump(w) \/ \E gone \in SUBSET insts : Trim(w, gone)
      PROVE  Bounded' /\ Restored'
  <2>1. Bounded'
      BY <1>b, <1>3 DEF DeleteInst, Bump, Trim, Trims, trims
  <2>2. alone' = {}
      BY <1>3 DEF DeleteInst, Bump, Trim, Trims
  <2> QED
      BY <2>1, <2>2 DEF Restored
<1>4. ASSUME NEW w \in Worker, InsertSub(w) \/ DeleteSub(w) \/ Reread(w) \/ WriteBack(w)
      PROVE  Bounded' /\ Restored'
  <2>1. Bounded'
      BY <1>b, <1>4 DEF InsertSub, DeleteSub, Reread, WriteBack, rows, trims, history
  <2>2. /\ insts' = insts /\ alone' = alone
        /\ \A v \in Worker \ {w} : op'[v] = op[v] /\ at'[v] = at[v] /\ limit'[v] = limit[v]
      BY <1>a, <1>4 DEF InsertSub, DeleteSub, Reread, WriteBack, Goes, Ends, JobTypes, rows, history
  <2>3. op'[w] = "update" => op[w] = "update" /\ at[w] = "write" /\ limit'[w] = limit[w]
      BY <1>a, <1>4 DEF InsertSub, DeleteSub, Reread, WriteBack, Goes, Ends, JobTypes
  <2> QED
      BY <1>a, <1>c, <2>1, <2>2, <2>3
<1>5. ASSUME NEW w \in Worker, Count(w) PROVE Bounded' /\ Restored'
  <2>1. Bounded'
      BY <1>b, <1>5 DEF Count, rows, trims
  <2>2. at'[w] \in {"write", "set"} => Cardinality(insts) <= limit[w]
    <3>1. limit[w] \in Nat
        BY <1>n
    <3>2. TooMany(Cardinality(insts), limit[w]) > 0 \/ Cardinality(insts) <= limit[w]
        BY <1>a, <3>1, ContainerAssumption DEF TooMany
    <3>3. at'[w] = IF TooMany(Cardinality(insts), limit[w]) > 0 THEN "trim" ELSE "write"
        BY <1>a, <1>5 DEF Count, JobTypes
    <3> QED
        BY <1>a, <3>1, <3>2, <3>3
  <2>3. /\ insts' = insts /\ op' = op /\ limit' = limit /\ alone' \subseteq alone \cup {w}
        /\ \A v \in Worker \ {w} : at'[v] = at[v]
      BY <1>a, <1>5 DEF Count, JobTypes, rows
  <2> QED
      BY <1>a, <2>1, <2>2, <2>3 DEF Restored
<1>6. ASSUME NEW w \in Worker, SetCounter(w) PROVE Bounded' /\ Restored'
  <2>1. op[w] = "update" /\ at[w] = "set"
      BY <1>a, <1>6 DEF SetCounter, Served, JobTypes, Op
  <2>2. CASE w \in alone
    <3>1. insts' = insts /\ most' = limit[w] /\ Cardinality(insts) <= limit[w]
        BY <1>a, <1>6, <2>1, <2>2 DEF SetCounter, Restored
    <3> QED
        BY <1>6, <3>1 DEF Bounded, Restored, SetCounter
  <2>3. CASE w \notin alone
      BY <1>b, <1>6, <2>3 DEF SetCounter, Restored, trims
  <2> QED
      BY <2>2, <2>3
<1>7. ASSUME NEW i \in Inst, ManCounts(i) PROVE Bounded' /\ Restored'
  <2>1. Restored'
      BY <1>c, <1>7 DEF ManCounts, rows, jobs, history
  <2>2. told[i] \in Nat
      BY <1>n
  <2>3. insts' = insts /\ most' = most /\ told' = told /\ \A j \in Inst \ {i} : man'[j] = man[j]
      BY <1>a, <1>7 DEF ManCounts, rows, history
  <2>4. CASE TooMany(Cardinality(insts), told[i]) > 0
    <3>1. man'[i] = "trim"
        BY <1>a, <1>7, <2>4 DEF ManCounts
    <3> QED
        BY <1>a, <2>1, <2>3, <3>1 DEF Bounded
  <2>5. CASE ~(TooMany(Cardinality(insts), told[i]) > 0)
    <3>1. Cardinality(insts) <= told[i]
        BY <1>a, <2>2, <2>5, ContainerAssumption DEF TooMany
    <3> QED
        BY <1>a, <2>1, <2>3, <3>1 DEF Bounded
  <2> QED
      BY <2>4, <2>5
<1>8. ASSUME NEW i \in Inst, NEW gone \in SUBSET insts, ManTrims(i, gone) PROVE Bounded' /\ Restored'
  <2>1. Restored'
      BY <1>8 DEF ManTrims, Trims, Restored
  <2>2. /\ most' = most /\ told' = told /\ insts' = insts \ gone
        /\ \A j \in Inst \ {i} : man'[j] = man[j]
      BY <1>a, <1>8 DEF ManTrims, Trims
  <2>3. CASE Cardinality(gone) = TooMany(counted[i], told[i])
    <3>1. man'[i] = "count"
        BY <1>a, <1>8, <2>3 DEF ManTrims, AfterTrim
    <3>2. man[i] = "trim"
        BY <1>8 DEF ManTrims
    <3>3. Cardinality(insts') \in Nat /\ Cardinality(insts') <= Cardinality(insts)
        BY <1>a, <2>2, FS_Subset, FS_CardinalityType
    <3> QED
        BY <1>a, <1>n, <2>1, <2>2, <3>1, <3>2, <3>3 DEF Bounded
  <2>4. CASE Cardinality(gone) # TooMany(counted[i], told[i])
    <3>1. Cardinality(gone) = Cardinality(insts)
        BY <1>8, <2>4 DEF ManTrims, Trims
    <3>2. gone = insts
        BY <1>a, <3>1, FS_Subset
    <3>3. Cardinality(insts') = 0
        BY <2>2, <3>2, FS_EmptySet
    <3> QED
        BY <1>a, <1>n, <2>1, <2>2, <3>3 DEF Bounded
  <2> QED
      BY <2>3, <2>4
<1>9. ASSUME faults' = faults + 1 PROVE Bounded' /\ Restored'
    BY <1>9
<1>10. CASE UNCHANGED vars
    BY <1>b, <1>c, <1>10 DEF vars, rows, jobs, trims, history
<1> QED
    BY <1>1, <1>2, <1>3, <1>4, <1>5, <1>6, <1>7, <1>8, <1>9, <1>10 DEF Next, Serves, Man, Fails, ManFails

\* Whatever requests overlap, updates of mni among them, an idle cnt_man has left
\* no more instances than the limit in force: the mni that the newest instance's
\* POST had read, or that of a later update which nothing has overlapped.
THEOREM LimitKept == Spec => []WithinLimit
<1>1. Spec => [](TypeInv /\ LimitInv)
    BY InitType, StepType, InitLimit, StepLimit, PTL DEF Spec
<1>2. TypeInv /\ LimitInv => WithinLimit
    BY DEF LimitInv, Bounded, WithinLimit
<1> QED
    BY <1>1, <1>2, PTL
-----------------------------------------------------------------------------
(* The list of subscriptions.                                              *)

ListInv == Sole /\ Lists /\ Kept

LEMMA BeginsJobs ==
    ASSUME JobTypes, NEW w \in Worker, NEW o, NEW x, NEW a, NEW read, NEW n, Begins(w, o, x, a, read, n)
    PROVE  /\ op[w] = "none" /\ op'[w] = o /\ at'[w] = a /\ on'[w] = x
           /\ \A v \in Worker \ {w} : op'[v] = op[v] /\ at'[v] = at[v] /\ on'[v] = on[v]
    BY DEF JobTypes, Begins

LEMMA GoesJobs ==
    ASSUME JobTypes, NEW w \in Worker, NEW a, Goes(w, a)
    PROVE  /\ op' = op /\ on' = on /\ at'[w] = a
           /\ \A v \in Worker \ {w} : at'[v] = at[v]
    BY DEF JobTypes, Goes

LEMMA EndsJobs ==
    ASSUME JobTypes, NEW w \in Worker, Ends(w)
    PROVE  /\ op'[w] = "none" /\ at'[w] = "none" /\ on'[w] = None
           /\ \A v \in Worker \ {w} : op'[v] = op[v] /\ at'[v] = at[v] /\ on'[v] = on[v]
    BY DEF JobTypes, Ends

\* Worker w stands to subscription s as it did.
Alike(w, s) ==
    /\ Adding(w, s)' <=> Adding(w, s)
    /\ Leaving(w, s)' <=> Leaving(w, s)
    /\ Poised(w, s)' => Poised(w, s)
    /\ Edits(w, s)' => Edits(w, s)

\* A step that leaves rows, list and the jobs that edit entries alone.
LEMMA Frame ==
    ASSUME ListInv, answered \subseteq Sub,
           subs' = subs, subl' = subl, answered' \subseteq answered, spoiled \subseteq spoiled',
           \A s \in Sub \ spoiled' : \A w \in Worker : Alike(w, s)
    PROVE  ListInv'
<1>1. Sole'
    BY DEF ListInv, Sole, Alike
<1>2. Lists'
    BY DEF ListInv, Lists, Alike
<1>3. Kept'
    BY DEF ListInv, Kept, Alike
<1> QED
    BY <1>1, <1>2, <1>3 DEF ListInv

LEMMA InitList == Init => ListInv
    BY DEF Init, ListInv, Sole, Lists, Kept, Edits, Adding, Leaving, Poised, Unread

\* A request about s begins when no other is about s, or spoils its entry.
LEMMA BeginsSole ==
    ASSUME TypeInv, Sole, NEW w \in Worker, NEW o, NEW s \in Sub, NEW a, NEW read,
           NEW n, Begins(w, o, s, a, read, n), spoiled' = spoiled \cup Crossed(s)
    PROVE  Sole'
<1>a. JobTypes
    BY JobTyping DEF TypeInv
<1>1. SUFFICES ASSUME NEW x \in Sub \ spoiled', NEW v \in Worker, NEW u \in Worker,
                      Edits(v, x)', Edits(u, x)'
               PROVE  v = u
    BY DEF Sole
<1>2. /\ on'[w] = s
      /\ \A y \in Worker \ {w} : op'[y] = op[y] /\ at'[y] = at[y] /\ on'[y] = on[y]
    BY <1>a, BeginsJobs
<1>3. CASE x = s
  <2>1. \A y \in Worker : on[y] # s
      BY <1>3 DEF Crossed
  <2> QED
      BY <1>1, <1>2, <1>3, <2>1 DEF Edits
<1>4. CASE x # s
    BY <1>1, <1>2, <1>4 DEF Edits, Sole
<1> QED
    BY <1>3, <1>4

LEMMA StepList == TypeInv /\ ListInv /\ [Next]_vars => ListInv'
<1> SUFFICES ASSUME TypeInv, ListInv, [Next]_vars PROVE ListInv'
    OBVIOUS
<1>a. JobTypes /\ Served /\ subl \in [Sub -> Nat] /\ answered \subseteq Sub /\ spoiled \subseteq Sub /\ subs \subseteq Sub
    BY JobTyping DEF TypeInv, TypeOK
<1>b. ASSUME subs' = subs, subl' = subl, answered' \subseteq answered, spoiled \subseteq spoiled',
             \A s \in Sub \ spoiled' : \A w \in Worker : Alike(w, s)
      PROVE  ListInv'
    BY <1>a, <1>b, Frame
<1> USE DEF Alike, Edits, Adding, Leaving, Poised
<1>1. ASSUME NEW w \in Worker, NEW s \in Sub, Subscribe(w, s) PROVE ListInv'
  <2>1. Sole'
      BY <1>1, BeginsSole DEF Subscribe, ListInv
  <2>2. /\ op[w] = "none" /\ op'[w] = "subscribe" /\ at'[w] = "insert"
        /\ \A v \in Worker \ {w} : op'[v] = op[v] /\ at'[v] = at[v] /\ on'[v] = on[v]
      BY <1>a, <1>1, BeginsJobs DEF Subscribe
  <2>3. Lists' /\ Kept'
      BY <1>1, <1>a, <2>2 DEF Subscribe, ListInv, Lists, Kept, rows
  <2> QED
      BY <2>1, <2>3 DEF ListInv
<1>2. ASSUME NEW w \in Worker, InsertSub(w) PROVE ListInv'
  <2> DEFINE s == on[w]
  <2>1. CASE s \in subs
    <3>1. /\ op'[w] = "none"
          /\ \A v \in Worker \ {w} : op'[v] = op[v] /\ at'[v] = at[v] /\ on'[v] = on[v]
        BY <1>a, <1>2, <2>1, EndsJobs DEF InsertSub
    <3> QED
        BY <1>b, <1>2, <2>1, <3>1 DEF InsertSub, history
  <2>2. CASE s \notin subs
    <3>1. /\ op' = op /\ on' = on /\ at'[w] = "write"
          /\ \A v \in Worker \ {w} : at'[v] = at[v]
        BY <1>a, <1>2, <2>2, GoesJobs DEF InsertSub
    <3>2. subs' = subs \cup {s} /\ subl' = subl /\ answered' = answered /\ spoiled' = spoiled
        BY <1>2, <2>2 DEF InsertSub, history
    <3>3. op[w] = "subscribe" /\ at[w] = "insert" /\ s \in Sub
        BY <1>a, <1>2 DEF InsertSub, Served
    <3>4. Sole'
        BY <3>1, <3>2 DEF ListInv, Sole
    <3>5. s \notin spoiled => \A v \in Worker \ {w} : ~Edits(v, s)
        BY <3>3 DEF ListInv, Sole
    <3>6. s \notin spoiled => subl[s] = 0 /\ s \notin answered
        BY <1>a, <2>2, <3>3, <3>5 DEF ListInv, Lists, Kept
    <3>7. Lists'
      <4> SUFFICES ASSUME NEW x \in Sub \ spoiled
                   PROVE  /\ \A v \in Worker : Adding(v, x)' => x \in subs' /\ subl[x] = 0
                          /\ \A v \in Worker : Poised(v, x)' => x \in subs'
                          /\ \A v \in Worker : Leaving(v, x)' => x \notin subs' /\ subl[x] = 1
                          /\ (\A v \in Worker : ~Adding(v, x)' /\ ~Leaving(v, x)') =>
                                subl[x] = IF x \in subs' THEN 1 ELSE 0
          BY <3>2 DEF Lists
      <4>1. CASE x = s
          BY <3>1, <3>2, <3>3, <3>5, <3>6, <4>1
      <4>2. CASE x # s
        <5>1. \A v \in Worker : /\ Adding(v, x)' <=> Adding(v, x)
                                /\ Poised(v, x)' <=> Poised(v, x)
                                /\ Leaving(v, x)' <=> Leaving(v, x)
            BY <3>1, <4>2
        <5>2. x \in subs' <=> x \in subs
            BY <3>2, <4>2
        <5> HIDE DEF Adding, Leaving, Poised
        <5> QED
            BY <5>1, <5>2 DEF ListInv, Lists
      <4> QED
          BY <4>1, <4>2
    <3>8. Kept'
        BY <1>a, <3>1, <3>2, <3>6 DEF ListInv, Kept
    <3> QED
        BY <3>4, <3>7, <3>8 DEF ListInv
  <2> QED
      BY <2>1, <2>2
<1>3. ASSUME NEW w \in Worker, NEW s \in Sub, Unsubscribe(w, s) PROVE ListInv'
  <2>1. Sole'
      BY <1>3, BeginsSole DEF Unsubscribe, ListInv
  <2>2. /\ op[w] = "none" /\ op'[w] = "unsubscribe" /\ at'[w] = "delete" /\ on'[w] = s
        /\ \A v \in Worker \ {w} : op'[v] = op[v] /\ at'[v] = at[v] /\ on'[v] = on[v]
      BY <1>a, <1>3, BeginsJobs DEF Unsubscribe
  <2>3. Lists' /\ Kept'
      BY <1>3, <1>a, <2>2 DEF Unsubscribe, ListInv, Lists, Kept, rows
  <2> QED
      BY <2>1, <2>3 DEF ListInv
<1>4. ASSUME NEW w \in Worker, DeleteSub(w) PROVE ListInv'
  <2> DEFINE s == on[w]
  <2>1. /\ op' = op /\ on' = on /\ at'[w] = "reread"
        /\ \A v \in Worker \ {w} : at'[v] = at[v]
      BY <1>a, <1>4, GoesJobs DEF DeleteSub
  <2>2. subs' = subs \ {s} /\ subl' = subl /\ answered' = answered /\ spoiled' = spoiled
      BY <1>4 DEF DeleteSub, history
  <2>3. op[w] = "unsubscribe" /\ at[w] = "delete" /\ s \in Sub
      BY <1>a, <1>4 DEF DeleteSub, Served
  <2>4. Sole'
      BY <2>1, <2>2 DEF ListInv, Sole
  <2>5. s \notin spoiled => \A v \in Worker \ {w} : ~Edits(v, s)
      BY <2>3 DEF ListInv, Sole
  <2>6. s \notin spoiled => subl[s] = 1 /\ s \notin answered
      BY <1>a, <2>3, <2>5 DEF ListInv, Lists, Kept
  <2>7. Lists'
    <3> SUFFICES ASSUME NEW x \in Sub \ spoiled
                 PROVE  /\ \A v \in Worker : Adding(v, x)' => x \in subs' /\ subl[x] = 0
                        /\ \A v \in Worker : Poised(v, x)' => x \in subs'
                        /\ \A v \in Worker : Leaving(v, x)' => x \notin subs' /\ subl[x] = 1
                        /\ (\A v \in Worker : ~Adding(v, x)' /\ ~Leaving(v, x)') =>
                              subl[x] = IF x \in subs' THEN 1 ELSE 0
        BY <2>2 DEF Lists
    <3>1. CASE x = s
        BY <2>1, <2>2, <2>3, <2>5, <2>6, <3>1
    <3>2. CASE x # s
      <4>1. \A v \in Worker : /\ Adding(v, x)' <=> Adding(v, x)
                              /\ Poised(v, x)' <=> Poised(v, x)
                              /\ Leaving(v, x)' <=> Leaving(v, x)
          BY <2>1, <3>2
      <4>2. x \in subs' <=> x \in subs
          BY <2>2, <3>2
      <4> HIDE DEF Adding, Leaving, Poised
      <4> QED
          BY <4>1, <4>2 DEF ListInv, Lists
    <3> QED
        BY <3>1, <3>2
  <2>8. Kept'
      BY <1>a, <2>1, <2>2, <2>6 DEF ListInv, Kept
  <2> QED
      BY <2>4, <2>7, <2>8 DEF ListInv
<1>5. ASSUME NEW w \in Worker, NEW s \in Sub, Amend(w, s) PROVE ListInv'
  <2>1. /\ op[w] = "none" /\ op'[w] = "amend"
        /\ \A v \in Worker \ {w} : op'[v] = op[v] /\ at'[v] = at[v] /\ on'[v] = on[v]
      BY <1>a, <1>5, BeginsJobs DEF Amend
  <2> QED
      BY <1>b, <1>5, <2>1 DEF Amend, rows, history
<1>6. ASSUME NEW w \in Worker, Reread(w) PROVE ListInv'
  <2>1. /\ op' = op /\ on' = on /\ at'[w] = "write" /\ at[w] = "reread" /\ op[w] \in {"unsubscribe", "amend"}
        /\ \A v \in Worker \ {w} : at'[v] = at[v]
      BY <1>a, <1>6 DEF Reread, JobTypes
  <2> QED
      BY <1>b, <1>6, <2>1 DEF Reread, rows, history
<1>8. ASSUME NEW w \in Worker, (\E n \in Limit : Update(w, n)) \/ (\E i \in Inst : Post(w, i) \/ Remove(w, i)) PROVE ListInv'
  <2>1. PICK o, x, a, read, n : Begins(w, o, x, a, read, n) /\ o \in {"update", "post", "remove"}
      BY <1>8 DEF Update, Post, Remove, At
  <2>2. /\ op[w] = "none" /\ op'[w] \in {"update", "post", "remove"}
        /\ \A v \in Worker \ {w} : op'[v] = op[v] /\ at'[v] = at[v] /\ on'[v] = on[v]
      BY <1>a, <2>1, BeginsJobs
  <2> QED
      BY <1>b, <1>8, <2>2 DEF Update, Post, Remove, rows, history
<1>9. ASSUME NEW w \in Worker, InsertInst(w) \/ DeleteInst(w) \/ \E gone \in SUBSET insts : Trim(w, gone) PROVE ListInv'
  <2>1. op[w] \in {"post", "remove", "update"}
      BY <1>a, <1>9 DEF InsertInst, DeleteInst, Trim, Served, JobTypes, Op
  <2>2. PICK a : Goes(w, a)
      BY <1>9 DEF InsertInst, DeleteInst, Trim
  <2>3. /\ op' = op /\ on' = on
        /\ \A v \in Worker \ {w} : at'[v] = at[v]
      BY <1>a, <2>2, GoesJobs
  <2> QED
      BY <1>b, <1>9, <2>1, <2>3 DEF InsertInst, DeleteInst, Trim
<1>10. ASSUME NEW w \in Worker, Count(w) PROVE ListInv'
  <2>1. op[w] = "update"
      BY <1>a, <1>10 DEF Count, Served, JobTypes, Op
  <2>2. /\ op' = op /\ on' = on
        /\ \A v \in Worker \ {w} : at'[v] = at[v]
      BY <1>a, <1>10 DEF Count, JobTypes
  <2> QED
      BY <1>b, <1>10, <2>1, <2>2 DEF Count, rows
<1>11. ASSUME NEW w \in Worker, Bump(w) \/ SetCounter(w) PROVE ListInv'
  <2>1. op[w] \in {"post", "remove", "update"}
      BY <1>a, <1>11 DEF Bump, SetCounter, Served, JobTypes, Op
  <2>2. /\ op'[w] = "none"
        /\ \A v \in Worker \ {w} : op'[v] = op[v] /\ at'[v] = at[v] /\ on'[v] = on[v]
      BY <1>a, <1>11, EndsJobs DEF Bump, SetCounter
  <2> QED
      BY <1>b, <1>11, <2>1, <2>2 DEF Bump, SetCounter
<1>12. ASSUME NEW i \in Inst, Man(i) \/ ManFails(i) PROVE ListInv'
    BY <1>b, <1>12 DEF Man, ManCounts, ManTrims, ManFails, rows, jobs, history
<1>13. ASSUME NEW w \in Worker, Fails(w) PROVE ListInv'
  <2>1. CASE at[w] = "trim"
    <3>1. op[w] = "update"
        BY <1>a, <2>1 DEF Served, JobTypes, Op
    <3>2. /\ op' = op /\ on' = on
          /\ \A v \in Worker \ {w} : at'[v] = at[v]
        BY <1>a, <1>13, <2>1, GoesJobs DEF Fails
    <3> QED
        BY <1>b, <1>13, <3>1, <3>2 DEF Fails, rows
  <2>2. CASE at[w] # "trim"
    <3>1. /\ op'[w] = "none"
          /\ \A v \in Worker \ {w} : op'[v] = op[v] /\ at'[v] = at[v] /\ on'[v] = on[v]
        BY <1>a, <1>13, <2>2, EndsJobs DEF Fails
    <3>2. spoiled \subseteq spoiled'
        BY <1>13 DEF Fails
    <3>3. \A s \in Sub \ spoiled' : ~Adding(w, s) /\ ~Leaving(w, s)
        BY <1>13 DEF Fails
    <3> QED
        BY <1>b, <1>13, <3>1, <3>2, <3>3 DEF Fails, rows
  <2> QED
      BY <2>1, <2>2
<1>14. CASE UNCHANGED vars
    BY <1>b, <1>14 DEF vars, rows, jobs, history
<1>7. ASSUME NEW w \in Worker, WriteBack(w) PROVE ListInv'
  <2> DEFINE s == on[w]
             o == op[w]
  <2>1. /\ op'[w] \in {"none", "update"}
        /\ \A v \in Worker \ {w} : op'[v] = op[v] /\ at'[v] = at[v] /\ on'[v] = on[v]
    <3>1. CASE o = "update"
        BY <1>a, <1>7, <3>1, GoesJobs DEF WriteBack
    <3>2. CASE o # "update"
        BY <1>a, <1>7, <3>2, EndsJobs DEF WriteBack
    <3> QED
        BY <3>1, <3>2
  <2>2. /\ subs' = subs /\ at[w] = "write" /\ spoiled \subseteq spoiled'
        /\ answered' = IF o = "subscribe" THEN answered \cup {s} ELSE answered
      BY <1>7 DEF WriteBack
  <2>3. (o \in {"subscribe", "unsubscribe"} => s \in Sub) /\ copy[w] \in [Sub -> Nat]
      BY <1>a DEF Served, JobTypes
  <2>4. \A x \in Sub \ spoiled' : subl'[x] =
            IF o = "subscribe" /\ x = s THEN subl[x] + 1
            ELSE IF o = "unsubscribe" /\ x = s /\ subl[x] > 0 THEN subl[x] - 1
            ELSE subl[x]
    <3>1. \A x \in Sub \ spoiled' : subl'[x] = Applied(o, s, subl)[x]
        BY <1>7 DEF WriteBack, Undone
    <3> QED
        BY <1>a, <2>3, <3>1, AppliedFacts
  <2>5. Sole'
      BY <2>1, <2>2 DEF ListInv, Sole
  <2>6. ASSUME NEW x \in Sub \ spoiled', x # s \/ o \notin {"subscribe", "unsubscribe"}
        PROVE  /\ subl'[x] = subl[x]
               /\ \A v \in Worker : Alike(v, x)
      BY <2>1, <2>2, <2>4, <2>6
  <2>7. ASSUME s \in Sub \ spoiled', o \in {"subscribe", "unsubscribe"}
        PROVE  /\ \A v \in Worker : op'[v] \in {"subscribe", "unsubscribe"} => on'[v] # s
               /\ o = "subscribe" => s \in subs /\ subl'[s] = 1
               /\ o = "unsubscribe" => s \notin subs /\ s \notin answered /\ subl'[s] = 0
    <3>1. s \notin spoiled
        BY <2>2, <2>7
    <3>2. \A v \in Worker \ {w} : ~Edits(v, s)
        BY <2>7, <3>1 DEF ListInv, Sole
    <3>3. \A v \in Worker : op'[v] \in {"subscribe", "unsubscribe"} => on'[v] # s
        BY <2>1, <3>2
    <3>4. CASE o = "subscribe"
      <4>1. Adding(w, s)
          BY <2>2, <3>4
      <4>2. s \in subs /\ subl[s] = 0
          BY <2>7, <3>1, <4>1 DEF ListInv, Lists
      <4>3. subl'[s] = 1
          BY <2>4, <2>7, <3>4, <4>2
      <4> QED
          BY <3>3, <3>4, <4>2, <4>3
    <3>5. CASE o = "unsubscribe"
      <4>1. Leaving(w, s)
          BY <2>2, <3>5
      <4>2. s \notin subs /\ subl[s] = 1
          BY <2>7, <3>1, <4>1 DEF ListInv, Lists
      <4>3. s \notin answered
          BY <3>1, <4>1 DEF ListInv, Kept
      <4>4. subl'[s] = 0
          BY <2>4, <2>7, <3>5, <4>2
      <4> QED
          BY <3>3, <3>5, <4>2, <4>3, <4>4
    <3> QED
        BY <2>7, <3>4, <3>5
  <2>8. Lists'
    <3> SUFFICES ASSUME NEW x \in Sub \ spoiled'
                 PROVE  /\ \A v \in Worker : Adding(v, x)' => x \in subs' /\ subl'[x] = 0
                        /\ \A v \in Worker : Poised(v, x)' => x \in subs'
                        /\ \A v \in Worker : Leaving(v, x)' => x \notin subs' /\ subl'[x] = 1
                        /\ (\A v \in Worker : ~Adding(v, x)' /\ ~Leaving(v, x)') =>
                              subl'[x] = IF x \in subs' THEN 1 ELSE 0
        BY DEF Lists
    <3>1. CASE x = s /\ o \in {"subscribe", "unsubscribe"}
        BY <2>2, <2>7, <3>1
    <3>2. CASE x # s \/ o \notin {"subscribe", "unsubscribe"}
      <4>1. x \in Sub \ spoiled /\ x \in Sub \ spoiled'
          BY <2>2
      <4>2. subl'[x] = subl[x] /\ \A v \in Worker : Alike(v, x)
          BY <2>6, <3>2
      <4> HIDE DEF Adding, Leaving, Poised, Edits, s, o
      <4> QED
          BY <2>2, <4>1, <4>2 DEF ListInv, Lists
    <3> QED
        BY <3>1, <3>2
  <2>9. Kept'
    <3> SUFFICES ASSUME NEW x \in answered' \ spoiled'
                 PROVE  /\ x \in subs'
                        /\ \A v \in Worker : ~Adding(v, x)' /\ ~Poised(v, x)' /\ ~Leaving(v, x)'
        BY DEF Kept
    <3>0. x \in Sub
        BY <1>a, <2>2, <2>3
    <3>1. CASE x = s /\ o \in {"subscribe", "unsubscribe"}
        BY <2>2, <2>7, <3>0, <3>1
    <3>2. CASE x # s \/ o \notin {"subscribe", "unsubscribe"}
      <4>1. x \in answered \ spoiled /\ x \in Sub \ spoiled'
          BY <2>2, <3>0, <3>2
      <4>2. \A v \in Worker : Alike(v, x)
          BY <2>6, <3>2, <4>1
      <4> HIDE DEF Adding, Leaving, Poised, Edits, s, o
      <4> QED
          BY <2>2, <4>1, <4>2 DEF ListInv, Kept
    <3> QED
        BY <3>1, <3>2
  <2> QED
      BY <2>5, <2>8, <2>9 DEF ListInv
<1> QED
    BY <1>1, <1>2, <1>3, <1>4, <1>5, <1>6, <1>7, <1>8, <1>9, <1>10, <1>11, <1>12, <1>13, <1>14
    DEF Next, Asked, Serves

LEMMA ListAlways == Spec => [](TypeInv /\ ListInv)
    BY InitType, StepType, InitList, StepList, PTL DEF Spec

\* Subscriptions whose creation was answered are in the list, unless spoiled.
THEOREM AnsweredAreListed == Spec => []AnsweredIsListed
<1>1. TypeInv /\ ListInv => AnsweredIsListed
    BY DEF TypeInv, TypeOK, ListInv, Lists, Kept, AnsweredIsListed, Adding, Leaving
<1> QED
    BY <1>1, ListAlways, PTL

\* The list names a subscription nobody is busy with once or not at all.
THEOREM ListExact == Spec => []ListIsExact
<1>1. TypeInv /\ ListInv => ListIsExact
    BY DEF ListInv, Lists, ListIsExact, Adding, Leaving
<1> QED
    BY <1>1, ListAlways, PTL
-----------------------------------------------------------------------------
(* The counter.                                                            *)

LEMMA InitCounter == Init => Fresh /\ Settled /\ CounterExplained
<1> SUFFICES ASSUME Init PROVE Fresh /\ Settled /\ CounterExplained
    OBVIOUS
<1>1. Pending("post") = {} /\ Pending("remove") = {}
    BY DEF Init, Pending
<1>2. CounterExplained
    BY <1>1, FS_EmptySet DEF Init, CounterExplained
<1> QED
    BY <1>2 DEF Init, Fresh, Settled, Posting

\* A name is posted once, so no instance is inserted that is there.
LEMMA StepFresh == TypeInv /\ Fresh /\ [Next]_vars => Fresh'
<1> SUFFICES ASSUME TypeInv, Fresh, [Next]_vars PROVE Fresh'
    OBVIOUS
<1>a. JobTypes /\ Served /\ insts \subseteq posted
    BY JobTyping DEF TypeInv, TypeOK
<1>b. ASSUME insts' \subseteq insts,
             \A v \in Worker : Posting(v)' => Posting(v) /\ on'[v] = on[v]
      PROVE  Fresh'
    BY <1>b DEF Fresh
<1> USE DEF Posting
<1>1. ASSUME NEW w \in Worker, NEW i \in Inst, Post(w, i) PROVE Fresh'
  <2>1. /\ op[w] = "none" /\ on'[w] = i
        /\ \A v \in Worker \ {w} : op'[v] = op[v] /\ at'[v] = at[v] /\ on'[v] = on[v]
      BY <1>a, <1>1, BeginsJobs DEF Post
  <2>2. \A v \in Worker : Posting(v) => on[v] # i
      BY <1>a, <1>1 DEF Post, Served
  <2>3. i \notin insts /\ insts' = insts
      BY <1>a, <1>1 DEF Post
  <2> QED
      BY <2>1, <2>2, <2>3 DEF Fresh
<1>2. ASSUME NEW w \in Worker, (\E n \in Limit : Update(w, n)) \/ (\E s \in Sub : Subscribe(w, s) \/ Unsubscribe(w, s) \/ Amend(w, s))
                               \/ \E i \in Inst : Remove(w, i)
      PROVE  Fresh'
  <2>1. PICK o, x, a, read, n : Begins(w, o, x, a, read, n) /\ o \in {"update", "subscribe", "unsubscribe", "amend", "remove"}
      BY <1>2 DEF Update, Subscribe, Unsubscribe, Amend, Remove
  <2>2. /\ op'[w] # "post"
        /\ \A v \in Worker \ {w} : op'[v] = op[v] /\ at'[v] = at[v] /\ on'[v] = on[v]
      BY <1>a, <2>1, BeginsJobs
  <2> QED
      BY <1>b, <1>2, <2>2 DEF Update, Subscribe, Unsubscribe, Amend, Remove, rows
<1>3. ASSUME NEW w \in Worker, InsertInst(w) PROVE Fresh'
  <2>1. /\ op' = op /\ on' = on /\ at'[w] = "bump"
        /\ \A v \in Worker \ {w} : at'[v] = at[v]
      BY <1>a, <1>3, GoesJobs DEF InsertInst
  <2>2. \A v \in Worker \ {w} : Posting(v) => on[v] # on[w]
      BY <1>3 DEF InsertInst, Fresh
  <2> QED
      BY <1>3, <2>1, <2>2 DEF InsertInst, Fresh
<1>4. ASSUME NEW w \in Worker, Serves(w) \/ Fails(w), ~InsertInst(w), insts' \subseteq insts PROVE Fresh'
  <2> DEFINE Moves == \/ \E a \in At \ {"insert"} : Goes(w, a)
                      \/ Ends(w)
                      \/ op' = op /\ on' = on /\ \E a \in At \ {"insert"} : at' = [at EXCEPT ![w] = a]
  <2>a. InsertSub(w) => Moves
      BY Zenon DEF InsertSub, At
  <2>b. DeleteSub(w) \/ DeleteInst(w) => Moves
      BY DEF DeleteSub, DeleteInst, At
  <2>c. Reread(w) \/ Count(w) => Moves
      BY DEF Reread, Count, At
  <2>d. WriteBack(w) => Moves
      BY Zenon DEF WriteBack, At
  <2>e. Bump(w) \/ SetCounter(w) => Moves
      BY DEF Bump, SetCounter
  <2>f. (\E gone \in SUBSET insts : Trim(w, gone)) => Moves
      BY DEF Trim, AfterTrim, At
  <2>g. Fails(w) => Moves
      BY Zenon DEF Fails, At
  <2>1. Moves
      BY <1>4, <2>a, <2>b, <2>c, <2>d, <2>e, <2>f, <2>g DEF Serves
  <2>2. \A v \in Worker : at'[v] = "insert" => at[v] = "insert" /\ op'[v] = op[v] /\ on'[v] = on[v]
      BY <1>a, <2>1 DEF Goes, Ends, JobTypes
  <2> QED
      BY <1>b, <1>4, <2>2
<1>5. ASSUME NEW w \in Worker, Serves(w) \/ Fails(w), ~InsertInst(w) PROVE insts' \subseteq insts
    BY <1>5 DEF Serves, Fails, InsertSub, DeleteSub, Reread, WriteBack, DeleteInst, Bump, Count,
       SetCounter, Trim, Trims, rows
<1>6. ASSUME NEW i \in Inst, Man(i) \/ ManFails(i) PROVE Fresh'
    BY <1>b, <1>6 DEF Man, ManCounts, ManTrims, Trims, ManFails, rows, jobs
<1>7. CASE UNCHANGED vars
    BY <1>b, <1>7 DEF vars, rows, jobs
<1> QED
    BY <1>1, <1>2, <1>3, <1>4, <1>5, <1>6, <1>7 DEF Next, Asked, Serves

\* What a lone update has counted stays true until it sets the counter.
LEMMA StepSettled == TypeInv /\ Settled /\ [Next]_vars => Settled'
<1> SUFFICES ASSUME TypeInv, Settled, [Next]_vars PROVE Settled'
    OBVIOUS
<1>a. JobTypes /\ Served /\ alone \subseteq Worker
    BY JobTyping DEF TypeInv, TypeOK
<1>b. ASSUME alone' = {} PROVE Settled'
    BY <1>b DEF Settled
<1>c. ASSUME alone' = alone, insts' = insts,
             \A v \in Worker : at'[v] = "bump" => at[v] = "bump",
             \A v \in Worker : at'[v] \in {"trim", "write", "set"} /\ op'[v] = "update" =>
                at[v] \in {"trim", "write", "set"} /\ op[v] = "update" /\ seen'[v] = seen[v]
      PROVE  Settled'
    BY <1>a, <1>c DEF Settled
<1>1. ASSUME NEW w \in Worker, Asked(w) PROVE Settled'
  <2>1. PICK o, x, a, read, n : Begins(w, o, x, a, read, n) /\ a \in {"insert", "delete", "reread", "count"}
    <3>1. CASE \E n \in Limit : Update(w, n)
        BY <3>1 DEF Update
    <3>2. CASE \E s \in Sub : Subscribe(w, s) \/ Unsubscribe(w, s) \/ Amend(w, s)
        BY <3>2 DEF Subscribe, Unsubscribe, Amend
    <3>3. CASE \E i \in Inst : Post(w, i) \/ Remove(w, i)
        BY <3>3 DEF Post, Remove
    <3> QED
        BY <1>1, <3>1, <3>2, <3>3 DEF Asked
  <2>2. /\ at'[w] = a /\ seen' = seen
        /\ \A v \in Worker \ {w} : op'[v] = op[v] /\ at'[v] = at[v]
      BY <1>a, <2>1 DEF Begins, JobTypes
  <2>3. alone' = alone /\ insts' = insts
      BY <1>1 DEF Asked, Subscribe, Unsubscribe, Amend, Post, Remove, Update, rows, history
  <2> QED
      BY <1>c, <2>1, <2>2, <2>3
<1>2. ASSUME NEW w \in Worker,
             InsertInst(w) \/ DeleteInst(w) \/ Bump(w) \/ SetCounter(w) \/ \E gone \in SUBSET insts : Trim(w, gone)
      PROVE  Settled'
    BY <1>b, <1>2 DEF InsertInst, DeleteInst, Bump, SetCounter, Trim, Trims
<1>3. ASSUME NEW w \in Worker, InsertSub(w) \/ DeleteSub(w) \/ Reread(w) PROVE Settled'
  <2>1. op[w] \in {"subscribe", "unsubscribe", "amend"}
      BY <1>3 DEF InsertSub, DeleteSub, Reread
  <2>2. /\ op'[w] \in {op[w], "none"} /\ at'[w] # "bump"
        /\ \A v \in Worker \ {w} : op'[v] = op[v] /\ at'[v] = at[v] /\ seen'[v] = seen[v]
    <3>1. CASE InsertSub(w)
      <4>1. Goes(w, "write") \/ Ends(w)
          BY <3>1, Zenon DEF InsertSub
      <4> QED
          BY <1>a, <4>1 DEF Goes, Ends, JobTypes
    <3>2. CASE DeleteSub(w) \/ Reread(w)
        BY <1>a, <3>2 DEF DeleteSub, Reread, Goes, JobTypes
    <3> QED
        BY <1>3, <3>1, <3>2
  <2>3. alone' = alone /\ insts' = insts
      BY <1>3 DEF InsertSub, DeleteSub, Reread, rows, history
  <2> QED
      BY <1>c, <2>1, <2>2, <2>3
<1>4. ASSUME NEW w \in Worker, WriteBack(w) PROVE Settled'
  <2>1. CASE op[w] = "update"
      BY <1>a, <1>c, <1>4, <2>1 DEF WriteBack, Goes, JobTypes
  <2>2. CASE op[w] # "update"
      BY <1>a, <1>c, <1>4, <2>2 DEF WriteBack, Ends, JobTypes
  <2> QED
      BY <2>1, <2>2
<1>5. ASSUME NEW w \in Worker, Count(w) PROVE Settled'
  <2>1. /\ op' = op /\ insts' = insts /\ at'[w] # "bump" /\ seen'[w] = Cardinality(insts)
        /\ \A v \in Worker \ {w} : at'[v] = at[v] /\ seen'[v] = seen[v]
      BY <1>a, <1>5 DEF Count, JobTypes, rows
  <2>2. CASE \E v \in Worker : at[v] = "bump"
      BY <1>b, <1>5, <2>2 DEF Count, Settled
  <2>3. CASE ~ \E v \in Worker : at[v] = "bump"
    <3>1. alone' = alone \cup {w}
        BY <1>5, <2>3 DEF Count
    <3> QED
        BY <1>a, <2>1, <2>3, <3>1 DEF Settled
  <2> QED
      BY <2>2, <2>3
<1>6. ASSUME NEW w \in Worker, Fails(w) PROVE Settled'
  <2>1. alone' = alone /\ insts' = insts
      BY <1>6 DEF Fails, rows
  <2>2. CASE at[w] = "trim"
      BY <1>a, <1>c, <1>6, <2>1, <2>2 DEF Fails, Goes, JobTypes
  <2>3. CASE at[w] # "trim"
      BY <1>a, <1>c, <1>6, <2>1, <2>3 DEF Fails, Ends, JobTypes
  <2> QED
      BY <2>2, <2>3
<1>7. ASSUME NEW i \in Inst, ManCounts(i) \/ ManFails(i) PROVE Settled'
    BY <1>c, <1>7 DEF ManCounts, ManFails, rows, jobs, history
<1>8. ASSUME NEW i \in Inst, NEW gone \in SUBSET insts, ManTrims(i, gone) PROVE Settled'
    BY <1>b, <1>8 DEF ManTrims, Trims
<1>9. CASE UNCHANGED vars
    BY <1>c, <1>9 DEF vars, rows, jobs, history
<1> QED
    BY <1>1, <1>2, <1>3, <1>4, <1>5, <1>6, <1>7, <1>8, <1>9 DEF Next, Serves, Man

LEMMA PendingFinite ==
    ASSUME NEW o
    PROVE  IsFiniteSet(Pending(o)) /\ Cardinality(Pending(o)) \in Nat
<1>1. Pending(o) \subseteq Worker
    BY DEF Pending
<1> QED
    BY <1>1, FS_Subset, FS_CardinalityType, ContainerAssumption

\* Worker w comes to its update of the counter.
LEMMA PendingJoins ==
    ASSUME NEW w \in Worker, NEW o, op' = op, at[w] # "bump", at'[w] = "bump",
           \A v \in Worker \ {w} : at'[v] = at[v]
    PROVE  Cardinality(Pending(o))' = Cardinality(Pending(o)) + IF op[w] = o THEN 1 ELSE 0
<1>1. w \notin Pending(o)
    BY DEF Pending
<1>2. CASE op[w] = o
  <2>1. Pending(o)' = Pending(o) \cup {w}
      BY <1>2 DEF Pending
  <2> QED
      BY <1>1, <1>2, <2>1, PendingFinite, FS_AddElement
<1>3. CASE op[w] # o
  <2>1. Pending(o)' = Pending(o)
      BY <1>3 DEF Pending
  <2> QED
      BY <1>3, <2>1, PendingFinite
<1> QED
    BY <1>2, <1>3

\* Worker w has done its update, or given it up.
LEMMA PendingLeaves ==
    ASSUME NEW w \in Worker, NEW o, at[w] = "bump", at'[w] # "bump",
           \A v \in Worker \ {w} : at'[v] = at[v] /\ op'[v] = op[v]
    PROVE  Cardinality(Pending(o))' = Cardinality(Pending(o)) - IF op[w] = o THEN 1 ELSE 0
<1>1. Pending(o)' = Pending(o) \ {w}
    BY DEF Pending
<1>2. w \in Pending(o) <=> op[w] = o
    BY DEF Pending
<1>3. IsFiniteSet(Pending(o)) /\ Cardinality(Pending(o)) \in Nat
    BY PendingFinite
<1>4. Cardinality(Pending(o) \ {w}) =
        IF w \in Pending(o) THEN Cardinality(Pending(o)) - 1 ELSE Cardinality(Pending(o))
    BY <1>3, FS_RemoveElement
<1> QED
    BY <1>1, <1>2, <1>3, <1>4

\* A step on which nobody comes to or leaves the update of the counter.
LEMMA PendingStays ==
    ASSUME NEW o, \A v \in Worker : at'[v] = "bump" <=> at[v] = "bump",
           \A v \in Worker : at[v] = "bump" => op'[v] = op[v]
    PROVE  Pending(o)' = Pending(o)
    BY DEF Pending

LEMMA TrimmedRows ==
    ASSUME NEW S \in SUBSET Inst, NEW gone \in SUBSET S
    PROVE  Cardinality(S \ gone) = Cardinality(S) - Cardinality(gone)
<1>1. Cardinality(S) = Cardinality(S \ gone) + Cardinality(gone)
  <2>1. (S \ gone) \cup gone = S /\ (S \ gone) \cap gone = {}
      OBVIOUS
  <2>2. IsFiniteSet(S \ gone) /\ IsFiniteSet(gone)
      BY FiniteRows
  <2>3. Cardinality((S \ gone) \cup gone) =
            Cardinality(S \ gone) + Cardinality(gone) - Cardinality((S \ gone) \cap gone)
      BY <2>2, FS_Union
  <2>4. Cardinality((S \ gone) \cap gone) = 0
      BY <2>1, FS_EmptySet
  <2>5. Cardinality(S \ gone) \in Nat /\ Cardinality(gone) \in Nat
      BY FiniteRows
  <2>6. Cardinality((S \ gone) \cup gone) = Cardinality(S)
      BY <2>1, Zenon
  <2> QED
      BY <2>3, <2>4, <2>5, <2>6
<1> QED
    BY <1>1, FiniteRows

LEMMA StepCounter ==
    TypeInv /\ Fresh /\ Settled /\ CounterExplained /\ [Next]_vars => CounterExplained'
<1> SUFFICES ASSUME TypeInv, Fresh, Settled, CounterExplained, [Next]_vars PROVE CounterExplained'
    OBVIOUS
<1> DEFINE posts == Cardinality(Pending("post"))
           removes == Cardinality(Pending("remove"))
           held == Cardinality(insts)
<1>a. /\ JobTypes /\ Served /\ insts \in SUBSET Inst /\ posted \subseteq Inst
      /\ cni \in Nat /\ drift \in Int /\ raced \in BOOLEAN
      /\ held \in Nat /\ posts \in Nat /\ removes \in Nat
    BY JobTyping, FiniteRows, PendingFinite DEF TypeInv, TypeOK
<1>b. ASSUME cni' = cni, insts' = insts, drift' = drift, raced' = raced,
             \A v \in Worker : at'[v] = "bump" <=> at[v] = "bump",
             \A v \in Worker : at[v] = "bump" => op'[v] = op[v]
      PROVE  CounterExplained'
  <2>1. Pending("post")' = Pending("post") /\ Pending("remove")' = Pending("remove")
      BY <1>b, PendingStays
  <2> QED
      BY <1>b, <2>1 DEF CounterExplained
<1>1. ASSUME NEW w \in Worker, Asked(w) PROVE CounterExplained'
  <2>1. PICK o, x, a, read, n : Begins(w, o, x, a, read, n) /\ a \in {"insert", "delete", "reread", "count"}
    <3>1. CASE \E n \in Limit : Update(w, n)
        BY <3>1 DEF Update
    <3>2. CASE \E s \in Sub : Subscribe(w, s) \/ Unsubscribe(w, s) \/ Amend(w, s)
        BY <3>2 DEF Subscribe, Unsubscribe, Amend
    <3>3. CASE \E i \in Inst : Post(w, i) \/ Remove(w, i)
        BY <3>3 DEF Post, Remove
    <3> QED
        BY <1>1, <3>1, <3>2, <3>3 DEF Asked
  <2>2. /\ at'[w] = a /\ at[w] = "none"
        /\ \A v \in Worker \ {w} : op'[v] = op[v] /\ at'[v] = at[v]
      BY <1>a, <2>1 DEF Begins, JobTypes, Served
  <2>3. cni' = cni /\ insts' = insts /\ drift' = drift /\ raced' = raced
      BY <1>1 DEF Asked, Subscribe, Unsubscribe, Amend, Post, Remove, Update, rows, history
  <2> QED
      BY <1>b, <2>1, <2>2, <2>3
<1>2. ASSUME NEW w \in Worker, InsertSub(w) \/ DeleteSub(w) \/ Reread(w) \/ WriteBack(w) \/ Count(w)
      PROVE  CounterExplained'
  <2>1. at[w] \in {"insert", "delete", "reread", "write", "count"}
      BY <1>2 DEF InsertSub, DeleteSub, Reread, WriteBack, Count
  <2>2. /\ at'[w] \in {"write", "reread", "set", "trim", "none"}
        /\ \A v \in Worker \ {w} : op'[v] = op[v] /\ at'[v] = at[v]
    <3>1. CASE InsertSub(w) \/ WriteBack(w)
      <4>1. (\E a \in {"write", "set"} : Goes(w, a)) \/ Ends(w)
          BY <3>1, Zenon DEF InsertSub, WriteBack
      <4> QED
          BY <1>a, <4>1 DEF Goes, Ends, JobTypes
    <3>2. CASE DeleteSub(w) \/ Reread(w) \/ Count(w)
        BY <1>a, <3>2 DEF DeleteSub, Reread, Count, Goes, JobTypes
    <3> QED
        BY <1>2, <3>1, <3>2
  <2>3. cni' = cni /\ insts' = insts /\ drift' = drift /\ raced' = raced
      BY <1>2 DEF InsertSub, DeleteSub, Reread, WriteBack, Count, rows, history
  <2> QED
      BY <1>b, <2>1, <2>2, <2>3
<1>3. ASSUME NEW w \in Worker, InsertInst(w) PROVE CounterExplained'
  <2>1. posts' = posts + 1 /\ removes' = removes
      BY <1>a, <1>3, GoesJobs, PendingJoins DEF InsertInst
  <2>2. on[w] \in Inst /\ on[w] \notin insts
      BY <1>a, <1>3 DEF InsertInst, Served, Fresh, Posting
  <2>3. held' = held + 1
      BY <1>a, <1>3, <2>2, FiniteRows, FS_AddElement DEF InsertInst
  <2> QED
      BY <1>a, <1>3, <2>1, <2>3 DEF InsertInst, CounterExplained
<1>4. ASSUME NEW w \in Worker, DeleteInst(w) PROVE CounterExplained'
  <2>1. posts' = posts /\ removes' = removes + 1
      BY <1>a, <1>4, GoesJobs, PendingJoins DEF DeleteInst
  <2>2. held' = IF on[w] \in insts THEN held - 1 ELSE held
      BY <1>a, <1>4, FiniteRows, FS_RemoveElement DEF DeleteInst
  <2>3. cni' = cni /\ raced' = raced
      BY <1>4 DEF DeleteInst
  <2>4. CASE on[w] \in insts
    <3>1. held' = held - 1 /\ drift' = drift
        BY <1>4, <2>2, <2>4 DEF DeleteInst
    <3>2. ~raced => cni + posts - removes = held + drift
        BY DEF CounterExplained
    <3>3. ~raced' => cni' + posts' - removes' = held' + drift'
      <4> HIDE DEF posts, removes, held
      <4> QED
          BY <1>a, <2>1, <2>3, <3>1, <3>2
    <3> QED
        BY <3>3 DEF CounterExplained
  <2>5. CASE on[w] \notin insts
    <3>1. held' = held /\ drift' = drift - 1
        BY <1>4, <2>2, <2>5 DEF DeleteInst
    <3> QED
        BY <1>a, <2>1, <2>3, <3>1 DEF CounterExplained
  <2> QED
      BY <2>4, <2>5
<1>5. ASSUME NEW w \in Worker, Bump(w) PROVE CounterExplained'
  <2>1. op[w] \in {"post", "remove"}
      BY <1>a, <1>5 DEF Bump, Served, JobTypes, Op
  <2>2. /\ posts' = posts - IF op[w] = "post" THEN 1 ELSE 0
        /\ removes' = removes - IF op[w] = "remove" THEN 1 ELSE 0
      BY <1>a, <1>5, EndsJobs, PendingLeaves DEF Bump
  <2>3. held' = held /\ raced' = raced
      BY <1>5 DEF Bump
  <2>4. CASE op[w] = "post"
    <3>1. cni' = cni + 1 /\ drift' = drift
        BY <1>5, <2>4 DEF Bump, Bumped
    <3> QED
        BY <1>a, <2>2, <2>3, <2>4, <3>1 DEF CounterExplained
  <2>5. CASE op[w] = "remove" /\ cni = 0
    <3>1. cni' = 0 /\ drift' = drift + 1
        BY <1>5, <2>5 DEF Bump, Bumped
    <3> QED
        BY <1>a, <2>2, <2>3, <2>5, <3>1 DEF CounterExplained
  <2>6. CASE op[w] = "remove" /\ cni # 0
    <3>1. cni' = cni - 1 /\ drift' = drift
        BY <1>5, <2>6 DEF Bump, Bumped
    <3> QED
        BY <1>a, <2>2, <2>3, <2>6, <3>1 DEF CounterExplained
  <2> QED
      BY <2>1, <2>4, <2>5, <2>6
<1>6. ASSUME NEW n, NEW gone \in SUBSET insts, Trims(n, gone), cni' = cni, raced' = raced,
             \A v \in Worker : at'[v] = "bump" <=> at[v] = "bump",
             \A v \in Worker : at[v] = "bump" => op'[v] = op[v]
      PROVE  CounterExplained'
  <2>1. posts' = posts /\ removes' = removes
      BY <1>6, PendingStays
  <2>2. held' = held - Cardinality(gone) /\ Cardinality(gone) \in Nat
      BY <1>a, <1>6, TrimmedRows, FiniteRows DEF Trims
  <2> QED
      BY <1>a, <1>6, <2>1, <2>2 DEF Trims, CounterExplained
<1>7. ASSUME NEW w \in Worker, NEW gone \in SUBSET insts, Trim(w, gone) PROVE CounterExplained'
  <2>1. op' = op /\ at[w] # "bump" /\ at'[w] # "bump" /\ \A v \in Worker \ {w} : at'[v] = at[v]
      BY <1>a, <1>7, GoesJobs DEF Trim, AfterTrim
  <2> QED
      BY <1>6, <1>7, <2>1 DEF Trim
<1>8. ASSUME NEW i \in Inst, NEW gone \in SUBSET insts, ManTrims(i, gone) PROVE CounterExplained'
    BY <1>6, <1>8 DEF ManTrims, jobs
<1>9. ASSUME NEW w \in Worker, SetCounter(w) PROVE CounterExplained'
  <2>1. CASE w \in alone
    <3>1. (\A v \in Worker : at[v] # "bump") /\ cni' = held
        BY <1>a, <1>9, <2>1 DEF SetCounter, Settled, Served, JobTypes, Op
    <3>2. \A v \in Worker : at'[v] # "bump"
        BY <1>a, <1>9, <3>1, EndsJobs DEF SetCounter
    <3>3. Pending("post")' = {} /\ Pending("remove")' = {}
        BY <3>2 DEF Pending
    <3>4. posts' = 0 /\ removes' = 0 /\ held' = held /\ drift' = 0
        BY <1>9, <3>3, FS_EmptySet DEF SetCounter
    <3> QED
        BY <1>a, <3>1, <3>4 DEF CounterExplained
  <2>2. CASE w \notin alone
      BY <1>9, <2>2 DEF SetCounter, CounterExplained
  <2> QED
      BY <2>1, <2>2
<1>10. ASSUME NEW w \in Worker, Fails(w) PROVE CounterExplained'
  <2>0. cni' = cni /\ held' = held /\ raced' = raced
      BY <1>10 DEF Fails, rows
  <2>1. CASE at[w] = "trim"
    <3>1. op' = op /\ at'[w] = "write" /\ \A v \in Worker \ {w} : at'[v] = at[v]
        BY <1>a, <1>10, <2>1, GoesJobs DEF Fails
    <3> QED
        BY <1>b, <1>10, <2>0, <2>1, <3>1 DEF Fails, rows
  <2>2. CASE at[w] \notin {"trim", "bump"}
    <3>1. at'[w] = "none" /\ \A v \in Worker \ {w} : at'[v] = at[v] /\ op'[v] = op[v]
        BY <1>a, <1>10, <2>2, EndsJobs DEF Fails
    <3> QED
        BY <1>b, <1>10, <2>0, <2>2, <3>1 DEF Fails, rows
  <2>3. CASE at[w] = "bump"
    <3>1. op[w] \in {"post", "remove"}
        BY <1>a, <2>3 DEF Served, JobTypes, Op
    <3>2. /\ posts' = posts - IF op[w] = "post" THEN 1 ELSE 0
          /\ removes' = removes - IF op[w] = "remove" THEN 1 ELSE 0
        BY <1>a, <1>10, <2>3, EndsJobs, PendingLeaves DEF Fails
    <3>3. drift' = IF op[w] = "post" THEN drift - 1 ELSE drift + 1
        BY <1>10, <2>3, <3>1 DEF Fails
    <3> QED
        BY <1>a, <2>0, <3>1, <3>2, <3>3 DEF CounterExplained
  <2> QED
      BY <2>1, <2>2, <2>3
<1>11. ASSUME NEW i \in Inst, ManCounts(i) \/ ManFails(i) PROVE CounterExplained'
    BY <1>b, <1>11 DEF ManCounts, ManFails, rows, jobs, history
<1>12. CASE UNCHANGED vars
    BY <1>b, <1>12 DEF vars, rows, jobs, history
<1> QED
    BY <1>1, <1>2, <1>3, <1>4, <1>5, <1>7, <1>8, <1>9, <1>10, <1>11, <1>12 DEF Next, Serves, Man

\* The counter is the number of rows but for what can be told.
THEOREM CounterKept == Spec => []CounterExplained
<1>1. Spec => [](TypeInv /\ Fresh /\ Settled /\ CounterExplained)
    BY InitType, StepType, InitCounter, StepFresh, StepSettled, StepCounter, PTL DEF Spec
<1> QED
    BY <1>1, PTL
===============================================================================
