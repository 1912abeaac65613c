----------------------------- MODULE ContainerRow -----------------------------
(***************************************************************************)
(* One container of Mobius in the database: its rows, and the requests of  *)
(* several workers that read, change and write them                        *)
(* (src/Backend/mobius/resource.js, sql_action.js, src/Backend/cnt_man.js).*)
(*                                                                         *)
(* A subscription is a row of its own and an entry of subl, a list in the  *)
(* row of the container; notifications go by the list.  The list is read,  *)
(* changed in memory and written back as a whole.  An instance is a row,   *)
(* and cni, in the row of the container, counts them by atomic updates.    *)
(* cnt_man, told of every new instance, removes instances beyond the limit *)
(* mni that the POST has read and leaves cni alone; only an update of the  *)
(* container sets cni, and mni, again.                                     *)
(*                                                                         *)
(* A statement of SQL is one step and requests interleave between          *)
(* statements.  The rows a resource has in two tables are one row here.    *)
(* Of the list only the number of entries per subscription is kept, of the *)
(* sizes (cbs, mbs) and the state tag nothing: instances have one size,    *)
(* and st is lost as the list is.  The container itself stays.             *)
(***************************************************************************)
EXTENDS Integers, FiniteSetsExt

CONSTANTS
    Worker,     \* requests that are served at one time
    Sub,        \* names of subscriptions
    Inst,       \* instances: each is posted once, under a name of its own
    None,       \* no resource
    Limit,      \* the values of mni (with 0 every post is refused)
    MaxTrim,    \* how many instances a statement removes at most (5000)
    MaxEntries, \* bound: entries of one subscription in the list
    MaxAsked,   \* bound: requests in all
    MaxFaults   \* bound: statements that fail

ASSUME ContainerAssumption ==
    /\ IsFiniteSet(Worker) /\ IsFiniteSet(Inst)
    /\ None \notin Sub \cup Inst /\ Sub \cap Inst = {}
    /\ Limit \subseteq Nat \ {0} /\ MaxTrim \in Nat \ {0} /\ MaxEntries \in Nat \ {0}
    /\ MaxAsked \in Nat /\ MaxFaults \in Nat

VARIABLES
    subs,     \* rows of subscriptions
    subl,     \* how often the list of the container names each of them
    insts,    \* rows of instances
    cni,      \* the counter of the container
    mni,      \* the most instances it is to hold
    posted,   \* instances that have been posted
    op,       \* what worker w has been asked for
    at,       \* the statement w comes to next
    on,       \* the resource it is about
    copy,     \* the list as w has read it
    limit,    \* the mni w works with: the one it has read, or that of its PUT
    seen,     \* the number of instances w has counted
    man,      \* the statement cnt_man comes to next on account of instance i
    told,     \* the mni it works with there
    counted,  \* the number of instances it has counted there
    asked,    \* requests that have come
    faults,   \* statements that have failed
    answered, \* subscriptions whose creation was answered, until a DELETE of
              \* them is received: a history variable
    spoiled,  \* subscriptions whose entry an overlapping request or a failed
              \* statement has spoiled: a history variable
    drift,    \* how far cni is expected above the number of rows: a history variable
    alone,    \* updates of the container that nothing has overlapped since they
              \* counted: a history variable
    raced,    \* the last update of the container was overlapped: a history variable
    most      \* the limit in force: the one that the POST of the newest instance
              \* had read, or that of a later update of the container that nothing
              \* has overlapped: a history variable

rows == <<subs, subl, insts, cni, mni, posted>>
jobs == <<op, at, on, copy, limit, seen, asked>>
trims == <<man, told, counted>>
history == <<answered, spoiled, drift, alone, raced, most>>
vars == <<rows, jobs, trims, faults, history>>

Op == {"none", "subscribe", "unsubscribe", "amend", "post", "remove", "update"}
At == {"none", "insert", "delete", "reread", "write", "bump", "count", "trim", "set"}

Unread == [s \in Sub |-> 0]

Init ==
    /\ subs = {} /\ subl = Unread /\ insts = {} /\ cni = 0 /\ mni \in Limit /\ posted = {}
    /\ op = [w \in Worker |-> "none"] /\ at = [w \in Worker |-> "none"]
    /\ on = [w \in Worker |-> None] /\ copy = [w \in Worker |-> Unread]
    /\ limit = [w \in Worker |-> 0] /\ seen = [w \in Worker |-> 0]
    /\ man = [i \in Inst |-> "none"] /\ told = [i \in Inst |-> 0] /\ counted = [i \in Inst |-> 0]
    /\ asked = 0 /\ faults = 0
    /\ answered = {} /\ spoiled = {} /\ drift = 0 /\ alone = {} /\ raced = FALSE /\ most = 0

-----------------------------------------------------------------------------
(* Requests come, go on and end.                                           *)

\* A request whose target is x has come; read is the list it has read with it,
\* and n the limit.
Begins(w, o, x, first, read, n) ==
    /\ op[w] = "none"
    /\ asked < MaxAsked /\ asked' = asked + 1
    /\ op' = [op EXCEPT ![w] = o] /\ at' = [at EXCEPT ![w] = first]
    /\ on' = [on EXCEPT ![w] = x] /\ copy' = [copy EXCEPT ![w] = read]
    /\ limit' = [limit EXCEPT ![w] = n] /\ UNCHANGED seen

Goes(w, next) == at' = [at EXCEPT ![w] = next] /\ UNCHANGED <<op, on, copy, limit, seen, asked>>

Ends(w) ==
    /\ op' = [op EXCEPT ![w] = "none"] /\ at' = [at EXCEPT ![w] = "none"]
    /\ on' = [on EXCEPT ![w] = None] /\ copy' = [copy EXCEPT ![w] = Unread]
    /\ limit' = [limit EXCEPT ![w] = 0] /\ seen' = [seen EXCEPT ![w] = 0] /\ UNCHANGED asked

\* Requests about one subscription that overlap may undo each other.
Crossed(s) == IF \E w \in Worker : on[w] = s THEN {s} ELSE {}

-----------------------------------------------------------------------------
(* Subscriptions.                                                          *)

\* POST of a subscription: the container, its list with it, is read first.
Subscribe(w, s) ==
    /\ subl[s] < MaxEntries
    /\ Begins(w, "subscribe", s, "insert", subl, 0)
    /\ spoiled' = spoiled \cup Crossed(s)
    /\ UNCHANGED <<rows, trims, faults, answered, drift, alone, raced, most>>

\* Refused if the row is there.
InsertSub(w) ==
    /\ op[w] = "subscribe" /\ at[w] = "insert"
    /\ IF on[w] \in subs THEN Ends(w) /\ UNCHANGED subs
       ELSE Goes(w, "write") /\ subs' = subs \cup {on[w]}
    /\ UNCHANGED <<subl, insts, cni, mni, posted, trims, faults, history>>

\* DELETE of a subscription that is there (if not: 404).
Unsubscribe(w, s) ==
    /\ s \in subs
    /\ Begins(w, "unsubscribe", s, "delete", Unread, 0)
    /\ answered' = answered \ {s}
    /\ spoiled' = spoiled \cup Crossed(s)
    /\ UNCHANGED <<rows, trims, faults, drift, alone, raced, most>>

DeleteSub(w) ==
    /\ op[w] = "unsubscribe" /\ at[w] = "delete"
    /\ subs' = subs \ {on[w]}
    /\ Goes(w, "reread")
    /\ UNCHANGED <<subl, insts, cni, mni, posted, trims, faults, history>>

\* PUT of a subscription: its own row gets other attributes, which are not
\* modelled; what follows is the same as after a DELETE.
Amend(w, s) ==
    /\ s \in subs
    /\ Begins(w, "amend", s, "reread", Unread, 0)
    /\ UNCHANGED <<rows, trims, faults, history>>

Reread(w) ==
    /\ at[w] = "reread" /\ op[w] \in {"unsubscribe", "amend"}
    /\ copy' = [copy EXCEPT ![w] = subl] /\ at' = [at EXCEPT ![w] = "write"]
    /\ UNCHANGED <<rows, op, on, limit, seen, asked, trims, faults, history>>

\* Slip: the entry that is spliced out is not looked for.
AppliedAnyhow(o, s, list) ==
    CASE o = "subscribe" -> [list EXCEPT ![s] = @ + 1]
      [] o = "unsubscribe" /\ (\E x \in Sub : list[x] > 0) ->
            [list EXCEPT ![CHOOSE x \in Sub : list[x] > 0] = @ - 1]
      [] OTHER -> list

\* Slip: the entry is not spliced out.
AppliedKeeping(o, s, list) == IF o = "subscribe" THEN [list EXCEPT ![s] = @ + 1] ELSE list

\* The list after a request: a new entry is appended even if there is one, the
\* first entry is spliced out, or one is replaced by itself.
Applied(o, s, list) ==
    CASE o = "subscribe" -> [list EXCEPT ![s] = @ + 1]
      [] o = "unsubscribe" /\ list[s] > 0 -> [list EXCEPT ![s] = @ - 1]
      [] OTHER -> list

\* The subscriptions whose entries differ from those the request would have
\* left, had it worked on the list as it is now.
Undone(w) ==
    LET written == Applied(op[w], on[w], copy[w])
        due == Applied(op[w], on[w], subl)
    IN {s \in Sub : written[s] # due[s]}

\* update_lookup writes the whole list; a request about a subscription has then
\* been served, an update of the container goes on with the other table.
WriteBack(w) ==
    /\ at[w] = "write"
    /\ subl' = Applied(op[w], on[w], copy[w])
    /\ spoiled' = spoiled \cup Undone(w)
    /\ answered' = IF op[w] = "subscribe" THEN answered \cup {on[w]} ELSE answered
    /\ IF op[w] = "update" THEN Goes(w, "set") ELSE Ends(w)
    /\ UNCHANGED <<subs, insts, cni, mni, posted, trims, faults, drift, alone, raced, most>>

-----------------------------------------------------------------------------
(* Instances.                                                              *)

\* POST of an instance.
Post(w, i) ==
    /\ i \notin posted /\ posted' = posted \cup {i}
    /\ Begins(w, "post", i, "insert", Unread, mni)
    /\ UNCHANGED <<subs, subl, insts, cni, mni, trims, faults, history>>

\* Slip: cnt_man is not told.
InsertInstUntold(w) ==
    /\ op[w] = "post" /\ at[w] = "insert"
    /\ insts' = insts \cup {on[w]}
    /\ Goes(w, "bump")
    /\ alone' = {} /\ most' = limit[w]
    /\ UNCHANGED <<subs, subl, cni, mni, posted, trims, faults, answered, spoiled, drift, raced>>

\* cnt_man is told of the new row and of the container as the POST has read it,
\* the counter follows by itself.
InsertInst(w) ==
    /\ op[w] = "post" /\ at[w] = "insert"
    /\ insts' = insts \cup {on[w]}
    /\ man' = [man EXCEPT ![on[w]] = "count"] /\ told' = [told EXCEPT ![on[w]] = limit[w]]
    /\ Goes(w, "bump")
    /\ alone' = {} /\ most' = limit[w]
    /\ UNCHANGED <<subs, subl, cni, mni, posted, counted, faults, answered, spoiled, drift, raced>>

\* DELETE of an instance that is there.
Remove(w, i) ==
    /\ i \in insts
    /\ Begins(w, "remove", i, "delete", Unread, 0)
    /\ UNCHANGED <<rows, trims, faults, history>>

\* The row may have gone since; the request goes on as if it had not.
DeleteInst(w) ==
    /\ op[w] = "remove" /\ at[w] = "delete"
    /\ insts' = insts \ {on[w]}
    /\ Goes(w, "bump")
    /\ drift' = IF on[w] \in insts THEN drift ELSE drift - 1
    /\ alone' = {}
    /\ UNCHANGED <<subs, subl, cni, mni, posted, trims, faults, answered, spoiled, raced, most>>

\* Slip: the counter has a sign.
BumpedBelow(o, n) == IF o = "post" THEN n + 1 ELSE n - 1

\* Slip: update_cnt_by_delete, whose statement has no number in it and is
\* refused, takes its 1 as well.
BumpedTwice(o, n) == IF o = "post" THEN n + 1 ELSE IF n < 2 THEN 0 ELSE n - 2

\* The counter is unsigned: the database refuses to take 1 from 0.
Bumped(o, n) == IF o = "post" THEN n + 1 ELSE IF n = 0 THEN 0 ELSE n - 1

\* update_parent_by_insert, update_parent_by_delete.
Bump(w) ==
    /\ at[w] = "bump"
    /\ cni' = Bumped(op[w], cni)
    /\ drift' = IF op[w] = "remove" /\ cni = 0 THEN drift + 1 ELSE drift
    /\ Ends(w)
    /\ alone' = {}
    /\ UNCHANGED <<subs, subl, insts, mni, posted, trims, faults, answered, spoiled, raced, most>>

-----------------------------------------------------------------------------
(* get_cni_count: the rows are counted, and while there are more than the  *)
(* limit, as many as were counted too many are deleted, or MaxTrim.        *)
(* DELETE ... LIMIT names no order.                                        *)

\* Slip: one instance too few is removed.
TooManyLessOne(n, m) == IF n <= m + 1 THEN 0 ELSE n - m - 1

TooMany(n, m) == IF n <= m THEN 0 ELSE IF n - m > MaxTrim THEN MaxTrim ELSE n - m

\* Rows go; a worker or cnt_man has found `excess` too many.
Trims(excess, gone) ==
    /\ gone \in SUBSET insts
    /\ Cardinality(gone) = IF excess < Cardinality(insts) THEN excess ELSE Cardinality(insts)
    /\ insts' = insts \ gone
    /\ drift' = drift + Cardinality(gone)
    /\ alone' = {}

\* What comes after: another count if that many were there, else last.
AfterTrim(excess, gone, last) == IF Cardinality(gone) = excess THEN "count" ELSE last

\* PUT of the container: the row with its list is read, mni becomes n in
\* memory (or stays), the rows are counted.
Update(w, n) ==
    /\ n \in Limit
    /\ Begins(w, "update", None, "count", subl, n)
    /\ UNCHANGED <<rows, trims, faults, history>>

Count(w) ==
    /\ at[w] = "count"
    /\ seen' = [seen EXCEPT ![w] = Cardinality(insts)]
    /\ at' = [at EXCEPT ![w] = IF TooMany(Cardinality(insts), limit[w]) > 0 THEN "trim" ELSE "write"]
    /\ alone' = IF \E v \in Worker : at[v] = "bump" THEN alone ELSE alone \cup {w}
    /\ UNCHANGED <<rows, op, on, copy, limit, asked, trims, faults, answered, spoiled, drift, raced, most>>

Trim(w, gone) ==
    LET excess == TooMany(seen[w], limit[w]) IN
    /\ at[w] = "trim"
    /\ Trims(excess, gone)
    /\ Goes(w, AfterTrim(excess, gone, "write"))
    /\ UNCHANGED <<subs, subl, cni, mni, posted, trims, faults, answered, spoiled, raced, most>>

\* update_cnt, second statement.
SetCounter(w) ==
    /\ at[w] = "set"
    /\ cni' = seen[w] /\ mni' = limit[w]
    /\ Ends(w)
    /\ drift' = 0 /\ raced' = (w \notin alone) /\ alone' = {}
    /\ most' = IF w \in alone THEN limit[w] ELSE most
    /\ UNCHANGED <<subs, subl, insts, posted, trims, faults, answered, spoiled>>

\* cnt_man: PUT /cnt, on account of instance i.
ManCounts(i) ==
    /\ man[i] = "count"
    /\ counted' = [counted EXCEPT ![i] = Cardinality(insts)]
    /\ man' = [man EXCEPT ![i] = IF TooMany(Cardinality(insts), told[i]) > 0 THEN "trim" ELSE "none"]
    /\ UNCHANGED <<rows, jobs, told, faults, history>>

ManTrims(i, gone) ==
    LET excess == TooMany(counted[i], told[i]) IN
    /\ man[i] = "trim"
    /\ Trims(excess, gone)
    /\ man' = [man EXCEPT ![i] = AfterTrim(excess, gone, "none")]
    /\ UNCHANGED <<subs, subl, cni, mni, posted, jobs, told, counted, faults, answered, spoiled, raced, most>>

-----------------------------------------------------------------------------
(* Statements fail.                                                        *)

\* The request ends there, answered or not; an update of the container that
\* could not trim goes on with what it has counted.
Fails(w) ==
    /\ at[w] # "none" /\ faults < MaxFaults /\ faults' = faults + 1
    /\ IF at[w] = "trim" THEN Goes(w, "write") ELSE Ends(w)
    /\ spoiled' = IF op[w] \in {"subscribe", "unsubscribe"} /\ at[w] \in {"reread", "write"}
                  THEN spoiled \cup {on[w]} ELSE spoiled
    /\ drift' = CASE at[w] = "bump" /\ op[w] = "post" -> drift - 1
                  [] at[w] = "bump" /\ op[w] = "remove" -> drift + 1
                  [] OTHER -> drift
    /\ UNCHANGED <<rows, trims, answered, alone, raced, most>>

ManFails(i) ==
    /\ man[i] # "none" /\ faults < MaxFaults /\ faults' = faults + 1
    /\ man' = [man EXCEPT ![i] = "none"]
    /\ UNCHANGED <<rows, jobs, told, counted, history>>

-----------------------------------------------------------------------------
Man(i) == ManCounts(i) \/ \E gone \in SUBSET insts : ManTrims(i, gone)

Asked(w) ==
    \/ \E s \in Sub : Subscribe(w, s) \/ Unsubscribe(w, s) \/ Amend(w, s)
    \/ \E i \in Inst : Post(w, i) \/ Remove(w, i)
    \/ \E n \in Limit : Update(w, n)

Serves(w) ==
    \/ InsertSub(w) \/ DeleteSub(w) \/ Reread(w) \/ WriteBack(w)
    \/ InsertInst(w) \/ DeleteInst(w) \/ Bump(w)
    \/ Count(w) \/ SetCounter(w) \/ \E gone \in SUBSET insts : Trim(w, gone)

Next ==
    \/ \E w \in Worker : Asked(w) \/ Serves(w) \/ Fails(w)
    \/ \E i \in Inst : Man(i) \/ ManFails(i)

Spec == Init /\ [][Next]_vars

\* The database answers cnt_man.
FairSpec == Spec /\ \A i \in Inst : WF_vars(Man(i))

-----------------------------------------------------------------------------
(* What must hold.                                                         *)

\* Every variable has its type.
TypeOK ==
    /\ subs \subseteq Sub /\ insts \subseteq posted /\ posted \subseteq Inst
    /\ subl \in [Sub -> Nat] /\ cni \in Nat /\ mni \in Limit
    /\ op \in [Worker -> Op] /\ at \in [Worker -> At]
    /\ on \in [Worker -> Sub \cup Inst \cup {None}]
    /\ copy \in [Worker -> [Sub -> Nat]] /\ limit \in [Worker -> Limit \cup {0}] /\ seen \in [Worker -> Nat]
    /\ man \in [Inst -> {"none", "count", "trim"}]
    /\ told \in [Inst -> Limit \cup {0}] /\ counted \in [Inst -> Nat]
    /\ asked \in 0..MaxAsked /\ faults \in 0..MaxFaults
    /\ answered \subseteq Sub /\ spoiled \subseteq Sub /\ drift \in Int
    /\ alone \subseteq Worker /\ raced \in BOOLEAN /\ most \in Limit \cup {0}

\* From the answer to its creation to a DELETE of it, a subscription is in the
\* list that notifications go by, whatever is posted, removed, subscribed or
\* updated meanwhile, unless an overlapping write of the list has undone it.
AnsweredIsListed == \A s \in answered \ spoiled : s \in subs /\ subl[s] > 0

\* When no request about it is being served, a subscription that was not spoiled
\* is in the list once if it has a row and not at all if it has none.
ListIsExact ==
    \A s \in Sub \ spoiled :
        (\A w \in Worker : on[w] # s) => subl[s] = IF s \in subs THEN 1 ELSE 0

Pending(o) == {w \in Worker : op[w] = o /\ at[w] = "bump"}

\* The counter is the number of rows, but for updates under way, instances that
\* were trimmed, rows two requests have removed and statements that failed;
\* an update of the container that nothing overlaps makes it right again.
CounterExplained ==
    ~raced => cni + Cardinality(Pending("post")) - Cardinality(Pending("remove"))
              = Cardinality(insts) + drift

\* When cnt_man is idle and no statement has failed, the container holds no more
\* instances than the limit in force, whatever overlaps.  That is not the present
\* mni if a PUT changed it between the read of the newest instance's POST and the
\* insertion, or if something overlapped the PUT.
WithinLimit ==
    faults = 0 /\ (\A i \in Inst : man[i] = "none") => Cardinality(insts) <= most

\* Instances beyond the limit in force are removed in the end.
LimitRestored == Cardinality(insts) > most ~> Cardinality(insts) <= most \/ faults > 0
=============================================================================
