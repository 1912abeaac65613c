---------------------------- MODULE CommandChannel ----------------------------
(***************************************************************************)
(* What Thyme and TAS promise about the drone's commands, without lines,   *)
(* sockets and reconnections: the flight service gets them in their order, *)
(* and none twice that was issued while one listener passed them on.  They *)
(* are lost all together, when a connection ends, or one by one, the       *)
(* earliest first, when TAS or the service fails to take them.             *)
(***************************************************************************)
EXTENDS Naturals, Sequences

CONSTANT MaxCommands \* bound: commands in a behaviour

VARIABLES
    issued,   \* commands so far
    pending,  \* those on their way
    repeated, \* those of them that are on their way more than once
    doubled,  \* whether several listeners pass commands on
    served,   \* those the flight service got
    sink      \* the way to it: "absent" at first, "open", or "gone" for good

vars == <<issued, pending, repeated, doubled, served, sink>>

Init ==
    /\ issued = 0 /\ pending = {} /\ repeated = {} /\ doubled = FALSE
    /\ served = << >> /\ sink = "absent"

Open ==
    /\ sink = "absent" /\ sink' = "open"
    /\ UNCHANGED <<issued, pending, repeated, doubled, served>>

\* What is on its way may be lost with TAS.
Close ==
    /\ sink # "gone" /\ sink' = "gone"
    /\ UNCHANGED <<pending, repeated>> \/ (pending' = {} /\ repeated' = {})
    /\ UNCHANGED <<issued, doubled, served>>

\* Listeners come with each registration and go with a restart.
Listen ==
    /\ doubled' = ~doubled
    /\ UNCHANGED <<issued, pending, repeated, served, sink>>

\* A command without a connection is not even sent.
Issue ==
    /\ issued < MaxCommands
    /\ issued' = issued + 1
    /\ \/ UNCHANGED <<pending, repeated>>
       \/ /\ pending' = pending \cup {issued + 1}
          /\ repeated' = IF doubled THEN repeated \cup {issued + 1} ELSE repeated
    /\ UNCHANGED <<doubled, served, sink>>

Earliest(c) == c \in pending /\ \A d \in pending : c <= d

\* One copy less.
Taken(c) ==
    \/ c \in repeated /\ repeated' \in {repeated, repeated \ {c}} /\ UNCHANGED pending
    \/ c \notin repeated /\ pending' = pending \ {c} /\ UNCHANGED repeated

Serve(c) ==
    /\ Earliest(c) /\ sink = "open"
    /\ Taken(c)
    /\ served' = Append(served, c)
    /\ UNCHANGED <<issued, doubled, sink>>

\* Nobody gets it: the way is closed, or a read has split its mark.
Drop(c) ==
    /\ Earliest(c)
    /\ Taken(c)
    /\ UNCHANGED <<issued, doubled, served, sink>>

Lose ==
    /\ pending' = {} /\ repeated' = {}
    /\ UNCHANGED <<issued, doubled, served, sink>>

Next == Open \/ Close \/ Listen \/ Issue \/ (\E c \in pending : Serve(c) \/ Drop(c)) \/ Lose

Spec == Init /\ [][Next]_vars
=============================================================================
