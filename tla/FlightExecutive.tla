--------------------------- MODULE FlightExecutive ---------------------------
(***************************************************************************)
(* What the flight service promises, without threads, locks or flags: a    *)
(* command is accepted, then flown, and only then can the next one be      *)
(* accepted.  A patrol is the one flight that may turn into another.       *)
(***************************************************************************)
Jobs == {"TEST", "PATROL", "GO_LOC", "RTL"}

VARIABLES
    phase,  \* "idle", "accepted", "flying" or "dead"
    job     \* the flight under way, "none" when there is none

vars == <<phase, job>>

Init == phase = "idle" /\ job = "none"

Accept ==
    /\ phase = "idle"
    /\ phase' = "accepted"
    /\ job' = job

Start(j) ==
    /\ phase = "accepted"
    /\ phase' = "flying"
    /\ job' = j

\* "Error on Command!": the accepted command is dropped
Reject ==
    /\ phase = "accepted"
    /\ phase' = "idle"
    /\ job' = job

Divert ==
    /\ phase = "flying" /\ job = "PATROL"
    /\ job' \in {"GO_LOC", "RTL"}
    /\ phase' = phase

Finish ==
    /\ phase = "flying"
    /\ phase' = "idle"
    /\ job' = "none"

Exit ==
    /\ phase # "dead"
    /\ phase' = "dead"
    /\ job' = "none"

Next == Accept \/ (\E j \in Jobs : Start(j)) \/ Reject \/ Divert \/ Finish \/ Exit

Spec == Init /\ [][Next]_vars
=============================================================================
