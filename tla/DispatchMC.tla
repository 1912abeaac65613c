------------------------------ MODULE DispatchMC ------------------------------
(***************************************************************************)
(* Small instances of Dispatch.  Callers and drones are interchangeable.   *)
(***************************************************************************)
EXTENDS Dispatch, TLC

CONSTANTS u1, u2, u3, u4, d1, d2, d3

Symmetry == Permutations(User) \cup Permutations(Drone)
=============================================================================
