----------------------------- MODULE MCJobTasks -----------------------------
(* JobTasks with two credentials: one makes the calls and polls, the other *)
(* only polls.                                                             *)
EXTENDS JobTasks, TLC

CONSTANTS k1, k2, own, other

MCCredOf == [x \in Calls \cup Pollers |-> IF x = other THEN k2 ELSE k1]
MCSymmetry == Permutations(Declaring)
=============================================================================
