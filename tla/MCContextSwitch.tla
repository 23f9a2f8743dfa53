-------------------------- MODULE MCContextSwitch --------------------------
(***************************************************************************)
(* Two or three tasks created at boot or by one another, and registers     *)
(* that can tell two contents apart.                                       *)
(***************************************************************************)
EXTENDS ContextSwitch, TLC

CONSTANTS t1, t2, t3, v1, v2

MCTasks == {t1, t2, t3}
MCTwo == {t1, t2}
MCValues == {v1, v2}

MCSymmetry == Permutations(MCTasks) \cup Permutations(MCValues)
=============================================================================
