----------------------------- MODULE MCExecTime -----------------------------
(***************************************************************************)
(* ExecTime with a counter of a few values, so that TCNT0, get_us and the  *)
(* execution time all wrap several times in a behaviour.                   *)
(***************************************************************************)
EXTENDS ExecTime, TLC

Perms == Permutations(Tasks)
=============================================================================
