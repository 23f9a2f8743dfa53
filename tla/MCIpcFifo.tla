----------------------------- MODULE MCIpcFifo -----------------------------
(***************************************************************************)
(* IpcFifo with three tasks in every combination of roles.                 *)
(***************************************************************************)
EXTENDS IpcFifo, TLC

Perms == Permutations(Tasks) \cup Permutations(Items)
=============================================================================
