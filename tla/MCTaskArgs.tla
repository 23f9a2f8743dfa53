----------------------------- MODULE MCTaskArgs -----------------------------
(***************************************************************************)
(* TaskArgs for every list of up to five arguments of the usual sizes.     *)
(***************************************************************************)
EXTENDS TaskArgs
=============================================================================
