----------------------------- MODULE MCTaskList -----------------------------
(***************************************************************************)
(* Four tasks: a head, a tail and two between them.                        *)
(***************************************************************************)
EXTENDS TaskList

CONSTANTS t1, t2, t3, t4

MCTasks == {t1, t2, t3, t4}
MCThree == {t1, t2, t3}
=============================================================================
