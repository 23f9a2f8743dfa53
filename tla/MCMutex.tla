------------------------------ MODULE MCMutex ------------------------------
(***************************************************************************)
(* Three tasks in a ring, as create_task leaves them on the ready list.    *)
(***************************************************************************)
EXTENDS Mutex, TLC

CONSTANTS t1, t2, t3

MCTasks == {t1, t2, t3}
MCSucc == (t1 :> t2) @@ (t2 :> t3) @@ (t3 :> t1)
=============================================================================
