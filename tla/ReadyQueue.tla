----------------------------- MODULE ReadyQueue -----------------------------
(***************************************************************************)
(* What the ready list of task.cpp stands for: the tasks take turns in the *)
(* order in which they were created.                                       *)
(***************************************************************************)
EXTENDS Naturals, Sequences, SequencesExt

CONSTANTS Tasks, NULL

VARIABLES order,     \* the ready tasks, oldest first
          current    \* the task that has the processor

vars == <<order, current>>

Init == order = <<>> /\ current = NULL

\* create_task: the newcomer goes last.
Enter(t) ==
  /\ t \notin ToSet(order)
  /\ order' = Append(order, t)
  /\ current' = IF current = NULL THEN t ELSE current

\* remove_task: the others keep their order; a task that removed itself keeps
\* the processor until its slice ends.
Leave(t) ==
  /\ \E i \in 1..Len(order) : order[i] = t /\ order' = RemoveAt(order, i)
  /\ UNCHANGED current

\* The end of a slice: the next in turn, or, after a task that has removed
\* itself, any task that is ready.
Dispatch ==
  /\ order # <<>>
  /\ \/ \E i \in 1..Len(order) :
          order[i] = current /\ current' = order[(i % Len(order)) + 1]
     \/ current \notin ToSet(order) /\ current' \in ToSet(order)
  /\ UNCHANGED order

Next == Dispatch \/ \E t \in Tasks : Enter(t) \/ Leave(t)

Spec == Init /\ [][Next]_vars
=============================================================================
