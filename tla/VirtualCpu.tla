----------------------------- MODULE VirtualCpu -----------------------------
(***************************************************************************)
(* What the kernel promises its tasks: a processor of their own.  A task   *)
(* has a position in its program, a register file and an interrupt flag,   *)
(* and nothing but its own instructions changes them, however often it is  *)
(* switched out and in.  One task may be lost when the processor is handed *)
(* over for the first time; it never executes anything.                    *)
(***************************************************************************)
CONSTANTS Tasks,     \* task control blocks
          Values,    \* contents of a register file
          Entry,     \* the position of a task's entry point
          Lost,      \* the view of a task that is lost
          NULL

VARIABLES view,      \* view[t]: t's own processor, NULL before create_task, or Lost
          running    \* the task whose instructions execute, or NULL

vars == <<view, running>>

Views == [pos : Values \cup {Entry}, regs : Values, irq : BOOLEAN]

Init == view = [t \in Tasks |-> NULL] /\ running = NULL

Fresh(v) == [pos |-> Entry, regs |-> v, irq |-> TRUE]
WithIrq(w) == [pos |-> w.pos, regs |-> w.regs, irq |-> TRUE]

\* create_task: the task will start at its entry point, interrupts enabled.
Create(t) ==
  /\ view[t] = NULL
  /\ \E v \in Values : view' = [view EXCEPT ![t] = Fresh(v)]
  /\ UNCHANGED running

\* The variadic create_task enables interrupts for its caller, too.
CreateVariadic(t) ==
  /\ running # NULL
  /\ view[t] = NULL
  /\ \E v \in Values :
       view' = [view EXCEPT ![t] = Fresh(v), ![running] = WithIrq(@)]
  /\ UNCHANGED running

\* An instruction of the running task.
Step ==
  /\ running # NULL
  /\ \E w \in Views : view' = [view EXCEPT ![running] = w]
  /\ UNCHANGED running

\* A time slice ends; never in code that disabled interrupts.
Preempt ==
  /\ running # NULL
  /\ view[running].irq
  /\ running' = NULL
  /\ UNCHANGED view

\* yield(): interrupts are enabled when it returns.
Yield ==
  /\ running # NULL
  /\ view' = [view EXCEPT ![running] = WithIrq(@)]
  /\ running' = NULL

Dispatch(t) ==
  /\ running = NULL
  /\ view[t] \notin {NULL, Lost}
  /\ running' = t
  /\ UNCHANGED view

\* kernel_start: the first switch takes main for a task that is yet to start.
Lose(t) ==
  /\ running = NULL
  /\ view[t] \in Views /\ view[t].pos = Entry
  /\ \A u \in Tasks : view[u] # Lost
  /\ view' = [view EXCEPT ![t] = Lost]
  /\ UNCHANGED running

Next ==
  \/ \E t \in Tasks : Create(t) \/ CreateVariadic(t) \/ Dispatch(t) \/ Lose(t)
  \/ Step \/ Preempt \/ Yield

Spec == Init /\ [][Next]_vars
=============================================================================
