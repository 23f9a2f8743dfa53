------------------------------ MODULE TaskList ------------------------------
(***************************************************************************)
(* The ready list of task.cpp: a singly linked list through next_node that *)
(* create_task changes with interrupts disabled and remove_task with       *)
(* interrupts enabled.  Every access of remove_task to a shared pointer is *)
(* a step of its own; the TIMER0_COMPB interrupt may come in between and   *)
(* make another task current.                                              *)
(*                                                                         *)
(* Pointers are read and written whole here; the two bytes the AVR moves   *)
(* one at a time are not told apart.                                       *)
(***************************************************************************)
EXTENDS Naturals, Sequences, FiniteSets, SequencesExt

CONSTANTS
  Tasks,     \* task_data_t objects
  NULL,      \* nullptr
  Allowed    \* what the tasks may do beyond the discipline described below

(***************************************************************************)
(* The code asks nothing of the callers of remove_task.  What they have to *)
(* respect for the list to stay intact is spelled out as a discipline that *)
(* a run may waive, point by point:                                        *)
(*   "concurrent"  a task calls remove_task while another is inside it;    *)
(*   "create"      a task calls create_task while another is inside it;    *)
(*   "unlisted"    the task to remove is not on the list;                  *)
(*   "last"        the task to remove is the only one on the list;         *)
(*   "after"       a task that has removed itself goes on removing others; *)
(*   "listed"      create_task is given a task that is in use.             *)
(***************************************************************************)
Waivers == {"concurrent", "create", "unlisted", "last", "after", "listed"}

ASSUME ListAssumption ==
  IsFiniteSet(Tasks) /\ NULL \notin Tasks /\ Allowed \subseteq Waivers

VARIABLES
  ready_list_head, next_node,  \* the list
  state,      \* state[t]: the state member of t
  c_task,     \* the current task
  started,    \* start_scheduler has been called
  at,         \* at[t]: the statement of remove_task t executes next
  victim, seek, next_task,     \* the locals of each task's call
  wanted,     \* tasks accepted by create_task whose removal nobody asked for
  wild        \* a member of *nullptr has been written

vars == <<ready_list_head, next_node, state, c_task, started, at,
          victim, seek, next_task, wanted, wild>>

list == <<ready_list_head, next_node>>
locals == <<victim, seek, next_task>>
ghosts == <<wanted, wild>>

Pointers == Tasks \cup {NULL}
States == {"READY", "UNDEFINED"}
Points == {"user", "test", "head_next", "head_store", "seek", "walk", "advance",
           "next", "link", "clear", "state"}

TypeOK ==
  /\ ready_list_head \in Pointers
  /\ next_node \in [Tasks -> Pointers]
  /\ state \in [Tasks -> States]
  /\ c_task \in Pointers
  /\ started \in BOOLEAN
  /\ at \in [Tasks -> Points]
  /\ victim \in [Tasks -> Pointers]
  /\ seek \in [Tasks -> Pointers]
  /\ next_task \in [Tasks -> Pointers]
  /\ wanted \subseteq Tasks
  /\ wild \in BOOLEAN

Init ==
  /\ ready_list_head = NULL
  /\ next_node = [t \in Tasks |-> NULL]
  /\ state = [t \in Tasks |-> "UNDEFINED"]
  /\ c_task = NULL
  /\ started = FALSE
  /\ at = [t \in Tasks |-> "user"]
  /\ victim = [t \in Tasks |-> NULL]
  /\ seek = [t \in Tasks |-> NULL]
  /\ next_task = [t \in Tasks |-> NULL]
  /\ wanted = {}
  /\ wild = FALSE

(***************************************************************************)
(* Following next_node from the head.                                      *)
(***************************************************************************)
\* The nodes by their distance from the head.
Nodes ==
  LET node[i \in Nat] ==
        IF i = 0 THEN ready_list_head
        ELSE IF node[i - 1] = NULL THEN NULL ELSE next_node[node[i - 1]]
  IN  node

Node(n) == Nodes[n]

\* The list as a sequence, cut off where it cannot be that long without a cycle.
Order ==
  [i \in {k \in 1..Cardinality(Tasks) : Node(k - 1) # NULL} |-> Node(i - 1)]

Listed == ToSet(Order)

Inside == {t \in Tasks : at[t] # "user"}

(***************************************************************************)
(* The scheduler.                                                          *)
(***************************************************************************)
start_scheduler ==
  /\ ~started /\ c_task # NULL
  /\ started' = TRUE
  /\ UNCHANGED <<list, state, c_task, at, locals, ghosts>>

\* Mutant: the list is not started over behind its last node.
schedule_no_wrap ==
  /\ started /\ c_task # NULL
  /\ c_task' = next_node[c_task]
  /\ UNCHANGED <<list, state, started, at, locals, ghosts>>

\* Mutant: every slice starts over at the head.
schedule_head ==
  /\ started /\ c_task # NULL
  /\ c_task' = ready_list_head
  /\ UNCHANGED <<list, state, started, at, locals, ghosts>>

\* A switch, by the interrupt or yield: the list is read at one go.
schedule_round_robin ==
  /\ started /\ c_task # NULL
  /\ c_task' = LET node == next_node[c_task]
               IN  IF node = NULL THEN ready_list_head ELSE node
  /\ UNCHANGED <<list, state, started, at, locals, ghosts>>

(***************************************************************************)
(* create_task, called by main or by the current task, for a task_data_t   *)
(* not in use: never created, or removed and no longer running.            *)
(***************************************************************************)
\* Mutant: the newcomer is put in front.
add_task_in_front(t) ==
  /\ ready_list_head' = t
  /\ next_node' = [next_node EXCEPT ![t] = ready_list_head]

\* Mutant: create_task does not reset next_node of the newcomer.
add_task_keeps_next(t) ==
  IF ready_list_head = NULL
  THEN ready_list_head' = t /\ UNCHANGED next_node
  ELSE \E tail \in Listed :
         /\ next_node[tail] = NULL
         /\ next_node' = [next_node EXCEPT ![tail] = t]
         /\ UNCHANGED ready_list_head

\* task.next_node = nullptr; _add_task(&task).  A task on the list becomes its
\* tail by the first statement, and its own successor by the second.
_add_task(t) ==
  IF ready_list_head = NULL
  THEN ready_list_head' = t /\ next_node' = [next_node EXCEPT ![t] = NULL]
  ELSE \E tail \in Listed :
         /\ IF t \in Listed THEN tail = t ELSE next_node[tail] = NULL
         /\ next_node' = [next_node EXCEPT ![t] = NULL, ![tail] = t]
         /\ UNCHANGED ready_list_head

\* The locals of a call that t does not execute any more.
FreshLocals(t) ==
  /\ victim' = [victim EXCEPT ![t] = NULL]
  /\ seek' = [seek EXCEPT ![t] = NULL]
  /\ next_task' = [next_task EXCEPT ![t] = NULL]

MayCreate(t) ==
  /\ \/ "listed" \in Allowed
     \/ t \notin Listed /\ t # c_task /\ \A u \in Inside \ {t} : victim[u] # t
  /\ started => c_task # NULL /\ at[c_task] = "user"
  /\ Inside \subseteq {t} \/ "create" \in Allowed

create_task(t) ==
  /\ MayCreate(t)
  /\ _add_task(t)
  /\ state' = [state EXCEPT ![t] = "READY"]
  /\ c_task' = IF c_task = NULL THEN ready_list_head' ELSE c_task
  /\ wanted' = wanted \cup {t}
  /\ FreshLocals(t)
  /\ at' = [at EXCEPT ![t] = "user"]
  /\ UNCHANGED <<started, wild>>

\* The name is too long: state and next_node have been overwritten by then.
create_task_fails(t) ==
  /\ MayCreate(t)
  /\ next_node' = [next_node EXCEPT ![t] = NULL]
  /\ state' = [state EXCEPT ![t] = "READY"]
  /\ UNCHANGED <<ready_list_head, c_task, started, at, locals, ghosts>>

(***************************************************************************)
(* remove_task(v), called by task u.  remove_task(nullptr) returns at once *)
(* and is left out.                                                        *)
(***************************************************************************)
Goto(u, from, to) ==
  started /\ c_task = u /\ at[u] = from /\ at' = [at EXCEPT ![u] = to]

remove_task(u, v) ==
  /\ Goto(u, "user", "test")
  /\ Inside = {} \/ "concurrent" \in Allowed
  /\ v \in Listed \/ "unlisted" \in Allowed
  /\ Listed # {v} \/ "last" \in Allowed
  /\ u \in Listed \/ "after" \in Allowed
  /\ victim' = [victim EXCEPT ![u] = v]
  /\ wanted' = wanted \ {v}
  /\ UNCHANGED <<list, state, c_task, started, seek, next_task, wild>>

\* if (task == _get_head_task())
TestHead(u) ==
  /\ Goto(u, "test", IF victim[u] = ready_list_head THEN "head_next" ELSE "seek")
  /\ UNCHANGED <<list, state, c_task, started, locals, ghosts>>

\* ready_list_head = _get_next_task(task): read, then write.
HeadNext(u) ==
  /\ Goto(u, "head_next", "head_store")
  /\ next_task' = [next_task EXCEPT ![u] = next_node[victim[u]]]
  /\ UNCHANGED <<list, state, c_task, started, victim, seek, ghosts>>

HeadStore(u) ==
  /\ Goto(u, "head_store", "state")
  /\ ready_list_head' = next_task[u]
  /\ UNCHANGED <<next_node, state, c_task, started, locals, ghosts>>

\* _find_preceding_task(task): seek_head = head, nullptr on an empty list.
SeekHead(u) ==
  /\ Goto(u, "seek", IF ready_list_head = NULL THEN "next" ELSE "walk")
  /\ seek' = [seek EXCEPT ![u] = ready_list_head]
  /\ UNCHANGED <<list, state, c_task, started, victim, next_task, ghosts>>

\* while (seek_head->next_node != target_node && seek_head != nullptr)
Walk(u) ==
  /\ Goto(u, "walk",
          IF seek[u] = NULL THEN "next"
          ELSE IF next_node[seek[u]] = victim[u] THEN "next" ELSE "advance")
  /\ UNCHANGED <<list, state, c_task, started, locals, ghosts>>

Advance(u) ==
  /\ Goto(u, "advance", "walk")
  /\ seek' = [seek EXCEPT ![u] = next_node[seek[u]]]
  /\ UNCHANGED <<list, state, c_task, started, victim, next_task, ghosts>>

NextTask(u) ==
  /\ Goto(u, "next", "link")
  /\ next_task' = [next_task EXCEPT ![u] = next_node[victim[u]]]
  /\ UNCHANGED <<list, state, c_task, started, victim, seek, ghosts>>

\* Mutant: the tasks behind the removed one are dropped.
LinkNull(u) ==
  /\ Goto(u, "link", "clear")
  /\ seek[u] # NULL
  /\ next_node' = [next_node EXCEPT ![seek[u]] = NULL]
  /\ UNCHANGED <<ready_list_head, state, c_task, started, locals, ghosts>>

\* Mutant: the removed task is not bypassed.
LinkForgotten(u) ==
  /\ Goto(u, "link", "clear")
  /\ UNCHANGED <<list, state, c_task, started, locals, ghosts>>

\* preceding_task->next_node = next_task, also where there is none.
Link(u) ==
  /\ Goto(u, "link", "clear")
  /\ \/ /\ seek[u] = NULL
        /\ wild' = TRUE
        /\ UNCHANGED next_node
     \/ /\ seek[u] # NULL
        /\ next_node' = [next_node EXCEPT ![seek[u]] = next_task[u]]
        /\ UNCHANGED wild
  /\ UNCHANGED <<ready_list_head, state, c_task, started, locals, wanted>>

\* task->next_node = nullptr
Clear(u) ==
  /\ Goto(u, "clear", "state")
  /\ next_node' = [next_node EXCEPT ![victim[u]] = NULL]
  /\ UNCHANGED <<ready_list_head, state, c_task, started, locals, ghosts>>

\* _set_task_state(task, UNDEFINED); return 0.  The locals are dead.
SetState(u) ==
  /\ Goto(u, "state", "user")
  /\ state' = [state EXCEPT ![victim[u]] = "UNDEFINED"]
  /\ FreshLocals(u)
  /\ UNCHANGED <<list, c_task, started, ghosts>>

RemoveStep(u) ==
  \/ TestHead(u) \/ HeadNext(u) \/ HeadStore(u)
  \/ SeekHead(u) \/ Walk(u) \/ Advance(u)
  \/ NextTask(u) \/ Link(u) \/ Clear(u) \/ SetState(u)

Next ==
  \/ start_scheduler \/ schedule_round_robin
  \/ \E t \in Tasks : create_task(t) \/ create_task_fails(t) \/ RemoveStep(t)
  \/ \E u, v \in Tasks : remove_task(u, v)

Spec == Init /\ [][Next]_vars

(***************************************************************************)
(* Fairness: main starts the scheduler, slices end, and a task that is     *)
(* dispatched again and again gets on with its call.                       *)
(***************************************************************************)
FairSpec ==
  /\ Spec
  /\ WF_vars(start_scheduler)
  /\ WF_vars(schedule_round_robin)
  /\ \A t \in Tasks : SF_vars(RemoveStep(t))

(***************************************************************************)
(* Properties.                                                             *)
(***************************************************************************)
\* s is the list: each task once, each linked to the next.
IsOrder(s) ==
  /\ s \in Seq(Tasks)
  /\ \A i, j \in 1..Len(s) : s[i] = s[j] => i = j
  /\ ready_list_head = IF s = <<>> THEN NULL ELSE s[1]
  /\ \A i \in 1..Len(s) : next_node[s[i]] = IF i = Len(s) THEN NULL ELSE s[i + 1]

\* Before its link is changed the victim of a removal is on the list, and so are
\* the task that removes it and another one.
Unlinking == {"test", "head_next", "head_store", "seek", "walk", "advance", "next", "link"}

\* The one removal under way, at each of its statements.
Removal(u) ==
  LET v == victim[u]
  IN /\ started /\ v \in Tasks /\ Inside = {u}
     /\ at[u] \in Unlinking =>
          u \in Listed /\ v \in Listed \ wanted /\ Len(Order) >= 2
     /\ at[u] \in {"head_next", "head_store"} => v = Order[1]
     /\ at[u] = "head_store" => next_task[u] = Order[2]
     /\ at[u] \in {"seek", "walk", "advance", "next", "link"} => v # Order[1]
     /\ at[u] \in {"walk", "advance"} =>
          \E i, k \in 1..Len(Order) : i < k /\ seek[u] = Order[i] /\ v = Order[k]
     /\ at[u] = "advance" => next_node[seek[u]] # v
     /\ at[u] \in {"next", "link"} => seek[u] \in Listed /\ next_node[seek[u]] = v
     /\ at[u] = "link" => next_task[u] = next_node[v]
     /\ at[u] \in {"clear", "state"} => v \notin Listed

Removals == \A u \in Inside : Removal(u)

\* The current task is on the list, or has left it and still points to it.
Current ==
  /\ c_task = NULL <=> Order = <<>>
  /\ c_task # NULL => c_task \in Listed \/ next_node[c_task] \in Listed \cup {NULL}

\* What is on the list may be dispatched.
Ready == \A t \in Listed : state[t] = "READY"

\* _get_tail, _find_preceding_task: the walk along next_node ends, whatever was
\* removed half way, abandoned or created again, and meets every task once; the
\* pointers are of their types.
ListInv ==
  /\ TypeOK /\ Node(Cardinality(Tasks)) = NULL
  /\ IsOrder(Order) /\ Removals /\ Current /\ Ready

\* create_task ("Adds a new task to the scheduler"), remove_task ("Remove task
\* from the scheduler"): a task that was accepted and that nobody removes is
\* on the list at every moment, also half way through the removal of another.
NoTaskLost == wanted \subseteq Listed

\* schedule_round_robin, kernel.cpp "c_task is valid": a switch finds a task.
CTaskValid == started => c_task # NULL

\* remove_task ("The task will continue running until it's tick ends"): a task
\* whose removal is complete may finish its slice and is not switched to again.
RemovedStaysOff ==
  [][\A t \in Tasks : state[t] = "UNDEFINED" /\ c_task # t
                      => c_task' # t \/ state'[t] = "READY"]_vars

\* _remove_task_from_ready_list, "0 success, 1 failure" (task.h): a call that
\* cannot remove its task says so, and writes to members of tasks only.  Not so
\* for a task that is not on the list.
NoWildWrite == ~wild

\* task.cpp: the list is a queue of tasks that take turns.
Q == INSTANCE ReadyQueue WITH order <- Order, current <- c_task
ImplementsReadyQueue == Q!Spec

\* schedule_round_robin: a task that stays on the list gets its turn, however
\* many of the others are removed, if tasks are not created for ever (each
\* newcomer is put behind the current task and in front of the head's turn).
EveryoneGetsATurn ==
  <>[][\A t \in Tasks : ~create_task(t)]_vars
    => \A t \in Tasks : t \in wanted ~> (c_task = t \/ t \notin wanted)
=============================================================================
