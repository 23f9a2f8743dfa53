--------------------------- MODULE ContextSwitch ---------------------------
(***************************************************************************)
(* The kernel's context switch (kernel.cpp) with the create_task and boot  *)
(* code around it, at the grain at which an interrupt can get in between:  *)
(* code that runs with the I bit of SREG clear is one action; the restore  *)
(* sequence, which sets SREG before it sets SP, is a step per write.       *)
(*                                                                         *)
(* Data is abstracted to what tells contexts apart.  A register file is a  *)
(* member of Values, a stack pointer is the thread whose stack it points   *)
(* into, and stack[t] is the return address at the top of t's stack: the   *)
(* word that pushes at an interrupt or call of yield leave there and that  *)
(* ret and reti pop.  What a stack holds below is the task's own.          *)
(*                                                                         *)
(* Time is abstracted to two events: timer 0 reaches OCR0B (CompareMatch)  *)
(* and timer 0 overflows (TimerOverflow).  The accounting of CPU time and  *)
(* the value written to OCR0B are not part of this module; writing OCR0B   *)
(* is seen in the fact that no compare match falls due between the write   *)
(* and the end of the switch (246 ticks of 64 cycles against a few hundred *)
(* cycles).                                                                *)
(***************************************************************************)
EXTENDS FiniteSets

CONSTANTS
  Tasks,       \* task control blocks (task_data_t objects)
  Main,        \* the boot thread: main() and its stack
  NULL,        \* nullptr, and memory nobody has written yet
  Values,      \* register files, and positions in a program
  Entry,       \* the position of a task's entry point
  Torn,        \* SP with one byte of the old stack and one of the new
  TornWindow,  \* an interrupt may fall due while _RESTORE_CTX writes SP
  LongMask     \* a task may keep interrupts disabled for a timer period

ASSUME ThreadsAssumption ==
  /\ IsFiniteSet(Tasks)
  /\ Main \notin Tasks /\ NULL \notin Tasks \cup {Main}
  /\ Torn \notin Tasks \cup {Main}
ASSUME ValuesAssumption == Values # {} /\ Entry \notin Values
ASSUME FlagsAssumption == {TornWindow, LongMask} \subseteq BOOLEAN

Threads == Tasks \cup {Main}

VARIABLES
  ready_list_head, next_node,  \* the ready list
  c_task,       \* the task the kernel calls current
  cpu_state,    \* cpu_state[t]: the cpu_state member of t's task_data_t
  stack,        \* stack[x]: return address at the top of x's stack
  pc, regs, sp, irq,           \* the processor; irq is the I bit of SREG
  toie, ocie,   \* TIMSK0: overflow and compare B interrupts enabled
  tov, ocf,     \* TIFR0: TOV0 and OCF0B
  late,         \* OCF0B: "no", set for a timer "period", or set "again"
  harmed        \* history: an interrupt came when the kernel cannot stand it

list == <<ready_list_head, next_node>>
cpu == <<pc, regs, sp, irq>>
timer == <<toie, ocie, tov, ocf, late, harmed>>
vars == <<ready_list_head, next_node, c_task, cpu_state, stack,
          pc, regs, sp, irq, toie, ocie, tov, ocf, late, harmed>>

(***************************************************************************)
(* Program counters: in the code of a thread, or in _RESTORE_CTX in front  *)
(* of the write it is named after, on the way to the instruction that      *)
(* leaves the kernel.                                                      *)
(***************************************************************************)
UserPc(x) == [at : {"user"}, thread : {x}, pos : Values \cup {Entry}]
KernelPc == [at : {"sreg", "spl", "sph", "regs", "exit"},
             exit : {"reti", "sei_ret", "ret"}]
Pcs == [at : {"user"}, thread : Threads, pos : Values \cup {Entry}] \cup KernelPc
ASSUME PcsAssumption == NULL \notin Pcs

User(x, v) == [at |-> "user", thread |-> x, pos |-> v]
Kernel(p, e) == [at |-> p, exit |-> e]

InUser == pc.at = "user"

Contexts == [regs : Values, sp : Threads \cup {NULL, Torn}, irq : BOOLEAN]

TypeOK ==
  /\ ready_list_head \in Tasks \cup {NULL}
  /\ next_node \in [Tasks -> Tasks \cup {NULL}]
  /\ c_task \in Tasks \cup {NULL}
  /\ cpu_state \in [Tasks -> Contexts]
  /\ stack \in [Threads -> Pcs \cup {NULL}]
  /\ pc \in Pcs
  /\ regs \in Values
  /\ sp \in Threads \cup {Torn}
  /\ irq \in BOOLEAN
  /\ toie \in BOOLEAN /\ ocie \in BOOLEAN /\ tov \in BOOLEAN /\ ocf \in BOOLEAN
  /\ late \in {"no", "period", "again"} /\ (late # "no" => LongMask)
  /\ harmed \in BOOLEAN

\* The tasks whose entry point create_task has put on their stack.
Created == {t \in Tasks : stack[t] # NULL}

\* Reset: main runs on its own stack, interrupts disabled, timers off.
Init ==
  /\ ready_list_head = NULL
  /\ next_node = [t \in Tasks |-> NULL]
  /\ c_task = NULL
  /\ \E v \in Values :
       /\ cpu_state = [t \in Tasks |-> [regs |-> v, sp |-> NULL, irq |-> FALSE]]
       /\ regs = v
  /\ stack = [x \in Threads |-> NULL]
  /\ pc = User(Main, Entry)
  /\ sp = Main
  /\ irq = FALSE
  /\ toie = FALSE /\ ocie = FALSE /\ tov = FALSE /\ ocf = FALSE
  /\ late = "no"
  /\ harmed = FALSE

(***************************************************************************)
(* Interrupt logic.  A pending interrupt is taken before the next          *)
(* instruction; TIMER0_COMPB has priority over TIMER0_OVF.                 *)
(***************************************************************************)
CompbDue == irq /\ ocie /\ ocf
OvfDue == irq /\ toie /\ tov
Undisturbed == ~harmed /\ ~CompbDue /\ ~OvfDue

\* An instruction of the thread that runs.
Running(x) == InUser /\ pc.thread = x /\ Undisturbed

\* The loop of a first task whose context kernel_start lost to main: its ret
\* finds main's way into _RESTORE_CTX on main's stack, again and again.
Looping == ~InUser /\ pc.exit = "ret" /\ cpu_state[c_task].sp = Main

\* Timer 0 reaches OCR0B: in a task that takes a slice, and one more period if
\* interrupts stay disabled; and in main at any tick, the first one included,
\* since initialize_clock leaves OCR0B = TCNT0 = 0.
CompareMatch ==
  /\ toie /\ ~harmed
  /\ InUser \/ Looping
  /\ pc.at \in {"sph", "regs"} => TornWindow
  /\ ocf => InUser /\ pc.thread \in Tasks /\ LongMask /\ ~irq
  /\ ocf' = TRUE
  /\ late' = IF ocf THEN "period" ELSE "no"
  /\ UNCHANGED <<list, c_task, cpu_state, stack, cpu, toie, ocie, tov, harmed>>

TimerOverflow ==
  /\ toie /\ ~tov /\ ~harmed
  /\ pc.at = "sph" => TornWindow
  /\ tov' = TRUE
  /\ UNCHANGED <<list, c_task, cpu_state, stack, cpu, toie, ocie, ocf, late, harmed>>

\* The clock's ISR restores all it uses.  It pushes the return address and
\* registers below SP; where SP is torn that is anyone's memory.
TIMER0_OVF_vect ==
  /\ OvfDue /\ ~CompbDue /\ ~harmed
  /\ tov' = FALSE
  /\ harmed' = (sp = Torn)
  /\ stack' \in {stack} \cup
       {[stack EXCEPT ![x] = pc] : x \in {y \in Threads : sp = Torn}}
  /\ UNCHANGED <<list, c_task, cpu_state, cpu, toie, ocie, ocf, late>>

(***************************************************************************)
(* Boot.                                                                   *)
(***************************************************************************)
init_scheduler ==
  /\ Running(Main) /\ ~toie
  /\ toie' = TRUE
  /\ UNCHANGED <<list, c_task, cpu_state, stack, cpu, ocie, tov, ocf, late, harmed>>

\* kernel_init_timer and the jump into _RESTORE_CTX.  OCF0B is left as it is:
\* where it is set, the first switch takes main for the first task.
kernel_start ==
  /\ Running(Main) /\ toie
  /\ c_task # NULL
  /\ ocie' = TRUE
  /\ pc' = Kernel("sreg", "ret")
  /\ UNCHANGED <<list, c_task, cpu_state, stack, regs, sp, irq,
                 toie, tov, ocf, late, harmed>>

(***************************************************************************)
(* create_task, called by main or by a task for a task_data_t that is not  *)
(* in use.  The list is well formed, so its tail is the node without a     *)
(* successor.                                                              *)
(***************************************************************************)
_add_task(t) ==
  IF ready_list_head = NULL
  THEN /\ ready_list_head' = t
       /\ next_node' = [next_node EXCEPT ![t] = NULL]
  ELSE \E tail \in Created :
       /\ next_node[tail] = NULL
       /\ next_node' = [next_node EXCEPT ![t] = NULL, ![tail] = t]
       /\ UNCHANGED ready_list_head

\* Mutant: the task starts with interrupts disabled.
NewTaskNoSreg(x, t, v, i) ==
  /\ Running(x)
  /\ t \notin Created
  /\ cpu_state' = [cpu_state EXCEPT ![t] = [regs |-> v, sp |-> t, irq |-> FALSE]]
  /\ stack' = [stack EXCEPT ![t] = User(t, Entry)]
  /\ _add_task(t)
  /\ c_task' = IF c_task = NULL THEN ready_list_head' ELSE c_task
  /\ irq' = i
  /\ UNCHANGED <<pc, regs, sp, timer>>

\* x makes t a task with registers v and goes on with interrupt flag i.
NewTask(x, t, v, i) ==
  /\ Running(x)
  /\ t \notin Created
  /\ cpu_state' = [cpu_state EXCEPT ![t] = [regs |-> v, sp |-> t, irq |-> TRUE]]
  /\ stack' = [stack EXCEPT ![t] = User(t, Entry)]
  /\ _add_task(t)
  /\ c_task' = IF c_task = NULL THEN ready_list_head' ELSE c_task
  /\ irq' = i
  /\ UNCHANGED <<pc, regs, sp, timer>>

\* The registers are left as they are; SREG = sreg.
create_task(x, t) == NewTask(x, t, cpu_state[t].regs, irq)

\* The arguments go to registers and stack; sei().
create_task_variadic(x, t) == \E v \in Values : NewTask(x, t, v, TRUE)

\* The name is too long: return 1, with some members already written.
create_task_fails(x, t) ==
  /\ Running(x)
  /\ t \notin Created
  /\ cpu_state' = [cpu_state EXCEPT ![t].irq = TRUE]
  /\ next_node' = [next_node EXCEPT ![t] = NULL]
  /\ UNCHANGED <<ready_list_head, c_task, stack, cpu, timer>>

(***************************************************************************)
(* Task code.                                                              *)
(***************************************************************************)
UserStep(t) ==
  /\ Running(t)
  /\ \E v \in Values :
       /\ v # regs
       /\ regs' = v
       /\ pc' = User(t, v)
  /\ UNCHANGED <<list, c_task, cpu_state, stack, sp, irq, timer>>

\* cli() and sei().
SetIrq(x, b) ==
  /\ Running(x) /\ irq # b
  /\ irq' = b
  /\ UNCHANGED <<list, c_task, cpu_state, stack, pc, regs, sp, timer>>

(***************************************************************************)
(* The switch: _SAVE_CTX, _schedule_next_task, re-arming OCR0B, all with   *)
(* interrupts disabled, and the jump into _RESTORE_CTX.                    *)
(***************************************************************************)
\* Mutant: the last task of the list is followed by itself.
schedule_no_wrap ==
  c_task' = IF next_node[c_task] = NULL THEN c_task ELSE next_node[c_task]

schedule_round_robin ==
  c_task' = LET node == IF c_task = NULL THEN NULL ELSE next_node[c_task]
            IN  IF node = NULL THEN ready_list_head ELSE node

\* Mutant: SREG is read before cli.
save_ctx_early ==
  /\ stack' = [stack EXCEPT ![sp] = pc]
  /\ cpu_state' =
       [cpu_state EXCEPT ![c_task] = [regs |-> regs, sp |-> sp, irq |-> irq]]

\* The return address is on the stack; SREG is read after cli.
_SAVE_CTX ==
  /\ stack' = [stack EXCEPT ![sp] = pc]
  /\ cpu_state' =
       [cpu_state EXCEPT ![c_task] = [regs |-> regs, sp |-> sp, irq |-> FALSE]]

\* The C code of the switch leaves anything in the registers.
SwitchTo(exit) ==
  /\ _SAVE_CTX
  /\ schedule_round_robin
  /\ \E v \in Values : regs' = v
  /\ pc' = Kernel("sreg", exit)
  /\ irq' = FALSE

\* Entering the ISR clears OCF0B.  If it was entered a timer period late, the
\* old OCR0B may match again before it is rewritten.  Harm is done if that
\* interrupts the switch itself; and in the loop of a lost first task next to
\* the new SP, where _RESTORE_CTX overwrites what the ISR pushed.
TIMER0_COMPB_vect ==
  /\ CompbDue /\ ~harmed
  /\ SwitchTo("reti")
  /\ late' \in {"no"} \cup {a \in {"again"} : late = "period"}
  /\ ocf' = (late' = "again")
  /\ harmed' = (~InUser /\ (late = "again" \/ pc.at \in {"sph", "regs"}))
  /\ UNCHANGED <<list, sp, toie, ocie, tov>>

\* Mutant: the flag of a slice that ran out during the switch stays.
yield_keeps_flag(t) ==
  /\ Running(t)
  /\ SwitchTo("sei_ret")
  /\ UNCHANGED <<list, sp, timer>>

yield(t) ==
  /\ Running(t)
  /\ SwitchTo("sei_ret")
  /\ ocf' = FALSE /\ late' = "no"
  /\ UNCHANGED <<list, sp, toie, ocie, tov, harmed>>

(***************************************************************************)
(* _RESTORE_CTX from c_task, write by write.                               *)
(***************************************************************************)
RestoreStep(from, to) ==
  /\ pc.at = from /\ Undisturbed
  /\ pc' = Kernel(to, pc.exit)
  /\ UNCHANGED <<list, c_task, cpu_state, stack, timer>>

RestoreSreg ==
  /\ RestoreStep("sreg", "spl")
  /\ irq' = cpu_state[c_task].irq
  /\ UNCHANGED <<regs, sp>>

RestoreSpl ==
  /\ RestoreStep("spl", "sph")
  /\ sp' = IF cpu_state[c_task].sp = sp THEN sp ELSE Torn
  /\ UNCHANGED <<regs, irq>>

RestoreSph ==
  /\ RestoreStep("sph", "regs")
  /\ sp' = cpu_state[c_task].sp
  /\ UNCHANGED <<regs, irq>>

RestoreRegs ==
  /\ RestoreStep("regs", "exit")
  /\ regs' = cpu_state[c_task].regs
  /\ UNCHANGED <<sp, irq>>

\* reti; or sei, ret; or ret.
LeaveKernel ==
  /\ pc.at = "exit" /\ Undisturbed
  /\ pc' = stack[sp]
  /\ irq' = (irq \/ pc.exit \in {"reti", "sei_ret"})
  /\ UNCHANGED <<list, c_task, cpu_state, stack, regs, sp, timer>>

Restore == RestoreSreg \/ RestoreSpl \/ RestoreSph \/ RestoreRegs \/ LeaveKernel

\* Where an interrupt has done harm the program is no longer followed.
Harmed == harmed /\ UNCHANGED vars

Next ==
  \/ init_scheduler \/ kernel_start
  \/ \E x \in Threads, t \in Tasks :
       create_task(x, t) \/ create_task_variadic(x, t) \/ create_task_fails(x, t)
  \/ \E x \in Threads, b \in BOOLEAN : SetIrq(x, b)
  \/ \E t \in Tasks : UserStep(t) \/ yield(t)
  \/ CompareMatch \/ TimerOverflow \/ TIMER0_COMPB_vect \/ TIMER0_OVF_vect
  \/ Restore
  \/ Harmed

Spec == Init /\ [][Next]_vars

(***************************************************************************)
(* Fairness.  Flags are latched and a pending interrupt comes before the   *)
(* next instruction, so weak fairness does for the interrupts.  Between    *)
(* two overflows (1024 us) instructions do run: strong fairness for the    *)
(* kernel's own steps, and for the timer, which meets a loop anywhere in   *)
(* it.  Of user code: main starts the scheduler, and who disabled          *)
(* interrupts enables them some day.                                       *)
(***************************************************************************)
Fairness ==
  /\ WF_vars(TIMER0_COMPB_vect) /\ WF_vars(TIMER0_OVF_vect)
  /\ SF_vars(CompareMatch)
  /\ SF_vars(Restore)
  /\ SF_vars(init_scheduler) /\ SF_vars(kernel_start)
  /\ SF_vars(\E t \in Tasks : SetIrq(t, TRUE))

FairSpec == Spec /\ Fairness

(***************************************************************************)
(* Properties.                                                             *)
(***************************************************************************)
\* kernel.cpp, "c_task is valid": the task whose code runs is the one the
\* kernel would save its registers to, and it runs on its own stack.
RunsOwnContext ==
  InUser /\ pc.thread \in Tasks => c_task = pc.thread /\ sp = pc.thread

\* What is kept for t is its own stack with a return address into its own
\* code on it.
OwnContext(t) == cpu_state[t].sp = t /\ stack[t] \in UserPc(t)

\* What kernel_start did to t: main was saved over it before it ever ran.
LoopPcs == {p \in KernelPc : p.exit = "ret"}
StartLost(t) ==
  /\ t = ready_list_head
  /\ cpu_state[t].sp = Main /\ stack[t] = User(t, Entry)
  /\ stack[Main] \in LoopPcs

\* _SAVE_CTX, create_task: the context kept for a created task is its own, at
\* every moment.  OCF0B of the boot breaks it.
SavedContextsIntact == \A t \in Created : OwnContext(t)

\* _SAVE_CTX, create_task, kernel_start: nothing else breaks it, and the boot
\* for no other task than the first.
ContextsKept == \A t \in Created : OwnContext(t) \/ StartLost(t)

\* TIMER0_COMPB_vect, yield, kernel_start: no switch starts inside another,
\* except where kernel_start lets it, in the loop that leaves, and after an
\* interrupt that was a timer period late.
SwitchNotInterrupted ==
  CompbDue => InUser \/ (pc.exit = "ret" /\ c_task = ready_list_head)
              \/ late = "again"

\* kernel.cpp as a whole: until an interrupt comes when the kernel cannot
\* stand it, contexts of tasks are not mixed up.
ContextIntegrity ==
  ~harmed => RunsOwnContext /\ ContextsKept /\ SwitchNotInterrupted

\* _SAVE_CTX, _RESTORE_CTX: where interrupts can do harm.  SREG is saved after
\* cli, so that a task that has run is put back with interrupts disabled: only
\* where c_task has not run yet, and in the loop of a lost one, does an
\* interrupt meet a torn SP or a switch a switch.
Fresh(t) == cpu_state[t].irq /\ stack[t] = User(t, Entry)
HarmAtFirstDispatch ==
  [][harmed' = harmed \/ Fresh(c_task) \/ Looping]_vars

\* The processor as task t sees it: the real one while t runs, what is kept
\* of it for t while it does not; of a lost task nothing is kept.
RunningTask == IF InUser /\ pc.thread \in Tasks THEN pc.thread ELSE NULL
TaskView(t) ==
  IF t \notin Created THEN NULL
  ELSE IF RunningTask = t
       THEN [pos |-> pc.pos, regs |-> regs, irq |-> irq]
       ELSE IF cpu_state[t].sp = Main THEN Main
            ELSE [pos |-> stack[t].pos, regs |-> cpu_state[t].regs, irq |-> TRUE]
TaskViews == [t \in Tasks |-> TaskView(t)]

V == INSTANCE VirtualCpu
       WITH running <- RunningTask, view <- TaskViews, Lost <- Main

ASSUME ViewsAssumption == NULL \notin V!Views /\ Main \notin V!Views

\* TIMER0_COMPB_vect, yield, create_task: position, registers and interrupt
\* flag of a task change by its own instructions only, until an interrupt
\* comes when the kernel cannot stand it.
ImplementsVirtualCpu == V!Init /\ [][harmed' \/ V!Next]_(V!vars)

\* kernel_start after the variadic create_task: the lost first task's loop
\* begins with the write of SREG, and disables interrupts for good.
HangsAhead == \E t \in Created : StartLost(t) /\ stack[Main].at = "sreg"

\* schedule_round_robin, kernel_start: every task that create_task accepted
\* gets the processor, again and again, but for the task kernel_start lost
\* and for what that task's loop stops.
EveryTaskRuns ==
  \A t \in Tasks :
    t \in Created ~>
      (InUser /\ pc.thread = t) \/ StartLost(t) \/ HangsAhead \/ harmed

(***************************************************************************)
(* The inductive invariant behind ContextIntegrity.                        *)
(***************************************************************************)
\* All pointers the scheduler follows lead to created tasks.
PointersValid ==
  /\ ready_list_head \in Created \cup {NULL}
  /\ c_task \in Created \cup {NULL}
  /\ c_task # NULL => ready_list_head # NULL
  /\ \A t \in Created : next_node[t] \in Created \cup {NULL}

\* Before the first dispatch: main has its own stack, the first task is the
\* current one, and every task there is has yet to start; the compare interrupt
\* is enabled when main leaves.
InMain == InUser /\ pc.thread = Main
Starting == ~InUser /\ pc.exit = "ret" /\ ~Looping
Booting ==
  /\ InMain => sp = Main /\ c_task = ready_list_head /\ ocie = FALSE
  /\ ~InMain => ocie = TRUE
  /\ InMain \/ Starting =>
       \A t \in Created :
         cpu_state[t].irq = TRUE /\ cpu_state[t].sp = t /\ stack[t] = User(t, Entry)

\* The first restore sequence is not interrupted after the write of SP, and
\* what it leads to when it is interrupted before runs on main's stack.
FirstRestore ==
  ~InUser /\ pc.exit = "ret" =>
    /\ c_task = ready_list_head
    /\ pc.at \in {"sreg", "spl"} \/ Looping => sp = Main
    /\ Starting /\ pc.at \notin {"sreg", "spl"} => ~ocf
    /\ Starting /\ pc.at # "sreg" => irq = TRUE

\* How much of c_task's context each point of _RESTORE_CTX has put back.
Restored ==
  ~InUser =>
    /\ c_task # NULL
    /\ pc.exit # "ret" /\ ocf => late = "again"
    /\ pc.at \in {"regs", "exit"} => sp = cpu_state[c_task].sp
    /\ pc.at = "exit" => regs = cpu_state[c_task].regs

\* Nobody has come to harm, and everything is in place.
Sound ==
  /\ TypeOK
  /\ harmed = FALSE
  /\ RunsOwnContext
  /\ ContextsKept
  /\ PointersValid
  /\ Booting
  /\ FirstRestore
  /\ Restored
  /\ sp = Torn => pc.at = "sph"

\* kernel.cpp, scheduler.cpp: pointers, boot and restore sequence together
\* with ContextIntegrity are preserved by every step that does no harm.
SwitchInv == harmed = TRUE \/ Sound
=============================================================================
