------------------------ MODULE ContextSwitchProofs ------------------------
(***************************************************************************)
(* Integrity of task contexts, for any number of tasks and any register    *)
(* contents, from reset through every boot.  What the theorems say ends    *)
(* where an interrupt comes when the kernel cannot stand it (harmed), and  *)
(* HarmOnlyFirst says where that can be.                                   *)
(* The last part is about TaskArgs: the arguments of a new task, for all   *)
(* sizes of arguments and stack arrays.                                    *)
(***************************************************************************)
EXTENDS ContextSwitch, TaskArgs, SequenceTheorems, NaturalsInduction,
        WellFoundedInduction, TLAPS

\* The two kinds of program counters, told apart by their at field.
LEMMA PcFacts ==
  /\ \A p \in Pcs : p.at = "user" => p.thread \in Threads /\ p \in UserPc(p.thread)
  /\ \A p \in Pcs : p.at # "user" => p \in KernelPc
  /\ \A p \in KernelPc : p.at # "user" /\ p \in Pcs
  /\ \A x \in Threads : UserPc(x) \subseteq Pcs
  /\ \A x \in Threads : \A p \in UserPc(x) : p.at = "user" /\ p.thread = x
  /\ \A x \in Threads : \A v \in Values \cup {Entry} : User(x, v) \in UserPc(x)
  /\ \A e \in {"reti", "sei_ret", "ret"} :
       \A p \in {"sreg", "spl", "sph", "regs", "exit"} :
         /\ Kernel(p, e) \in KernelPc
         /\ Kernel(p, e).at = p /\ Kernel(p, e).exit = e
BY DEF Pcs, UserPc, KernelPc, User, Kernel

\* After reset only main exists, on its own stack.
LEMMA InitSound == Init => Sound
<1> SUFFICES ASSUME Init PROVE Sound
  OBVIOUS
<1> USE ThreadsAssumption, ValuesAssumption, PcFacts
<1>1. InUser /\ pc.thread = Main /\ pc \in Pcs
  BY DEF Init, InUser, Threads, User, Pcs
<1>2. TypeOK
  <2>1. cpu_state \in [Tasks -> Contexts] /\ regs \in Values
    BY DEF Init, Contexts
  <2>2. stack \in [Threads -> Pcs \cup {NULL}]
    BY DEF Init
  <2> QED BY <1>1, <2>1, <2>2 DEF Init, TypeOK, Threads
<1>3. Created = {}
  BY DEF Init, Created, Threads
<1> QED
  BY <1>1, <1>2, <1>3
     DEF Init, Sound, RunsOwnContext, ContextsKept, PointersValid, Booting,
         FirstRestore, Restored, InMain, Starting

\* Where no task is created and no context and no pc changes, what is kept
\* and the pointers stay as they are.
LEMMA Kept ==
  ASSUME Sound, UNCHANGED <<list, c_task, cpu_state, stack>>
  PROVE  /\ Created' = Created
         /\ ContextsKept' /\ PointersValid'
BY DEF Sound, ContextsKept, OwnContext, StartLost, PointersValid, Created, list

\* A step that only raises or clears timer flags: between the writes of SP it
\* does harm, elsewhere none.
LEMMA TimerSteps ==
  ASSUME Sound,
         CompareMatch \/ TimerOverflow \/ TIMER0_OVF_vect \/ init_scheduler
  PROVE  SwitchInv'
<1> USE ThreadsAssumption
<1>1. CASE CompareMatch
  <2>1. UNCHANGED <<list, c_task, cpu_state, stack, cpu, toie, ocie, tov, harmed>>
    BY <1>1 DEF CompareMatch
  <2>2. ContextsKept' /\ PointersValid' /\ Created' = Created
    BY <2>1, Kept
  <2>3. (InUser \/ Looping) /\ ocf' = TRUE
        /\ late' \in {"no", "period"} /\ (late' # "no" => LongMask)
    BY <1>1 DEF CompareMatch
  <2>4. InUser' = InUser /\ Looping' = Looping
    BY <2>1 DEF InUser, Looping, cpu
  <2> QED
    BY <2>1, <2>2, <2>3, <2>4
       DEF SwitchInv, Sound, TypeOK, RunsOwnContext, Booting, FirstRestore,
           Restored, InMain, Starting, Looping, InUser, cpu, list
<1>2. CASE TimerOverflow
  <2>1. UNCHANGED <<list, c_task, cpu_state, stack, cpu, toie, ocie, ocf, late, harmed>>
        /\ tov' = TRUE
    BY <1>2 DEF TimerOverflow
  <2>2. ContextsKept' /\ PointersValid' /\ Created' = Created
    BY <2>1, Kept
  <2> QED
    BY <2>1, <2>2
       DEF SwitchInv, Sound, TypeOK, RunsOwnContext, Booting, FirstRestore,
           Restored, InMain, Starting, Looping, InUser, cpu, list
<1>3. CASE TIMER0_OVF_vect
  <2>1. CASE sp = Torn
    BY <1>3, <2>1 DEF TIMER0_OVF_vect, SwitchInv
  <2>2. CASE sp # Torn
    <3>1. UNCHANGED <<list, c_task, cpu_state, stack, cpu, toie, ocie, ocf, late>>
          /\ tov' = FALSE /\ harmed' = FALSE
      BY <1>3, <2>2 DEF TIMER0_OVF_vect
    <3>2. ContextsKept' /\ PointersValid' /\ Created' = Created
      BY <3>1, Kept
    <3> QED
      BY <3>1, <3>2
         DEF SwitchInv, Sound, TypeOK, RunsOwnContext, Booting, FirstRestore,
             Restored, InMain, Starting, Looping, InUser, cpu, list
  <2> QED BY <2>1, <2>2
<1>4. CASE init_scheduler
  <2>1. UNCHANGED <<list, c_task, cpu_state, stack, cpu, ocie, tov, ocf, late, harmed>>
        /\ toie' = TRUE
    BY <1>4 DEF init_scheduler
  <2>2. ContextsKept' /\ PointersValid' /\ Created' = Created
    BY <2>1, Kept
  <2> QED
    BY <2>1, <2>2
       DEF SwitchInv, Sound, TypeOK, RunsOwnContext, Booting, FirstRestore,
           Restored, InMain, Starting, Looping, InUser, cpu, list
<1> QED BY <1>1, <1>2, <1>3, <1>4

\* kernel_start enters the restore sequence for a task that is yet to start,
\* on main's stack.
LEMMA StartStep == ASSUME Sound, kernel_start PROVE Sound'
<1> USE ThreadsAssumption, PcFacts
<1>1. /\ UNCHANGED <<list, c_task, cpu_state, stack, regs, sp, irq,
                     toie, tov, ocf, late, harmed>>
      /\ ocie' = TRUE /\ pc' = Kernel("sreg", "ret") /\ c_task # NULL
      /\ InMain
  BY DEF kernel_start, Running, InMain
<1>2. ContextsKept' /\ PointersValid' /\ Created' = Created
  BY <1>1, Kept
<1>3. sp = Main /\ c_task = ready_list_head /\ c_task \in Created
  BY <1>1 DEF Sound, Booting, PointersValid
<1>4. ~InUser' /\ pc'.exit = "ret" /\ pc'.at = "sreg" /\ pc' \in Pcs
  BY <1>1 DEF InUser
<1>5. \A t \in Created :
        cpu_state[t].irq = TRUE /\ cpu_state[t].sp = t /\ stack[t] = User(t, Entry)
  BY <1>1 DEF Sound, Booting
<1>6. TypeOK' /\ RunsOwnContext' /\ harmed' = FALSE
  BY <1>1, <1>4 DEF Sound, TypeOK, RunsOwnContext, list
<1>7. Booting' /\ FirstRestore' /\ Restored'
  BY <1>1, <1>2, <1>3, <1>4, <1>5
     DEF Sound, Booting, FirstRestore, Restored, InMain, Starting, Looping, list,
         Created
<1> QED BY <1>1, <1>2, <1>3, <1>6, <1>7 DEF Sound

\* Steps of user code that touch the processor only.
LEMMA UserSteps ==
  ASSUME Sound, NEW x \in Threads,
         (x \in Tasks /\ UserStep(x)) \/ \E b \in BOOLEAN : SetIrq(x, b)
  PROVE  Sound'
<1> USE ThreadsAssumption, PcFacts
<1>1. /\ UNCHANGED <<list, c_task, cpu_state, stack, sp, timer>>
      /\ InUser /\ pc.thread = x
      /\ pc' \in Pcs /\ pc'.at = "user" /\ pc'.thread = pc.thread
      /\ regs' \in Values /\ irq' \in BOOLEAN
  <2>1. CASE x \in Tasks /\ UserStep(x)
    BY <2>1 DEF UserStep, Running, InUser, User, Threads, Sound, TypeOK
  <2>2. ASSUME NEW b \in BOOLEAN, SetIrq(x, b)
        PROVE  /\ UNCHANGED <<list, c_task, cpu_state, stack, sp, timer, pc, regs>>
               /\ InUser /\ pc.thread = x /\ irq' \in BOOLEAN
    BY <2>2 DEF SetIrq, Running
  <2> QED BY <2>1, <2>2 DEF InUser, Sound, TypeOK
<1>2. ContextsKept' /\ PointersValid' /\ Created' = Created
  BY <1>1, Kept
<1> QED
  BY <1>1, <1>2
     DEF Sound, TypeOK, RunsOwnContext, Booting, FirstRestore,
         Restored, InMain, Starting, Looping, InUser, list, timer

\* The write of _RESTORE_CTX in front of which pc stands puts back that part
\* of the context of c_task.
LEMMA RestoreSteps == ASSUME Sound, Restore PROVE Sound'
<1> USE ThreadsAssumption, PcFacts
<1>1. /\ UNCHANGED <<list, c_task, cpu_state, stack, toie, ocie, tov, ocf, late, harmed>>
      /\ pc.at \in {"sreg", "spl", "sph", "regs", "exit"} /\ Undisturbed
  BY DEF Restore, RestoreSreg, RestoreSpl, RestoreSph, RestoreRegs, LeaveKernel,
         RestoreStep, timer
<1>2. ContextsKept' /\ PointersValid' /\ Created' = Created
  BY <1>1, Kept
<1>3. /\ c_task \in Created /\ c_task # NULL /\ c_task \in Tasks
      /\ ~InUser /\ pc \in KernelPc /\ pc \in Pcs
      /\ cpu_state[c_task] \in Contexts
      /\ OwnContext(c_task) \/ StartLost(c_task)
  BY <1>1 DEF Sound, TypeOK, InUser, Restored, PointersValid, Created, ContextsKept
<1>4. /\ cpu_state[c_task].sp \in Threads /\ cpu_state[c_task].irq \in BOOLEAN
      /\ cpu_state[c_task].regs \in Values
      /\ pc.exit \in {"reti", "sei_ret", "ret"}
  BY <1>3 DEF OwnContext, StartLost, Contexts, Threads, Created, KernelPc
<1>5. Starting => irq = TRUE \/ pc.at = "sreg"
  BY <1>3 DEF Sound, FirstRestore, Starting, InUser
<1>6. Starting => cpu_state[c_task].irq = TRUE
  BY <1>3 DEF Sound, Booting
<1> DEFINE Steps(p, q) ==
             /\ pc.at = p /\ pc' = Kernel(q, pc.exit)
<1>7. ASSUME NEW q \in {"spl", "sph", "regs", "exit"}, pc' = Kernel(q, pc.exit)
      PROVE  /\ pc' \in Pcs /\ pc'.at = q /\ pc'.exit = pc.exit /\ ~InUser'
             /\ Looping' = Looping /\ Starting' = Starting
             /\ ~InMain /\ ~InMain'
  <2>1. pc' \in KernelPc /\ pc'.at = q /\ pc'.exit = pc.exit
    BY <1>4, <1>7
  <2> QED BY <1>1, <1>3, <2>1 DEF InUser, Looping, Starting, InMain
<1>8. ASSUME NEW q \in {"spl", "sph", "regs", "exit"}, pc' = Kernel(q, pc.exit)
      PROVE  RunsOwnContext' /\ Booting'
  BY <1>1, <1>2, <1>3, <1>7, <1>8 DEF Sound, RunsOwnContext, Booting, Created
<1>9. CASE RestoreSreg
  <2>1. /\ pc.at = "sreg" /\ pc' = Kernel("spl", pc.exit)
        /\ irq' = cpu_state[c_task].irq /\ UNCHANGED <<regs, sp>>
    BY <1>9 DEF RestoreSreg, RestoreStep
  <2>2. TypeOK'
    BY <1>1, <1>4, <1>7, <2>1 DEF Sound, TypeOK, list
  <2>3. FirstRestore' /\ Restored'
    BY <1>1, <1>3, <1>6, <1>7, <2>1 DEF Sound, FirstRestore, Restored, InUser, list
  <2> QED BY <1>1, <1>2, <1>8, <2>1, <2>2, <2>3 DEF Sound
<1>10. CASE RestoreSpl
  <2>1. /\ pc.at = "spl" /\ pc' = Kernel("sph", pc.exit) /\ pc'.at = "sph"
        /\ sp' = (IF cpu_state[c_task].sp = sp THEN sp ELSE Torn)
        /\ UNCHANGED <<regs, irq>>
    BY <1>7, <1>10 DEF RestoreSpl, RestoreStep
  <2>2. TypeOK'
    BY <1>1, <1>4, <1>7, <2>1 DEF Sound, TypeOK, list
  <2>3. Starting => ~ocf
    BY <1>1, <1>3, <1>5, <2>1
       DEF Undisturbed, CompbDue, Sound, Booting, InMain, InUser
  <2>4. Looping => sp' = Main
    BY <1>3, <2>1 DEF Looping, Sound, FirstRestore
  <2>5. FirstRestore' /\ Restored'
    BY <1>1, <1>3, <1>5, <1>7, <2>1, <2>3, <2>4
       DEF Sound, FirstRestore, Restored, InUser, list
  <2> QED BY <1>1, <1>2, <1>8, <2>1, <2>2, <2>5 DEF Sound
<1>11. CASE RestoreSph
  <2>1. /\ pc.at = "sph" /\ pc' = Kernel("regs", pc.exit)
        /\ sp' = cpu_state[c_task].sp /\ UNCHANGED <<regs, irq>>
    BY <1>11 DEF RestoreSph, RestoreStep
  <2>2. TypeOK'
    BY <1>1, <1>4, <1>7, <2>1 DEF Sound, TypeOK, list
  <2>3. FirstRestore' /\ Restored'
    BY <1>1, <1>3, <1>5, <1>7, <2>1 DEF Sound, FirstRestore, Restored, InUser, list, Looping
  <2>4. sp' # Torn
    BY <1>4, <2>1 DEF Threads
  <2> QED BY <1>1, <1>2, <1>8, <2>1, <2>2, <2>3, <2>4 DEF Sound
<1>12. CASE RestoreRegs
  <2>1. /\ pc.at = "regs" /\ pc' = Kernel("exit", pc.exit)
        /\ regs' = cpu_state[c_task].regs /\ UNCHANGED <<sp, irq>>
    BY <1>12 DEF RestoreRegs, RestoreStep
  <2>2. TypeOK'
    BY <1>1, <1>4, <1>7, <2>1 DEF Sound, TypeOK, list
  <2>3. FirstRestore' /\ Restored'
    BY <1>1, <1>3, <1>5, <1>7, <2>1 DEF Sound, FirstRestore, Restored, InUser, list
  <2>4. sp' # Torn
    BY <2>1 DEF Sound
  <2> QED BY <1>1, <1>2, <1>8, <2>1, <2>2, <2>3, <2>4 DEF Sound
<1>13. CASE LeaveKernel
  <2>1. /\ pc.at = "exit" /\ pc' = stack[sp] /\ irq' \in BOOLEAN
        /\ UNCHANGED <<regs, sp>>
    BY <1>13 DEF LeaveKernel, Sound, TypeOK
  <2>2. sp = cpu_state[c_task].sp /\ regs = cpu_state[c_task].regs
    BY <1>3, <2>1 DEF Sound, Restored
  <2>3. CASE OwnContext(c_task)
    <3>1. sp = c_task /\ pc' \in UserPc(c_task)
      BY <2>1, <2>2, <2>3 DEF OwnContext
    <3>2. InUser' /\ pc'.thread = c_task /\ pc' \in Pcs
      BY <1>3, <3>1 DEF InUser, Threads
    <3>3. TypeOK'
      BY <1>1, <2>1, <3>2 DEF Sound, TypeOK, list
    <3>4. RunsOwnContext' /\ Booting' /\ FirstRestore' /\ Restored' /\ sp' # Torn
      BY <1>1, <1>3, <2>1, <3>1, <3>2
         DEF Sound, RunsOwnContext, Booting, FirstRestore, Restored, InMain,
             Starting, InUser
    <3> QED BY <1>1, <1>2, <3>3, <3>4 DEF Sound
  <2>4. CASE StartLost(c_task)
    <3>1. sp = Main /\ pc' \in LoopPcs /\ c_task = ready_list_head
      BY <2>1, <2>2, <2>4 DEF StartLost
    <3>2. ~InUser' /\ pc' \in Pcs /\ pc'.exit = "ret" /\ pc' \in KernelPc
      BY <3>1 DEF InUser, LoopPcs
    <3>3. Looping' /\ ~Starting' /\ ~InMain /\ ~InMain'
      BY <1>1, <1>3, <2>2, <3>1, <3>2 DEF Looping, Starting, InMain
    <3>4. TypeOK'
      BY <1>1, <2>1, <3>2 DEF Sound, TypeOK, list
    <3>5. RunsOwnContext' /\ Booting' /\ sp' # Torn
      BY <1>1, <2>1, <3>1, <3>2, <3>3 DEF Sound, RunsOwnContext, Booting
    <3>6. FirstRestore' /\ Restored'
      BY <1>1, <1>3, <2>1, <2>2, <3>1, <3>2, <3>3 DEF FirstRestore, Restored, list
    <3> QED BY <1>1, <1>2, <3>4, <3>5, <3>6 DEF Sound
  <2> QED BY <1>3, <2>3, <2>4
<1> QED BY <1>9, <1>10, <1>11, <1>12, <1>13 DEF Restore

\* create_task puts a context on the new task's own stack and links only
\* created tasks.
LEMMA CreateSteps ==
  ASSUME Sound, NEW x \in Threads, NEW t \in Tasks,
         NEW v \in Values, NEW i \in {irq, TRUE}, NewTask(x, t, v, i)
  PROVE  Sound'
<1> USE ThreadsAssumption, PcFacts
<1> USE DEF TypeOK, InUser, Threads
<1>1. /\ InUser /\ pc.thread = x /\ t \notin Created
      /\ stack' = [stack EXCEPT ![t] = User(t, Entry)]
      /\ cpu_state' = [cpu_state EXCEPT ![t] =
                         [regs |-> v, sp |-> t, irq |-> TRUE]]
      /\ c_task' = IF c_task = NULL THEN ready_list_head' ELSE c_task
      /\ irq' \in BOOLEAN
      /\ UNCHANGED <<pc, regs, sp, toie, ocie, tov, ocf, late, harmed>>
  BY DEF NewTask, Running, timer, Sound
<1>2. User(t, Entry) \in UserPc(t) /\ User(t, Entry) \in Pcs /\ User(t, Entry) # NULL
  BY PcsAssumption
<1>3. Created' = Created \cup {t}
  BY <1>1, <1>2 DEF Created, Sound
<1>4. /\ ready_list_head' \in Created' /\ ready_list_head' # NULL
      /\ ready_list_head # NULL => ready_list_head' = ready_list_head
      /\ next_node' \in [Tasks -> Tasks \cup {NULL}]
      /\ \A u \in Created' : next_node'[u] \in Created' \cup {NULL}
  <2> USE DEF Sound
  <2>1. CASE ready_list_head = NULL
    BY <1>3, <2>1 DEF NewTask, _add_task, PointersValid, Created
  <2>2. CASE ready_list_head # NULL
    <3>1. PICK tail \in Created :
            /\ next_node' = [next_node EXCEPT ![t] = NULL, ![tail] = t]
            /\ UNCHANGED ready_list_head
      BY <2>2 DEF NewTask, _add_task
    <3> QED BY <1>3, <2>2, <3>1 DEF PointersValid, Created
  <2> QED BY <2>1, <2>2
<1>5. c_task' \in Created' /\ c_task' # NULL /\ (c_task # NULL => c_task' = c_task)
  BY <1>1, <1>3, <1>4 DEF PointersValid, Created, Sound
<1>6. /\ cpu_state' \in [Tasks -> Contexts]
      /\ cpu_state'[t].irq = TRUE /\ cpu_state'[t].sp = t
      /\ stack'[t] = User(t, Entry)
      /\ \A u \in Tasks : u # t => cpu_state'[u] = cpu_state[u]
      /\ \A u \in Threads : u # t => stack'[u] = stack[u]
  <2>1. [regs |-> v, sp |-> t, irq |-> TRUE] \in Contexts
    BY DEF Contexts
  <2> QED BY <1>1, <2>1 DEF Sound
<1>7. TypeOK' /\ PointersValid'
  <2>1. TypeOK'
    BY <1>1, <1>2, <1>4, <1>5, <1>6 DEF Created, Sound
  <2>2. PointersValid'
    BY <1>1, <1>2, <1>4, <1>5, <1>6 DEF PointersValid, Created
  <2> QED BY <2>1, <2>2
<1>8. ContextsKept'
  <2> SUFFICES ASSUME NEW u \in Created' PROVE OwnContext(u)' \/ StartLost(u)'
    BY DEF ContextsKept
  <2>1. CASE u = t
    BY <1>2, <1>6, <2>1 DEF OwnContext
  <2>2. CASE u # t
    <3>1. u \in Created /\ u \in Tasks
      BY <1>3, <2>2 DEF Created
    <3>2. cpu_state'[u] = cpu_state[u] /\ stack'[u] = stack[u] /\ stack'[Main] = stack[Main]
      BY <1>6, <2>2, <3>1
    <3>3. OwnContext(u) => OwnContext(u)'
      BY <3>2 DEF OwnContext
    <3>4. StartLost(u) => StartLost(u)'
      BY <1>4, <3>1, <3>2 DEF StartLost, Created
    <3> QED BY <3>1, <3>3, <3>4 DEF Sound, ContextsKept
  <2> QED BY <2>1, <2>2
<1>9. Booting'
  <2>1. InMain => sp = Main /\ c_task = ready_list_head
    BY DEF Sound, Booting
  <2>2. InMain' = InMain /\ ~Starting /\ ~Starting'
    BY <1>1 DEF InMain, Starting
  <2>3. InMain' => sp' = Main /\ c_task' = ready_list_head'
    BY <1>1, <1>4, <2>1, <2>2
  <2>4. ASSUME InMain', NEW u \in Created'
        PROVE  cpu_state'[u].irq = TRUE /\ cpu_state'[u].sp = u /\ stack'[u] = User(u, Entry)
    BY <1>3, <1>6, <2>2, <2>4 DEF Sound, Booting, Created
  <2> QED BY <1>1, <2>2, <2>3, <2>4 DEF Booting, Sound
<1>10. RunsOwnContext'
  BY <1>1, <1>5 DEF RunsOwnContext, PointersValid, Created, Sound
<1>11. InUser' /\ (sp = Torn => pc.at = "sph")' /\ harmed' = FALSE
  BY <1>1 DEF Sound
<1>12. FirstRestore' /\ Restored'
  BY <1>11 DEF FirstRestore, Restored
<1> QED BY <1>7, <1>8, <1>9, <1>10, <1>11, <1>12 DEF Sound

\* Both forms of create_task are a NewTask.
LEMMA CreateForms ==
  ASSUME Sound, NEW x \in Threads, NEW t \in Tasks,
         create_task(x, t) \/ create_task_variadic(x, t)
  PROVE  \E v \in Values, i \in {irq, TRUE} : NewTask(x, t, v, i)
<1>1. cpu_state[t].regs \in Values
  BY DEF Sound, TypeOK, Contexts
<1> QED BY <1>1 DEF create_task, create_task_variadic

\* A create_task that fails changes only what no created task uses.
LEMMA CreateFailsStep ==
  ASSUME Sound, NEW x \in Threads, NEW t \in Tasks, create_task_fails(x, t)
  PROVE  Sound'
<1> USE ThreadsAssumption
<1>1. /\ InUser /\ t \notin Created
      /\ cpu_state' = [cpu_state EXCEPT ![t].irq = TRUE]
      /\ next_node' = [next_node EXCEPT ![t] = NULL]
      /\ UNCHANGED <<ready_list_head, c_task, stack, pc, regs, sp, irq,
                     toie, ocie, tov, ocf, late, harmed>>
  BY DEF create_task_fails, Running, InUser, cpu, timer
<1>2. /\ cpu_state' \in [Tasks -> Contexts]
      /\ \A u \in Created : cpu_state'[u] = cpu_state[u]
  BY <1>1 DEF Contexts, Created, Sound, TypeOK
<1>3. Created' = Created
  BY <1>1 DEF Created
<1>4. TypeOK' /\ PointersValid'
  BY <1>1, <1>2, <1>3 DEF Sound, TypeOK, PointersValid, Created
<1>5. ContextsKept'
  <2> SUFFICES ASSUME NEW u \in Created PROVE OwnContext(u)' \/ StartLost(u)'
    BY <1>3 DEF ContextsKept
  <2> QED BY <1>1, <1>2 DEF Sound, ContextsKept, OwnContext, StartLost
<1>6. Booting' /\ RunsOwnContext' /\ InUser'
  BY <1>1, <1>2, <1>3 DEF Sound, Booting, RunsOwnContext, InMain, Starting, InUser
<1>7. FirstRestore' /\ Restored'
  BY <1>6 DEF FirstRestore, Restored
<1> QED BY <1>1, <1>4, <1>5, <1>6, <1>7 DEF Sound

\* A switch away from user code finds the processor in the code of c_task and
\* on its stack, and saves it there.
LEMMA SwitchSteps ==
  ASSUME Sound, NEW e \in {"reti", "sei_ret"}, SwitchTo(e),
         InUser, pc.thread \in Tasks, harmed' = FALSE,
         late' \in {"no", "again"}, late' = "again" => LongMask,
         ocf' = (late' = "again"), UNCHANGED <<list, sp, toie, ocie, tov>>
  PROVE  Sound'
<1> USE ThreadsAssumption, PcFacts
<1> USE DEF TypeOK, InUser, Threads, list
<1>1. c_task \in Created /\ sp = c_task /\ pc \in UserPc(c_task) /\ pc \in Pcs
      /\ c_task \in Tasks /\ ~InMain
  BY DEF Sound, RunsOwnContext, PointersValid, Created, InMain
<1>2. /\ stack' = [stack EXCEPT ![c_task] = pc]
      /\ cpu_state' = [cpu_state EXCEPT ![c_task] =
                         [regs |-> regs, sp |-> c_task, irq |-> FALSE]]
      /\ regs' \in Values /\ irq' = FALSE /\ pc' = Kernel("sreg", e)
  BY <1>1 DEF SwitchTo, _SAVE_CTX
<1>3. Created' = Created
  BY <1>1, <1>2, PcsAssumption DEF Created, Sound
<1>4. c_task' \in Created /\ c_task' # NULL
  BY <1>1 DEF SwitchTo, schedule_round_robin, PointersValid, Created, Sound
<1>5. pc' \in KernelPc /\ pc'.at = "sreg" /\ pc'.exit = e
  BY <1>2
<1>6. TypeOK'
  <2>1. [regs |-> regs, sp |-> c_task, irq |-> FALSE] \in Contexts
    BY <1>1 DEF Contexts, Sound
  <2> QED BY <1>1, <1>2, <1>4, <1>5, <2>1 DEF Created, Sound
<1>7. /\ stack'[c_task] = pc /\ cpu_state'[c_task].sp = c_task
      /\ \A u \in Tasks : u # c_task => cpu_state'[u] = cpu_state[u]
      /\ \A u \in Threads : u # c_task => stack'[u] = stack[u]
  BY <1>1, <1>2 DEF Sound
<1>8. ContextsKept'
  <2> SUFFICES ASSUME NEW u \in Created PROVE OwnContext(u)' \/ StartLost(u)'
    BY <1>3 DEF ContextsKept
  <2>1. CASE u = c_task
    BY <1>1, <1>7, <2>1 DEF OwnContext
  <2>2. CASE u # c_task
    BY <1>1, <1>7, <2>2 DEF Sound, ContextsKept, OwnContext, StartLost, Created
  <2> QED BY <2>1, <2>2
<1>9. PointersValid'
  BY <1>1, <1>3, <1>4 DEF PointersValid, Created, Sound
<1>10. ~InUser' /\ pc'.exit # "ret" /\ ~Starting' /\ ~Looping' /\ ~InMain'
  BY <1>5 DEF Starting, Looping, InMain
<1>11. RunsOwnContext' /\ Booting' /\ FirstRestore'
  BY <1>1, <1>10 DEF Sound, RunsOwnContext, Booting, FirstRestore
<1>12. Restored' /\ sp' # Torn
  BY <1>1, <1>4, <1>5, <1>10 DEF Restored
<1> QED BY <1>6, <1>8, <1>9, <1>11, <1>12 DEF Sound

\* A switch out of the first restore sequence, or out of the loop that such a
\* switch leaves, saves main for the first task.
LEMMA LosingSteps ==
  ASSUME Sound, SwitchTo("reti"), CompbDue, NEW h \in Tasks, h = c_task,
         ~InUser, pc.exit = "ret", pc.at \notin {"sph", "regs"}, harmed' = FALSE,
         late' \in {"no", "again"}, late' = "again" => LongMask,
         ocf' = (late' = "again"), UNCHANGED <<list, sp, toie, ocie, tov>>
  PROVE  Sound' /\ StartLost(h)'
<1> USE ThreadsAssumption, PcFacts
<1> USE DEF TypeOK, InUser, Threads, list
<1>1. /\ h \in Created /\ h = ready_list_head
      /\ pc \in KernelPc /\ pc \in Pcs /\ ocf = TRUE /\ pc \in LoopPcs
  BY DEF Sound, FirstRestore, Restored, PointersValid, Created, CompbDue, LoopPcs
<1>2. sp = Main
  <2>1. CASE Looping
    BY <2>1 DEF Sound, FirstRestore
  <2>2. CASE ~Looping
    BY <1>1, <2>2 DEF Sound, FirstRestore, Starting, KernelPc
  <2> QED BY <2>1, <2>2
<1>3. stack[h] = User(h, Entry)
  <2>1. CASE Looping
    BY <1>1, <2>1 DEF Sound, ContextsKept, OwnContext, StartLost, Looping
  <2>2. CASE ~Looping
    BY <1>1, <2>2 DEF Sound, Booting, Starting
  <2> QED BY <2>1, <2>2
<1>4. /\ stack' = [stack EXCEPT ![Main] = pc]
      /\ cpu_state' = [cpu_state EXCEPT ![h] =
                         [regs |-> regs, sp |-> Main, irq |-> FALSE]]
      /\ regs' \in Values /\ irq' = FALSE /\ pc' = Kernel("sreg", "reti")
  BY <1>2 DEF SwitchTo, _SAVE_CTX
<1>5. Created' = Created
  BY <1>4 DEF Created, Sound
<1>6. c_task' \in Created /\ c_task' # NULL
  BY <1>1 DEF SwitchTo, schedule_round_robin, PointersValid, Created, Sound
<1>7. pc' \in KernelPc /\ pc'.at = "sreg" /\ pc'.exit = "reti"
  BY <1>4
<1>8. TypeOK'
  <2>1. [regs |-> regs, sp |-> Main, irq |-> FALSE] \in Contexts
    BY DEF Contexts, Sound
  <2> QED BY <1>1, <1>2, <1>4, <1>6, <1>7, <2>1 DEF Created, Sound
<1>9. /\ stack'[Main] = pc /\ cpu_state'[h].sp = Main
      /\ \A u \in Tasks : u # h => cpu_state'[u] = cpu_state[u]
      /\ \A u \in Tasks : stack'[u] = stack[u]
  BY <1>1, <1>4 DEF Sound
<1>10. StartLost(h)'
  BY <1>1, <1>3, <1>9 DEF StartLost
<1>11. ContextsKept'
  <2> SUFFICES ASSUME NEW u \in Created PROVE OwnContext(u)' \/ StartLost(u)'
    BY <1>5 DEF ContextsKept
  <2>1. CASE u = h
    BY <1>10, <2>1
  <2>2. CASE u # h
    BY <1>1, <1>9, <2>2 DEF Sound, ContextsKept, OwnContext, StartLost, Created
  <2> QED BY <2>1, <2>2
<1>12. PointersValid'
  BY <1>1, <1>5, <1>6 DEF PointersValid, Created, Sound
<1>13. ~InUser' /\ pc'.exit # "ret" /\ ~Starting' /\ ~Looping' /\ ~InMain'
  BY <1>7 DEF Starting, Looping, InMain
<1>14. RunsOwnContext' /\ Booting' /\ FirstRestore'
  BY <1>1, <1>13 DEF Sound, RunsOwnContext, Booting, FirstRestore, CompbDue
<1>15. Restored' /\ sp' # Torn
  BY <1>2, <1>6, <1>7, <1>13 DEF Restored
<1> QED BY <1>8, <1>10, <1>11, <1>12, <1>14, <1>15 DEF Sound

\* The timer interrupt is one or the other, or does harm.
LEMMA CompbCases ==
  ASSUME Sound, TIMER0_COMPB_vect, harmed' # TRUE
  PROVE  /\ harmed' = FALSE /\ CompbDue /\ SwitchTo("reti")
         /\ late' \in {"no", "again"} /\ (late' = "again" => LongMask)
         /\ ocf' = (late' = "again") /\ UNCHANGED <<list, sp, toie, ocie, tov>>
         /\ \/ InUser /\ pc.thread \in Tasks
            \/ /\ ~InUser /\ pc.exit = "ret" /\ pc.at \notin {"sph", "regs"}
               /\ c_task \in Tasks
<1> USE ThreadsAssumption, PcFacts
<1>1. /\ CompbDue /\ SwitchTo("reti") /\ UNCHANGED <<list, sp, toie, ocie, tov>>
      /\ ocf' = (late' = "again")
      /\ late' \in {"no"} \cup {a \in {"again"} : late = "period"}
      /\ harmed' = (~InUser /\ (late = "again" \/ pc.at \in {"sph", "regs"}))
  BY DEF TIMER0_COMPB_vect
<1>2. late' \in {"no", "again"} /\ (late' = "again" => LongMask)
  BY <1>1 DEF Sound, TypeOK
<1>3. harmed' = FALSE /\ (InUser \/ (late # "again" /\ pc.at \notin {"sph", "regs"}))
  BY <1>1
<1>4. CASE InUser
  <2>1. pc.thread # Main
    BY <1>1, <1>4 DEF Sound, Booting, InMain, CompbDue
  <2>2. pc.thread \in Tasks
    BY <1>4, <2>1 DEF Sound, TypeOK, InUser, Threads
  <2> QED BY <1>1, <1>2, <1>3, <1>4, <2>2
<1>5. CASE ~InUser
  <2>1. pc.exit = "ret" /\ c_task \in Tasks
    BY <1>1, <1>3, <1>5 DEF Sound, Restored, CompbDue, TypeOK
  <2> QED BY <1>1, <1>2, <1>3, <1>5, <2>1
<1> QED BY <1>4, <1>5

LEMMA CompbStep == ASSUME Sound, TIMER0_COMPB_vect PROVE SwitchInv'
<1>1. CASE harmed' = TRUE
  BY <1>1 DEF SwitchInv
<1>2. CASE harmed' # TRUE
  <2>1. CASE InUser
    <3>1. pc.thread \in Tasks
      BY <1>2, <2>1, CompbCases
    <3> QED BY <1>2, <2>1, <3>1, CompbCases, SwitchSteps DEF SwitchInv
  <2>2. CASE ~InUser
    BY <1>2, <2>2, CompbCases, LosingSteps DEF SwitchInv
  <2> QED BY <2>1, <2>2
<1> QED BY <1>1, <1>2

\* yield is called from user code.
LEMMA YieldStep == ASSUME Sound, NEW t \in Tasks, yield(t) PROVE Sound'
<1>1. /\ InUser /\ pc.thread \in Tasks /\ SwitchTo("sei_ret")
      /\ ocf' = FALSE /\ late' = "no"
      /\ UNCHANGED <<list, sp, toie, ocie, tov, harmed>>
  BY DEF yield, Running
<1>2. harmed' = FALSE /\ ocf' = (late' = "again")
  BY <1>1 DEF Sound
<1> QED BY <1>1, <1>2, SwitchSteps

\* Where harm is done nothing is followed any more.
LEMMA HarmedStays == ASSUME harmed = TRUE, [Next]_vars PROVE harmed' = TRUE
BY DEF Next, vars, Harmed, Restore, init_scheduler, kernel_start, create_task,
   create_task_variadic, create_task_fails, NewTask, SetIrq, UserStep, yield,
   CompareMatch, TimerOverflow, TIMER0_COMPB_vect, TIMER0_OVF_vect, Running,
   RestoreSreg, RestoreSpl, RestoreSph, RestoreRegs, RestoreStep, LeaveKernel,
   Undisturbed

\* A step that changes nothing.
LEMMA StutterStep == ASSUME Sound, UNCHANGED vars PROVE Sound'
<1>1. ContextsKept' /\ PointersValid' /\ Created' = Created
  BY Kept DEF vars, list
<1> QED
  BY <1>1 DEF vars, Sound, TypeOK, RunsOwnContext, Booting, FirstRestore,
     Restored, InMain, Starting, Looping, InUser

\* Every step of Next keeps SwitchInv.
LEMMA NextSwitchInv == SwitchInv /\ [Next]_vars => SwitchInv'
<1> SUFFICES ASSUME SwitchInv, [Next]_vars PROVE SwitchInv'
  OBVIOUS
<1>1. CASE harmed = TRUE
  BY <1>1, HarmedStays DEF SwitchInv
<1>2. CASE Sound
  <2>1. CASE UNCHANGED vars
    BY <1>2, <2>1, StutterStep DEF SwitchInv
  <2>2. ASSUME NEW x \in Threads, NEW t \in Tasks,
               create_task(x, t) \/ create_task_variadic(x, t)
        PROVE  Sound'
    BY <1>2, <2>2, CreateForms, CreateSteps
  <2>3. CASE Next
    <3>1. Harmed => UNCHANGED vars
      BY DEF Harmed
    <3>2. Sound' => SwitchInv'
      BY DEF SwitchInv
    <3> QED
      BY <1>2, <2>1, <2>2, <2>3, <3>1, <3>2, TimerSteps, StartStep, UserSteps,
         RestoreSteps, CreateFailsStep, CompbStep, YieldStep
         DEF Next, Threads
  <2> QED BY <2>1, <2>3
<1> QED BY <1>1, <1>2 DEF SwitchInv

\* From reset on, SwitchInv holds.
THEOREM SwitchInvariant == Spec => []SwitchInv
<1>1. Init => SwitchInv
  BY InitSound DEF SwitchInv
<1>2. SwitchInv /\ [Next]_vars => SwitchInv'
  BY NextSwitchInv
<1> QED BY <1>1, <1>2, PTL DEF Spec

\* As long as no interrupt has come when the kernel cannot stand it, every task
\* runs on its own context, every other context is kept intact, but for the one
\* that kernel_start may lose, and no switch starts inside another.
THEOREM Integrity == Spec => []ContextIntegrity
<1>1. SwitchInv => ContextIntegrity
  BY DEF SwitchInv, Sound, ContextIntegrity, SwitchNotInterrupted, CompbDue,
     Restored, FirstRestore
<1> QED BY <1>1, SwitchInvariant, PTL

(***************************************************************************)
(* Where an interrupt can do harm.                                         *)
(***************************************************************************)
\* Who has run is put back with interrupts disabled: only a context that
\* create_task made is restored with interrupts enabled, _RESTORE_CTX is
\* entered with interrupts disabled but for the first time, and no compare
\* match is late before a task has run.
Masked ==
  /\ \A t \in Created : cpu_state[t].irq = TRUE => stack[t] = User(t, Entry)
  /\ ~InUser /\ pc.at # "sreg" /\ ~Looping /\ irq = TRUE =>
       cpu_state[c_task].irq = TRUE
  /\ ~InUser /\ pc.at = "sreg" /\ pc.exit # "ret" => irq = FALSE
  /\ InMain \/ Starting => late = "no"

\* The steps that switch the task: its context is saved with irq FALSE.
LEMMA MaskedSwitch ==
  ASSUME Sound, Masked, NEW e \in {"reti", "sei_ret"}, SwitchTo(e),
         c_task \in Created, sp \in {c_task, Main}
  PROVE  Masked'
<1> USE ThreadsAssumption, PcFacts
<1>1. ~InUser' /\ pc'.at = "sreg" /\ pc'.exit = e /\ irq' = FALSE
  BY DEF SwitchTo, InUser
<1>2. ~InMain' /\ ~Starting'
  BY <1>1 DEF InMain, Starting
<1>3. ASSUME NEW t \in Created', cpu_state'[t].irq = TRUE
      PROVE  stack'[t] = User(t, Entry)
  <2>1. t \in Tasks /\ cpu_state \in [Tasks -> Contexts]
        /\ stack \in [Threads -> Pcs \cup {NULL}]
    BY DEF Created, Sound, TypeOK
  <2>2. t # c_task
    BY <1>3, <2>1 DEF SwitchTo, _SAVE_CTX
  <2>3. stack'[t] = stack[t] /\ cpu_state'[t] = cpu_state[t]
    BY <2>1, <2>2 DEF SwitchTo, _SAVE_CTX, Threads
  <2>4. t \in Created
    BY <2>1, <2>3 DEF Created
  <2> QED BY <1>3, <2>3, <2>4 DEF Masked
<1> QED BY <1>1, <1>2, <1>3 DEF Masked

\* Steps that leave what is kept and the processor alone, and those of user
\* code that change it.
LEMMA MaskedPlain ==
  ASSUME Sound, Masked, UNCHANGED <<c_task, cpu_state, stack>>,
         \/ UNCHANGED cpu /\ late' = late
         \/ CompareMatch
         \/ InUser /\ InUser' /\ pc'.thread = pc.thread /\ late' = late
         \/ kernel_start
  PROVE  Masked'
<1>1. Created' = Created
  BY DEF Created
<1>2. CASE UNCHANGED cpu /\ late' = late
  BY <1>1, <1>2 DEF Masked, InUser, InMain, Starting, Looping, cpu
<1>3. CASE CompareMatch
  <2>1. UNCHANGED cpu /\ (InUser \/ Looping) /\ (ocf => pc.thread \in Tasks)
        /\ late' = IF ocf THEN "period" ELSE "no"
    BY <1>3 DEF CompareMatch
  <2> QED
    BY <1>1, <2>1, ThreadsAssumption
       DEF Masked, InUser, InMain, Starting, Looping, cpu
<1>4. CASE InUser /\ InUser' /\ pc'.thread = pc.thread /\ late' = late
  BY <1>1, <1>4 DEF Masked, InMain, Starting
<1>5. CASE kernel_start
  <2>1. InMain /\ pc' = Kernel("sreg", "ret") /\ late' = late
    BY <1>5 DEF kernel_start, Running, InMain
  <2>2. ~InUser' /\ pc'.at = "sreg" /\ pc'.exit = "ret"
    BY <2>1, PcFacts DEF InUser
  <2> QED BY <1>1, <2>1, <2>2 DEF Masked, InMain, Starting
<1> QED BY <1>2, <1>3, <1>4, <1>5

\* The restore sequence puts back the flag it finds.
LEMMA MaskedRestore == ASSUME Sound, Masked, Restore PROVE Masked'
<1> USE ThreadsAssumption, PcFacts
<1>1. UNCHANGED <<c_task, cpu_state, stack, late>> /\ ~InUser
  BY DEF Restore, RestoreSreg, RestoreSpl, RestoreSph, RestoreRegs, RestoreStep,
         LeaveKernel, timer, InUser
<1>2. Created' = Created /\ pc \in KernelPc /\ c_task \in Created
  BY <1>1 DEF Created, InUser, Sound, TypeOK, Restored, PointersValid
<1>3. CASE LeaveKernel
  <2>1. pc' = stack[cpu_state[c_task].sp]
    BY <1>1, <1>3 DEF LeaveKernel, Sound, Restored
  <2>2. CASE OwnContext(c_task)
    <3>1. InUser' /\ pc'.thread = c_task /\ c_task \in Tasks
      BY <1>2, <2>1, <2>2 DEF OwnContext, InUser, Created, Threads
    <3>2. ~InMain' /\ ~Starting'
      BY <3>1 DEF InMain, Starting
    <3> QED BY <1>1, <1>2, <3>1, <3>2 DEF Masked
  <2>3. CASE StartLost(c_task)
    <3>1. pc' \in KernelPc /\ pc'.exit = "ret"
      BY <2>1, <2>3 DEF StartLost, LoopPcs
    <3>2. ~InUser' /\ Looping'
      BY <1>1, <2>3, <3>1 DEF StartLost, Looping, InUser
    <3>3. ~InMain' /\ ~Starting'
      BY <3>2 DEF InMain, Starting
    <3> QED BY <1>1, <1>2, <3>1, <3>2, <3>3 DEF Masked
  <2> QED BY <1>2, <2>2, <2>3 DEF Sound, ContextsKept
<1>4. CASE ~LeaveKernel
  <2>1. PICK p \in {"spl", "sph", "regs", "exit"} : pc' = Kernel(p, pc.exit)
    BY <1>4 DEF Restore, RestoreSreg, RestoreSpl, RestoreSph, RestoreRegs, RestoreStep
  <2>2. pc.exit \in {"reti", "sei_ret", "ret"}
    BY <1>2 DEF KernelPc
  <2>3. pc'.at = p /\ pc'.exit = pc.exit /\ ~InUser'
    BY <2>1, <2>2 DEF InUser
  <2>4. Looping' = Looping /\ Starting' = Starting /\ ~InMain'
    BY <1>1, <2>3 DEF Looping, Starting, InMain
  <2>5. irq' = cpu_state[c_task].irq \/ (pc.at # "sreg" /\ irq' = irq)
    BY <1>4 DEF Restore, RestoreSreg, RestoreSpl, RestoreSph, RestoreRegs, RestoreStep
  <2> QED BY <1>1, <1>2, <2>3, <2>4, <2>5 DEF Masked
<1> QED BY <1>3, <1>4

\* A new context is a fresh one.
LEMMA MaskedCreate ==
  ASSUME Sound, Masked, NEW x \in Threads, NEW t \in Tasks,
         create_task(x, t) \/ create_task_variadic(x, t) \/ create_task_fails(x, t)
  PROVE  Masked'
<1>1. InUser /\ t \notin Created /\ pc' = pc /\ late' = late
  BY DEF create_task, create_task_variadic, create_task_fails, NewTask, Running,
         timer, cpu
<1>2. InUser' /\ InMain' = InMain /\ ~Starting'
  BY <1>1 DEF InUser, InMain, Starting
<1>3. cpu_state \in [Tasks -> Contexts] /\ stack \in [Threads -> Pcs \cup {NULL}]
  BY DEF Sound, TypeOK
<1>4. ASSUME NEW u \in Created', cpu_state'[u].irq = TRUE
      PROVE  stack'[u] = User(u, Entry)
  <2>1. CASE create_task_fails(x, t)
    <3>1. u \in Created /\ u # t /\ stack' = stack
      BY <1>1, <2>1 DEF create_task_fails, Created
    <3>2. cpu_state'[u] = cpu_state[u]
      BY <1>3, <2>1, <3>1 DEF create_task_fails, Created
    <3> QED BY <1>4, <3>1, <3>2 DEF Masked
  <2>2. CASE ~create_task_fails(x, t)
    <3>1. PICK v : cpu_state' =
                     [cpu_state EXCEPT ![t] = [regs |-> v, sp |-> t, irq |-> TRUE]]
      BY <2>2 DEF create_task, create_task_variadic, NewTask
    <3>2. stack' = [stack EXCEPT ![t] = User(t, Entry)]
      BY <2>2 DEF create_task, create_task_variadic, NewTask
    <3>3. CASE u = t
      BY <1>3, <3>2, <3>3 DEF Threads
    <3>4. CASE u # t
      <4>1. u \in Created /\ cpu_state'[u] = cpu_state[u] /\ stack'[u] = stack[u]
        BY <1>3, <3>1, <3>2, <3>4 DEF Created, Threads
      <4> QED BY <1>4, <4>1 DEF Masked
    <3> QED BY <3>3, <3>4
  <2> QED BY <2>1, <2>2
<1> QED BY <1>1, <1>2, <1>4 DEF Masked

\* An interrupted switch that does no harm is the first one, on main's stack.
LEMMA MaskedCompb ==
  ASSUME Sound, Masked, TIMER0_COMPB_vect, harmed' # TRUE PROVE Masked'
<1>1. SwitchTo("reti") /\ CompbDue
      /\ harmed' = (~InUser /\ (late = "again" \/ pc.at \in {"sph", "regs"}))
  BY DEF TIMER0_COMPB_vect
<1>2. CASE InUser
  <2>1. pc.thread \in Tasks
    BY <1>2, CompbCases
  <2>2. c_task = pc.thread /\ sp = c_task /\ c_task \in Created
    BY <1>2, <2>1, ThreadsAssumption DEF Sound, RunsOwnContext, PointersValid
  <2> QED BY <1>1, <2>2, MaskedSwitch
<1>3. CASE ~InUser
  <2>1. c_task \in Created /\ pc.exit = "ret" /\ pc.at \notin {"sph", "regs"}
    BY <1>1, <1>3 DEF Sound, Restored, PointersValid, CompbDue
  <2>2. sp = Main
    <3>1. pc \in KernelPc
      BY <1>3, PcFacts DEF Sound, TypeOK, InUser
    <3>2. pc.at \in {"sreg", "spl", "exit"}
      BY <2>1, <3>1 DEF KernelPc
    <3> QED BY <1>1, <1>3, <2>1, <3>2
               DEF Sound, FirstRestore, Starting, CompbDue
  <2> QED BY <1>1, <2>1, <2>2, MaskedSwitch
<1> QED BY <1>2, <1>3

\* Every step that does no harm keeps Masked.
LEMMA NextMasked ==
  ASSUME Sound, Masked, [Next]_vars, harmed' # TRUE PROVE Masked'
<1>1. CASE UNCHANGED vars \/ Harmed
  <2>1. UNCHANGED vars
    BY <1>1 DEF Harmed
  <2> QED BY <2>1, MaskedPlain DEF vars, cpu
<1>2. CASE init_scheduler \/ TimerOverflow \/ kernel_start \/ CompareMatch
  BY <1>2, MaskedPlain
     DEF init_scheduler, TimerOverflow, kernel_start, CompareMatch, cpu
<1>3. CASE TIMER0_OVF_vect
  <2>1. UNCHANGED <<c_task, cpu_state, cpu, late>> /\ sp # Torn
    BY <1>3 DEF TIMER0_OVF_vect
  <2>2. stack' = stack
    BY <1>3, <2>1 DEF TIMER0_OVF_vect
  <2> QED BY <2>1, <2>2, MaskedPlain
<1>4. ASSUME NEW x \in Threads, NEW t \in Tasks,
             create_task(x, t) \/ create_task_variadic(x, t) \/ create_task_fails(x, t)
      PROVE  Masked'
  BY <1>4, MaskedCreate
<1>5. ASSUME NEW x \in Threads, NEW b \in BOOLEAN, SetIrq(x, b) PROVE Masked'
  BY <1>5, MaskedPlain DEF SetIrq, Running, InUser, timer
<1>6. ASSUME NEW t \in Tasks, UserStep(t) PROVE Masked'
  <2>1. InUser /\ InUser' /\ pc'.thread = pc.thread /\ late' = late
        /\ UNCHANGED <<c_task, cpu_state, stack>>
    BY <1>6 DEF UserStep, Running, InUser, User, timer
  <2> QED BY <2>1, MaskedPlain
<1>7. ASSUME NEW t \in Tasks, yield(t) PROVE Masked'
  <2>1. InUser /\ pc.thread = t /\ SwitchTo("sei_ret")
    BY <1>7 DEF yield, Running
  <2>2. sp = c_task /\ c_task \in Created
    BY <2>1, ThreadsAssumption DEF Sound, RunsOwnContext, PointersValid
  <2> QED BY <2>1, <2>2, MaskedSwitch
<1>8. CASE Restore
  BY <1>8, MaskedRestore
<1>9. CASE TIMER0_COMPB_vect
  BY <1>9, MaskedCompb
<1> QED
  BY <1>1, <1>2, <1>3, <1>4, <1>5, <1>6, <1>7, <1>8, <1>9 DEF Next

\* An interrupt that does harm meets the restore of a fresh context, or the
\* loop.
LEMMA HarmStep ==
  ASSUME Sound, Masked, [Next]_vars, harmed' # harmed, ~Looping
  PROVE  Fresh(c_task)
<1>1. TIMER0_COMPB_vect \/ TIMER0_OVF_vect
  BY DEF Next, vars, Harmed, Restore, init_scheduler, kernel_start, create_task,
     create_task_variadic, create_task_fails, NewTask, SetIrq, UserStep, yield,
     CompareMatch, TimerOverflow, RestoreSreg, RestoreSpl, RestoreSph,
     RestoreRegs, RestoreStep, LeaveKernel, timer
<1>2. ~InUser /\ irq = TRUE /\ pc.at # "sreg"
  <2>1. CASE TIMER0_COMPB_vect
    <3>1. ~InUser /\ (late = "again" \/ pc.at \in {"sph", "regs"}) /\ irq
      BY <2>1 DEF TIMER0_COMPB_vect, CompbDue, Sound, TypeOK
    <3>2. late = "again" => ~Starting
      BY DEF Masked
    <3> QED BY <3>1, <3>2 DEF Masked, Starting, Sound, TypeOK
  <2>2. CASE TIMER0_OVF_vect
    <3>1. sp = Torn /\ irq
      BY <2>2 DEF TIMER0_OVF_vect, OvfDue, Sound, TypeOK
    <3> QED BY <3>1 DEF Sound, TypeOK, InUser
  <2> QED BY <1>1, <2>1, <2>2
<1>3. cpu_state[c_task].irq = TRUE /\ c_task \in Created
  BY <1>2 DEF Masked, Sound, Restored, PointersValid
<1> QED BY <1>3 DEF Masked, Fresh

\* Masked until harm is done: preserved by every step.
MaskedInv == harmed = TRUE \/ Masked

LEMMA NextMaskedInv ==
  ASSUME SwitchInv, MaskedInv, [Next]_vars PROVE MaskedInv'
<1>1. CASE harmed = TRUE
  BY <1>1, HarmedStays DEF MaskedInv
<1>2. CASE harmed' = TRUE
  BY <1>2 DEF MaskedInv
<1>3. CASE harmed # TRUE /\ harmed' # TRUE
  <2>1. Sound /\ Masked
    BY <1>3 DEF SwitchInv, MaskedInv
  <2>2. Masked'
    BY <1>3, <2>1, NextMasked
  <2> QED BY <2>2 DEF MaskedInv
<1> QED BY <1>1, <1>2, <1>3

\* Torn stack pointers and nested switches do harm only where a task is
\* dispatched for the first time, or in the loop of a lost first task: every
\* other switch is safe from every interrupt.
THEOREM HarmOnlyFirst == Spec => HarmAtFirstDispatch
<1> DEFINE IInv == SwitchInv /\ MaskedInv
<1>1. Init => IInv
  <2> SUFFICES ASSUME Init PROVE SwitchInv /\ MaskedInv
    OBVIOUS
  <2>1. InUser /\ late = "no"
    BY DEF Init, InUser, User
  <2>2. Created = {}
    BY DEF Init, Created, Threads
  <2>3. Masked
    BY <2>1, <2>2 DEF Masked
  <2> QED BY <2>3, InitSound DEF SwitchInv, MaskedInv
<1>2. IInv /\ [Next]_vars => IInv'
  BY NextSwitchInv, NextMaskedInv
<1>3. IInv /\ [Next]_vars => [harmed' = harmed \/ Fresh(c_task) \/ Looping]_vars
  <2> SUFFICES ASSUME SwitchInv, MaskedInv, [Next]_vars, harmed' # harmed, ~Looping
               PROVE  Fresh(c_task)
    OBVIOUS
  <2>1. harmed # TRUE
    BY HarmedStays
  <2>2. Sound /\ Masked
    BY <2>1 DEF SwitchInv, MaskedInv
  <2> QED BY <2>2, HarmStep
<1> QED BY <1>1, <1>2, <1>3, PTL DEF Spec, HarmAtFirstDispatch

(***************************************************************************)
(* ContextSwitch implements VirtualCpu.                                    *)
(***************************************************************************)
\* TaskViews, point by point.
LEMMA ViewsFunction ==
  /\ TaskViews = [u \in Tasks |-> TaskViews[u]]
  /\ TaskViews' = [u \in Tasks |-> TaskViews'[u]]
  /\ \A u \in Tasks : TaskViews[u] = TaskView(u) /\ TaskViews'[u] = TaskView(u)'
BY DEF TaskViews

\* A step that leaves the user code, the set of tasks and their contexts
\* alone is a stuttering step of VirtualCpu.
LEMMA SameViews ==
  ASSUME Sound, Created' = Created, RunningTask' = RunningTask,
         \A t \in Created : TaskView(t)' = TaskView(t)
  PROVE  UNCHANGED V!vars
<1>1. \A t \in Tasks : TaskView(t)' = TaskView(t)
  BY DEF TaskView
<1> QED BY <1>1 DEF V!vars, TaskViews

\* What is kept for a created task is a view, or Main where it is lost.
ViewsTyped ==
  \A t \in Created :
    /\ TaskView(t) # NULL
    /\ TaskView(t) \in V!Views \/ (TaskView(t) = Main /\ StartLost(t))
    /\ RunningTask = t \/ OwnContext(t) => TaskView(t) \in V!Views

LEMMA ViewType == Sound => ViewsTyped
<1> SUFFICES ASSUME Sound, NEW t \in Created
             PROVE  /\ TaskView(t) # NULL
                    /\ TaskView(t) \in V!Views \/ (TaskView(t) = Main /\ StartLost(t))
                    /\ RunningTask = t \/ OwnContext(t) => TaskView(t) \in V!Views
  BY DEF ViewsTyped
<1> USE ThreadsAssumption, PcFacts
<1>1. t \in Tasks /\ cpu_state[t] \in Contexts /\ (OwnContext(t) \/ StartLost(t))
  BY DEF Sound, TypeOK, ContextsKept, Created
<1>2. CASE RunningTask = t
  <2>1. pc \in UserPc(t)
    BY <1>1, <1>2 DEF RunningTask, Sound, TypeOK, InUser
  <2>2. TaskView(t) \in V!Views
    BY <1>1, <1>2, <2>1 DEF TaskView, V!Views, UserPc, Sound, TypeOK
  <2> QED BY <2>2, ViewsAssumption
<1>3. CASE RunningTask # t /\ OwnContext(t)
  <2>1. cpu_state[t].sp # Main /\ stack[t] \in UserPc(t) /\ cpu_state[t].regs \in Values
    BY <1>1, <1>3 DEF OwnContext, Contexts
  <2>2. TaskView(t) = [pos |-> stack[t].pos, regs |-> cpu_state[t].regs, irq |-> TRUE]
    BY <1>1, <1>3, <2>1 DEF TaskView
  <2>3. TaskView(t) \in V!Views
    BY <2>1, <2>2 DEF V!Views, UserPc
  <2> QED BY <2>3, ViewsAssumption
<1>4. CASE RunningTask # t /\ ~OwnContext(t)
  <2>1. StartLost(t) /\ TaskView(t) = Main
    BY <1>1, <1>4 DEF TaskView, StartLost
  <2> QED BY <1>4, <2>1
<1> QED BY <1>2, <1>3, <1>4

\* The same after a step.
LEMMA ViewTypeNext == Sound' => ViewsTyped'
BY ViewType, PTL

\* Timer events, boot and the writes of _RESTORE_CTX leave all views alone.
LEMMA RefineStutter ==
  ASSUME Sound, harmed' # TRUE,
         \/ CompareMatch \/ TimerOverflow \/ TIMER0_OVF_vect
         \/ init_scheduler \/ kernel_start
         \/ RestoreSreg \/ RestoreSpl \/ RestoreSph \/ RestoreRegs
  PROVE  UNCHANGED V!vars
<1> USE ThreadsAssumption, PcFacts
<1>1. UNCHANGED <<stack, cpu_state>>
  BY DEF CompareMatch, TimerOverflow, TIMER0_OVF_vect, init_scheduler, kernel_start,
     RestoreSreg, RestoreSpl, RestoreSph, RestoreRegs, RestoreStep
<1>2. UNCHANGED <<pc, regs, irq>> \/ (RunningTask = NULL /\ RunningTask' = NULL)
  BY DEF CompareMatch, TimerOverflow, TIMER0_OVF_vect, init_scheduler, kernel_start,
     RestoreSreg, RestoreSpl, RestoreSph, RestoreRegs, RestoreStep, cpu, Running,
     RunningTask, InUser, Sound, TypeOK, KernelPc
<1>3. RunningTask' = RunningTask /\ Created' = Created
  BY <1>1, <1>2 DEF RunningTask, InUser, Created
<1>4. \A t \in Created : TaskView(t)' = TaskView(t)
  BY <1>1, <1>2, <1>3 DEF TaskView, Created
<1> QED BY <1>3, <1>4, SameViews

\* The instructions of a task change its own view only.
LEMMA RefineUser ==
  ASSUME Sound, Sound', NEW x \in Threads,
         (x \in Tasks /\ UserStep(x)) \/ \E b \in BOOLEAN : SetIrq(x, b)
  PROVE  [V!Next]_(V!vars)
<1> USE ThreadsAssumption, PcFacts
<1>1. /\ UNCHANGED <<stack, cpu_state>> /\ RunningTask' = RunningTask
      /\ InUser /\ pc.thread = x
  BY DEF UserStep, SetIrq, Running, RunningTask, InUser, Threads, UserPc, User
<1>2. Created' = Created
  BY <1>1 DEF Created
<1>3. \A t \in Created : t # RunningTask => TaskView(t)' = TaskView(t)
  BY <1>1, <1>2 DEF TaskView, Created
<1>4. CASE x = Main
  <2>1. RunningTask = NULL
    BY <1>1, <1>4 DEF RunningTask
  <2> QED BY <1>1, <1>2, <1>3, <2>1, SameViews DEF Created
<1>5. CASE x \in Tasks
  <2>1. RunningTask = x /\ x \in Created /\ x # NULL
    BY <1>1, <1>5 DEF RunningTask, Sound, RunsOwnContext, PointersValid
  <2>2. TaskView(x)' \in V!Views
    <3>1. x \in Created' /\ RunningTask' = x
      BY <1>1, <1>2, <2>1
    <3> QED BY <3>1, ViewTypeNext DEF ViewsTyped
  <2>3. \A t \in Tasks : t # x => TaskView(t)' = TaskView(t)
    BY <1>2, <1>3, <2>1 DEF TaskView
  <2>4. TaskViews' = [TaskViews EXCEPT ![x] = TaskView(x)']
    BY <2>1, <2>3 DEF TaskViews
  <2> QED BY <1>1, <2>1, <2>2, <2>4 DEF V!Next, V!Step
<1> QED BY <1>4, <1>5 DEF Threads

\* create_task adds a view; the variadic form may set its caller's flag.
LEMMA RefineCreate ==
  ASSUME Sound, NEW x \in Threads, NEW t \in Tasks,
         NEW v \in Values, NEW i \in {irq, TRUE}, NewTask(x, t, v, i)
  PROVE  V!Next
<1> USE ThreadsAssumption, PcFacts
<1>1. /\ InUser /\ pc.thread = x /\ t \notin Created
      /\ stack' = [stack EXCEPT ![t] = User(t, Entry)]
      /\ cpu_state' = [cpu_state EXCEPT ![t] =
                         [regs |-> v, sp |-> t, irq |-> TRUE]]
      /\ irq' \in {irq, TRUE}
      /\ UNCHANGED <<pc, regs, sp>>
  BY DEF NewTask, Running
<1>2. RunningTask' = RunningTask
  BY <1>1 DEF RunningTask, InUser
<1>3. RunningTask # t
  BY <1>1 DEF RunningTask, Sound, RunsOwnContext, PointersValid
<1>4. Created' = Created \cup {t}
  BY <1>1, PcsAssumption DEF Created, Sound, TypeOK, Threads
<1>5. v \in Values
  OBVIOUS
<1>6. TaskView(t)' = V!Fresh(v) /\ TaskView(t) = NULL
  BY <1>1, <1>2, <1>3, <1>4 DEF TaskView, V!Fresh, User, Sound, TypeOK, Threads
<1>7. \A u \in Tasks : u # t /\ u # RunningTask => TaskView(u)' = TaskView(u)
  BY <1>1, <1>2, <1>4 DEF TaskView, Sound, TypeOK, Threads
<1>8. CASE RunningTask = NULL \/ irq' = irq
  <2>1. \A u \in Tasks : u # t => TaskView(u)' = TaskView(u)
    <3> SUFFICES ASSUME NEW u \in Tasks, u # t PROVE TaskView(u)' = TaskView(u)
      OBVIOUS
    <3>1. CASE u # RunningTask
      BY <1>7, <3>1
    <3>2. CASE u = RunningTask
      <4>1. irq' = irq
        BY <1>8, <3>2
      <4> QED BY <1>1, <1>2, <1>4, <3>2, <4>1 DEF TaskView
    <3> QED BY <3>1, <3>2
  <2>2. TaskViews' = [TaskViews EXCEPT ![t] = V!Fresh(v)]
    BY <1>6, <2>1, ViewsFunction
  <2>3. TaskViews[t] = NULL
    BY <1>6 DEF TaskViews
  <2> QED BY <1>2, <1>5, <2>2, <2>3 DEF V!Next, V!Create
<1>9. CASE RunningTask # NULL /\ irq' # irq
  <2>1. PICK r \in Tasks : r = RunningTask /\ r \in Created
    BY <1>9 DEF RunningTask, Sound, RunsOwnContext, PointersValid
  <2>2. irq' = TRUE
    BY <1>1, <1>9 DEF Sound, TypeOK
  <2>3. TaskView(r)' = V!WithIrq(TaskView(r))
    <3>1. TaskView(r) = [pos |-> pc.pos, regs |-> regs, irq |-> irq]
      BY <2>1 DEF TaskView
    <3>2. TaskView(r)' = [pos |-> pc.pos, regs |-> regs, irq |-> TRUE]
      BY <1>1, <1>2, <1>4, <2>1, <2>2 DEF TaskView
    <3> QED BY <3>1, <3>2 DEF V!WithIrq
  <2>4. TaskViews' = [TaskViews EXCEPT ![t] = V!Fresh(v),
                                       ![r] = V!WithIrq(@)]
    BY <1>3, <1>6, <1>7, <2>1, <2>3, ViewsFunction
  <2>5. TaskViews[t] = NULL
    BY <1>6 DEF TaskViews
  <2> QED BY <1>2, <1>5, <1>9, <2>1, <2>4, <2>5 DEF V!Next, V!CreateVariadic
<1> QED BY <1>8, <1>9

\* So does a create_task that fails.
LEMMA RefineCreateFails ==
  ASSUME Sound, NEW x \in Threads, NEW t \in Tasks, create_task_fails(x, t)
  PROVE  UNCHANGED V!vars
<1>1. RunningTask' = RunningTask /\ Created' = Created
  BY DEF create_task_fails, RunningTask, InUser, Created, cpu
<1>2. \A u \in Created : TaskView(u)' = TaskView(u)
  BY <1>1 DEF create_task_fails, TaskView, Created, cpu, Sound, TypeOK
<1> QED BY <1>1, <1>2, SameViews

\* The switch saves the view of the task that ran.
LEMMA RefineSwitch ==
  ASSUME Sound, NEW e \in {"reti", "sei_ret"}, SwitchTo(e),
         NEW r \in Tasks, InUser, pc.thread = r
  PROVE  /\ RunningTask = r /\ r \in Created /\ RunningTask' = NULL
         /\ TaskView(r) = [pos |-> pc.pos, regs |-> regs, irq |-> irq]
         /\ TaskViews' = [TaskViews EXCEPT ![r] =
                            [pos |-> pc.pos, regs |-> regs, irq |-> TRUE]]
<1> USE ThreadsAssumption, PcFacts
<1>1. c_task = r /\ r \in Created /\ sp = r /\ pc \in Pcs
  BY DEF Sound, RunsOwnContext, PointersValid, InUser, TypeOK
<1>2. RunningTask = r /\ RunningTask' = NULL
  BY DEF SwitchTo, RunningTask, InUser
<1>3. /\ stack' = [stack EXCEPT ![r] = pc]
      /\ cpu_state' = [cpu_state EXCEPT ![r] =
                         [regs |-> regs, sp |-> r, irq |-> FALSE]]
  BY <1>1 DEF SwitchTo, _SAVE_CTX
<1>4. Created' = Created
  BY <1>1, <1>3, PcsAssumption DEF Created, Sound, TypeOK, Threads
<1>5. /\ TaskView(r) = [pos |-> pc.pos, regs |-> regs, irq |-> irq]
      /\ TaskView(r)' = [pos |-> pc.pos, regs |-> regs, irq |-> TRUE]
  BY <1>1, <1>2, <1>3, <1>4 DEF TaskView, Sound, TypeOK, Threads
<1>6. \A u \in Tasks : u # r => TaskView(u)' = TaskView(u)
  BY <1>1, <1>2, <1>3, <1>4 DEF TaskView, Sound, TypeOK, Threads
<1>7. TaskViews' = [TaskViews EXCEPT ![r] =
                      [pos |-> pc.pos, regs |-> regs, irq |-> TRUE]]
  BY <1>5, <1>6, ViewsFunction
<1> QED BY <1>1, <1>2, <1>5, <1>7

\* The timer interrupt is a Preempt of VirtualCpu where it finds a task ...
LEMMA RefineCompbUser ==
  ASSUME Sound, TIMER0_COMPB_vect, harmed' # TRUE, InUser PROVE V!Next
<1>1. PICK r \in Tasks : pc.thread = r
  BY CompbCases
<1>2. irq = TRUE /\ SwitchTo("reti")
  BY DEF TIMER0_COMPB_vect, CompbDue, Sound, TypeOK
<1>3. /\ RunningTask = r /\ RunningTask' = NULL
      /\ TaskView(r) = [pos |-> pc.pos, regs |-> regs, irq |-> TRUE]
      /\ TaskViews' = [TaskViews EXCEPT ![r] = TaskView(r)]
  BY <1>1, <1>2, RefineSwitch
<1>4. TaskViews' = TaskViews
  <2>1. \A u \in Tasks : TaskViews'[u] = TaskViews[u]
    BY <1>3, ViewsFunction
  <2> QED BY <2>1, ViewsFunction
<1>5. TaskViews[r].irq
  BY <1>3, ViewsFunction
<1> QED BY <1>3, <1>4, <1>5, ThreadsAssumption DEF V!Next, V!Preempt

\* ... and in the kernel a Lose of the first task, or nothing where it is lost
\* already.
LEMMA RefineCompbKernel ==
  ASSUME Sound, TIMER0_COMPB_vect, harmed' # TRUE, ~InUser PROVE [V!Next]_(V!vars)
<1> USE ThreadsAssumption, PcFacts
<1>1. PICK h \in Tasks : h = c_task
  BY CompbCases
<1>2. StartLost(h)'
  BY <1>1, CompbCases, LosingSteps
<1>3. /\ pc.exit = "ret" /\ SwitchTo("reti") /\ h = ready_list_head /\ sp = Main
      /\ pc \in KernelPc /\ pc \in Pcs /\ h \in Created /\ pc.at \notin {"sph", "regs"}
  <2>1. pc.exit = "ret" /\ SwitchTo("reti") /\ pc.at \notin {"sph", "regs"} /\ CompbDue
    BY CompbCases
  <2>2. h = ready_list_head /\ pc \in KernelPc /\ h \in Created /\ pc \in Pcs
    BY <1>1, <2>1 DEF Sound, TypeOK, InUser, FirstRestore, Restored, PointersValid
  <2>3. sp = Main
    <3>1. CASE Looping
      BY <2>1, <3>1 DEF Sound, FirstRestore
    <3>2. CASE ~Looping
      BY <2>1, <2>2, <3>2 DEF Sound, FirstRestore, Starting, CompbDue
    <3> QED BY <3>1, <3>2
  <2> QED BY <2>1, <2>2, <2>3
<1>4. /\ stack' = [stack EXCEPT ![Main] = pc]
      /\ cpu_state' = [cpu_state EXCEPT ![h] =
                         [regs |-> regs, sp |-> Main, irq |-> FALSE]]
  BY <1>1, <1>3 DEF SwitchTo, _SAVE_CTX
<1>5. RunningTask = NULL /\ RunningTask' = NULL
  BY DEF TIMER0_COMPB_vect, SwitchTo, RunningTask, InUser, Kernel
<1>6. Created' = Created
  BY <1>4 DEF Created, Sound, TypeOK, Threads
<1>7. TaskView(h)' = Main
  BY <1>2, <1>3, <1>5, <1>6 DEF TaskView, StartLost
<1>8. \A u \in Tasks : u # h => TaskView(u)' = TaskView(u)
  BY <1>1, <1>4, <1>5, <1>6 DEF TaskView, Sound, TypeOK, Threads
<1>9. CASE Looping
  <2>1. TaskView(h) = Main
    BY <1>1, <1>3, <1>5, <1>9 DEF TaskView, Looping
  <2>2. \A u \in Tasks : TaskView(u)' = TaskView(u)
    BY <1>7, <1>8, <2>1
  <2> QED BY <1>5, <2>2 DEF V!vars, TaskViews
<1>10. CASE ~Looping
  <2>1. \A u \in Created : cpu_state[u].sp = u /\ stack[u] = User(u, Entry)
    BY <1>3, <1>10 DEF Sound, Booting, Starting
  <2>2. \A u \in Tasks : TaskView(u) # Main
    <3> SUFFICES ASSUME NEW u \in Tasks PROVE TaskView(u) # Main
      OBVIOUS
    <3>1. CASE u \in Created
      <4>1. ~StartLost(u)
        BY <2>1, <3>1 DEF StartLost
      <4>2. TaskView(u) \in V!Views
        BY <3>1, <4>1, ViewType DEF ViewsTyped
      <4> QED BY <4>2, ViewsAssumption
    <3>2. CASE u \notin Created
      BY <3>2 DEF TaskView
    <3> QED BY <3>1, <3>2
  <2>3. TaskView(h) \in V!Views /\ TaskView(h).pos = Entry
    <3>1. TaskView(h) \in V!Views
      BY <1>3, <2>2, ViewType DEF ViewsTyped
    <3>2. TaskView(h) = [pos |-> stack[h].pos, regs |-> cpu_state[h].regs, irq |-> TRUE]
      BY <1>3, <1>5, <2>1 DEF TaskView
    <3>3. stack[h] = User(h, Entry)
      BY <1>3, <2>1
    <3>4. stack[h].pos = Entry
      BY ONLY <3>3 DEF User
    <3> QED BY <3>1, <3>2, <3>4
  <2>4. TaskViews' = [TaskViews EXCEPT ![h] = Main]
    BY <1>7, <1>8, ViewsFunction
  <2>5. \A u \in Tasks : TaskViews[u] # Main
    BY <2>2, ViewsFunction
  <2>6. TaskViews[h] \in V!Views /\ TaskViews[h].pos = Entry
    BY <2>3, ViewsFunction
  <2>7. V!Lose(h)
    BY <1>5, <2>4, <2>5, <2>6 DEF V!Lose
  <2> QED BY <2>7 DEF V!Next
<1> QED BY <1>9, <1>10

\* yield is a Yield of VirtualCpu.
LEMMA RefineYield == ASSUME Sound, NEW r \in Tasks, yield(r) PROVE V!Next
<1>1. InUser /\ pc.thread = r /\ SwitchTo("sei_ret")
  BY DEF yield, Running
<1>2. /\ RunningTask = r /\ RunningTask' = NULL
      /\ TaskViews[r] = [pos |-> pc.pos, regs |-> regs, irq |-> irq]
      /\ TaskViews' = [TaskViews EXCEPT ![r] =
                         [pos |-> pc.pos, regs |-> regs, irq |-> TRUE]]
  BY <1>1, RefineSwitch DEF TaskViews
<1>3. TaskViews' = [TaskViews EXCEPT ![r] = V!WithIrq(@)]
  BY <1>2 DEF V!WithIrq
<1> QED BY <1>2, <1>3, ThreadsAssumption DEF V!Next, V!Yield

\* Leaving the kernel puts back the view that was kept for c_task, or starts
\* the loop of a lost task over.
LEMMA RefineLeave == ASSUME Sound, LeaveKernel PROVE [V!Next]_(V!vars)
<1> USE ThreadsAssumption, PcFacts
<1>1. PICK r \in Tasks : r = c_task /\ r \in Created
  BY DEF LeaveKernel, Sound, Restored, PointersValid, InUser, Created
<1>2. /\ ~InUser /\ sp = cpu_state[r].sp /\ regs = cpu_state[r].regs /\ pc' = stack[sp]
      /\ OwnContext(r) \/ StartLost(r)
      /\ UNCHANGED <<stack, cpu_state, regs>>
  BY <1>1 DEF LeaveKernel, Sound, Restored, InUser, ContextsKept
<1>3. Created' = Created /\ RunningTask = NULL
  BY <1>2 DEF Created, RunningTask
<1>4. CASE OwnContext(r)
  <2>1. sp = r /\ pc' \in UserPc(r) /\ pc' = stack[r] /\ r # Main
    BY <1>2, <1>4 DEF OwnContext
  <2>2. RunningTask' = r
    BY <2>1, Threads = Tasks \cup {Main} DEF RunningTask, InUser, Threads
  <2>3. irq' = TRUE
    <3>1. CASE pc.exit = "ret"
      <4>1. Starting /\ pc.at = "exit"
        BY <1>1, <1>2, <2>1, <3>1 DEF Starting, Looping, LeaveKernel
      <4>2. irq = TRUE
        BY <1>2, <3>1, <4>1 DEF Sound, FirstRestore
      <4> QED BY <4>2 DEF LeaveKernel
    <3>2. CASE pc.exit # "ret"
      <4>1. pc \in KernelPc
        BY <1>2 DEF Sound, TypeOK, InUser
      <4>2. pc.exit \in {"reti", "sei_ret", "ret"}
        BY <4>1 DEF KernelPc
      <4> QED BY <3>2, <4>2 DEF LeaveKernel
    <3> QED BY <3>1, <3>2
  <2>4. TaskView(r)' = TaskView(r)
    BY <1>1, <1>2, <1>3, <2>1, <2>2, <2>3 DEF TaskView
  <2>5. \A u \in Tasks : u # r => TaskView(u)' = TaskView(u)
    BY <1>2, <1>3, <2>2 DEF TaskView
  <2>6. TaskViews' = TaskViews
    BY <2>4, <2>5 DEF TaskViews
  <2>7. TaskViews[r] \notin {NULL, Main}
    BY <1>1, <1>4, ViewType, ViewsAssumption DEF ViewsTyped, TaskViews
  <2> QED BY <1>3, <2>2, <2>6, <2>7 DEF V!Next, V!Dispatch
<1>5. CASE StartLost(r)
  <2>1. pc' \in LoopPcs
    BY <1>2, <1>5 DEF StartLost
  <2>2. RunningTask' = NULL
    BY <2>1 DEF RunningTask, InUser, LoopPcs
  <2>3. \A u \in Created : TaskView(u)' = TaskView(u)
    BY <1>2, <1>3, <2>2 DEF TaskView, Created
  <2>4. UNCHANGED V!vars
    BY <1>3, <2>2, <2>3, SameViews
  <2> QED BY <2>4
<1> QED BY <1>2, <1>4, <1>5

\* Every step of Next that does no harm is a step of VirtualCpu or leaves it
\* alone.
LEMMA RefineNext ==
  ASSUME Sound, Sound', harmed' # TRUE, [Next]_vars PROVE [V!Next]_(V!vars)
<1>1. CASE UNCHANGED vars
  <2>1. Created' = Created /\ RunningTask' = RunningTask
    BY <1>1 DEF vars, Created, RunningTask, InUser
  <2>2. \A t \in Created : TaskView(t)' = TaskView(t)
    BY <1>1, <2>1 DEF vars, TaskView
  <2> QED BY <2>1, <2>2, SameViews
<1>2. ASSUME NEW x \in Threads, NEW t \in Tasks,
             create_task(x, t) \/ create_task_variadic(x, t)
      PROVE  V!Next
  BY <1>2, CreateForms, RefineCreate
<1>3. CASE Next
  <2>1. Harmed => UNCHANGED vars
    BY DEF Harmed
  <2>2. TIMER0_COMPB_vect => [V!Next]_(V!vars)
    BY RefineCompbUser, RefineCompbKernel
  <2> QED
    BY <1>1, <1>2, <1>3, <2>1, <2>2, RefineStutter, RefineUser, RefineCreateFails,
       RefineYield, RefineLeave
       DEF Next, Restore, Threads
<1> QED BY <1>1, <1>3

\* Until an interrupt comes when the kernel cannot stand it, the kernel gives
\* each task a processor of its own, but for the one kernel_start may lose.
THEOREM Refinement == Spec => ImplementsVirtualCpu
<1>1. Init => V!Init
  <2> SUFFICES ASSUME Init PROVE V!Init
    OBVIOUS
  <2>1. Created = {}
    BY DEF Init, Created, Threads
  <2>2. RunningTask = NULL
    BY ThreadsAssumption DEF Init, RunningTask, User
  <2> QED BY <2>1, <2>2 DEF V!Init, TaskViews, TaskView
<1>2. SwitchInv /\ SwitchInv' /\ [Next]_vars => [harmed' \/ V!Next]_(V!vars)
  <2> SUFFICES ASSUME SwitchInv, SwitchInv', [Next]_vars, ~harmed'
               PROVE  [V!Next]_(V!vars)
    OBVIOUS
  <2>1. Sound /\ Sound' /\ harmed' # TRUE
    BY HarmedStays DEF SwitchInv, Sound
  <2> QED BY <2>1, RefineNext
<1> QED BY <1>1, <1>2, SwitchInvariant, PTL DEF Spec, ImplementsVirtualCpu

(***************************************************************************)
(* The arguments of a task (TaskArgs), for all sizes of arguments and of   *)
(* stack arrays.  create_task runs with the interrupts disabled, so its    *)
(* passes are a system of their own, with its own variables.               *)
(***************************************************************************)
\* The range of an uint16_t; its value is not needed.
LEMMA WordFact == Word \in Nat /\ Word > 65025
BY DEF Word

\* A set of numbers has a smallest element.
LEMMA Smallest ==
  ASSUME NEW T \in SUBSET Nat, T # {}
  PROVE  \E x \in T : \A y \in T : x <= y
<1>1. PICK x \in T : \A y \in T : ~ (<<y, x>> \in OpToRel(<, Nat))
  BY WFMin, NatLessThanWellFounded
<1>2. ASSUME NEW y \in T, y < x PROVE FALSE
  <2>1. <<y, x>> \in OpToRel(<, Nat)
    BY <1>2 DEF OpToRel
  <2> QED BY <1>1, <2>1
<1> QED BY <1>2

\* The equation that defines Sums, up to the m-th element.
Adds(g, a, m) == g = [i \in 0..m |-> IF i = 0 THEN 0 ELSE g[i - 1] + a[i]]

\* Sums is defined by a recursive function, that is, by a choice ...
LEMMA SumsChosen == \A a : Sums(a) = CHOOSE g : Adds(g, a, Len(a))
BY DEF Sums, Adds

\* ... among the solutions of that equation, and it has one.
LEMMA SumsExist ==
  ASSUME NEW a, NEW n \in Nat PROVE \E g : Adds(g, a, n)
<1> DEFINE D == {m \in Nat : ~ \E g : Adds(g, a, m)}
<1>1. ASSUME D # {} PROVE FALSE
  <2>1. PICK x \in D : \A y \in D : x <= y
    <3>1. D \in SUBSET Nat
      OBVIOUS
    <3> HIDE DEF D
    <3> QED BY <1>1, <3>1, Smallest
  <2>2. x \in Nat /\ ~ \E g : Adds(g, a, x)
    OBVIOUS
  <2>3. x # 0
    <3>1. Adds([i \in 0..0 |-> 0], a, 0)
      BY DEF Adds
    <3> QED BY <2>2, <3>1
  <2>4. x - 1 \in Nat /\ ~(x <= x - 1)
    BY <2>2, <2>3
  <2>5. PICK g : Adds(g, a, x - 1)
    BY <2>1, <2>4
  <2> DEFINE h == [i \in 0..x |-> IF i = x THEN g[x - 1] + a[x] ELSE g[i]]
  <2>6. \A i \in 0..(x - 1) : h[i] = g[i]
    BY <2>2, <2>4
  <2>7. \A i \in 0..(x - 1) : g[i] = IF i = 0 THEN 0 ELSE g[i - 1] + a[i]
    BY <2>5 DEF Adds
  <2>8. ASSUME NEW i \in 0..x PROVE h[i] = IF i = 0 THEN 0 ELSE h[i - 1] + a[i]
    <3>1. CASE i = x
      <4>1. h[i] = g[x - 1] + a[x] /\ x - 1 \in 0..(x - 1)
        BY <2>2, <2>4, <3>1
      <4> QED BY <2>3, <2>6, <3>1, <4>1
    <3>2. CASE i # x
      <4>1. i \in 0..(x - 1) /\ (i # 0 => i - 1 \in 0..(x - 1))
        BY <2>2, <3>2
      <4> QED BY <2>6, <2>7, <4>1
    <3> QED BY <3>1, <3>2
  <2>9. Adds(h, a, x)
    <3>1. h = [i \in 0..x |-> h[i]]
      OBVIOUS
    <3> HIDE DEF h
    <3> QED BY <2>8, <3>1 DEF Adds
  <2> QED BY <2>2, <2>9
<1> QED BY <1>1

\* So every sum is the one before it and one more element.
LEMMA SumsStep ==
  ASSUME NEW a \in Seq(Nat)
  PROVE  /\ Sums(a)[0] = 0
         /\ \A i \in 1..Len(a) : Sums(a)[i] = Sums(a)[i - 1] + a[i]
<1>1. Len(a) \in Nat
  BY LenProperties
<1> DEFINE f == Sums(a)
           n == Len(a)
<1>2. Adds(f, a, n)
  <2>1. \E g : Adds(g, a, Len(a))
    BY <1>1, SumsExist
  <2> QED BY <2>1, SumsChosen
<1> HIDE DEF f
<1>3. \A i \in 0..n : f[i] = IF i = 0 THEN 0 ELSE f[i - 1] + a[i]
  BY <1>2 DEF Adds
<1> HIDE DEF n
<1>4. 0 \in 0..n /\ \A i \in 1..n : i \in 0..n /\ i # 0
  BY <1>1 DEF n
<1> QED BY <1>3, <1>4 DEF f, n

\* Numbers from below, step by step: the principle behind the lemmas that follow.
LEMMA Induct ==
  ASSUME NEW n \in Nat, NEW G \in SUBSET Nat, 0 \in G,
         \A i \in 1..n : i - 1 \in G => i \in G
  PROVE  \A i \in 0..n : i \in G
<1> DEFINE D == {i \in 0..n : i \notin G}
<1>1. ASSUME D # {} PROVE FALSE
  <2>1. PICK x \in D : \A y \in D : x <= y
    <3>1. D \in SUBSET Nat
      OBVIOUS
    <3> HIDE DEF D
    <3> QED BY <1>1, <3>1, Smallest
  <2>2. x \in 1..n /\ x \notin G
    OBVIOUS
  <2>3. x - 1 \in 0..n /\ ~(x <= x - 1)
    BY <2>2
  <2>4. x - 1 \in G
    BY <2>1, <2>3
  <2> QED BY <2>2, <2>4
<1> QED BY <1>1

\* Sums of natural numbers are natural numbers and do not decrease.
LEMMA SumsGrow ==
  ASSUME NEW a \in Seq(Nat)
  PROVE  /\ \A i \in 0..Len(a) : Sums(a)[i] \in Nat
         /\ \A i, j \in 0..Len(a) : i <= j => Sums(a)[i] <= Sums(a)[j]
<1> DEFINE f == Sums(a)
           n == Len(a)
<1>1. n \in Nat /\ a \in [1..n -> Nat]
  BY LenProperties
<1>2. f[0] = 0 /\ \A i \in 1..n : f[i] = f[i - 1] + a[i]
  BY SumsStep
<1> HIDE DEF f, n
<1>3. \A i \in 0..n : f[i] \in Nat
  <2> DEFINE G == {i \in Nat : f[i] \in Nat}
  <2>1. 0 \in G
    BY <1>2
  <2>2. \A i \in 1..n : i - 1 \in G => i \in G
    BY <1>1, <1>2
  <2>3. G \in SUBSET Nat
    OBVIOUS
  <2>4. \A i \in 0..n : i \in G
    <3> HIDE DEF G
    <3> QED BY <1>1, <2>1, <2>2, <2>3, Induct
  <2> QED BY <2>4
<1>4. ASSUME NEW i \in 0..n PROVE \A j \in 0..n : i <= j => f[i] <= f[j]
  <2> DEFINE G == {j \in Nat : j <= n /\ i <= j => f[i] <= f[j]}
  <2>1. 0 \in G
    <3>1. i <= 0 => i = 0
      BY <1>1
    <3> QED BY <1>2, <3>1
  <2>2. \A j \in 1..n : j - 1 \in G => j \in G
    <3> SUFFICES ASSUME NEW j \in 1..n, j - 1 \in G, i <= j PROVE f[i] <= f[j]
      BY <1>1
    <3>1. CASE i = j
      BY <1>3, <3>1
    <3>2. CASE i # j
      <4>1. i <= j - 1 /\ j - 1 <= n /\ j \in 0..n /\ j - 1 \in 0..n
        BY <1>1, <3>2
      <4>2. f[i] <= f[j - 1]
        BY <4>1
      <4>3. f[j] = f[j - 1] + a[j] /\ a[j] \in Nat /\ f[i] \in Nat /\ f[j - 1] \in Nat
        BY <1>1, <1>2, <1>3, <4>1
      <4> QED BY <4>2, <4>3
    <3> QED BY <3>1, <3>2
  <2>3. G \in SUBSET Nat
    OBVIOUS
  <2>4. \A j \in 0..n : j \in G
    <3> HIDE DEF G
    <3> QED BY <1>1, <2>1, <2>2, <2>3, Induct
  <2> QED BY <1>1, <2>4
<1> QED BY <1>3, <1>4 DEF f, n

\* Sums of bytes, and of even numbers.
LEMMA SumsBound ==
  ASSUME NEW a \in Seq(Nat), Len(a) <= 255, \A i \in 1..Len(a) : a[i] <= 255
  PROVE  \A i \in 0..Len(a) : Sums(a)[i] < Word
<1> DEFINE f == Sums(a)
           n == Len(a)
<1>1. n \in Nat /\ n <= 255 /\ a \in [1..n -> Nat]
  BY LenProperties
<1>2. \A i \in 1..n : a[i] <= 255
  OBVIOUS
<1>3. f[0] = 0 /\ \A i \in 1..n : f[i] = f[i - 1] + a[i]
  BY SumsStep
<1>4. \A i \in 0..n : f[i] \in Nat
  BY SumsGrow
<1> HIDE DEF f, n
<1> DEFINE G == {i \in Nat : i <= n => f[i] <= 255 * i}
<1>5. 0 \in G
  BY <1>3
<1>6. \A i \in 1..n : i - 1 \in G => i \in G
  <2> SUFFICES ASSUME NEW i \in 1..n, i - 1 \in G PROVE f[i] <= 255 * i
    BY <1>1
  <2>1. i - 1 <= n /\ i - 1 \in 0..n /\ i \in Nat
    BY <1>1
  <2> DEFINE x == f[i - 1]
             y == a[i]
  <2>2. x <= 255 * (i - 1)
    BY <2>1
  <2>3. x \in Nat /\ f[i] = x + y /\ y \in Nat /\ y <= 255
    BY <1>1, <1>2, <1>3, <1>4, <2>1
  <2> HIDE DEF x, y
  <2> QED BY <2>1, <2>2, <2>3
<1>7. \A i \in 0..n : i \in G
  <2>1. G \in SUBSET Nat
    OBVIOUS
  <2> HIDE DEF G
  <2> QED BY <1>1, <1>5, <1>6, <2>1, Induct
<1>8. ASSUME NEW i \in 0..n PROVE f[i] < Word
  <2>1. f[i] <= 255 * i /\ f[i] \in Nat /\ i <= 255 /\ i \in Nat
    BY <1>1, <1>4, <1>7
  <2> QED BY <2>1 DEF Word
<1> QED BY <1>8 DEF f, n

LEMMA SumsEven ==
  ASSUME NEW a \in Seq(Nat), \A i \in 1..Len(a) : \E h \in Nat : a[i] = 2 * h
  PROVE  \A i \in 0..Len(a) : \E h \in Nat : Sums(a)[i] = 2 * h
<1> DEFINE f == Sums(a)
           n == Len(a)
<1>1. n \in Nat
  BY LenProperties
<1>2. f[0] = 0 /\ \A i \in 1..n : f[i] = f[i - 1] + a[i]
  BY SumsStep
<1>3. \A i \in 1..n : \E h \in Nat : a[i] = 2 * h
  OBVIOUS
<1> HIDE DEF f, n
<1> DEFINE G == {i \in Nat : \E h \in Nat : f[i] = 2 * h}
<1>4. 0 \in G
  BY <1>2
<1>5. \A i \in 1..n : i - 1 \in G => i \in G
  <2>0. \A i \in 1..n : i \in Nat
    BY <1>1
  <2> SUFFICES ASSUME NEW i \in 1..n, i - 1 \in G PROVE \E h \in Nat : f[i] = 2 * h
    BY <2>0, Zenon
  <2>1. PICK g \in Nat : f[i - 1] = 2 * g
    OBVIOUS
  <2>2. PICK h \in Nat : a[i] = 2 * h
    BY <1>3
  <2>3. f[i] = 2 * (g + h) /\ g + h \in Nat
    BY <1>2, <2>1, <2>2
  <2> QED BY <2>3
<1>6. \A i \in 0..n : i \in G
  <2>1. G \in SUBSET Nat
    OBVIOUS
  <2> HIDE DEF G
  <2> QED BY <1>1, <1>4, <1>5, <2>1, Induct
<1> QED BY <1>6 DEF f, n

\* The arguments, and the sums over them, in one place.
R == RegBytes
B == StackBytes(16)
n == Len(args)

Offsets ==
  /\ n \in Nat /\ n <= 255
  /\ R[0] = 0 /\ B[0] = 0
  /\ \A i \in 0..n : R[i] \in Nat /\ B[i] \in Nat /\ B[i] < Word
  /\ \A i \in 1..n : /\ args[i] \in Nat /\ args[i] >= 1 /\ args[i] <= 255
                     /\ Rounded(args[i]) \in Nat /\ Rounded(args[i]) >= args[i]
                     /\ R[i] = R[i - 1] + Rounded(args[i])
                     /\ R[i] > 16 => B[i] = B[i - 1] + args[i]
                     /\ R[i] <= 16 => B[i] = B[i - 1]
  /\ \A i, j \in 0..n : i <= j => R[i] <= R[j] /\ B[i] <= B[j]

\* padding: an argument takes an even number of registers.
LEMMA Even == \A x \in Nat : Rounded(x) \in Nat /\ Rounded(x) >= x
                             /\ \E h \in Nat : Rounded(x) = 2 * h
<1> TAKE x \in Nat
<1> DEFINE q == x \div 2
           r == x % 2
<1>1. q \in Nat /\ r \in 0..1 /\ x = 2 * q + r
  OBVIOUS
<1> HIDE DEF q, r
<1>2. x + r = 2 * (q + r) /\ q + r \in Nat /\ x + r >= x
  BY <1>1
<1> QED BY <1>2 DEF Rounded, r

\* What the sums are like, and that the register bytes are even.
LEMMA OffsetsHold ==
  ASSUME SizesFit, args \in Seq(ArgSizes), Len(args) <= MaxArgs
  PROVE  Offsets /\ (\A i \in 0..n : \E h \in Nat : R[i] = 2 * h)
<1> DEFINE a == [i \in 1..n |-> Rounded(args[i])]
           b == [i \in 1..n |-> IF R[i] > 16 THEN args[i] ELSE 0]
<1>1. n \in Nat /\ n <= 255
      /\ \A i \in 1..n : args[i] \in Nat /\ args[i] >= 1 /\ args[i] <= 255
  <2>1. ArgSizes \subseteq 1..255 /\ MaxArgs \in 0..255
    BY DEF SizesFit
  <2>2. /\ \A x \in ArgSizes : x \in Nat /\ x >= 1 /\ x <= 255
        /\ MaxArgs \in Nat /\ MaxArgs <= 255
    BY <2>1
  <2>3. n \in Nat /\ n <= MaxArgs /\ \A i \in 1..n : args[i] \in ArgSizes
    BY LenProperties DEF n
  <2>4. n <= 255
    BY <2>2, <2>3
  <2> QED BY <2>2, <2>3, <2>4, Zenon
<1> HIDE DEF n
<1>2. a \in Seq(Nat) /\ Len(a) = n
  <2>1. a \in [1..n -> Nat]
    BY <1>1, Even
  <2> QED BY <1>1, <2>1
<1>3. b \in Seq(Nat) /\ Len(b) = n /\ \A i \in 1..n : b[i] <= 255
  <2>1. b \in [1..n -> Nat]
    BY <1>1
  <2> QED BY <1>1, <2>1
<1>4. R = Sums(a) /\ B = Sums(b)
  BY DEF R, B, RegBytes, StackBytes, n
<1>5. \A i \in 1..n : a[i] = Rounded(args[i]) /\ b[i] = IF R[i] > 16 THEN args[i] ELSE 0
  OBVIOUS
<1> HIDE DEF a, b
<1>6. R[0] = 0 /\ \A i \in 1..n : R[i] = R[i - 1] + a[i]
  BY <1>2, <1>4, SumsStep
<1>7. B[0] = 0 /\ \A i \in 1..n : B[i] = B[i - 1] + b[i]
  BY <1>3, <1>4, SumsStep
<1>8. (\A i \in 0..n : R[i] \in Nat) /\ \A i, j \in 0..n : i <= j => R[i] <= R[j]
  BY <1>2, <1>4, SumsGrow
<1>9. (\A i \in 0..n : B[i] \in Nat) /\ \A i, j \in 0..n : i <= j => B[i] <= B[j]
  BY <1>3, <1>4, SumsGrow
<1>10. \A i \in 0..n : B[i] < Word
  BY <1>1, <1>3, <1>4, SumsBound
<1>11. \A i \in 0..n : \E h \in Nat : R[i] = 2 * h
  <2>1. \A i \in 1..n : \E h \in Nat : a[i] = 2 * h
    <3> TAKE i \in 1..n
    <3>1. args[i] \in Nat
      BY <1>1
    <3>2. \E h \in Nat : Rounded(args[i]) = 2 * h
      BY <3>1, Even
    <3> QED BY <1>5, <3>2
  <2> QED BY <1>2, <1>4, <2>1, SumsEven
<1>12. \A i \in 1..n : /\ args[i] \in Nat /\ args[i] >= 1 /\ args[i] <= 255
                      /\ Rounded(args[i]) \in Nat /\ Rounded(args[i]) >= args[i]
  BY <1>1, Even
<1>13. \A i \in 1..n : R[i] = R[i - 1] + Rounded(args[i])
  BY <1>5, <1>6, Zenon
<1>14. ASSUME NEW i \in 1..n
       PROVE  (R[i] > 16 => B[i] = B[i - 1] + args[i]) /\ (R[i] <= 16 => B[i] = B[i - 1])
  <2>1. B[i] = B[i - 1] + b[i] /\ (R[i] > 16 => b[i] = args[i]) /\ (~(R[i] > 16) => b[i] = 0)
    BY <1>5, <1>7, Zenon
  <2>2. i \in 0..n /\ i - 1 \in 0..n
    BY <1>1
  <2>3. R[i] \in Nat /\ B[i - 1] \in Nat
    BY <1>8, <1>9, <2>2
  <2> QED BY <2>1, <2>3
<1>15. Offsets
  BY <1>1, <1>6, <1>7, <1>8, <1>9, <1>10, <1>12, <1>13, <1>14 DEF Offsets
<1> QED BY <1>11, <1>15

\* 16-bit arithmetic.
LEMMA Remainder ==
  ASSUME NEW m \in Nat, m > 0, NEW x \in Int
  PROVE  /\ x % m \in Nat /\ x % m < m
         /\ x >= 0 /\ x < m => x % m = x
<1>1. x % m \in 0..(m - 1)
  BY Z3
<1>2. ASSUME x \in 0..(m - 1) PROVE x % m = x
  BY <1>2, Z3
<1> QED BY <1>1, <1>2

LEMMA Mod16 ==
  \A x \in Int : /\ x % Word \in Nat /\ x % Word < Word
                 /\ x >= 0 /\ x < Word => x % Word = x
<1>1. Word \in Nat /\ Word > 0
  BY WordFact
<1> QED BY <1>1, Remainder

\* Nothing but the arguments decides on the sums.
LEMMA SameSums ==
  ASSUME args' = args PROVE R' = R /\ B' = B /\ n' = n
BY DEF R, B, n, RegBytes, StackBytes, Sums, Rounded

\* Either pass sends an argument to the registers if the sum allows it.
LEMMA Decides ==
  ASSUME Offsets, Counted(next - 1), next \in 1..n,
         args_to_stack \in BOOLEAN, regs_used \in Nat
  PROVE  /\ FitsInRegs => regs_used + Rounded(args[next]) = R[next] /\ R[next] <= 16
         /\ ~FitsInRegs => R[next] > 16
<1> DEFINE k == next - 1
           r == Rounded(args[next])
           x == R[next]
           y == R[k]
<1>1. k \in 0..n /\ next \in 0..n /\ k <= next
  BY DEF Offsets
<1>2. x \in Nat /\ y \in Nat /\ r \in Nat /\ x = y + r /\ y <= x
  BY <1>1 DEF Offsets
<1>3. (args_to_stack <=> y > 16) /\ (~args_to_stack => regs_used = y)
  BY DEF Counted, R
<1>4. FitsInRegs <=> regs_used + r < 17 /\ ~args_to_stack
  BY DEF FitsInRegs
<1> HIDE DEF k, r, x, y
<1>5. ASSUME FitsInRegs PROVE regs_used + r = x /\ x <= 16
  <2>1. ~args_to_stack /\ regs_used + r < 17
    BY <1>4, <1>5
  <2>2. regs_used = y
    BY <1>3, <2>1
  <2> QED BY <1>2, <2>1, <2>2
<1>6. ASSUME ~FitsInRegs PROVE x > 16
  <2>1. CASE args_to_stack
    <3>1. y > 16
      BY <1>3, <2>1
    <3> QED BY <1>2, <3>1
  <2>2. CASE ~args_to_stack
    <3>1. regs_used = y /\ ~(regs_used + r < 17)
      BY <1>3, <1>4, <1>6, <2>2
    <3> QED BY <1>2, <3>1
  <2> QED BY <2>1, <2>2
<1> QED BY <1>5, <1>6 DEF x, r

\* The counters, the places and the entry address together.
Loop == ArgsTypeOK /\ PassesAgree /\ EntrySet

LEMMA LoopOffsets ==
  ASSUME SizesFit, ArgsTypeOK
  PROVE  /\ Offsets /\ size \in Nat /\ size < Word
         /\ \A i \in 0..n : \E h \in Nat : R[i] = 2 * h
<1>1. args \in Seq(ArgSizes) /\ Len(args) <= MaxArgs /\ size \in StackSizes
  BY DEF ArgsTypeOK
<1>2. size \in Nat /\ size < Word
  <2>1. StackSizes \subseteq 1..(Word - 1)
    BY DEF SizesFit
  <2> QED BY <1>1, <2>1, WordFact
<1> QED BY <1>1, <1>2, OffsetsHold

\* Nothing has been counted yet.
LEMMA InitLoop == ASSUME SizesFit, ArgsInit PROVE Loop
<1>1. PICK m \in 0..MaxArgs : args \in [1..m -> ArgSizes]
  BY DEF ArgsInit
<1>2. args \in Seq(ArgSizes) /\ Len(args) <= MaxArgs /\ Len(args) \in Nat
  <2>1. MaxArgs \in Nat
    BY DEF SizesFit
  <2>2. m \in Nat /\ m <= MaxArgs
    BY <2>1
  <2>3. args \in Seq(ArgSizes) /\ Len(args) = m
    BY <1>1, <2>2
  <2> QED BY <2>2, <2>3
<1>3. Offsets
  BY <1>2, OffsetsHold
<1>4. size \in StackSizes /\ size \in Int
  <2>1. StackSizes \subseteq 1..(Word - 1)
    BY DEF SizesFit
  <2> QED BY <2>1, WordFact DEF ArgsInit
<1>5. task_sp \in 0..(Word - 1) /\ entry \in 0..(Word - 1)
  <2> DEFINE x == size - 3
             y == size - 2
  <2>1. x \in Int /\ y \in Int
    BY <1>4
  <2>2. task_sp = x % Word /\ entry = y % Word
    BY DEF ArgsInit
  <2> HIDE DEF x, y
  <2>3. /\ x % Word \in Nat /\ x % Word < Word
        /\ y % Word \in Nat /\ y % Word < Word
    BY <2>1, Mod16, Zenon
  <2> QED BY <2>2, <2>3, WordFact
<1>6. ArgsTypeOK
  <2>1. 0 \in 0..(Word - 1) /\ 0 \in 0..16
    BY WordFact
  <2>2. next \in 1..(Len(args) + 1)
    BY <1>2 DEF ArgsInit
  <2>3. place \in Seq(Places)
    BY EmptySeq DEF ArgsInit
  <2> QED BY <1>2, <1>4, <1>5, <2>1, <2>2, <2>3 DEF ArgsInit, ArgsTypeOK
<1>7. PassesAgree
  <2>1. R[0] = 0 /\ B[0] = 0 /\ next - 1 = 0 /\ pass = "calc"
    BY <1>3 DEF Offsets, ArgsInit
  <2>2. Counted(0)
    BY <2>1 DEF ArgsInit, Counted, R
  <2> QED BY <2>1, <2>2 DEF PassesAgree, ArgsInit, B
<1>8. EntrySet
  BY DEF EntrySet, ArgsInit
<1> QED BY <1>6, <1>7, <1>8 DEF Loop

\* What a step of either pass starts from.
LEMMA LoopState ==
  ASSUME SizesFit, Loop
  PROVE  /\ Offsets /\ n = Len(args) /\ args_to_stack \in BOOLEAN /\ regs_used \in Nat
         /\ next \in 1..(n + 1) /\ Counted(next - 1)
         /\ size \in Nat /\ size < Word /\ stack_used \in Nat /\ stack_base \in Nat
         /\ pass = "calc" => stack_used = B[next - 1] /\ stack_base = 0 /\ place = <<>>
         /\ pass # "calc" =>
              /\ stack_base = B[n] /\ stack_used = B[n] - B[next - 1]
              /\ Len(place) = next - 1 /\ \A i \in 1..(next - 1) : place[i] = CodePlace(i)
<1>1. /\ args_to_stack \in BOOLEAN /\ next \in 1..(n + 1) /\ regs_used \in 0..16
      /\ stack_used \in 0..(Word - 1) /\ stack_base \in 0..(Word - 1)
  BY DEF Loop, ArgsTypeOK, n
<1>2. Offsets /\ size \in Nat /\ size < Word
  BY LoopOffsets DEF Loop
<1>3. regs_used \in Nat /\ stack_used \in Nat /\ stack_base \in Nat
  BY <1>1, WordFact
<1>4. PassesAgree
  BY DEF Loop
<1> QED BY <1>1, <1>2, <1>3, <1>4 DEF PassesAgree, B, n

\* What the sums do not see stays as it is.
LEMMA SameOffsets ==
  ASSUME Offsets, args' = args
  PROVE  Offsets' /\ R' = R /\ B' = B /\ n' = n
<1>1. R' = R /\ B' = B /\ n' = n
  BY SameSums
<1> QED BY <1>1 DEF Offsets, Rounded

\* _calc_sizes: one more argument has been counted.
LEMMA CalcStep == ASSUME SizesFit, Loop, _calc_sizes PROVE Loop'
<1>1. /\ pass = "calc" /\ next <= Len(args) /\ next' = next + 1
      /\ UNCHANGED <<args, size, pass, stack_base, place, task_sp, entry>>
  BY DEF _calc_sizes
<1>2. /\ Offsets /\ args_to_stack \in BOOLEAN /\ regs_used \in Nat
      /\ next \in 1..(n + 1) /\ Counted(next - 1)
      /\ stack_used = B[next - 1] /\ stack_base = 0 /\ place = <<>>
  BY <1>1, LoopState
<1>3. n \in Nat /\ next \in 1..n /\ next' - 1 = next /\ next' \in 1..(n + 1)
  BY <1>1, <1>2 DEF Offsets, n
<1>4. R' = R /\ B' = B /\ n' = n /\ n = Len(args)
  BY <1>1, <1>2, SameSums DEF n
<1>5. /\ args[next] \in Nat /\ R[next] \in Nat /\ B[next] \in Nat /\ B[next] < Word
      /\ R[next] > 16 => B[next] = B[next - 1] + args[next]
      /\ R[next] <= 16 => B[next] = B[next - 1]
  <2>1. next \in 0..n
    BY <1>3
  <2> QED BY <1>2, <1>3, <2>1 DEF Offsets
<1>6. /\ args_to_stack' \in BOOLEAN /\ (args_to_stack' <=> R[next] > 16)
      /\ (~args_to_stack' => regs_used' = R[next]) /\ regs_used' \in 0..16
      /\ stack_used' = B[next]
  <2>1. CASE FitsInRegs
    <3>1. regs_used' = regs_used + Rounded(args[next]) /\ ~args_to_stack
          /\ UNCHANGED <<args_to_stack, stack_used>>
      BY <2>1 DEF _calc_sizes, FitsInRegs
    <3>2. regs_used' = R[next] /\ R[next] <= 16
      <4>1. regs_used + Rounded(args[next]) = R[next] /\ R[next] <= 16
        BY <1>2, <1>3, <2>1, Decides
      <4> QED BY <3>1, <4>1
    <3>3. regs_used' \in 0..16 /\ ~(R[next] > 16)
      BY <1>5, <3>2
    <3>4. stack_used' = B[next]
      <4>1. B[next] = B[next - 1] /\ stack_used = B[next - 1] /\ stack_used' = stack_used
        BY <1>2, <1>5, <3>1, <3>2
      <4> QED BY <4>1
    <3>5. args_to_stack' = FALSE
      BY <1>2, <3>1
    <3> QED BY <3>2, <3>3, <3>4, <3>5
  <2>2. CASE ~FitsInRegs
    <3>1. args_to_stack' = TRUE /\ stack_used' = (stack_used + args[next]) % Word
          /\ regs_used' = regs_used
      BY <2>2 DEF _calc_sizes
    <3>2. R[next] > 16
      BY <1>2, <1>3, <2>2, Decides
    <3>3. stack_used + args[next] = B[next]
      BY <1>2, <1>5, <3>2
    <3>4. stack_used' = B[next]
      <4> DEFINE x == B[next]
      <4>1. x \in Int /\ x >= 0 /\ x < Word
        BY <1>5
      <4> HIDE DEF x
      <4>2. x % Word = x
        BY <4>1, Mod16, Zenon
      <4> QED BY <3>1, <3>3, <4>2 DEF x
    <3>5. regs_used' \in 0..16
      BY <3>1 DEF Loop, ArgsTypeOK
    <3> QED BY <3>1, <3>2, <3>4, <3>5
  <2> QED BY <2>1, <2>2
<1>7. ArgsTypeOK'
  <2>1. stack_used' \in 0..(Word - 1)
    BY <1>5, <1>6, WordFact
  <2> QED BY <1>1, <1>3, <1>4, <1>6, <2>1 DEF Loop, ArgsTypeOK
<1>8. (Counted(next - 1))'
  BY <1>3, <1>4, <1>6 DEF Counted, R
<1>9. PassesAgree'
  BY <1>1, <1>2, <1>3, <1>4, <1>6, <1>8 DEF PassesAgree, B
<1>10. EntrySet'
  BY <1>1 DEF Loop, EntrySet
<1> QED BY <1>7, <1>9, <1>10 DEF Loop

\* The second pass starts with the bytes that the first has counted.
LEMMA RestartStep == ASSUME SizesFit, Loop, Restart PROVE Loop'
<1>1. /\ pass = "calc" /\ next > Len(args) /\ pass' = "process" /\ next' = 1
      /\ stack_base' = stack_used /\ regs_used' = 0 /\ args_to_stack' = FALSE
      /\ UNCHANGED <<args, size, stack_used, place, task_sp, entry>>
  BY DEF Restart
<1>2. /\ Offsets /\ next \in 1..(n + 1) /\ n = Len(args)
      /\ stack_used = B[next - 1] /\ stack_base = 0 /\ place = <<>>
  BY <1>1, LoopState
<1>3. n \in Nat /\ next - 1 = n /\ next' - 1 = 0 /\ next' \in 1..(n + 1) /\ Len(place) = 0
  BY <1>1, <1>2, EmptySeq DEF Offsets
<1>4. R' = R /\ B' = B /\ n' = n
  BY <1>1, SameSums
<1>5. R[0] = 0 /\ B[0] = 0 /\ B[n] \in Nat /\ stack_used = B[n]
  <2>1. n \in 0..n
    BY <1>3
  <2> QED BY <1>2, <1>3, <2>1 DEF Offsets
<1>6. ArgsTypeOK'
  <2>1. 0 \in 0..16
    OBVIOUS
  <2> QED BY <1>1, <1>2, <1>3, <1>4, <2>1 DEF Loop, ArgsTypeOK
<1>7. (Counted(next - 1))'
  BY <1>1, <1>3, <1>4, <1>5 DEF Counted, R
<1>8. stack_base' = B[n] /\ stack_used' = B[n] - B[0]
  BY <1>1, <1>5
<1>9. PassesAgree'
  BY <1>1, <1>2, <1>3, <1>4, <1>7, <1>8 DEF PassesAgree, B
<1>10. EntrySet'
  BY <1>1 DEF Loop, EntrySet
<1> QED BY <1>6, <1>9, <1>10 DEF Loop

\* Places are places, and depend on the arguments only.
LEMMA PlaceFacts ==
  ASSUME SizesFit, Offsets, size \in Nat, NEW i \in 1..n
  PROVE  /\ CodePlace(i) \in Places
         /\ R[i] <= 16 => CodePlace(i) = [in |-> "regs", base |-> 26 - R[i]]
         /\ R[i] > 16 =>
              CodePlace(i) =
                [in |-> "stack", base |-> (size - (B[n] - B[i - 1]) - 1) % Word]
<1>1. i \in 0..n /\ i - 1 \in 0..n /\ n \in 0..n
  BY DEF Offsets
<1>2. R[i] \in Nat /\ B[n] \in Nat /\ B[i - 1] \in Nat
  BY <1>1 DEF Offsets
<1>3. ASSUME R[i] <= 16 PROVE CodePlace(i) = [in |-> "regs", base |-> 26 - R[i]]
  BY <1>3 DEF CodePlace, R
<1>4. ASSUME R[i] > 16
      PROVE  CodePlace(i) =
               [in |-> "stack", base |-> (size - (B[n] - B[i - 1]) - 1) % Word]
  <2>1. ~(R[i] <= 16)
    BY <1>2, <1>4
  <2> QED BY <2>1 DEF CodePlace, R, B, n
<1>5. 26 - R[i] \in Int
  BY <1>2
<1>6. (size - (B[n] - B[i - 1]) - 1) % Word \in Int
  <2> DEFINE x == size - (B[n] - B[i - 1]) - 1
  <2>1. x \in Int
    BY <1>2
  <2> HIDE DEF x
  <2>2. x % Word \in Nat
    BY <2>1, Mod16, Zenon
  <2> QED BY <2>2 DEF x
<1>7. CodePlace(i) \in Places
  <2>1. CASE R[i] <= 16
    BY <1>3, <1>5, <2>1 DEF Places
  <2>2. CASE R[i] > 16
    BY <1>4, <1>6, <2>2 DEF Places
  <2> QED BY <1>2, <2>1, <2>2
<1> QED BY <1>3, <1>4, <1>7

LEMMA SamePlaces ==
  ASSUME UNCHANGED <<args, size>>
  PROVE  \A i : CodePlace(i)' = CodePlace(i)
<1>1. RegBytes' = RegBytes /\ StackBytes(16)' = StackBytes(16)
  BY SameSums DEF R, B
<1> QED BY <1>1 DEF CodePlace

\* _process_arg decides as _calc_sizes did, and gives back what that has counted.
LEMMA ProcessStep == ASSUME SizesFit, Loop, _process_arg PROVE Loop'
<1>1. /\ pass = "process" /\ next <= Len(args) /\ next' = next + 1
      /\ UNCHANGED <<args, size, pass, stack_base, task_sp, entry>>
  BY DEF _process_arg
<1>2. /\ Offsets /\ n = Len(args) /\ args_to_stack \in BOOLEAN /\ regs_used \in Nat
      /\ next \in 1..(n + 1) /\ Counted(next - 1) /\ size \in Nat
      /\ stack_base = B[n] /\ stack_used = B[n] - B[next - 1]
      /\ Len(place) = next - 1 /\ \A i \in 1..(next - 1) : place[i] = CodePlace(i)
  BY <1>1, LoopState
<1>3. n \in Nat /\ next \in 1..n /\ next' - 1 = next /\ next' \in 1..(n + 1)
  BY <1>1, <1>2 DEF Offsets
<1>4. R' = R /\ B' = B /\ n' = n
  BY <1>1, SameSums
<1>5. /\ args[next] \in Nat /\ R[next] \in Nat /\ B[next] \in Nat /\ B[next - 1] \in Nat
      /\ B[n] \in Nat /\ B[n] < Word /\ B[next] <= B[n]
      /\ R[next] > 16 => B[next] = B[next - 1] + args[next]
      /\ R[next] <= 16 => B[next] = B[next - 1]
  <2>1. next \in 0..n /\ next - 1 \in 0..n /\ n \in 0..n /\ next <= n
    BY <1>3
  <2> QED BY <1>2, <1>3, <2>1 DEF Offsets
<1>6. /\ args_to_stack' \in BOOLEAN /\ (args_to_stack' <=> R[next] > 16)
      /\ (~args_to_stack' => regs_used' = R[next]) /\ regs_used' \in 0..16
      /\ stack_used' = B[n] - B[next] /\ place' = Append(place, CodePlace(next))
  <2>1. CASE FitsInRegs
    <3>1. /\ regs_used' = regs_used + Rounded(args[next]) /\ ~args_to_stack
          /\ UNCHANGED <<args_to_stack, stack_used>>
          /\ place' = Append(place, [in |-> "regs",
                                     base |-> 25 - regs_used - Rounded(args[next]) + 1])
      BY <2>1 DEF _process_arg, FitsInRegs
    <3>2. regs_used + Rounded(args[next]) = R[next] /\ R[next] <= 16
      BY <1>2, <1>3, <2>1, Decides
    <3>3. regs_used' \in 0..16 /\ ~(R[next] > 16) /\ regs_used' = R[next]
      <4>1. regs_used' = R[next]
        BY <3>1, <3>2
      <4> QED BY <1>5, <3>2, <4>1
    <3>4. stack_used' = B[n] - B[next]
      <4>1. B[next] = B[next - 1] /\ stack_used = B[n] - B[next - 1] /\ stack_used' = stack_used
        BY <1>2, <1>5, <3>1, <3>2
      <4> QED BY <4>1
    <3>5. args_to_stack' = FALSE
      BY <1>2, <3>1
    <3>6. 25 - regs_used - Rounded(args[next]) + 1 = 26 - R[next]
      <4> DEFINE r == Rounded(args[next])
      <4>1. r \in Nat
        BY <1>2, <1>3 DEF Offsets
      <4> HIDE DEF r
      <4>2. regs_used + r = R[next]
        BY <3>2 DEF r
      <4>3. 25 - regs_used - r + 1 = 26 - R[next]
        BY <1>2, <4>1, <4>2
      <4> QED BY <4>3 DEF r
    <3>7. place' = Append(place, CodePlace(next))
      <4>1. CodePlace(next) = [in |-> "regs", base |-> 26 - R[next]]
        BY <1>2, <1>3, <3>2, PlaceFacts
      <4> QED BY <3>1, <3>6, <4>1
    <3> QED BY <3>3, <3>4, <3>5, <3>7
  <2>2. CASE ~FitsInRegs
    <3>1. /\ args_to_stack' = TRUE /\ stack_used' = (stack_used - args[next]) % Word
          /\ regs_used' = regs_used
          /\ place' = Append(place, [in |-> "stack", base |-> (size - stack_used - 1) % Word])
      BY <2>2 DEF _process_arg
    <3>2. R[next] > 16
      BY <1>2, <1>3, <2>2, Decides
    <3>3. stack_used' = B[n] - B[next]
      <4> DEFINE x == B[n] - B[next]
      <4>1. x \in Int /\ x >= 0 /\ x < Word
        BY <1>5, WordFact
      <4>2. stack_used - args[next] = x
        BY <1>2, <1>5, <3>2
      <4> HIDE DEF x
      <4>3. x % Word = x
        BY <4>1, Mod16, Zenon
      <4> QED BY <3>1, <4>2, <4>3 DEF x
    <3>4. regs_used' \in 0..16
      BY <3>1 DEF Loop, ArgsTypeOK
    <3>5. place' = Append(place, CodePlace(next))
      <4>1. CodePlace(next) =
              [in |-> "stack", base |-> (size - (B[n] - B[next - 1]) - 1) % Word]
        BY <1>2, <1>3, <3>2, PlaceFacts
      <4> QED BY <1>2, <3>1, <4>1
    <3> QED BY <3>1, <3>2, <3>3, <3>4, <3>5
  <2> QED BY <2>1, <2>2
<1>7. /\ place' \in Seq(Places) /\ Len(place') = next
      /\ \A i \in 1..next : place'[i] = CodePlace(i)'
  <2>1. place \in Seq(Places) /\ CodePlace(next) \in Places
    BY <1>2, <1>3, PlaceFacts DEF Loop, ArgsTypeOK
  <2>2. /\ place' \in Seq(Places) /\ Len(place') = Len(place) + 1
        /\ \A i \in 1..Len(place) : place'[i] = place[i]
        /\ place'[Len(place) + 1] = CodePlace(next)
    BY <1>6, <2>1, AppendProperties
  <2>3. (next - 1) + 1 = next /\ \A i \in 1..next : i \in 1..(next - 1) \/ i = next
    BY <1>3
  <2>4. \A i : CodePlace(i)' = CodePlace(i)
    BY <1>1, SamePlaces
  <2> QED BY <1>2, <2>2, <2>3, <2>4
<1>8. ArgsTypeOK'
  <2>1. stack_used' \in 0..(Word - 1)
    BY <1>5, <1>6, WordFact
  <2> QED BY <1>1, <1>2, <1>3, <1>4, <1>6, <1>7, <2>1 DEF Loop, ArgsTypeOK
<1>9. (Counted(next - 1))'
  BY <1>3, <1>4, <1>6 DEF Counted, R
<1>10. PassesAgree'
  BY <1>1, <1>2, <1>3, <1>4, <1>6, <1>7, <1>9 DEF PassesAgree, B
<1>11. EntrySet'
  BY <1>1 DEF Loop, EntrySet
<1> QED BY <1>8, <1>10, <1>11 DEF Loop

\* The stack pointer and the entry address are set anew, below the arguments.
LEMMA EntryStep == ASSUME SizesFit, Loop, set_entry PROVE Loop'
<1>1. /\ pass = "process" /\ next > Len(args) /\ pass' = "done"
      /\ UNCHANGED <<args, size, next, args_to_stack, regs_used, stack_used, stack_base, place>>
  BY DEF set_entry
<1>2. /\ Offsets /\ n = Len(args) /\ next \in 1..(n + 1) /\ size \in Nat /\ stack_base \in Nat
      /\ Counted(next - 1)
      /\ stack_base = B[n] /\ stack_used = B[n] - B[next - 1]
      /\ Len(place) = next - 1 /\ \A i \in 1..(next - 1) : place[i] = CodePlace(i)
  BY <1>1, LoopState
<1>3. next = n + 1
  BY <1>1, <1>2 DEF Offsets
<1>4. R' = R /\ B' = B /\ n' = n /\ \A i : CodePlace(i)' = CodePlace(i)
  BY <1>1, SameSums, SamePlaces
<1>5. task_sp' \in 0..(Word - 1) /\ entry' \in 0..(Word - 1) /\ EntrySet'
  <2>1. CASE stack_base = 0 /\ UNCHANGED <<task_sp, entry>>
    BY <1>1, <2>1 DEF Loop, ArgsTypeOK, EntrySet
  <2>2. CASE stack_base # 0 /\ task_sp' = (size - stack_base - 6) % Word
             /\ entry' = (task_sp' + 1) % Word
    <3> DEFINE x == size - stack_base - 6
               s == x % Word
    <3>1. x \in Int
      BY <1>2
    <3> HIDE DEF x
    <3>2. s \in Nat /\ s < Word
      BY <3>1, Mod16, Zenon
    <3>3. s + 1 \in Int
      BY <3>2
    <3>4. task_sp' = s /\ entry' = (s + 1) % Word
      BY <2>2 DEF x
    <3> HIDE DEF s
    <3>5. (s + 1) % Word \in Nat /\ (s + 1) % Word < Word
      BY <3>3, Mod16, Zenon
    <3>6. task_sp' \in 0..(Word - 1) /\ entry' \in 0..(Word - 1)
      BY <3>2, <3>4, <3>5, WordFact
    <3>7. EntrySet'
      BY <1>1, <2>2 DEF EntrySet
    <3> QED BY <3>6, <3>7
  <2> QED BY <2>1, <2>2 DEF set_entry
<1>6. ArgsTypeOK'
  BY <1>1, <1>5 DEF Loop, ArgsTypeOK
<1>7. (Counted(next - 1))'
  BY <1>1, <1>2, <1>4 DEF Counted, R
<1>8. PassesAgree'
  BY <1>1, <1>2, <1>3, <1>4, <1>7 DEF PassesAgree, B
<1> QED BY <1>5, <1>6, <1>8 DEF Loop

\* In an array with room for them nothing wraps: the numbers at the end.
Finished ==
  /\ Offsets /\ n = Len(args) /\ size \in Nat /\ size < Word /\ size >= stack_base + 6
  /\ stack_base = B[n]
  /\ stack_base # 0 => task_sp = size - stack_base - 6 /\ entry = size - stack_base - 5
  /\ stack_base = 0 => task_sp = size - 3 /\ entry = size - 2
  /\ \A i \in 1..n :
       /\ R[i] <= 16 => place[i] = [in |-> "regs", base |-> 26 - R[i]]
       /\ R[i] > 16 => place[i] = [in |-> "stack", base |-> size - (B[n] - B[i - 1]) - 1]

LEMMA AtTheEnd ==
  ASSUME SizesFit, Loop, pass = "done", Roomy
  PROVE  Finished
<1>1. /\ Offsets /\ n = Len(args) /\ next \in 1..(n + 1) /\ size \in Nat /\ size < Word
      /\ stack_base = B[n] /\ stack_base \in Nat
      /\ Len(place) = next - 1 /\ \A i \in 1..(next - 1) : place[i] = CodePlace(i)
  BY LoopState
<1>2. n \in Nat /\ size >= stack_base + 6
  BY <1>1 DEF Offsets, Roomy
<1>3. next - 1 = n
  <2>1. next = n + 1
    BY <1>1 DEF Loop, PassesAgree
  <2> QED BY <1>2, <2>1
<1>4. ASSUME stack_base # 0
      PROVE  task_sp = size - stack_base - 6 /\ entry = size - stack_base - 5
  <2> DEFINE x == size - stack_base - 6
             y == size - stack_base - 5
  <2>0. size \in Nat /\ stack_base \in Nat /\ size >= stack_base + 6 /\ size < Word
    BY <1>1, <1>2
  <2>1. /\ x \in Int /\ x >= 0 /\ x < Word /\ x + 1 = y
        /\ y \in Int /\ y >= 0 /\ y < Word
    BY <2>0, WordFact
  <2>2. task_sp = x % Word /\ entry = (task_sp + 1) % Word
    BY <1>4 DEF Loop, EntrySet
  <2> HIDE DEF x, y
  <2>3. x % Word = x /\ y % Word = y
    BY <2>1, Mod16, Zenon
  <2> QED BY <2>1, <2>2, <2>3 DEF x, y
<1>5. ASSUME stack_base = 0
      PROVE  task_sp = size - 3 /\ entry = size - 2
  <2> DEFINE x == size - 3
             y == size - 2
  <2>0. size \in Nat /\ size >= 6 /\ size < Word
    BY <1>1, <1>2, <1>5
  <2>1. x \in Int /\ x >= 0 /\ x < Word /\ y \in Int /\ y >= 0 /\ y < Word
    BY <2>0, WordFact
  <2>2. task_sp = x % Word /\ entry = y % Word
    BY <1>5 DEF Loop, EntrySet
  <2> HIDE DEF x, y
  <2>3. x % Word = x /\ y % Word = y
    BY <2>1, Mod16, Zenon
  <2> QED BY <2>2, <2>3 DEF x, y
<1>6. ASSUME NEW i \in 1..n
      PROVE  /\ R[i] <= 16 => place[i] = [in |-> "regs", base |-> 26 - R[i]]
             /\ R[i] > 16 => place[i] = [in |-> "stack", base |-> size - (B[n] - B[i - 1]) - 1]
  <2>1. place[i] = CodePlace(i)
    BY <1>1, <1>3
  <2> DEFINE x == size - (B[n] - B[i - 1]) - 1
  <2>2. x \in Int /\ x >= 0 /\ x < Word
    <3>1. i - 1 \in 0..n /\ n \in 0..n /\ i - 1 <= n
      BY <1>2
    <3>2. B[n] \in Nat /\ B[i - 1] \in Nat /\ B[i - 1] <= B[n]
      BY <1>1, <3>1 DEF Offsets
    <3> DEFINE u == B[n]
               v == B[i - 1]
    <3>3. u \in Nat /\ v \in Nat /\ v <= u /\ size >= u + 6 /\ size \in Nat /\ size < Word
      BY <1>1, <1>2, <3>2
    <3> HIDE DEF u, v
    <3>4. /\ size - (u - v) - 1 \in Int /\ size - (u - v) - 1 >= 0
          /\ size - (u - v) - 1 < Word
      BY <3>3, WordFact
    <3> QED BY <3>4 DEF u, v
  <2>3. /\ R[i] <= 16 => place[i] = [in |-> "regs", base |-> 26 - R[i]]
        /\ R[i] > 16 => place[i] = [in |-> "stack", base |-> x % Word]
    BY <1>1, <2>1, PlaceFacts
  <2> HIDE DEF x
  <2>4. x % Word = x
    BY <2>2, Mod16, Zenon
  <2> QED BY <2>3, <2>4 DEF x
<1> QED BY <1>1, <1>2, <1>4, <1>5, <1>6 DEF Finished

\* The first argument on the stack is above the entry address, the others follow.
LEMMA Above ==
  ASSUME Finished, NEW i \in OnStack
  PROVE  /\ i \in 1..n /\ args[i] \in Nat /\ args[i] >= 1 /\ place[i].base \in Int
         /\ place[i].base = size - (B[n] - B[i - 1]) - 1
         /\ place[i].base + args[i] = size - (B[n] - B[i]) - 1
         /\ B[n] \in Nat /\ B[i] \in Nat /\ B[i - 1] \in Nat /\ B[i] <= B[n] /\ stack_base # 0
<1>1. i \in 1..n /\ place[i].in = "stack"
  BY DEF OnStack, Finished
<1>2. i \in 0..n /\ i - 1 \in 0..n /\ n \in 0..n /\ i <= n
  BY <1>1 DEF Finished, Offsets
<1>3. R[i] \in Nat /\ B[n] \in Nat /\ B[i] \in Nat /\ B[i - 1] \in Nat /\ B[i] <= B[n]
  BY <1>2 DEF Finished, Offsets
<1>4. R[i] > 16
  <2>1. ASSUME R[i] <= 16 PROVE FALSE
    <3>1. place[i] = [in |-> "regs", base |-> 26 - R[i]]
      BY <1>1, <2>1 DEF Finished
    <3>2. place[i].in = "regs"
      BY <3>1
    <3> QED BY <1>1, <3>2
  <2> QED BY <1>3, <2>1
<1>5. place[i] = [in |-> "stack", base |-> size - (B[n] - B[i - 1]) - 1]
  BY <1>1, <1>4 DEF Finished
<1>6. args[i] \in Nat /\ args[i] >= 1 /\ B[i] = B[i - 1] + args[i]
  BY <1>1, <1>4 DEF Finished, Offsets
<1>7. place[i].base = size - (B[n] - B[i - 1]) - 1
  BY <1>5
<1>8. stack_base # 0
  <2>1. B[n] # 0
    BY <1>3, <1>6
  <2> QED BY <2>1 DEF Finished
<1>9. size \in Nat
  BY DEF Finished
<1> DEFINE b == place[i].base
<1>10. b = size - (B[n] - B[i - 1]) - 1
  BY <1>7
<1> HIDE DEF b
<1>11. b \in Int /\ b + args[i] = size - (B[n] - B[i]) - 1
  BY <1>3, <1>6, <1>9, <1>10
<1> QED BY <1>1, <1>3, <1>6, <1>8, <1>10, <1>11 DEF b

\* So no two arguments share a byte, and none is below the stack pointer.
LEMMA Intact == ASSUME SizesFit, Loop PROVE StackIntact
<1> SUFFICES ASSUME pass = "done", Roomy
             PROVE  /\ entry = task_sp + 1 /\ entry + 1 < size
                    /\ \A i \in OnStack :
                         /\ Bytes(i) \subseteq (entry + 2)..(size - 1)
                         /\ \A j \in OnStack : i # j => Bytes(i) \cap Bytes(j) = {}
  BY DEF StackIntact
<1>1. Finished
  BY AtTheEnd
<1>2. size \in Nat /\ stack_base \in Nat /\ size >= stack_base + 6 /\ n \in Nat
  <2>1. n \in Nat
    BY <1>1 DEF Finished, Offsets
  <2>2. n \in 0..n
    BY <2>1
  <2> QED BY <1>1, <2>1, <2>2 DEF Finished, Offsets
<1>3. entry = task_sp + 1 /\ entry + 1 < size
  <2>1. \/ task_sp = size - stack_base - 6 /\ entry = size - stack_base - 5
        \/ task_sp = size - 3 /\ entry = size - 2
    BY <1>1 DEF Finished
  <2> QED BY <1>2, <2>1
<1>4. ASSUME NEW i \in OnStack PROVE Bytes(i) \subseteq (entry + 2)..(size - 1)
  <2> DEFINE b == place[i].base
             c == b + args[i]
  <2>1. /\ b \in Int /\ b = size - (B[n] - B[i - 1]) - 1 /\ c = size - (B[n] - B[i]) - 1
        /\ B[n] \in Nat /\ B[i] \in Nat /\ B[i - 1] \in Nat /\ B[i] <= B[n] /\ stack_base # 0
        /\ args[i] \in Nat
    BY <1>1, <1>4, Above
  <2>2. entry = size - stack_base - 5 /\ stack_base = B[n]
    BY <1>1, <2>1 DEF Finished
  <2>3. Bytes(i) = b..(c - 1)
    BY <2>1 DEF Bytes
  <2>4. c \in Int
    BY <2>1
  <2> HIDE DEF b, c
  <2> DEFINE u == B[n]
             v == B[i - 1]
             w == B[i]
  <2>5. /\ b = size - (u - v) - 1 /\ c = size - (u - w) - 1 /\ entry = size - u - 5
        /\ u \in Nat /\ v \in Nat /\ w \in Nat /\ w <= u
    BY <2>1, <2>2
  <2> HIDE DEF u, v, w
  <2>6. entry + 2 <= b /\ c - 1 <= size - 1 /\ entry \in Int
    BY <1>2, <2>5
  <2>7. b \in Int /\ size \in Int
    BY <1>2, <2>1
  <2>8. b..(c - 1) \subseteq (entry + 2)..(size - 1)
    BY ONLY <2>4, <2>6, <2>7
  <2> QED BY <2>3, <2>8
<1>5. ASSUME NEW i \in OnStack, NEW j \in OnStack, i < j
      PROVE  Bytes(i) \cap Bytes(j) = {}
  <2> DEFINE b == place[i].base
             c == b + args[i]
             d == place[j].base
             e == d + args[j]
  <2>1. /\ i \in 1..n /\ args[i] \in Nat /\ b \in Int /\ c = size - (B[n] - B[i]) - 1
        /\ B[n] \in Nat /\ B[i] \in Nat
    BY <1>1, <1>5, Above
  <2>2. /\ j \in 1..n /\ args[j] \in Nat /\ d \in Int /\ d = size - (B[n] - B[j - 1]) - 1
        /\ B[j - 1] \in Nat
    BY <1>1, <1>5, Above
  <2>3. B[i] <= B[j - 1]
    <3>1. i \in 0..n /\ j - 1 \in 0..n /\ i <= j - 1
      BY <1>2, <1>5, <2>1, <2>2
    <3> QED BY <1>1, <3>1 DEF Finished, Offsets
  <2>4. Bytes(i) = b..(c - 1) /\ Bytes(j) = d..(e - 1)
    <3>1. Bytes(i) = b..(c - 1)
      BY <2>1 DEF Bytes
    <3>2. Bytes(j) = d..(e - 1)
      BY <2>2 DEF Bytes
    <3> QED BY <3>1, <3>2
  <2>5. c \in Int /\ e \in Int
    BY <2>1, <2>2
  <2> HIDE DEF b, c, d, e
  <2>6. c <= d
    BY <1>2, <2>1, <2>2, <2>3
  <2> QED BY <2>1, <2>2, <2>4, <2>5, <2>6
<1>6. ASSUME NEW i \in OnStack, NEW j \in OnStack, i # j
      PROVE  Bytes(i) \cap Bytes(j) = {}
  <2>1. i \in 1..n /\ j \in 1..n
    BY <1>1, <1>6, Above
  <2>2. i < j \/ j < i
    BY <1>2, <1>6, <2>1
  <2>3. CASE i < j
    BY <1>5, <2>3
  <2>4. CASE j < i
    <3>1. Bytes(j) \cap Bytes(i) = {}
      BY <1>5, <2>4
    <3> QED BY <3>1
  <2> QED BY <2>2, <2>3, <2>4
<1> QED BY <1>3, <1>4, <1>6

\* create_task: for all sizes of arguments and stack arrays, the counters stay in
\* range, the passes agree, and in an array that is long enough the arguments and
\* the entry address lie inside it, no two on the same byte.
THEOREM ArgumentsFit == ArgsSpec => []ArgsInv
<1> SizesFit
  BY ConstantsAssumption
<1>1. ArgsInit => Loop
  BY InitLoop
<1>2. Loop /\ [ArgsNext]_args_vars => Loop'
  <2> SUFFICES ASSUME Loop, [ArgsNext]_args_vars PROVE Loop'
    OBVIOUS
  <2>1. CASE UNCHANGED args_vars
    <3>1. UNCHANGED <<args, size, pass, next, args_to_stack, regs_used, stack_used,
                      stack_base, place, task_sp, entry>>
      BY <2>1 DEF args_vars
    <3>2. R' = R /\ B' = B /\ \A i : CodePlace(i)' = CodePlace(i)
      BY <3>1, SameSums, SamePlaces
    <3>3. ArgsTypeOK' /\ EntrySet'
      BY <3>1 DEF Loop, ArgsTypeOK, EntrySet
    <3>4. (Counted(next - 1))'
      BY <3>1, <3>2 DEF Loop, PassesAgree, Counted, R
    <3>5. PassesAgree'
      BY <3>1, <3>2, <3>4 DEF Loop, PassesAgree, B
    <3> QED BY <3>3, <3>5 DEF Loop
  <2> QED BY <2>1, CalcStep, RestartStep, ProcessStep, EntryStep DEF ArgsNext
<1>3. Loop => ArgsInv
  BY Intact DEF Loop, ArgsInv
<1> QED BY <1>1, <1>2, <1>3, PTL DEF ArgsSpec

\* The stack offsets of the code and of the convention part where an argument
\* should end in r8.
LEMMA OffsetsPart ==
  ASSUME SizesFit, Finished, \A j \in 0..n : \E h \in Nat : R[j] = 2 * h
  PROVE  \A j \in 0..n :
           /\ StackBytes(18)[j] \in Nat
           /\ StackBytes(18)[j] = B[j] <=> ~UsesR8(j)
<1> DEFINE C == StackBytes(18)
<1>1. /\ n \in Nat /\ n = Len(args) /\ \A i \in 1..n : args[i] \in Nat /\ args[i] >= 1
      /\ B[0] = 0 /\ \A i \in 0..n : R[i] \in Nat /\ B[i] \in Nat
      /\ \A i \in 1..n : /\ R[i] > 16 => B[i] = B[i - 1] + args[i]
                         /\ R[i] <= 16 => B[i] = B[i - 1]
  BY DEF Finished, Offsets
<1> DEFINE a == [j \in 1..n |-> IF R[j] > 18 THEN args[j] ELSE 0]
<1>2. a \in Seq(Nat) /\ Len(a) = n /\ C = Sums(a)
  <2>1. \A j \in 1..n : (IF R[j] > 18 THEN args[j] ELSE 0) \in Nat
    BY <1>1
  <2>2. a \in [1..n -> Nat]
    BY <2>1, Zenon
  <2>3. C = Sums(a)
    BY Zenon DEF StackBytes, R, n
  <2> HIDE DEF a, C
  <2>4. a \in Seq(Nat) /\ Len(a) = n
    <3>1. n \in Nat
      BY <1>1
    <3> QED BY ONLY <2>2, <3>1
  <2> QED BY <2>3, <2>4
<1>3. C[0] = 0 /\ \A i \in 1..n : C[i] = C[i - 1] + (IF R[i] > 18 THEN args[i] ELSE 0)
  <2>1. \A i \in 1..n : a[i] = IF R[i] > 18 THEN args[i] ELSE 0
    OBVIOUS
  <2> HIDE DEF a, C
  <2>2. Sums(a)[0] = 0 /\ \A i \in 1..n : Sums(a)[i] = Sums(a)[i - 1] + a[i]
    BY <1>2, SumsStep
  <2> QED BY <1>2, <2>1, <2>2
<1> HIDE DEF C, a
<1> DEFINE G == {j \in Nat : j <= n => /\ C[j] \in Nat /\ C[j] <= B[j]
                                       /\ C[j] = B[j] <=> ~UsesR8(j)}
<1>4. 0 \in G
  <2>1. ~UsesR8(0)
    BY DEF UsesR8
  <2> QED BY <1>1, <1>3, <2>1
<1>5. \A i \in 1..n : i - 1 \in G => i \in G
  <2> SUFFICES ASSUME NEW i \in 1..n, i - 1 \in G
               PROVE  C[i] \in Nat /\ C[i] <= B[i] /\ (C[i] = B[i] <=> ~UsesR8(i))
    BY <1>1
  <2>1. i \in 0..n /\ i - 1 \in 0..n /\ i - 1 \in Nat /\ i - 1 <= n
    BY <1>1
  <2>2. C[i - 1] \in Nat /\ C[i - 1] <= B[i - 1] /\ (C[i - 1] = B[i - 1] <=> ~UsesR8(i - 1))
    BY <2>1
  <2>3. UsesR8(i) <=> UsesR8(i - 1) \/ R[i] = 18
    <3>1. \A k : k \in 1..i <=> k \in 1..(i - 1) \/ k = i
      BY <1>1
    <3> QED BY <3>1 DEF UsesR8, R
  <2>4. PICK h \in Nat : R[i] = 2 * h
    BY <2>1
  <2> DEFINE r == R[i]
             x == args[i]
             b == B[i]
             b1 == B[i - 1]
             c == C[i]
             c1 == C[i - 1]
  <2>5. /\ r \in Nat /\ r = 2 * h /\ x \in Nat /\ x >= 1 /\ b \in Nat /\ b1 \in Nat /\ c1 \in Nat
        /\ b = b1 + (IF r > 16 THEN x ELSE 0) /\ c = c1 + (IF r > 18 THEN x ELSE 0)
        /\ c1 <= b1
    BY <1>1, <1>3, <2>1, <2>2, <2>4
  <2>6. (c1 = b1 <=> ~UsesR8(i - 1)) /\ (UsesR8(i) <=> UsesR8(i - 1) \/ r = 18)
    BY <2>2, <2>3
  <2> HIDE DEF r, x, b, b1, c, c1
  <2>7. CASE r = 18
    <3>1. c \in Nat /\ c < b
      BY <2>5, <2>7
    <3> QED BY <2>5, <2>6, <2>7, <3>1 DEF c, b
  <2>8. CASE r # 18
    <3>1. c \in Nat /\ c <= b /\ (c = b <=> c1 = b1)
      BY <2>5, <2>8
    <3> QED BY <2>6, <2>8, <3>1 DEF c, b
  <2> QED BY <2>7, <2>8
<1>6. \A j \in 0..n : j \in G
  <2>1. G \in SUBSET Nat
    OBVIOUS
  <2> HIDE DEF G
  <2> QED BY <1>1, <1>4, <1>5, <2>1, Induct
<1>7. \A j \in 0..n : C[j] \in Nat /\ (C[j] = B[j] <=> ~UsesR8(j))
  BY <1>1, <1>6
<1> QED BY <1>7 DEF C

\* _calc_sizes / _process_arg: for all sizes of arguments and all stack arrays
\* that are long enough, the entry function finds the arguments up to the first
\* one that should end in r8 where the calling convention has them, and none
\* from there on.
THEOREM ArgumentsTheorem == ArgsSpec => []FoundBelowR8
<1> SizesFit
  BY ConstantsAssumption
<1>1. ArgsInv => FoundBelowR8
  <2> SUFFICES ASSUME ArgsInv, pass = "done", Roomy,
                      NEW i \in 1..Len(args)
               PROVE  place[i] = ExpectedPlace(i) <=> ~UsesR8(i)
    BY DEF FoundBelowR8
  <2>1. Loop
    BY DEF Loop, ArgsInv
  <2>2. Finished
    BY <2>1, AtTheEnd
  <2>3. n \in Nat /\ n = Len(args) /\ i \in 1..n /\ i \in 0..n /\ i - 1 \in 0..n /\ n \in 0..n
    BY <2>2 DEF Finished, Offsets
  <2>4. \A j \in 0..n : \E h \in Nat : R[j] = 2 * h
    BY <2>1, LoopOffsets DEF Loop
  <2>9. /\ R[i] <= 16 => place[i] = [in |-> "regs", base |-> 26 - R[i]]
        /\ R[i] > 16 => place[i] = [in |-> "stack", base |-> size - (B[n] - B[i - 1]) - 1]
    BY ONLY <2>2, <2>3 DEF Finished
  <2>5. R[i] \in Nat /\ \A k \in 1..i : R[k] \in Nat /\ R[k] <= R[i]
    <3>1. \A k \in 1..i : k \in 0..n /\ k <= i
      BY <2>3
    <3> QED BY <2>2, <2>3, <3>1 DEF Finished, Offsets
  <2>6. CASE R[i] <= 16
    <3>1. place[i] = [in |-> "regs", base |-> 26 - R[i]] /\ R[i] <= 18
      BY ONLY <2>5, <2>6, <2>9
    <3>2. ~UsesR8(i)
      BY <2>5, <2>6 DEF UsesR8, R
    <3> QED BY <3>1, <3>2 DEF ExpectedPlace, R
  <2>7. CASE R[i] > 16 /\ R[i] <= 18
    <3>1. R[i] = 18
      <4>1. PICK h \in Nat : R[i] = 2 * h
        BY <2>3, <2>4
      <4> DEFINE r == R[i]
      <4>2. r \in Nat /\ r = 2 * h /\ r > 16 /\ r <= 18
        BY <2>5, <2>7, <4>1
      <4> HIDE DEF r
      <4>3. r = 18
        BY <4>2
      <4> QED BY <4>3 DEF r
    <3>2. UsesR8(i)
      BY <2>3, <3>1 DEF UsesR8, R
    <3>3. place[i].in = "stack" /\ ExpectedPlace(i).in = "regs"
      BY ONLY <2>7, <2>9 DEF ExpectedPlace, R
    <3> QED BY <3>2, <3>3
  <2>8. CASE R[i] > 18
    <3>1. /\ place[i] = [in |-> "stack", base |-> size - (B[n] - B[i - 1]) - 1]
          /\ R[i] > 16 /\ ~(R[i] <= 18)
      BY ONLY <2>5, <2>8, <2>9
    <3>2. B[n] \in Nat /\ B[i - 1] \in Nat /\ size \in Nat /\ task_sp = size - B[n] - 6
      <4>1. i <= n
        BY <2>3
      <4>2. /\ B[n] \in Nat /\ B[i] \in Nat /\ B[i - 1] \in Nat /\ B[i] <= B[n]
            /\ args[i] \in Nat /\ args[i] >= 1 /\ B[i] = B[i - 1] + args[i]
        <5>1. Offsets
          BY <2>2 DEF Finished
        <5>2. /\ \A k \in 0..n : B[k] \in Nat
              /\ \A k \in 1..n : /\ args[k] \in Nat /\ args[k] >= 1
                                 /\ R[k] > 16 => B[k] = B[k - 1] + args[k]
              /\ \A k, j \in 0..n : k <= j => B[k] <= B[j]
          BY ONLY <5>1 DEF Offsets
        <5> QED BY ONLY <2>3, <3>1, <4>1, <5>2
      <4>3. B[n] # 0
        BY <4>2
      <4> QED BY <2>2, <4>2, <4>3 DEF Finished
    <3>3. size - (B[n] - B[i - 1]) - 1 = task_sp + 2 + 3 + B[i - 1]
      <4> DEFINE u == B[n]
                 v == B[i - 1]
      <4>1. u \in Nat /\ v \in Nat /\ size \in Nat /\ task_sp = size - u - 6
        BY <3>2
      <4> HIDE DEF u, v
      <4>2. size - (u - v) - 1 = task_sp + 2 + 3 + v
        BY <4>1
      <4> QED BY <4>2 DEF u, v
    <3> DEFINE C == StackBytes(18)
    <3>4. ExpectedPlace(i) = [in |-> "stack", base |-> task_sp + 2 + 3 + C[i - 1]]
      BY <3>1 DEF ExpectedPlace, EntrySp, R
    <3>5. C[i - 1] \in Nat /\ (C[i - 1] = B[i - 1] <=> ~UsesR8(i - 1))
      BY <2>2, <2>3, <2>4, OffsetsPart
    <3>6. UsesR8(i) <=> UsesR8(i - 1)
      <4>1. \A k : k \in 1..i <=> k \in 1..(i - 1) \/ k = i
        BY <2>3
      <4>2. R[i] # 18
        BY <2>5, <2>8
      <4> QED BY <4>1, <4>2 DEF UsesR8, R
    <3> HIDE DEF C
    <3>7. place[i] = ExpectedPlace(i) <=> C[i - 1] = B[i - 1]
      <4> DEFINE u == B[i - 1]
                 v == C[i - 1]
                 w == task_sp + 2 + 3
      <4>1. /\ place[i] = [in |-> "stack", base |-> w + u]
            /\ ExpectedPlace(i) = [in |-> "stack", base |-> w + v]
        BY <3>1, <3>3, <3>4
      <4>2. u \in Nat /\ v \in Nat /\ w \in Int
        BY <3>2, <3>5
      <4> HIDE DEF u, v, w
      <4>3. w + u = w + v <=> u = v
        BY <4>2
      <4>4. place[i] = ExpectedPlace(i) <=> w + u = w + v
        BY <4>1
      <4> QED BY <4>3, <4>4 DEF u, v
    <3> QED BY <3>5, <3>6, <3>7
  <2> QED BY <2>5, <2>6, <2>7, <2>8
<1> QED BY <1>1, ArgumentsFit, PTL
=============================================================================
