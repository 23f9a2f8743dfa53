# Verification of atmega328-scheduler

A TLA+ development for the preemptive round-robin scheduler for the ATmega328P
in this repository. Paths below are relative to the repository root.

## 1. Inventory

| Component | Code | State it keeps | Operations | What makes it correct |
|---|---|---|---|---|
| Context switch | `src/kernel.cpp`, `src/cpu.h` | `c_task`, `cpu_state` of each task, the task stacks, the processor, OCR0B and its flag | `TIMER0_COMPB_vect`, `yield`, `soft_yield`, `kernel_start` | a task's registers, position and interrupt flag change by its own instructions only; no switch starts inside another; every task runs (none of the three without exception: section 2) |
| Task creation, boot | `src/scheduler.cpp`, `src/scheduler.h` | `task_data_t`, initial stack | `init_scheduler`, `start_scheduler`, two `create_task` | a task starts at its entry with interrupts enabled and its arguments where the calling convention has them |
| Ready list | `src/task.cpp` | `ready_list_head`, `next_node`, `state` | `_add_task`, `remove_task` | no task is lost, a removed one stays off, the walk ends |
| Policy | `src/drivers/scheduling/sched.cpp` | `c_task` | `schedule_round_robin` | tasks take turns in order of creation |
| Mutex | `src/drivers/synchronization/mutex.cpp` | `owner` | `mtx_lock`, `mtx_try_lock`, `mtx_release` | exclusion; the caller's interrupt flag is kept; waiting does not block the owner |
| Clock | `src/drivers/clock/clock.cpp`, macros of `drivers/timer/timer.h` | overflow count, milliseconds, fraction | `TIMER0_OVF_vect`, `get_ms`, `get_us`, `initialize_clock` | no overflow lost or counted twice; `get_us` is a time during the call; no drift |
| Time slices and CPU time | `calculate_task_execution_time`, `soft_yield` and the writes of OCR0B in `src/kernel.cpp` | OCR0B, OCF0B, `exec_time_us`, `exec_time_overflow_count`, `exec_start_time_us` | part of each switch; `soft_yield` | the slices of a task add up, each ends in time and none is cut short |
| FIFO, IPC FIFO | `src/drivers/data_types/fifo.h`, `src/drivers/ipc/ipc_fifo.h` | ring buffer, mutex | `enqueue`, `dequeue`, `get_used_size`, `is_full` | a bounded queue, also between tasks; a checked call succeeds |
| Argument passing | `_calc_sizes`, `_process_arg` in `src/scheduler.h` | registers and stack of a new task | part of the variadic `create_task` | agrees with the AVR calling convention, writes inside the stack |
| UART transmit | vendored `lib/AVR-UART-LIB`, attached to stdout by `src/drivers/uart/uart.cpp` | transmit ring, UDRIE, UDR | `uart_putc`, `uart_putc_noblock`, the string and number functions, `uart_flush`, `uart_reinit`, UDRE interrupt | bytes leave once and in order; calls return; nothing stays behind |
| UART receive | same library, stdin | receive ring | RX interrupt, `uart_getc`, `uart_getData`, `uart_LoadData`, `uart_gets`, `uart_getln`, `uart_getlnToFirstWhiteSpace`, `uart_getint` | what is read is what was sent, within the caller's array |
| Timer registers | `src/drivers/timer/` | none of its own | setters of control bits | - |
| Linked list library | `lib/singly_linked_list` | list nodes | not used by the kernel | - |
| Tests | `test/` (simavr) | - | - | - |

How they interact. There is one processor. Everything runs on it: task code, two
interrupts of timer 0 and two of the USART. The overflow interrupt (every
1024 us) belongs to the clock; the compare B interrupt (about every millisecond)
switches tasks. A task gives the processor away in `yield`, which `mtx_lock` calls
while it waits. The switch follows the ready list from `c_task`, reads the clock and
charges the task it leaves. The IPC FIFO wraps each operation of the FIFO in the
mutex. The USART's interrupts share a ring with the tasks that print or read. All
code protects shared data by clearing the I bit of SREG and putting it back - except
`remove_task`, which does not protect anything, and the rings, where each index has
one writer.

What is hard: every instruction with the I bit set is a point at which another
task may run; flags of the timer are latched and take effect later, possibly in
the middle of the restore sequence; `_RESTORE_CTX` gives SREG back before SP;
counters wrap. A test on a simulator meets few of these orders. The list of
hazards, each with its line and the properties that cover it, is in
`PROJECT.json`.

## 2. Modules

| Module | Models | Used by |
|---|---|---|
| `VirtualCpu` | what the kernel promises a task: a processor of its own (abstract) | `ContextSwitch` |
| `ContextSwitch` | `kernel.cpp` with `create_task`, boot, the timer's flags | `MCContextSwitch`, `ContextSwitchProofs` |
| `ReadyQueue` | what the ready list stands for: a queue that takes turns (abstract) | `TaskList` |
| `TaskList` | `task.cpp`, `remove_task`, `sched.cpp` | `MCTaskList`, `TaskListProofs` |
| `Mutex` | `mutex.cpp` on top of a scheduler seen from the tasks, with `remove_task` | `MCMutex`, `MutexProofs` |
| `Clock` | `clock.cpp` against a running counter | `MCClock`, `ClockProofs` |
| `ExecTime` | slices, OCR0B, `soft_yield` and the accounting of `kernel.cpp` | `MCExecTime`, `ExecTimeProofs` |
| `TaskArgs` | argument placement in `scheduler.h` | `MCTaskArgs`, `ContextSwitchProofs` |
| `BoundedQueue` | what each of the three ring buffers stands for (abstract) | `IpcFifo`, `UsartTx`, `UsartRx` |
| `IpcFifo` | `ipc_fifo.h` and `fifo.h` | `MCIpcFifo`, `IpcFifoProofs` |
| `UsartText` | the bytes that the string, number and stdio functions of the UART library produce | `UsartTx`, `UsartRx` |
| `UsartTx` | the transmit half of `usart.c` | `MCUsartTx`, `UsartTxProofs` |
| `UsartRx` | the receive half of `usart.c` | `MCUsartRx`, `UsartRxProofs` |

### ContextSwitch

Variables have the code's names; `pc`, `regs`, `sp`, `irq` are the processor,
`toie`, `ocie`, `tov`, `ocf` the bits TOIE0, OCIE0B, TOV0, OCF0B. A register
file is one value, a stack pointer is the thread whose stack it points into, and
`stack[t]` is the return address at the top of `t`'s stack.

Code that runs with the I bit clear is one action: `TIMER0_COMPB_vect` and
`yield` up to `_RESTORE_CTX`, `create_task`, `init_scheduler`. `_RESTORE_CTX` is a
step per write (SREG, SP_L, SP_H, registers) and an exit, because a task that
has not run yet has the I bit set in its `cpu_state.sreg`. Between SP_L and
SP_H the stack pointer is `Torn`. A task that was switched out has the I bit
clear in `cpu_state.sreg`, since `_SAVE_CTX` reads SREG after its `cli`; `reti`
or `sei` sets it again.

`CompareMatch` may happen at any moment a task runs, which also stands for the early
match that `soft_yield` asks for (`ExecTime` has the values), and at any moment of main
once `initialize_clock` has started the timer: OCR0B and TCNT0 are both 0 then, so that
OCF0B is latched at the first tick and `kernel_start`, which does not clear the flag,
practically always finds it set. (If main needs less than that one tick of 4 us it does not;
the model has both.) What follows is part of the model and of its properties:

* The compare interrupt comes right after the first task's SREG has been written, and
  `_SAVE_CTX` stores main's registers, stack pointer and its place in `_RESTORE_CTX` over
  the first task's context. `SavedContextsIntact` says that this does not happen; the
  run `context_switch_boot` shows that it does.
* From then on the first task is lost (`StartLost`). In its slices the processor resumes
  main's restore sequence on main's stack, finds the same context in `c_task`, and goes
  round (`Looping`) until the timer ends the slice. Where main had interrupts enabled
  (after the variadic `create_task`), the loop begins with the write of SREG and leaves
  interrupts disabled for good (`HangsAhead`): no task runs any more.
* All other tasks are as they should be: `ContextsKept` allows the lost first task and
  nothing else, and in `ImplementsVirtualCpu` losing it is a step of `VirtualCpu`
  (`Lose`), which can happen to a task only before it has run.

Two constants describe the environment, and both are TRUE in the passing run and
arbitrary in the proofs: `TornWindow` (an interrupt falls due between the writes of SP)
and `LongMask` (a task disables interrupts for a timer period). What they can do is
`harmed`, a history variable that is set when an interrupt has come where the kernel cannot
stand it, after which the model follows the program no further:

* An interrupt on a `Torn` SP pushes into memory that may be any task's stack
  (`MCContextSwitchTorn.cfg`, in which a context is overwritten). Next to the new SP, where
  `_RESTORE_CTX` goes on to use the stack the interrupt used, it harms the loop above.
* A compare interrupt a timer period late (`late`) finds the old OCR0B matching again
  before it is rewritten; since `TIMER0_COMPB_vect` lacks the clearing of OCF0B that `yield`
  has, a second switch starts inside the restore of a new task
  (`MCContextSwitchLongMask.cfg`).

`SwitchInv`, `ContextIntegrity`, `ImplementsVirtualCpu` and `EveryTaskRuns` speak of
behaviours up to such a step, and `HarmAtFirstDispatch` says where it can be: where a
task is dispatched for the first time (`Fresh`), whose SREG, unlike that of a task that was
switched out, has interrupts enabled, and in the loop of a lost first task. If `_SAVE_CTX`
read SREG before its `cli` (the mutant `save_ctx_early`), every switch would be exposed.

Tasks are created and never removed in this module; the list is well formed,
so the tail is the node without successor.

### TaskList

Each access of `remove_task` to a shared pointer is a step of the task that
calls it; `schedule_round_robin` may come between any two. `create_task` is one
step (it runs with interrupts disabled). `victim`, `seek`, `next_task` are the locals
of each task's call, `wanted` and `wild` are history: the tasks that nobody asked
to remove, and whether `*nullptr` was written. Pointers are read and written
whole; the AVR moves them a byte at a time, a finer grain than the model's.
`Nodes` follows `next_node` from the head, and `Order` is the list as a sequence.

The code asks nothing of its callers, and would break if they did as they
like. The constant `Allowed` waives a discipline point by point; the passing run
waives nothing and shows the discipline to be enough. Each point is needed:

| Waiver | What it permits | Breaks | Configuration |
|---|---|---|---|
| "concurrent" | two tasks inside `remove_task` | `RemovedStaysOff`: the head's removal stores a successor that another task has removed meanwhile (also `NoTaskLost`) | `MCTaskListConcurrent.cfg` |
| "create" | `create_task` while another task is inside `remove_task` | `NoTaskLost`: the newcomer behind the tail is cut off by the tail's removal, which read `nullptr` before (`task.cpp:106-110`) | `MCTaskListCreate.cfg` (run `task_list_create`) |
| "unlisted" | the target of `remove_task` is not on the list | `NoWildWrite`: a store through `nullptr`, where `task.h:147` promises a failure return | `MCTaskListUnlisted.cfg` |
| "last" | the target is the only task | `CTaskValid` | `MCTaskListLast.cfg` |
| "after" | a task that removed itself removes others | `RemovedStaysOff` | `MCTaskListAfter.cfg` |
| "listed" | `create_task` is given a task in use | `NoTaskLost`, `ListInv` (it becomes its own successor) | none: no text of the repository speaks of it |

Under the discipline `NoWildWrite` says nothing, since the walk cannot miss its target; it
is a property of the configuration that waives "unlisted" only.

`create_task_fails` is the early return for a name that is too long, after `state`
and `next_node` have been overwritten.

### Mutex

One mutex, and the tasks of a ready list: `listed` and `succ` are that list as
`schedule_round_robin` sees it, `remove_task` is one step. Statements of the three
mutex functions that touch shared state are steps, with the I bit as in the code.
`holds[t]` is what the last call has told `t` (`HoldsAfter`), and `enabled[t]` the
interrupt flag it last asked for.

The constant `Orphans` lets a task leave the list while it owns the mutex, or lock
it in the last slice after its own removal. Nothing in the code forbids either;
with `Orphans` TRUE `LockIsReleased` fails, since `remove_task` knows nothing of
mutexes. The safety properties hold, and are proved, in both cases.

Two things a reader of `mutex.h` might expect do not hold. A particular waiting
task may find the mutex taken each time it polls, although every owner releases it
(`blocked_head`, a queue of waiting tasks, is never used); what holds is
`FreeLockIsTaken`. And `mtx_try_lock` does not compare the owner with the caller: the
owner itself gets `MUTEX_ERR_ALREADY_LOCKED`, which `mutex.h:43` says means another
task. A task that believes it does not release, so that the lock stays: `NoLeakedLock`, the
claim that whoever owns the mutex knows it, is violated (`MCMutexTryLock.cfg`). For
that reason the fairness of `LockIsReleased` is that the *owner* calls `mtx_release` some
day, whatever it has been told.

### Clock

A tick of the counter is the unit of time. `get_us` is a step per read, and at
most one tick falls into its masked part (some twenty cycles against 64).
`LongMask` says whether the overflow interrupt may be kept waiting until the
counter is about to reach 255 again. `overflows`, `since`, `ticked` are history
variables. Counters wrap at `Word`.

### ExecTime

One tick of timer 0 is the unit of time; `TCNT0` is the time modulo `Period`, `get_us` the
time modulo `Wrap` (module `Clock` shows that it is right, in microseconds). A switch is
three steps, with ticks in between: charge and pick the next task, write OCR0B (and in
`yield` clear the flag), set `exec_start_time_us`. `soft_yield` is two, the read of TCNT0
and the write of OCR0B: `held[t]` is what `t` has read and not stored yet. A task
preempted in between stores it in a later slice of its own, over the interval that slice
was given. `Latency` bounds how long an interrupt is kept waiting and a switch takes; it
is at most `Interval` (246 ticks in the code, against a latency of one or two). Without
that an old match may still end a later slice: with a period of 7, an interval of 1 and a
latency of 3, `FullSlice` is violated. `due`, `lead`, `longest` and `overflows` are
history: what a task should be charged, the time before its first slice that
`kernel_start` charges too, and what is needed to say how large the error of a restarted
counter can be.

`AccountingBounded` is what the code really guarantees: exact until the 32-bit
counter overflows, and from then on too much by at most one slice per overflow,
because `kernel.cpp:49` drops the remainder. A tick between the read and the write in
`soft_yield` makes the "yield" come a timer period later, and so may a switch; `SliceEnds`
says not more. `FullSlice` exempts a slice in which `soft_yield` has stored OCR0B, also one
that only meets the store of an earlier call. `task.h:58-60` speaks of 38 bits and 50.9 days
of CPU time; the code, and the model, have a word of 32 bits and a count of overflows of 8,
that is 12.7 days.
(`kernel.h:32` says that `soft_yield` "will always enable interrupts upon return"; the
code does not touch the I bit.)

### TaskArgs

The two passes of the variadic `create_task`, one argument per step, on sizes only;
indices into the stack array are 16-bit integers. `ExpectedPlace` is avr-gcc's
calling convention. It uses r25 to r8, as the comment in `scheduler.h:71` says; the
code stops at r10 (`< 17`, `scheduler.h:56` and 92) and puts an argument that would end
in r8 on the stack. So `ArgumentsFound` is violated (`MCTaskArgsR8.cfg`), and what holds is
`FoundBelowR8`: the arguments up to the first one that should end in r8 are where the
entry function looks for them, and from there on none is (`UsesR8`). The stack array must be
long enough (`Roomy`): the code does not check that, and its index wraps for a short one.
Its initial states, next-state relation
and specification are named `ArgsInit`, `ArgsNext` and `ArgsSpec`, since the module of
its proofs extends `ContextSwitch` too. `ArgsInv` relates the two passes: `PassesAgree` says that
what the first pass has counted is what the second has used and still has to place,
and `EntrySet` where the entry address goes.

### IpcFifo

Each access to `head`, `tail`, `count` and the array is a step, the read and the write
of `count` separate ones; tasks may alternate between any two. The mutex is its
specification: a lock that waits, one owner. With `Locked` FALSE the module is a bare
`fifo_t` shared by tasks, and `IndexesAgree` and `ImplementsQueue` fail. `dequeue` cannot
report an empty queue and returns an old item (`fifo.h:94`); `CheckedCallsSucceed`
says when asking first is enough: for a sole consumer (or, with `is_full`, a
sole producer). With two consumers it is not, since the mutex is released between the
two calls.

### UsartTx, UsartRx, UsartText

`usart.c` has the same functions four times, for USART0 to USART3, mostly in inline
assembly whose accesses to shared state are those of the C text beside it. The
modules have one set of actions for those accesses and one action per copy; a
behaviour follows one port. On the ATmega328 only USART0 exists. The options of
`usart_config.h` that are off (RS485, MPCM, software CTS and RTS, `RX_GETC_ECHO`, extended
receive buffer) are left out, except the fast insertion of `uart_putc`, which
`FastPorts` turns on per port.

Transmit: `uart_putc` computes the slot, waits for room, stores the byte, then in an
atomic block publishes the new head and enables the UDRE interrupt, which takes a
byte and disables itself when that was the last. Three constants describe the
callers. `Serialised`: tasks take turns, as the library demands; without that two
tasks compute the same slot and `SentInOrder` fails. `MaskedCalls`: `uart_putc` or
`uart_flush` with interrupts disabled; it deadlocks on a full ring. `Undrained`:
`uart_reinit` with bytes in the ring; they are not sent until somebody prints again
(`EveryByteSent` fails). A byte in the shift register survives that: the comment at
`usart.c:97` says it is lost, the one at line 113, and the hardware, that transmission is
completed; the model has the latter. `uart_putc` ends in `reti` and so enables interrupts, on
purpose: `enabled` follows that, and `InterruptFlagKept` says that
`uart_putc_noblock` does not.

Noted on the way: with fast insertion `uart3_putc` uses `TX2_BUFFER_MASK`
(`usart.c:2147`), so that the two buffers must have one size (`SizeAssumption`);
`uart_putc_noblock` compares UCSRA with the number of the UDRE bit instead of the bit
and never takes its fast path; the RX interrupt of USART2 is guarded by
`USART3_USE_SOFT_RTS`; `uart_BytesToSend` returns one too few (`usart.h:1622`).

Receive: `udr` is the receiver's two-byte FIFO, `wire` what the other end still sends:
raw bytes, text, lines, words or numbers, depending on `mode`. The interrupt drops a
byte when the ring is full; the receiver does when its FIFO is. The getters are three
accesses (test, read, take); the readers of strings are the loops around them, with
the 8-bit `bufferlimit`. `results` is what the task got. `roomy` records whether
each array was long enough: `uart_getln` needs room for the line, the CR and the final NUL,
or it leaves the CR LF for the next call. `uart_getchar`, which `scanf` reads from, echoes each
byte with `uart_putc` (`RX_STDIO_GETCHAR_ECHO`, `usart.c:4624-4626`) before it returns, and so may
have to wait for room in the transmit ring. Of that ring the module keeps whether it is full
(`tx_full`): other tasks fill it (`Output`), the echo may, and the UDRE interrupt makes room
(`Transmit`). An array of one byte makes
`uart_getlnToFirstWhiteSpace` wrap its limit (`usart.c:2884`); `LimitsAssumption`
excludes it.

`UsartText` has the conversions as functions from a value to bytes; `utoa`, `itoa` and
`atoi` are avr-libc's. Their loops are recursive functions on the numbers of 16 bits and on
the positions of a string, so that they can be reasoned about.

`RxInv` says where each byte sent is, as long as none was lost: `results`, the part of the
caller's array that is not handed over yet, and `Rest`, which is the byte the getter has
in its hands, the ring, the receiver's FIFO and the wire, make up what was sent. For
the readers of strings `StringsInOrder` gives the position inside a string: between two,
inside one, or between the CR and the LF behind it.

## 3. Runs

| Run | Checks | Shows |
|---|---|---|
| `context_switch` | `SwitchInv`, `ContextIntegrity`, `ImplementsVirtualCpu`, `HarmAtFirstDispatch`, `EveryTaskRuns` | any timing: until an interrupt does harm, which only first dispatches and the lost task's loop permit, contexts are never mixed up, each task has its own processor and gets it again and again, but for a lost first task and what its loop stops |
| `context_switch_boot` | `SavedContextsIntact`, violated | OCF0B latched before `kernel_start`: `_SAVE_CTX` stores main's context as that of the first task |
| `task_list` | `ListInv`, `NoTaskLost`, `CTaskValid`, `RemovedStaysOff`, `ImplementsReadyQueue`, `EveryoneGetsATurn` | under the discipline the list is a fair queue, although removals are preempted, abandoned half way, or followed by re-creation, and creations fail |
| `task_list_create` | `NoTaskLost`, violated | `create_task` inside another task's `remove_task` loses the new task |
| `mutex` | `MutexInv`, `MutualExclusion`, `InterruptFlagKept`, `LockIsReleased`, `FreeLockIsTaken` | three tasks, any calls, interrupts on or off, tasks removed while they wait |
| `clock` | `ClockInv`, `GetUsExact`, `MsExact`, `UptimeMs` | readings are right at every moment, through each wrap |
| `clock_long_mask` | `GetUsExact`, violated | interrupts off for a timer period: `get_us` is 1024 us behind |
| `exec_time` | `SliceInv`, `AccountingBounded`, `FullSlice` | slices ended by interrupt, `yield` or `soft_yield` at every tick, through all wraps; stores of `soft_yield` in a later slice |
| `task_args` | `ArgsInv`, `FoundBelowR8` | every list of up to five arguments: found are exactly those before the first that should end in r8 |
| `ipc_fifo` | `FifoInv`, `CheckedCallsSucceed`, `ImplementsQueue` | three tasks in every split into producers and consumers |
| `usart_tx` | `TxInv`, `SentInOrder`, `InterruptFlagKept`, `ImplementsQueue`, `CallsReturn`, `EveryByteSent` | two tasks printing through each copy of the driver |
| `usart_rx` | `RxInv`, `InputIntact`, `ImplementsQueue`, `PeekHolds`, `EverythingRead` | input of every kind arriving at any moment of the reader's polling and of its echo |

The invariants named ...`Inv` have the module's type invariant as a conjunct and are the
inductive invariants of section 4.

Further configurations, not among the runs, each for one question. TLC finds the
property of all but the last violated; the text quoted is what the code contradicts.

| Configuration | Property | Shows |
|---|---|---|
| `MCContextSwitchTorn.cfg` | `ContextsKept` | an overflow between SP_L and SP_H: the interrupt pushes onto another task's stack (`kernel.cpp:143`; `kernel.cpp:136`: "Restores the next task context from c_task") |
| `MCContextSwitchLongMask.cfg` | `ContextsKept` | interrupts off for a timer period: a half restored context is saved (`kernel.cpp:209`, which lacks what `kernel.cpp:258` does in `yield`) |
| `MCTaskListUnlisted.cfg` | `NoWildWrite` | removing a task that is not on the list stores through `nullptr` (`task.cpp:110`; `task.h:147`: "0 success, 1 failure") |
| `MCTaskListLast.cfg` | `CTaskValid` | removing the only task leaves `c_task` null (`sched.cpp:11`; `kernel.cpp:61`: "c_task is valid") |
| `MCTaskListAfter.cfg` | `RemovedStaysOff` | a removed head that removes its successor is followed by it (`task.cpp:102`; `scheduler.h:200`: "The task will continue running until it's tick ends") |
| `MCTaskListConcurrent.cfg` | `RemovedStaysOff` | overlapping removals put a removed task back at the head (`task.cpp:102`; same text) |
| `MCMutexTryLock.cfg` | `NoLeakedLock` | `mtx_try_lock` tells the owner that another task has the mutex (`mutex.cpp:34`; `mutex.h:43`: "Mutex already locked by another task") |
| `MCTaskArgsR8.cfg` | `ArgumentsFound` | an argument that should end in r8 is on the stack (`scheduler.h:56`; `scheduler.h:71`: "Arguments allocated left to right r25-r8") |
| `MCContextSwitchThree.cfg` | safety of `context_switch` | holds for three tasks |

The violating runs are the findings of `PROJECT.json`, each with the comment or
doc it contradicts.

Bounds. Two tasks (context switch) are the one that runs, the first one included, and one
that was switched out or has not started; with three, all kinds at once, the safety
properties are checked in `MCContextSwitchThree.cfg`, and the liveness property is out of
reach. Three (mutex) are an owner and two waiting; four (list) are head, tail and two
neighbours between them. Two register values tell two contexts apart. The clock has a
counter of 4 values and words of 11 bits, with an overflow period of 1024 us as on a 16
MHz part, and runs for 8300 ticks, beyond the wraps of `timer0_ms` (8000) and
`timer0_overflow_count` (8192). `exec_time` has a counter of 4 values, an interval of 3, a
clock that wraps at 5, an overflow count that wraps at 2 and 9 ticks: TCNT0 and `get_us`
wrap, execution times overflow, and so does their count. `task_args` has 5 arguments of 1,
2, 3, 4 and 8 bytes, which fill the registers in every way and spill, and stacks of 10
bytes (too short for some) and 64. `ipc_fifo` has two slots, three items and three tasks:
full, empty, and a wrap of both indices with a second producer or consumer. The USART's
rings have 2 or 4 slots (1 or 3 bytes) and 4 bytes are sent, so that rings fill and
indices wrap; on the receive side one byte may be lost, after which the claims about
contents stop.

`ipc_fifo` and `exec_time` use symmetry (tasks, items), with safety properties that do
not tell the elements apart. No run has a state constraint. Deadlock is not checked in
`exec_time`, where time ends at its bound, and in `task_args`, where the call
returns.

Fairness. Timer flags are latched and a pending interrupt precedes the next instruction:
weak fairness for the two handlers. The kernel's own steps are interrupted at most once a
millisecond for a few dozen cycles, and a statement of a task that is dispatched again and
again is executed some day: strong fairness for `Restore`, for boot, and for each task's
steps inside `mtx_*` and `remove_task`. The timer runs on whatever the code does, and
meets a loop at each place of it: strong fairness for `CompareMatch`, which is disabled
while the flag is set. Of user code only: main starts the scheduler, a task that disabled
interrupts enables them some day, the task that owns the mutex releases it.
`EveryoneGetsATurn` assumes in addition that creation stops: each newcomer is appended in
front of the head's next turn. Of the USART: a byte in the data register is shifted out
and bytes on the wire arrive; the interrupts are level triggered, so that the transmit
interrupt, which is disabled and masked from time to time, is taken when it is possible
again and again (strong fairness). The reader of `usart_rx` goes on reading, and the
transmit ring does not stay full (weak fairness for `Transmit`, which `EveryByteSent` of
`usart_tx` justifies; without it `EverythingRead` fails in the echo).

## 4. Proofs

TLAPS proves, for any number of tasks and every value of the other constants:

| Theorem | Statement | Assumes |
|---|---|---|
| `ContextSwitchProofs!SwitchInvariant` | `Spec => []SwitchInv` | - |
| `ContextSwitchProofs!Integrity` | `Spec => []ContextIntegrity` | - |
| `ContextSwitchProofs!Refinement` | `Spec => ImplementsVirtualCpu` | - |
| `ContextSwitchProofs!HarmOnlyFirst` | `Spec => HarmAtFirstDispatch` | - |
| `ContextSwitchProofs!ArgumentsFit` | `ArgsSpec => []ArgsInv` | - |
| `ContextSwitchProofs!ArgumentsTheorem` | `ArgsSpec => []FoundBelowR8` | - |
| `MutexProofs!MutexInvariant` | `Spec => []MutexInv` | - |
| `MutexProofs!Exclusion` | `Spec => []MutualExclusion` | - |
| `MutexProofs!FlagKept` | `Spec => []InterruptFlagKept` | - |
| `ClockProofs!ClockInvariant` | `Spec => []ClockInv` | `Prompt` |
| `ClockProofs!NoDrift` | `Spec => []MsExact` | `Prompt` |
| `ClockProofs!GetUs` | `Spec => []GetUsExact` | `Prompt` |
| `ClockProofs!Uptime` | `Spec => []UptimeMs` | `Prompt` |
| `TaskListProofs!ListInvariant` | `Spec => []ListInv` | `Discipline` |
| `TaskListProofs!NoneLost` | `Spec => []NoTaskLost` | `Discipline` |
| `TaskListProofs!CurrentTask` | `Spec => []CTaskValid` | `Discipline` |
| `TaskListProofs!RemovedTasks` | `Spec => RemovedStaysOff` | `Discipline` |
| `TaskListProofs!ReadyQueueRefinement` | `Spec => ImplementsReadyQueue` | `Discipline` |
| `ExecTimeProofs!SliceInvariant` | `Spec => []SliceInv` | - |
| `ExecTimeProofs!WholeSlices` | `Spec => []FullSlice` | - |
| `ExecTimeProofs!TimeAccounted` | `Spec => []AccountingBounded` | - |
| `IpcFifoProofs!FifoInvariant` | `Spec => []FifoInv` | `Locked` |
| `IpcFifoProofs!CheckedCalls` | `Spec => []CheckedCallsSucceed` | `Locked` |
| `IpcFifoProofs!QueueRefinement` | `Spec => ImplementsQueue` | `Locked` |
| `UsartTxProofs!TxInvariant` | `Spec => []TxInv` | `Serialised` |
| `UsartTxProofs!BytesInOrder` | `Spec => []SentInOrder` | `Serialised` |
| `UsartTxProofs!QueueRefinement` | `Spec => ImplementsQueue` | `Serialised` |
| `UsartTxProofs!InterruptFlag` | `Spec => []InterruptFlagKept` | - |
| `UsartRxProofs!RxInvariant` | `Spec => []RxInv` | - |
| `UsartRxProofs!InputTheorem` | `Spec => []InputIntact` | - |
| `UsartRxProofs!QueueRefinement` | `Spec => ImplementsQueue` | - |
| `UsartRxProofs!PeekTheorem` | `Spec => PeekHolds` | - |

`Prompt` is `~LongMask` of the clock, `Discipline` is `Allowed = {}`, `Locked` says that
the FIFO is the one behind the mutex, `Serialised` that writers to the UART take turns.
They are the conditions under which the code is right; none can be dropped (section 2).
The theorems of the context switch hold for all values of `TornWindow` and `LongMask`; the
lost first task and `harmed` are in their statements, not in an assumption. The mutex
theorems hold with and without `Orphans`, those of `UsartTx` with and without
`MaskedCalls` and `Undrained`. The other assumptions are named in the modules: NULL and
main are no tasks, sets of tasks are finite, program counters are not NULL, rings have the
sizes the types of their indices permit; for the clock that periods and fractions come out
even, as at 8 and 16 MHz; for `ExecTime` that the latency is less than half a period and
at most an interval; for `TaskArgs` that sizes and the number of arguments are below 256
(`SizesFit`), so that all of them fit the address space; for `UsartRx` that lines hold no
NUL, CR or LF, words are visible bytes and numbers are `int16_t`, and that no array is one
byte long (`LimitsAssumption`).

Why the invariants are stronger than the properties:

* `SwitchInv` (`harmed`, or `Sound`) adds to `ContextIntegrity` that pointers lead to created
  tasks, that before the first dispatch every task has yet to start with interrupts
  enabled and main runs on its own stack (`Booting`), where the first restore sequence can
  be interrupted and what that leaves (`FirstRestore`), how much of `c_task`'s context
  each point of `_RESTORE_CTX` has put back, with no compare flag pending there unless
  the switch was late (`Restored`), and that SP is torn between its two writes only. The
  refinement proof maps a step to `Create`, `CreateVariadic`, `Step`, `Preempt`, `Yield`,
  `Dispatch`, `Lose` or a stutter; timer events and the writes of the restore sequence
  stutter, since no task is running and views are what is kept in memory.
  `HarmOnlyFirst` adds `Masked`: a kept SREG with interrupts enabled belongs to a task that
  has not run, a restore sequence past its write of SREG has that task's flag, and no
  compare match is late before a task has run.
* `MutexInv` adds that only the running task is between `cli()` and `SREG = sreg`
  (`MaskedAlone`) and what each point of a call knows of `owner` (`OwnerKnown`).
  `FlagInv`, used for `FlagKept`, adds that the local `sreg` is the caller's flag and
  that a task switched out in its own code had interrupts enabled.
* `ClockInv` adds that a pending overflow has not been overtaken by the counter,
  that the count is the number of overflows served, and what `get_us` has read so
  far relative to the present.

* `ListInv` says that `Order` is linked: each task once, each pointing to the next, the
  last to NULL (`IsOrder`). `WalkFinds` is the lemma that makes this usable although
  `Order` is computed by following pointers: a sequence that is linked is the one the walk
  finds, since the recursive equation of `Nodes` has one solution (the least index at
  which two would differ). So a step is treated by naming the sequence it makes (`s` with
  a newcomer behind it, `s` without its k-th member, `s` itself) and showing that it is
  linked. `Removals` says what each statement of the one `remove_task` under way knows:
  until the store its victim and its caller are on the list, with one more task, and
  the walk is in front of the victim. `Current` says that a task off the list still
  points to a listed task or to NULL, so that the switch finds one, and `Ready` that
  what is listed may run. In the refinement `create_task` is `Enter`, the store of
  `remove_task` to the head or to the preceding task is `Leave`, a switch is `Dispatch`.
* `SliceInv` adds that OCR0B has matched no tick since it was written while the flag is
  clear (`NoneMissed`), how long a set flag has waited (`ServedInTime`), that a slice not
  marked short is ended by its own match and its switch is over before the next
  (`OwnMatch`), and that `exec_start_time_us` is the moment the slice began, modulo the
  wrap (`Charged`).
* `FifoInv` adds that only the owner of the mutex is inside a call (`OneInside`), that what a
  call has tested still holds when it acts (`StillPossible`), and that there are only
  enqueued items between tail and head. `CheckedCalls` uses `Promise`: what a sole consumer
  or producer was told stays true until it has used it. In the refinement
  an item enters with the write of `count` and leaves when `tail` is moved, before `count`
  says so (`Stored`).
* `TxInv` adds that there is one writer, that between `cli` and the end of a call nobody
  else runs, and that the slot computed before the wait is the one after the newest byte,
  free from the test on and filled from the store on (`SlotReserved`). `FlagInv` is the
  invariant behind `InterruptFlag`; it does not need writers to take turns.
* `RxInv` adds what a getter between test and take knows of the ring (`GetterSees`),
  that the 8-bit `limit` is what the array still takes before its NUL (`RoomLeft`), and
  `InputInv`: where the bytes are. `InputIntact` says nothing of the reader's position,
  and without it a step is not seen to be right: that the byte behind a
  complete word is its separator, that the CR of a line is followed by its LF, or that a
  reader whose array is full has stored its string to the end (`Fits`, which `roomy` gives
  for each call) and leaves the separator to be skipped by the next one (`Between`).
  Each step of the interrupt and of a getter moves a byte inside `Rest`; each step of a
  reader takes the first byte of it (`Hand`) and finds it to be the next one of the
  string (`BodyByte`) or of what ends it (`EndByte`, `SkipByte`). For the numbers the proof
  needs `ReadNumber`: `atoi(putint(i)) = i` for every `int16_t`.
* `ArgsInv` adds to `StackIntact` that the two passes agree (`PassesAgree`): the stack
  space the first pass has summed up is what the second has placed plus what is left,
  so that the second ends above the entry address that `EntrySet` has put there.

`Trailing`, `DigitsIn`, `Value` and the sums over the arguments are recursive functions. The
library's induction theorems cannot be used, but a set of numbers has a least element
(from `WFMin`, lemma `Smallest`), so that each induction is a least counterexample:
that the recursive equation has a solution (`TrailsExist`, `ReadsExist`, `WritesExist`),
that the strings left hold no NUL (`TrailingFact`), that the digits of every number are
read back as it (`ReadbackAll`).

Only model-checked is liveness (`EveryTaskRuns`, `EveryoneGetsATurn`, `LockIsReleased`,
`FreeLockIsTaken`, `CallsReturn`, `EveryByteSent`, `EverythingRead`): fairness is out of the
prover's reach. Every safety property and every refinement that a passing run checks is a
theorem.

## 5. Not modelled

Not modelled:

* Timer register setters: constants written to control registers.
* Of the UART library: the conversions of longs and floats (`putlong`, `putfloat`,
  `getlong`, `getfloat`), which are `putint` and `getint` with another conversion of avr-libc and
  a longer array; the options that `usart_config.h` turns off; newline modes other
  than CR LF; the register definitions; its example programs, XMODEM among them, which
  are not part of the firmware.
* `lib/singly_linked_list`: nothing includes it. Its searching loops run while the
  position *is* nullptr, that is not at all.
* The tests, which are read as statements of intent.
