------------------------------ MODULE ExecTime ------------------------------
(***************************************************************************)
(* Time slices and the CPU time charged to each task (kernel.cpp).  The    *)
(* unit of time is one tick of timer 0, whose counter TCNT0 shows the time *)
(* since initialize_clock modulo Period; get_us shows it modulo Wrap       *)
(* (module Clock: its value is exact).  Contexts are the business of       *)
(* ContextSwitch: here a switch only picks some next task.                 *)
(***************************************************************************)
EXTENDS Integers

CONSTANTS
  Tasks,
  Period,    \* values of TCNT0 (256)
  Interval,  \* freq_to_timer_comp_value<1000, 64>() (246)
  Wrap,      \* UINT32_MAX + 1
  Counts,    \* UINT8_MAX + 1, for exec_time_overflow_count
  Latency,   \* ticks a pending interrupt may wait, and a switch may take
  MaxTime    \* bound: ticks in a behaviour

ASSUME ConstantsAssumption ==
  /\ Tasks # {}
  /\ Period \in Nat /\ Interval \in 1..(Period - 1)
  /\ Wrap \in Nat /\ Wrap > 1 /\ Counts \in Nat /\ Counts > 0
  /\ Latency \in 0..Interval /\ 2 * Latency < Period
  /\ MaxTime \in Nat

VARIABLES
  now,       \* ticks since initialize_clock
  ocr,       \* OCR0B
  ocf,       \* OCF0B, the compare flag
  late,      \* how many ticks the flag, or the switch, has been pending
  at,        \* "boot", "user", or in the switch
  held,      \* held[t]: TCNT0 as t has read it in soft_yield, to be stored when
             \* t goes on; Nothing if t is not in soft_yield
  c_task,
  exec_time_us, exec_time_overflow_count, exec_start_time_us,
  born,      \* history: when the running slice began
  armed,     \* history: when OCR0B was last written
  short,     \* history: the slice is the first, or soft_yield has stored OCR0B
             \* in it (entered in this slice or in an earlier one of the task),
             \* or it follows such a one whose match came during the switch
  due,       \* history: due[t]: the time t has really run, and its leads
  lead,      \* history: the time before born charged with the running slice
  longest,   \* history: longest[t]: the longest slice of t with its lead
  overflows  \* history: overflows[t]: how often exec_time_us[t] was restarted

task == <<exec_time_us, exec_time_overflow_count, exec_start_time_us>>
history == <<born, armed, short, due, lead, longest, overflows>>
vars == <<now, ocr, ocf, late, at, held, c_task, task, history>>

TCNT0 == now % Period
get_us == now % Wrap

\* No value of TCNT0.
Nothing == Period

\* The switch: c_task has been charged and replaced ("isr" or "yield"), then
\* OCR0B has been written ("armed").
Switching == {"isr", "yield", "armed"}

TypeOK ==
  /\ now \in Nat
  /\ ocr \in 0..(Period - 1) /\ ocf \in BOOLEAN /\ late \in 0..Latency
  /\ at \in {"boot", "user"} \cup Switching
  /\ held \in [Tasks -> 0..Nothing] /\ c_task \in Tasks
  /\ exec_time_us \in [Tasks -> 0..(Wrap - 1)]
  /\ exec_time_overflow_count \in [Tasks -> 0..(Counts - 1)]
  /\ exec_start_time_us \in [Tasks -> 0..(Wrap - 1)]
  /\ born \in Nat /\ armed \in Nat /\ short \in BOOLEAN
  /\ due \in [Tasks -> Nat]
  /\ longest \in [Tasks -> Nat] /\ lead \in Nat /\ overflows \in [Tasks -> Nat]

Zero == [t \in Tasks |-> 0]

\* initialize_clock has started the timer; tasks are created meanwhile, and the
\* first of them is c_task.
Init ==
  /\ now = 0 /\ ocr = 0 /\ ocf = FALSE /\ late = 0 /\ at = "boot"
  /\ held = [t \in Tasks |-> Nothing]
  /\ c_task \in Tasks
  /\ exec_time_us = Zero /\ exec_time_overflow_count = Zero
  /\ exec_start_time_us = Zero
  /\ born = 0 /\ armed = 0 /\ short = TRUE
  /\ due = Zero /\ lead = 0 /\ longest = Zero /\ overflows = Zero

(***************************************************************************)
(* The timer: the flag is set with the tick that ends the match.  A slice  *)
(* is shorter than the wrap of get_us (71 minutes).                        *)
(***************************************************************************)
Pending == at \in Switching \/ (ocf /\ at # "boot")

Tick ==
  /\ now < MaxTime
  /\ Pending => late < Latency
  /\ now + 1 - born + lead < Wrap
  /\ now' = now + 1
  /\ ocf' = (ocf \/ TCNT0 = ocr)
  /\ late' = IF Pending THEN late + 1 ELSE 0
  /\ UNCHANGED <<ocr, at, held, c_task, task, history>>

(***************************************************************************)
(* kernel_start: kernel_init_timer, and the first task runs.  Its          *)
(* exec_start_time_us is still what create_task has set.                   *)
(***************************************************************************)
kernel_start ==
  /\ at = "boot" /\ at' = "user"
  /\ ocr' = (Interval + TCNT0) % Period
  /\ armed' = now /\ born' = now /\ late' = 0
  /\ lead' = now
  /\ UNCHANGED <<now, ocf, held, c_task, task, short, due, longest, overflows>>

(***************************************************************************)
(* The switch.                                                             *)
(***************************************************************************)
\* Mutant: the + 1 behind UINT32_MAX is forgotten.
ElapsedOneShort(t) ==
  IF get_us >= exec_start_time_us[t]
  THEN get_us - exec_start_time_us[t]
  ELSE ((Wrap - 1) - exec_start_time_us[t]) + get_us

\* Modulo Wrap, as the two branches of the code compute it.
Elapsed(t) ==
  IF get_us >= exec_start_time_us[t]
  THEN get_us - exec_start_time_us[t]
  ELSE ((Wrap - 1) - exec_start_time_us[t]) + get_us + 1

calculate_task_execution_time(t) ==
  \/ /\ exec_time_us[t] > (Wrap - 1) - Elapsed(t)
     /\ exec_time_overflow_count' = [exec_time_overflow_count EXCEPT ![t] = (@ + 1) % Counts]
     /\ overflows' = [overflows EXCEPT ![t] = @ + 1]
     /\ exec_time_us' = [exec_time_us EXCEPT ![t] = Elapsed(t)]
  \/ /\ exec_time_us[t] <= (Wrap - 1) - Elapsed(t)
     /\ exec_time_us' = [exec_time_us EXCEPT ![t] = @ + Elapsed(t)]
     /\ UNCHANGED <<exec_time_overflow_count, overflows>>

\* The slice that ends here, for the histories.
EndOfSlice(t) ==
  LET slice == now - born
  IN /\ due' = [due EXCEPT ![t] = @ + slice + lead]
     /\ longest' = [longest EXCEPT ![t] = IF slice + lead > @ THEN slice + lead ELSE @]

Switch(how, next) ==
  /\ at' = how
  /\ calculate_task_execution_time(c_task)
  /\ EndOfSlice(c_task)
  /\ c_task' = next
  /\ late' = 0
  /\ born' = now /\ lead' = 0
  /\ UNCHANGED <<now, ocr, held, exec_start_time_us, armed, short>>

\* TIMER0_COMPB_vect; the hardware clears the flag.  It may come inside
\* soft_yield: what the task has read stays in its context.
TIMER0_COMPB_vect(next) ==
  /\ at = "user" /\ ocf
  /\ ocf' = FALSE
  /\ Switch("isr", next)

\* What the running task does besides soft_yield, it does outside of it.
Free == at = "user" /\ held[c_task] = Nothing

yield(next) == Free /\ Switch("yield", next) /\ UNCHANGED ocf

\* Mutant: the flag is left alone by yield.
ArmKeepsFlag ==
  /\ at \in {"isr", "yield"} /\ at' = "armed"
  /\ ocr' = (Interval + TCNT0) % Period
  /\ armed' = now
  /\ UNCHANGED <<now, ocf, late, held, c_task, task, born, short, due, lead, longest, overflows>>

\* Mutant: the sum is not cut to 8 bits.
ArmUncut ==
  /\ at \in {"isr", "yield"} /\ at' = "armed"
  /\ ocr' = Interval + TCNT0
  /\ ocf' = (ocf /\ at = "isr")
  /\ armed' = now
  /\ UNCHANGED <<now, late, held, c_task, task, born, short, due, lead, longest, overflows>>

\* OCR0B = ... + TCNT0, in 8 bits; yield also clears the flag.
Arm ==
  /\ at \in {"isr", "yield"} /\ at' = "armed"
  /\ ocr' = (Interval + TCNT0) % Period
  /\ ocf' = (ocf /\ at = "isr")
  /\ armed' = now
  /\ UNCHANGED <<now, late, held, c_task, task, born, short, due, lead, longest, overflows>>

\* c_task->exec_start_time_us = get_us(); the task goes on.
Start ==
  /\ at = "armed" /\ at' = "user"
  /\ exec_start_time_us' = [exec_start_time_us EXCEPT ![c_task] = get_us]
  /\ born' = now /\ late' = 0 /\ short' = (short /\ ocf)
  /\ UNCHANGED <<now, ocr, ocf, held, c_task, exec_time_us,
                 exec_time_overflow_count, armed, due, lead, longest, overflows>>

(***************************************************************************)
(* soft_yield: OCR0B = TCNT0, a load and a store of the calling task.  When *)
(* a tick comes in between, the match is a whole period away; when the     *)
(* switch does, the store is done in a later slice of the task, with the   *)
(* value of the earlier one.                                               *)
(***************************************************************************)
soft_yield ==
  \/ /\ Free
     /\ held' = [held EXCEPT ![c_task] = TCNT0]
     /\ UNCHANGED <<ocr, armed, short>>
  \/ /\ at = "user" /\ held[c_task] # Nothing
     /\ ocr' = held[c_task] /\ armed' = now /\ short' = TRUE
     /\ held' = [held EXCEPT ![c_task] = Nothing]

SoftYield ==
  soft_yield /\ UNCHANGED <<now, ocf, late, at, c_task, task, born, due, lead, longest, overflows>>

\* create_task, for a task that is not running: its counters start anew.
create_task(t) ==
  /\ Free /\ t # c_task
  /\ held' = [held EXCEPT ![t] = Nothing]
  /\ exec_time_us' = [exec_time_us EXCEPT ![t] = 0]
  /\ exec_time_overflow_count' = [exec_time_overflow_count EXCEPT ![t] = 0]
  /\ exec_start_time_us' = [exec_start_time_us EXCEPT ![t] = 0]
  /\ due' = [due EXCEPT ![t] = 0]
  /\ longest' = [longest EXCEPT ![t] = 0]
  /\ overflows' = [overflows EXCEPT ![t] = 0]
  /\ UNCHANGED <<now, ocr, ocf, late, at, c_task, born, lead, armed, short>>

Next ==
  \/ Tick \/ kernel_start \/ Arm \/ Start \/ SoftYield
  \/ \E t \in Tasks : TIMER0_COMPB_vect(t) \/ yield(t) \/ create_task(t)

Spec == Init /\ [][Next]_vars

(***************************************************************************)
(* Properties.                                                             *)
(***************************************************************************)
\* The execution time as exec_time_us and exec_time_overflow_count show it.
Reading(t) == exec_time_us[t] + Wrap * exec_time_overflow_count[t]

\* calculate_task_execution_time: a task is charged the time it has run, no
\* matter when the clock wraps; the first one also the time before
\* kernel_start, which does not set exec_start_time_us; and since the counter
\* is restarted instead of carried (kernel.cpp:49), each overflow adds an error
\* of at most one slice, always upwards.  The two counters show that time
\* modulo their width.
AccountingBounded ==
  \A t \in Tasks :
    \E error \in 0..(overflows[t] * longest[t]) :
      Reading(t) = (due[t] + error) % (Wrap * Counts)

\* OCR0B: a slice ends within one period of the timer from the last write of
\* OCR0B, plus the latency: no value written is missed for good, although it is
\* computed modulo 256 from a running counter.
SliceEnds == at = "user" => now - armed <= Period + Latency

\* TIMER0_COMPB_vect / yield: a task is not interrupted before its interval is
\* over: a match with the old OCR0B during the switch does not cut the next
\* slice short.  Not so the first slice (the flag is latched while main boots),
\* one in which soft_yield stores OCR0B, and the next one if that store came so
\* late that its match falls into the switch.
FullSlice == at = "user" /\ ocf /\ ~short => now - armed > Interval

(***************************************************************************)
(* What makes the three of them inductive.                                 *)
(***************************************************************************)
\* The slice as the switch set it up.
Target == ocr = (armed + Interval) % Period

\* The flag is not lost: as long as it is clear, OCR0B has matched no tick since
\* it was written.
NoneMissed ==
  at \in {"user", "armed"} /\ ~ocf =>
    \A i \in armed..(now - 1) : i % Period # ocr

\* A set flag waits no longer than late says.
ServedInTime ==
  at = "user" /\ ocf => now - armed <= Period + late

\* Between the write of OCR0B and the start of the slice.
JustArmed == at = "armed" => Target /\ now - armed <= late /\ (ocf => short)

\* A slice that is not short is ended by its own match, and its switch is over
\* long before the next one.
OwnMatch ==
  ~short =>
    /\ at = "user" =>
         Target /\ (ocf => now - armed \in (Interval + 1)..(Interval + 1 + late))
    /\ at = "isr" =>
         /\ Target /\ ~ocf
         /\ now - armed \in (Interval + 1)..(Interval + 1 + Latency + late)

\* exec_start_time_us of the running task is the moment from which it will be
\* charged.
Charged ==
  /\ born <= now /\ armed <= now /\ lead <= born /\ now - born + lead < Wrap
  /\ at = "boot" => short /\ exec_start_time_us[c_task] = 0 /\ lead = 0 /\ born = 0
  /\ at \in Switching => lead = 0
  /\ at = "user" => exec_start_time_us[c_task] = (born - lead) % Wrap

\* calculate_task_execution_time, OCR0B: the counters stay within their width,
\* a slice within a period, and the history agrees with the registers.
SliceInv ==
  /\ TypeOK /\ Charged
  /\ NoneMissed /\ ServedInTime /\ JustArmed /\ OwnMatch
  /\ SliceEnds
=============================================================================
