------------------------------- MODULE Clock -------------------------------
(***************************************************************************)
(* The uptime clock (drivers/clock/clock.cpp): an 8-bit hardware counter   *)
(* that raises a flag when it overflows, an interrupt handler that counts  *)
(* overflows and milliseconds, and get_us, which puts counter, count and   *)
(* pending flag together while the counter keeps running.                  *)
(*                                                                         *)
(* One tick of the counter is the unit of time.  Code between cli() and    *)
(* SREG = sreg in get_us is some twenty cycles long and a tick is 64, so   *)
(* at most one tick falls into it.                                         *)
(***************************************************************************)
EXTENDS Integers

CONSTANTS
  Period,    \* values of the counter TCNT0: 256
  TickUs,    \* microseconds per tick, 64 / clock_cycles_per_us(): 4 at 16 MHz
  Word,      \* values of a uint32_t
  MaxTicks,  \* bound on the run
  LongMask   \* interrupts may stay disabled until the next overflow is close

MICROSECONDS_PER_TIMER0_OVERFLOW == Period * TickUs
MS_INC == MICROSECONDS_PER_TIMER0_OVERFLOW \div 1000
FRACT_INC == (MICROSECONDS_PER_TIMER0_OVERFLOW % 1000) \div 8
FRACT_MAX == 1000 \div 8

\* F_CPU is such that ticks and fractions come out even, as they do at 16 MHz.
ASSUME ClockAssumption ==
  /\ Period \in Nat /\ Period > 2
  /\ TickUs \in Nat \ {0} /\ Word \in Nat \ {0} /\ MaxTicks \in Nat
  /\ MICROSECONDS_PER_TIMER0_OVERFLOW % 8 = 0
  /\ Word % MICROSECONDS_PER_TIMER0_OVERFLOW = 0
  /\ LongMask \in BOOLEAN

\* Flags are bits, as in the registers they are read from.
Bit == {0, 1}

VARIABLES
  on,        \* initialize_clock has been called
  overflows, \* how often the counter has overflowed (not in the code)
  tcnt, tov, \* the registers TCNT0 and TIFR0 (TOV0)
  irq,       \* the I bit of SREG
  timer0_overflow_count, timer0_ms, timer0_fractional_ms,
  at, sreg, ms, t,   \* a call of get_us: control point and locals
  since,     \* the time at which get_us disabled interrupts (not in the code)
  ticked     \* a tick has fallen into the part with interrupts disabled

counts == <<timer0_overflow_count, timer0_ms, timer0_fractional_ms>>
call == <<at, sreg, ms, t, since, ticked>>
vars == <<on, overflows, tcnt, tov, irq, timer0_overflow_count, timer0_ms,
          timer0_fractional_ms, at, sreg, ms, t, since, ticked>>

\* Time since initialize_clock, in ticks.
Now == overflows * Period + tcnt

Masked == {"count", "tcnt", "tifr", "restore"}

TypeOK ==
  /\ on \in Bit /\ tov \in Bit /\ irq \in Bit
  /\ overflows \in Nat /\ tcnt \in 0..(Period - 1)
  /\ timer0_overflow_count \in 0..(Word - 1)
  /\ timer0_ms \in 0..(Word - 1)
  /\ timer0_fractional_ms \in 0..255
  /\ at \in {"user", "cli"} \cup Masked
  /\ sreg \in Bit /\ ms \in 0..(Word - 1) /\ t \in 0..(Period - 1)
  /\ since \in Nat /\ ticked \in Bit

Init ==
  /\ on = 0 /\ tov = 0 /\ irq = 0
  /\ overflows = 0 /\ tcnt = 0
  /\ timer0_overflow_count = 0 /\ timer0_ms = 0 /\ timer0_fractional_ms = 0
  /\ at = "user" /\ sreg = 0 /\ ms = 0 /\ t = 0
  /\ since = 0 /\ ticked = 0

initialize_clock ==
  /\ on = 0 /\ on' = 1
  /\ UNCHANGED <<overflows, tcnt, tov, irq, counts, call>>

(***************************************************************************)
(* The hardware.                                                           *)
(***************************************************************************)
\* Without LongMask a pending overflow is served before the counter has gone
\* round to its last value.
Tick ==
  /\ on = 1 /\ Now < MaxTicks
  /\ at \in Masked => ticked = 0
  /\ tov = 1 /\ tcnt >= Period - 2 => LongMask
  /\ tcnt' = (tcnt + 1) % Period
  /\ tov' = IF tcnt = Period - 1 THEN 1 ELSE tov
  /\ overflows' = IF tcnt = Period - 1 THEN overflows + 1 ELSE overflows
  /\ ticked' = IF at \in Masked THEN 1 ELSE 0
  /\ UNCHANGED <<on, irq, counts, at, sreg, ms, t, since>>

\* Mutant: the fraction is dropped when it makes a millisecond.
ovf_drops_fraction ==
  /\ irq = 1 /\ tov = 1
  /\ tov' = 0
  /\ LET fract == timer0_fractional_ms + FRACT_INC
         carry == fract >= FRACT_MAX
     IN  /\ timer0_fractional_ms' = IF carry THEN 0 ELSE fract
         /\ timer0_ms' = (timer0_ms + MS_INC + IF carry THEN 1 ELSE 0) % Word
  /\ timer0_overflow_count' = (timer0_overflow_count + 1) % Word
  /\ UNCHANGED <<on, overflows, tcnt, irq, call>>

\* Mutant: no millisecond is added when the fraction makes one.
ovf_no_carry ==
  /\ irq = 1 /\ tov = 1
  /\ tov' = 0
  /\ timer0_fractional_ms' = (timer0_fractional_ms + FRACT_INC) % FRACT_MAX
  /\ timer0_ms' = (timer0_ms + MS_INC) % Word
  /\ timer0_overflow_count' = (timer0_overflow_count + 1) % Word
  /\ UNCHANGED <<on, overflows, tcnt, irq, call>>

TIMER0_OVF_vect ==
  /\ irq = 1 /\ tov = 1
  /\ tov' = 0
  /\ LET fract == timer0_fractional_ms + FRACT_INC
         carry == fract >= FRACT_MAX
     IN  /\ timer0_fractional_ms' = IF carry THEN fract - FRACT_MAX ELSE fract
         /\ timer0_ms' = (timer0_ms + MS_INC + IF carry THEN 1 ELSE 0) % Word
  /\ timer0_overflow_count' = (timer0_overflow_count + 1) % Word
  /\ UNCHANGED <<on, overflows, tcnt, irq, call>>

\* The milliseconds are read with interrupts disabled.
get_ms == timer0_ms

(***************************************************************************)
(* Code.  A pending interrupt is taken before the next instruction.        *)
(***************************************************************************)
Goto(from, to) == at = from /\ at' = to /\ irq + tov < 2

\* cli(), sei(), or the I bit as another task or handler has it.
SetIrq ==
  /\ Goto("user", "user")
  /\ irq' = 1 - irq
  /\ UNCHANGED <<on, overflows, tcnt, tov, counts, sreg, ms, t, since, ticked>>

get_us ==
  /\ on = 1
  /\ Goto("user", "cli")
  /\ sreg' = irq
  /\ UNCHANGED <<on, overflows, tcnt, tov, irq, counts, ms, t, since, ticked>>

\* Mutant: get_us goes on with interrupts enabled.
CliForgotten ==
  /\ Goto("cli", "count")
  /\ since' = Now /\ ticked' = 0
  /\ UNCHANGED <<on, overflows, tcnt, tov, irq, counts, sreg, ms, t>>

Cli ==
  /\ Goto("cli", "count")
  /\ irq' = 0
  /\ since' = Now /\ ticked' = 0
  /\ UNCHANGED <<on, overflows, tcnt, tov, counts, sreg, ms, t>>

ReadCount ==
  /\ Goto("count", "tcnt")
  /\ ms' = timer0_overflow_count
  /\ UNCHANGED <<on, overflows, tcnt, tov, irq, counts, sreg, t, since, ticked>>

ReadTcnt ==
  /\ Goto("tcnt", "tifr")
  /\ t' = tcnt
  /\ UNCHANGED <<on, overflows, tcnt, tov, irq, counts, sreg, ms, since, ticked>>

\* Mutant: the flag counts whatever the value read from the counter.
ReadTifrAlways ==
  /\ Goto("tifr", "restore")
  /\ ms' = IF tov = 1 THEN (ms + 1) % Word ELSE ms
  /\ UNCHANGED <<on, overflows, tcnt, tov, irq, counts, sreg, t, since, ticked>>

\* if ((TIFR0 & _BV(TOV0)) && (t < 255)) ms++
ReadTifr ==
  /\ Goto("tifr", "restore")
  /\ ms' = IF tov = 1 /\ t < Period - 1 THEN (ms + 1) % Word ELSE ms
  /\ UNCHANGED <<on, overflows, tcnt, tov, irq, counts, sreg, t, since, ticked>>

\* SREG = sreg; return ((ms << 8) + t) * 4.  The locals are dead afterwards.
Restore ==
  /\ Goto("restore", "user")
  /\ irq' = sreg
  /\ ms' = 0 /\ t' = 0 /\ since' = 0 /\ ticked' = 0 /\ sreg' = 0
  /\ UNCHANGED <<on, overflows, tcnt, tov, counts>>

Result == ((ms * Period + t) * TickUs) % Word

Next ==
  \/ initialize_clock \/ Tick \/ TIMER0_OVF_vect \/ SetIrq
  \/ get_us \/ Cli \/ ReadCount \/ ReadTcnt \/ ReadTifr \/ Restore

Spec == Init /\ [][Next]_vars

(***************************************************************************)
(* Properties.                                                             *)
(***************************************************************************)
\* The overflows the handler has been run for.
Served == overflows - tov

\* get_us: what it is about to return is the time at some moment between its
\* cli() and its return, modulo 2^32, also when the counter overflows in between.
GetUsExact ==
  at = "restore" => \E n \in since..Now : Result = (n * TickUs) % Word

\* TIMER0_OVF_vect: milliseconds and fraction together are exactly the time
\* that the overflows took, with no drift however long the clock runs.
MsExact ==
  LET us == Served * MICROSECONDS_PER_TIMER0_OVERFLOW
  IN  /\ timer0_ms = (us \div 1000) % Word
      /\ timer0_fractional_ms * 8 = us % 1000

\* clock.h, "keeping track of uptime": get_ms is never ahead and less than a
\* millisecond and two overflow periods behind (until it wraps).
UptimeMs ==
  Now * TickUs < Word * 1000 =>
    /\ get_ms * 1000 <= Now * TickUs
    /\ Now * TickUs < get_ms * 1000 + 1000 + 2 * MICROSECONDS_PER_TIMER0_OVERFLOW

(***************************************************************************)
(* The inductive invariants behind them, for ~LongMask.                    *)
(***************************************************************************)
\* clock.cpp: no overflow is lost or counted twice.
CountInv ==
  /\ TypeOK
  /\ tov = 1 => overflows > 0 /\ tcnt < Period - 1
  /\ timer0_overflow_count = Served % Word
  /\ MsExact

\* What has been read of counter and count at each point of get_us.
ReadInv ==
  /\ at \in Masked => irq = 0 /\ Now = since + ticked
  /\ at \in {"tcnt", "tifr"} => ms = timer0_overflow_count
  /\ at = "tifr" =>
       \/ t = tcnt
       \/ ticked = 1 /\ t + 1 = tcnt
       \/ ticked = 1 /\ t = Period - 1 /\ tcnt = 0 /\ tov = 1
  /\ at = "restore" =>
       \E k \in 0..overflows : ms = k % Word /\ k * Period + t \in since..Now

\* clock.cpp: what the handler has counted and what get_us has read.
ClockInv == CountInv /\ ReadInv
=============================================================================
