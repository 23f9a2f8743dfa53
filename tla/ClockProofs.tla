---------------------------- MODULE ClockProofs ----------------------------
(***************************************************************************)
(* The clock is exact, for any counter, word size and run, provided that   *)
(* interrupts are not disabled until the next overflow is close.           *)
(***************************************************************************)
EXTENDS Clock, TLAPS

M == MICROSECONDS_PER_TIMER0_OVERFLOW

(***************************************************************************)
(* Arithmetic modulo the word size.                                        *)
(***************************************************************************)
\* Quotient and remainder.
LEMMA DivMod ==
  ASSUME NEW k \in Nat, NEW w \in Nat \ {0}
  PROVE  /\ k = w * (k \div w) + (k % w)
         /\ k % w \in 0..(w - 1) /\ k \div w \in Nat
BY Z3

\* The remainder is determined by its range.
LEMMA RemainderUnique ==
  ASSUME NEW w \in Nat \ {0}, NEW q \in Nat, NEW r \in 0..(w - 1)
  PROVE  (w * q + r) % w = r
BY Z3

\* A multiple of the word size does not matter.
LEMMA ModMultiple ==
  ASSUME NEW w \in Nat \ {0}, NEW x \in Nat, NEW m \in Nat
  PROVE  (x + w * m) % w = x % w
<1> DEFINE q == x \div w
           r == x % w
<1>1. x = w * q + r /\ r \in 0..(w - 1) /\ q \in Nat
  BY DivMod
<1> HIDE DEF q, r
<1>2. x + w * m = w * (q + m) + r
  BY <1>1, Z3
<1>3. (w * (q + m) + r) % w = r
  <2>1. q + m \in Nat
    BY <1>1
  <2> QED BY <1>1, <2>1, RemainderUnique
<1>4. x % w = r
  BY <1>1, RemainderUnique
<1> QED BY <1>2, <1>3, <1>4

\* Reducing a summand first makes no difference.
LEMMA ModAdd ==
  ASSUME NEW w \in Nat \ {0}, NEW x \in Nat, NEW y \in Nat
  PROVE  ((x % w) + y) % w = (x + y) % w
<1> DEFINE q == x \div w
           r == x % w
<1>1. x = w * q + r /\ r \in Nat /\ q \in Nat
  BY DivMod
<1> HIDE DEF q
<1> HIDE DEF r
<1>2. x + y = (r + y) + w * q /\ r + y \in Nat
  BY <1>1
<1>3. ((r + y) + w * q) % w = (r + y) % w
  BY <1>1, <1>2, ModMultiple
<1> QED BY <1>2, <1>3 DEF r

(***************************************************************************)
(* Counting.                                                               *)
(***************************************************************************)
\* The timing condition: a pending overflow is served in good time.
Prompt == ~LongMask

\* The constants are numbers of the right size.
LEMMA Sizes ==
  /\ Period \in Nat /\ Period > 2 /\ TickUs \in Nat /\ Word \in Nat \ {0}
  /\ M \in Nat /\ M % 8 = 0 /\ M = Period * TickUs
  /\ FRACT_MAX = 125 /\ MS_INC = M \div 1000 /\ FRACT_INC = (M % 1000) \div 8
BY ClockAssumption, Z3
   DEF ClockAssumption, M, MICROSECONDS_PER_TIMER0_OVERFLOW, FRACT_MAX, MS_INC, FRACT_INC

\* What most steps need of that.
LEMMA Consts ==
  Period \in Nat /\ Period > 2 /\ TickUs \in Nat /\ Word \in Nat \ {0}
BY Sizes

\* What get_us computes from an overflow count and a counter value.
Us(k, y) == ((k * Period + y) * TickUs) % Word

\* It makes no difference to it that the overflow count has wrapped.
LEMMA UsMod == \A k, y \in Nat : Us(k % Word, y) = Us(k, y)
<1> TAKE k, y \in Nat
<1> DEFINE q == k \div Word
           r == k % Word
           x == (r * Period + y) * TickUs
           m == q * Period * TickUs
<1>1. k = Word * q + r /\ r \in Nat /\ q \in Nat
  BY Consts, DivMod
<1> HIDE DEF q, r
<1>2. x \in Nat /\ m \in Nat /\ (k * Period + y) * TickUs = x + Word * m
  BY <1>1, Consts, Z3
<1>3. Us(r, y) = x % Word /\ Us(k, y) = (x + Word * m) % Word
  BY <1>2 DEF Us
<1> HIDE DEF x, m
<1>4. (x + Word * m) % Word = x % Word
  BY <1>2, Consts, ModMultiple
<1> QED BY <1>3, <1>4 DEF r

\* The counter goes round.
LEMMA RoundTrip ==
  \A x \in 0..(Period - 1) : (x + 1) % Period = IF x = Period - 1 THEN 0 ELSE x + 1
BY Consts, Z3

\* One overflow more: how the handler's carry follows the division by 1000.
LEMMA Carry ==
  ASSUME NEW us \in Nat, NEW fract \in Nat, fract * 8 = us % 1000
  PROVE  LET f == fract + FRACT_INC
             c == f >= FRACT_MAX
         IN  /\ (IF c THEN f - FRACT_MAX ELSE f) * 8 = (us + M) % 1000
             /\ (IF c THEN f - FRACT_MAX ELSE f) \in 0..255
             /\ us \div 1000 + MS_INC + (IF c THEN 1 ELSE 0) = (us + M) \div 1000
BY Sizes, Z3

\* The handler counts one overflow and its time.
LEMMA ServeStep == ASSUME CountInv, TIMER0_OVF_vect PROVE CountInv'
<1>0. Word \in Nat \ {0} /\ M \in Nat
  BY Sizes
<1>1. Served \in Nat /\ Served' = Served + 1 /\ tov' = 0
  BY DEF TIMER0_OVF_vect, CountInv, TypeOK, Served
<1>2. timer0_overflow_count' = Served' % Word
  BY <1>0, <1>1, ModAdd DEF TIMER0_OVF_vect, CountInv
<1> DEFINE us == Served * M
<1>3. us \in Nat /\ Served' * M = us + M
  BY <1>0, <1>1, Z3
<1>4. timer0_ms = (us \div 1000) % Word /\ timer0_fractional_ms * 8 = us % 1000
  BY DEF CountInv, MsExact, M
<1>5. timer0_fractional_ms \in Nat
  BY DEF CountInv, TypeOK
<1> HIDE DEF us
<1> DEFINE f == timer0_fractional_ms + FRACT_INC
           c == f >= FRACT_MAX
           inc == MS_INC + (IF c THEN 1 ELSE 0)
<1>6. /\ timer0_fractional_ms' = IF c THEN f - FRACT_MAX ELSE f
      /\ timer0_ms' = (timer0_ms + inc) % Word
  BY Sizes, Z3 DEF TIMER0_OVF_vect, CountInv, TypeOK
<1>7. /\ timer0_fractional_ms' * 8 = (us + M) % 1000
      /\ timer0_fractional_ms' \in 0..255
      /\ us \div 1000 + inc = (us + M) \div 1000
  BY <1>3, <1>4, <1>5, <1>6, Carry, Sizes
<1>8. inc \in Nat /\ us \div 1000 \in Nat
  BY <1>3, Sizes, Z3
<1> HIDE DEF inc
<1>9. timer0_ms' = ((us + M) \div 1000) % Word
  <2> DEFINE d == us \div 1000
  <2>1. d \in Nat /\ timer0_ms = d % Word /\ d + inc = (us + M) \div 1000
    BY <1>4, <1>7, <1>8
  <2> HIDE DEF d
  <2>2. \A x, y \in Nat : ((x % Word) + y) % Word = (x + y) % Word
    BY <1>0, ModAdd
  <2>3. ((d % Word) + inc) % Word = (d + inc) % Word
    <3>1. d \in Nat /\ inc \in Nat
      BY <1>8, <2>1
    <3> HIDE DEF f, c
    <3> QED BY <3>1, <2>2
  <2> QED BY <1>6, <2>1, <2>3
<1>10. MsExact'
  <2> DEFINE next == Served' * M
  <2>1. next = us + M
    BY <1>3
  <2> HIDE DEF next
  <2>2. timer0_ms' = (next \div 1000) % Word /\ timer0_fractional_ms' * 8 = next % 1000
    BY <1>7, <1>9, <2>1
  <2> QED BY <2>2 DEF MsExact, M, next
<1>11. timer0_ms' \in 0..(Word - 1) /\ timer0_overflow_count' \in 0..(Word - 1)
  <2> DEFINE d == (us + M) \div 1000
  <2>1. Served + 1 \in Nat /\ d \in Nat
    BY <1>0, <1>1, <1>3, Z3
  <2>2. timer0_ms' = d % Word
    BY <1>9
  <2> HIDE DEF d
  <2>3. d % Word \in 0..(Word - 1) /\ (Served + 1) % Word \in 0..(Word - 1)
    BY <1>0, <2>1, DivMod
  <2> QED BY <1>1, <1>2, <2>2, <2>3
<1>12. TypeOK'
  BY <1>7, <1>11 DEF TIMER0_OVF_vect, CountInv, TypeOK, call, Bit
<1> QED BY <1>1, <1>2, <1>10, <1>12 DEF CountInv

\* After reset nothing has been counted.
LEMMA InitClockInv == Init => ClockInv
<1> SUFFICES ASSUME Init PROVE ClockInv
  OBVIOUS
<1>1. Served = 0 /\ TypeOK
  BY Consts DEF Init, Served, TypeOK, Masked, Bit
<1>2. 0 % Word = 0 /\ 0 * M = 0 /\ (0 \div 1000) % Word = 0 /\ 0 % 1000 = 0
  BY Sizes, Z3
<1>3. MsExact
  BY <1>1, <1>2 DEF Init, MsExact, M
<1> QED BY <1>1, <1>2, <1>3 DEF ClockInv, CountInv, ReadInv, Init, Masked

\* A tick raises the flag and the number of overflows together.
LEMMA TickStep == ASSUME Prompt, ClockInv, Tick PROVE ClockInv'
<1> USE Consts DEF ClockInv, Bit
<1>0. /\ tcnt \in 0..(Period - 1) /\ overflows \in Nat
      /\ tcnt' = IF tcnt = Period - 1 THEN 0 ELSE tcnt + 1
  BY RoundTrip DEF Tick, CountInv, TypeOK
<1>1. /\ tcnt' \in 0..(Period - 1) /\ overflows' \in Nat /\ tov' \in Bit
      /\ \/ /\ tcnt = Period - 1 /\ tcnt' = 0 /\ overflows' = overflows + 1
            /\ tov' = 1 /\ tov = 0
         \/ /\ tcnt < Period - 1 /\ tcnt' = tcnt + 1 /\ overflows' = overflows
            /\ tov' = tov
      /\ tov' = 1 => overflows' > 0 /\ tcnt' < Period - 1
  BY <1>0 DEF Tick, CountInv, TypeOK, Prompt
<1>2. Served' = Served
  <2>1. tov \in {0, 1}
    BY DEF CountInv, TypeOK
  <2>2. CASE overflows' = overflows + 1 /\ tov' = 1 /\ tov = 0
    BY <1>0, <2>2 DEF Served
  <2>3. CASE overflows' = overflows /\ tov' = tov
    BY <2>3 DEF Served
  <2> QED BY <1>1, <2>2, <2>3
<1>3. TypeOK'
  BY <1>1 DEF Tick, CountInv, TypeOK, counts
<1>4. CountInv'
  BY <1>1, <1>2, <1>3 DEF Tick, CountInv, MsExact, counts
<1>5. Now' = Now + 1 /\ Now \in Nat
  <2>1. (overflows + 1) * Period = overflows * Period + Period /\ overflows * Period \in Nat
    BY <1>0, Z3
  <2>2. CASE tcnt = Period - 1 /\ tcnt' = 0 /\ overflows' = overflows + 1
    BY <1>0, <2>1, <2>2 DEF Now
  <2>3. CASE tcnt' = tcnt + 1 /\ overflows' = overflows
    BY <1>0, <2>1, <2>3 DEF Now
  <2> QED BY <1>1, <2>2, <2>3
<1>6. ReadInv'
  <2> USE DEF Tick, ReadInv, counts
  <2>1. (at \in Masked => irq = 0 /\ Now = since + ticked)'
    BY <1>5, <1>3 DEF TypeOK, CountInv
  <2>2. (at \in {"tcnt", "tifr"} => ms = timer0_overflow_count)'
    OBVIOUS
  <2>3. (at = "tifr" => \/ t = tcnt
                        \/ ticked = 1 /\ t + 1 = tcnt
                        \/ ticked = 1 /\ t = Period - 1 /\ tcnt = 0 /\ tov = 1)'
    BY <1>1 DEF Masked, TypeOK, CountInv
  <2>4. ASSUME at' = "restore"
        PROVE  \E k \in 0..overflows' : ms' = k % Word /\ k * Period + t' \in since'..Now'
    <3>1. PICK k \in 0..overflows : ms = k % Word /\ k * Period + t \in since..Now
      BY <2>4
    <3>2. k \in 0..overflows'
      BY <1>1, <3>1 DEF CountInv, TypeOK
    <3>3. k * Period + t \in since..Now'
      BY <1>5, <3>1 DEF CountInv, TypeOK
    <3> QED BY <3>1, <3>2, <3>3
  <2> QED BY <2>1, <2>2, <2>3, <2>4
<1> QED BY <1>4, <1>6

\* The handler does not run between cli() and the return of get_us.
LEMMA OvfStep == ASSUME ClockInv, TIMER0_OVF_vect PROVE ClockInv'
<1>1. CountInv'
  BY ServeStep DEF ClockInv
<1>2. ReadInv'
  BY DEF ClockInv, ReadInv, TIMER0_OVF_vect, call, Masked
<1> QED BY <1>1, <1>2 DEF ClockInv

\* The other code leaves time and counts alone.
LEMMA SameCounts ==
  ASSUME CountInv, UNCHANGED <<overflows, tcnt, tov, counts>>, TypeOK'
  PROVE  CountInv' /\ Now' = Now
BY DEF CountInv, MsExact, Served, Now, counts

\* initialize_clock, cli() and sei() in other code, the call and its cli().
LEMMA CallSteps ==
  ASSUME ClockInv, initialize_clock \/ SetIrq \/ get_us \/ Cli \/ Restore
  PROVE  ClockInv'
<1> USE DEF ClockInv, Goto, Bit
<1>1. UNCHANGED <<overflows, tcnt, tov, counts>>
  BY DEF initialize_clock, SetIrq, get_us, Cli, Restore
<1>2. Now \in Nat
  BY Sizes, Z3 DEF Now, CountInv, TypeOK
<1>3. TypeOK'
  BY <1>1, <1>2, Consts
     DEF CountInv, TypeOK, counts, call, Masked, initialize_clock, SetIrq, get_us, Cli, Restore
<1>4. CountInv' /\ Now' = Now
  BY <1>1, <1>3, SameCounts
<1>5. ReadInv'
  BY <1>1, <1>2, <1>4
     DEF ReadInv, counts, call, Masked, initialize_clock, SetIrq, get_us, Cli, Restore
<1> QED BY <1>4, <1>5

\* The three reads of get_us.
LEMMA ReadSteps ==
  ASSUME ClockInv, ReadCount \/ ReadTcnt \/ ReadTifr PROVE ClockInv'
<1> USE DEF ClockInv, Goto, Bit
<1>1. UNCHANGED <<overflows, tcnt, tov, irq, counts, since, ticked>>
  BY DEF ReadCount, ReadTcnt, ReadTifr
<1>2. Now \in Nat /\ Period \in Nat /\ Word \in Nat \ {0}
  BY Sizes, Z3 DEF Now, CountInv, TypeOK
<1>3. \A m \in Nat : (m + 1) % Word \in 0..(Word - 1)
  BY <1>2, DivMod
<1>4. TypeOK'
  BY <1>1, <1>2, <1>3
     DEF CountInv, TypeOK, counts, Masked, ReadCount, ReadTcnt, ReadTifr
<1>5. CountInv' /\ Now' = Now
  BY <1>1, <1>4, SameCounts
<1>6. CASE ReadCount \/ ReadTcnt
  <2>1. ReadInv'
    BY <1>1, <1>5, <1>6 DEF ReadInv, counts, Masked, ReadCount, ReadTcnt
  <2> QED BY <1>5, <2>1
<1>7. CASE ReadTifr
  <2>1. /\ at = "tifr" /\ at' = "restore" /\ t' = t
        /\ ms = Served % Word /\ Served \in Nat /\ Served <= overflows
        /\ Now = since + ticked /\ ticked \in Bit /\ tov \in Bit /\ since \in Nat
        /\ tov = 1 => tcnt < Period - 1
        /\ tcnt \in 0..(Period - 1) /\ t \in 0..(Period - 1) /\ overflows \in Nat
    BY <1>7, <1>2 DEF ReadTifr, ReadInv, CountInv, TypeOK, Masked, Served, Bit
  <2> DEFINE k == IF tov = 1 /\ t < Period - 1 THEN Served + 1 ELSE Served
  <2>2. k \in 0..overflows
    BY <2>1 DEF Served
  <2>3. ms' = k % Word
    <3>1. ((Served % Word) + 1) % Word = (Served + 1) % Word
      BY <1>2, <2>1, ModAdd
    <3> QED BY <1>7, <2>1, <3>1 DEF ReadTifr
  <2>4. k * Period + t \in since..Now
    <3>1. Now = overflows * Period + tcnt
      BY DEF Now
    <3>2. CASE t = tcnt
      <4>1. k = overflows
        BY <2>1, <3>2 DEF Served
      <4> QED BY <1>2, <2>1, <3>1, <3>2, <4>1
    <3>3. CASE ticked = 1 /\ t + 1 = tcnt
      <4>1. k = overflows
        BY <1>2, <2>1, <3>3 DEF Served
      <4>2. k * Period + t = Now - 1
        BY <1>2, <2>1, <3>1, <3>3, <4>1
      <4> QED BY <1>2, <2>1, <3>3, <4>2
    <3>4. CASE ticked = 1 /\ t = Period - 1 /\ tcnt = 0 /\ tov = 1
      <4>1. k = overflows - 1
        BY <1>2, <2>1, <3>4 DEF Served
      <4>2. (overflows - 1) * Period = overflows * Period - Period
        BY <1>2, <2>1, Z3
      <4>3. k * Period + t = Now - 1
        BY <1>2, <2>1, <3>1, <3>4, <4>1, <4>2
      <4> QED BY <1>2, <2>1, <3>4, <4>3
    <3> QED BY <2>1, <3>2, <3>3, <3>4 DEF ReadInv
  <2>5. ReadInv'
    BY <1>1, <1>5, <2>1, <2>2, <2>3, <2>4 DEF ReadInv, Masked
  <2> QED BY <1>5, <2>5
<1> QED BY <1>6, <1>7

\* Every step of Next keeps ClockInv.
LEMMA NextClockInv == ASSUME Prompt PROVE ClockInv /\ [Next]_vars => ClockInv'
<1> SUFFICES ASSUME ClockInv, [Next]_vars PROVE ClockInv'
  OBVIOUS
<1>1. CASE UNCHANGED vars
  BY <1>1 DEF vars, ClockInv, CountInv, ReadInv, TypeOK, MsExact, Served, Now
<1>2. CASE Next
  BY <1>2, TickStep, OvfStep, CallSteps, ReadSteps DEF Next
<1> QED BY <1>1, <1>2

\* Under the timing condition the counts and what get_us reads are consistent.
THEOREM ClockInvariant == ASSUME Prompt PROVE Spec => []ClockInv
<1>1. Init => ClockInv
  BY InitClockInv
<1>2. ClockInv /\ [Next]_vars => ClockInv'
  BY NextClockInv
<1> QED BY <1>1, <1>2, PTL DEF Spec

\* The milliseconds of get_ms do not drift from the counted overflows.
THEOREM NoDrift == ASSUME Prompt PROVE Spec => []MsExact
<1>1. ClockInv => MsExact
  BY DEF ClockInv, CountInv
<1> QED BY <1>1, ClockInvariant, PTL

\* get_us returns the time of a moment of its call, modulo the word size.
THEOREM GetUs == ASSUME Prompt PROVE Spec => []GetUsExact
<1>1. ClockInv => GetUsExact
  <2> SUFFICES ASSUME ClockInv, at = "restore"
               PROVE  \E n \in since..Now : Result = (n * TickUs) % Word
    BY DEF GetUsExact
  <2>1. PICK k \in 0..overflows : ms = k % Word /\ k * Period + t \in since..Now
    BY DEF ClockInv, ReadInv
  <2>2. k \in Nat /\ t \in Nat
    BY <2>1, Sizes DEF ClockInv, CountInv, TypeOK
  <2>3. Us(k % Word, t) = Us(k, t)
    BY <2>2, UsMod
  <2>4. Us(k % Word, t) = Result
    BY <2>1 DEF Us, Result
  <2>5. Us(k, t) = ((k * Period + t) * TickUs) % Word
    BY DEF Us
  <2> QED BY <2>1, <2>3, <2>4, <2>5
<1> QED BY <1>1, ClockInvariant, PTL

\* Before the word wraps, get_ms follows the time since initialize_clock within a
\* millisecond and two periods of the counter.
THEOREM Uptime == ASSUME Prompt PROVE Spec => []UptimeMs
<1>1. ClockInv => UptimeMs
  <2> SUFFICES ASSUME ClockInv, Now * TickUs < Word * 1000
               PROVE  /\ get_ms * 1000 <= Now * TickUs
                      /\ Now * TickUs < get_ms * 1000 + 1000 + 2 * M
    BY DEF UptimeMs, M
  <2> DEFINE N == Now * TickUs
             us == Served * M
             rest == tov * M
             part == tcnt * TickUs
             d == us \div 1000
             r == us % 1000
  <2>1. /\ overflows \in Nat /\ tcnt \in 0..(Period - 1) /\ tov \in {0, 1}
        /\ (tov = 1 => overflows > 0) /\ timer0_ms = d % Word
    BY DEF ClockInv, CountInv, TypeOK, Bit, MsExact, M
  <2>2. Served \in Nat /\ overflows = Served + tov
    BY <2>1 DEF Served
  <2>3. Period \in Nat /\ TickUs \in Nat /\ Word \in Nat \ {0} /\ M \in Nat /\ M = Period * TickUs
    BY Sizes
  <2>4. TickUs > 0
    BY ClockAssumption
  <2>5. part \in Nat /\ part < M
    BY <2>1, <2>3, <2>4, Z3
  <2>6. us \in Nat /\ rest \in Nat /\ rest <= M
    BY <2>1, <2>2, <2>3, Z3
  <2>7. N = us + rest + part
    <3>1. Now = (Served + tov) * Period + tcnt
      BY <2>2 DEF Now
    <3>2. ((Served + tov) * Period + tcnt) * TickUs
            = Served * (Period * TickUs) + tov * (Period * TickUs) + tcnt * TickUs
      BY <2>1, <2>2, <2>3, Z3
    <3> QED BY <2>3, <3>1, <3>2
  <2>8. us = 1000 * d + r /\ r \in 0..999 /\ d \in Nat
    <3> HIDE DEF us
    <3> QED BY <2>6, Z3
  <2>9. N < Word * 1000
    OBVIOUS
  <2> HIDE DEF N, us, rest, part, d, r
  <2>10. d < Word
    BY <2>3, <2>5, <2>6, <2>7, <2>8, <2>9
  <2>11. timer0_ms = d
    <3>1. d \in 0..(Word - 1)
      BY <2>3, <2>8, <2>10
    <3>2. (Word * 0 + d) % Word = d
      BY <2>3, <3>1, RemainderUnique
    <3>3. Word * 0 + d = d
      BY <2>3, <2>8
    <3> QED BY <2>1, <3>2, <3>3
  <2>12. d * 1000 <= N /\ N < d * 1000 + 1000 + 2 * M
    BY <2>3, <2>5, <2>6, <2>7, <2>8
  <2> QED BY <2>11, <2>12 DEF get_ms, N
<1> QED BY <1>1, ClockInvariant, PTL
=============================================================================
