--------------------------- MODULE ExecTimeProofs ---------------------------
(***************************************************************************)
(* Slices end in time, are not cut short, and are charged to their task,   *)
(* for any timer, any number of tasks and any run.                         *)
(***************************************************************************)
EXTENDS ExecTime, TLAPS

(***************************************************************************)
(* Arithmetic modulo a period.                                             *)
(***************************************************************************)
\* Quotient and remainder.
LEMMA DivMod ==
  ASSUME NEW k \in Nat, NEW w \in Nat \ {0}
  PROVE  /\ k = w * (k \div w) + (k % w)
         /\ k % w \in 0..(w - 1) /\ k \div w \in Nat
BY Z3

\* The remainder is determined by its range.
LEMMA RemainderUnique ==
  ASSUME NEW w \in Nat \ {0}, NEW q \in Nat, NEW r \in 0..(w - 1)
  PROVE  (w * q + r) % w = r
BY Z3

\* A step of less than a period leads to a remainder that is that much larger,
\* or that much larger less a period.
LEMMA ModStep ==
  ASSUME NEW w \in Nat \ {0}, NEW x \in Nat, NEW d \in 0..(w - 1)
  PROVE  (x + d) % w = IF (x % w) + d < w THEN (x % w) + d ELSE (x % w) + d - w
<1> DEFINE q == x \div w
           r == x % w
<1>1. x = w * q + r /\ r \in 0..(w - 1) /\ q \in Nat
  BY DivMod
<1> HIDE DEF q, r
<1>2. CASE r + d < w
  <2>1. x + d = w * q + (r + d) /\ r + d \in 0..(w - 1)
    BY <1>1, <1>2
  <2>2. (w * q + (r + d)) % w = r + d
    BY <1>1, <2>1, RemainderUnique
  <2> QED BY <1>2, <2>1, <2>2 DEF r
<1>3. CASE ~(r + d < w)
  <2>1. x + d = w * (q + 1) + (r + d - w) /\ r + d - w \in 0..(w - 1) /\ q + 1 \in Nat
    BY <1>1, <1>3, Z3
  <2>2. (w * (q + 1) + (r + d - w)) % w = r + d - w
    BY <2>1, RemainderUnique
  <2> QED BY <1>3, <2>1, <2>2 DEF r
<1> QED BY <1>2, <1>3

\* Two moments less than a period apart have different remainders.
LEMMA ModApart ==
  ASSUME NEW w \in Nat \ {0}, NEW x \in Nat, NEW d \in 1..(w - 1)
  PROVE  (x + d) % w # x % w
<1>1. x % w \in 0..(w - 1)
  BY DivMod
<1>2. (x + d) % w = IF (x % w) + d < w THEN (x % w) + d ELSE (x % w) + d - w
  <2>1. d \in 0..(w - 1)
    OBVIOUS
  <2> QED BY <2>1, ModStep
<1> DEFINE r == x % w
           e == (x + d) % w
<1>3. r \in 0..(w - 1) /\ e = IF r + d < w THEN r + d ELSE r + d - w
  BY <1>1, <1>2
<1> HIDE DEF r, e
<1>4. e # r
  BY <1>3
<1> QED BY <1>4 DEF r, e

\* Every remainder is met within a period.
LEMMA ModMet ==
  ASSUME NEW w \in Nat \ {0}, NEW x \in Nat, NEW r \in 0..(w - 1)
  PROVE  \E i \in x..(x + w - 1) : i % w = r
<1> DEFINE s == x % w
           d == IF s <= r THEN r - s ELSE r - s + w
<1>1. s \in 0..(w - 1)
  BY DivMod
<1> HIDE DEF s
<1>2. d \in 0..(w - 1)
  BY <1>1
<1>3. d \in Int /\ r = IF s + d < w THEN s + d ELSE s + d - w
  BY <1>1
<1> HIDE DEF d
<1>4. (x + d) % w = r
  BY <1>2, <1>3, ModStep DEF s
<1>5. x + d \in x..(x + w - 1)
  BY <1>2
<1> QED BY <1>4, <1>5

(***************************************************************************)
(* The timer.                                                              *)
(***************************************************************************)
\* The constants are numbers of the right size.
LEMMA Sizes ==
  /\ Period \in Nat \ {0} /\ Interval \in 1..(Period - 1)
  /\ Wrap \in Nat \ {0} /\ Counts \in Nat \ {0}
  /\ Latency \in 0..Interval /\ 2 * Latency < Period
BY ConstantsAssumption DEF ConstantsAssumption

\* The invariant without what follows from the rest.
Parts ==
  /\ TypeOK /\ Charged
  /\ NoneMissed /\ ServedInTime /\ JustArmed /\ OwnMatch

\* The variables that are numbers.
Numbers ==
  /\ now \in Nat /\ born \in Nat /\ armed \in Nat /\ lead \in Nat
  /\ ocr \in 0..(Period - 1) /\ late \in 0..Latency
  /\ born <= now /\ armed <= now /\ lead <= born /\ now - born + lead < Wrap

LEMMA NumbersOf == Parts => Numbers
BY DEF Parts, TypeOK, Charged, Numbers

\* A register that is written from the counter has one of its values.
LEMMA Written ==
  ASSUME Numbers
  PROVE  TCNT0 \in 0..(Period - 1) /\ (Interval + TCNT0) % Period \in 0..(Period - 1)
         /\ get_us \in 0..(Wrap - 1)
         /\ (Interval + TCNT0) % Period = (now + Interval) % Period
<1>1. now \in Nat
  BY DEF Numbers
<1>2. TCNT0 \in 0..(Period - 1) /\ get_us \in 0..(Wrap - 1)
  BY <1>1, Sizes, DivMod DEF TCNT0, get_us
<1> DEFINE c == now % Period
           q == now \div Period
<1>3. c \in 0..(Period - 1) /\ q \in Nat /\ now = Period * q + c
  BY <1>1, Sizes, DivMod
<1> HIDE DEF c, q
<1>4. Interval + c \in Nat
  BY <1>3, Sizes
<1>5. (Interval + c) % Period \in 0..(Period - 1)
  BY <1>4, Sizes, DivMod
<1>6. (now + Interval) % Period = IF c + Interval < Period THEN c + Interval ELSE c + Interval - Period
  <2>1. Interval \in 0..(Period - 1)
    BY Sizes
  <2> QED BY <1>1, <2>1, Sizes, ModStep DEF c
<1>7. (c + Interval) % Period = IF c + Interval < Period THEN c + Interval ELSE c + Interval - Period
  <2>1. Interval \in 0..(Period - 1) /\ c \in Nat
    BY <1>3, Sizes
  <2>2. (c + Interval) % Period = IF (c % Period) + Interval < Period
                                  THEN (c % Period) + Interval ELSE (c % Period) + Interval - Period
    BY <2>1, Sizes, ModStep
  <2>3. c % Period = c
    <3>1. (Period * 0 + c) % Period = c
      BY <1>3, Sizes, RemainderUnique
    <3>2. Period * 0 + c = c
      BY <1>3, Sizes
    <3> QED BY <3>1, <3>2
  <2> QED BY <2>2, <2>3
<1>8. Interval + c = c + Interval
  BY <1>3, Sizes
<1> QED BY <1>2, <1>5, <1>6, <1>7, <1>8 DEF c, TCNT0

\* Without a match since OCR0B was written, less than a period has passed.
LEMMA NotYet ==
  ASSUME Numbers, \A i \in armed..(now - 1) : i % Period # ocr
  PROVE  now - armed < Period
<1>1. PICK i \in armed..(armed + Period - 1) : i % Period = ocr
  BY Sizes, ModMet DEF Numbers
<1>2. ~(i \in armed..(now - 1))
  BY <1>1
<1> QED BY <1>1, <1>2, Sizes DEF Numbers

\* A slice ends within one period of the timer from the last write of OCR0B,
\* plus the latency.
LEMMA EndsInTime == Parts => SliceEnds
<1> SUFFICES ASSUME Parts, at = "user" PROVE now - armed <= Period + Latency
  BY DEF SliceEnds
<1>1. Numbers
  BY NumbersOf
<1>2. CASE ocf
  <2>1. now - armed <= Period + late
    BY <1>2 DEF Parts, ServedInTime
  <2> QED BY <1>1, <2>1, Sizes DEF Numbers
<1>3. CASE ~ocf
  <2>1. now - armed < Period
    BY <1>1, <1>3, NotYet DEF Parts, NoneMissed
  <2> QED BY <1>1, <2>1, Sizes DEF Numbers
<1> QED BY <1>2, <1>3

\* A tick before the target of a slice, or soon after it, is no match.
LEMMA NoMatch ==
  ASSUME Numbers, Target, NEW d \in 1..(Period - 1),
         now = armed + Interval + d \/ armed + Interval = now + d
  PROVE  TCNT0 # ocr
<1> DEFINE x == armed + Interval
<1>1. x \in Nat /\ now \in Nat
  BY Sizes DEF Numbers
<1>2. CASE now = x + d
  <2>1. (x + d) % Period # x % Period
    BY <1>1, Sizes, ModApart
  <2> QED BY <1>2, <2>1 DEF Target, TCNT0
<1>3. CASE x = now + d
  <2>1. (now + d) % Period # now % Period
    BY <1>1, Sizes, ModApart
  <2> QED BY <1>3, <2>1 DEF Target, TCNT0
<1> QED BY <1>2, <1>3

\* In a slice that is not short the flag is clear up to the target.
LEMMA BeforeTarget ==
  ASSUME Numbers, Target, \A i \in armed..(now - 1) : i % Period # ocr
  PROVE  now - armed <= Interval
<1>1. (armed + Interval) % Period = ocr
  BY DEF Target
<1>2. ~(armed + Interval \in armed..(now - 1))
  BY <1>1
<1> QED BY <1>2, Sizes DEF Numbers

\* Tick: one unit of time.
LEMMA TickStep ==
  ASSUME Parts, Tick PROVE Parts'
<1>1. Numbers /\ Numbers'
  <2>1. Numbers
    BY NumbersOf
  <2>2. now' = now + 1 /\ UNCHANGED <<born, armed, lead, ocr>>
    BY DEF Tick, history
  <2>3. late' \in 0..Latency
    <3>1. CASE Pending
      BY <3>1, <2>1, Sizes DEF Tick, Numbers
    <3>2. CASE ~Pending
      BY <3>2, <2>1, Sizes DEF Tick, Numbers
    <3> QED BY <3>1, <3>2
  <2>4. now + 1 - born + lead < Wrap
    BY DEF Tick
  <2> QED BY <2>1, <2>2, <2>3, <2>4 DEF Numbers
<1>2. now' = now + 1 /\ UNCHANGED <<at, armed, ocr, short, born, lead, c_task, task>>
  BY DEF Tick, history
<1>3. TypeOK'
  <2>1. ocf' \in BOOLEAN
    BY DEF Tick
  <2> QED BY <1>1, <2>1 DEF Parts, TypeOK, Tick, task, history, Numbers
<1>4. Charged'
  <2>1. Charged
    BY DEF Parts
  <2> QED BY <1>1, <1>2, <2>1 DEF Charged, Numbers, task
<1>5. NoneMissed'
  <2> SUFFICES ASSUME at \in {"user", "armed"}, ~ocf',
                      NEW i \in armed..(now' - 1)
               PROVE  i % Period # ocr
    BY <1>2 DEF NoneMissed
  <2>1. ~ocf /\ now % Period # ocr
    BY DEF Tick, TCNT0
  <2>2. \A j \in armed..(now - 1) : j % Period # ocr
    BY <2>1 DEF Parts, NoneMissed
  <2>3. i = now \/ i \in armed..(now - 1)
    BY <1>1, <1>2 DEF Numbers
  <2> QED BY <2>1, <2>2, <2>3
<1>6. ServedInTime'
  <2> SUFFICES ASSUME at = "user" PROVE now' - armed <= Period + late'
    BY <1>2 DEF ServedInTime
  <2>1. CASE ocf
    <3>1. late' = late + 1
      BY <2>1 DEF Tick, Pending
    <3>2. now - armed <= Period + late
      BY <2>1 DEF Parts, ServedInTime
    <3> QED BY <1>1, <1>2, <3>1, <3>2, Sizes DEF Numbers
  <2>2. CASE ~ocf
    <3>1. now - armed < Period
      BY <1>1, <2>2, NotYet DEF Parts, NoneMissed
    <3>2. now \in Nat /\ armed \in Nat /\ late' \in Nat /\ Period \in Nat
      BY <1>1, Sizes DEF Numbers
    <3>3. now' = now + 1
      BY <1>2
    <3> DEFINE l == late'
    <3>4. l \in Nat
      BY <3>2
    <3> HIDE DEF l
    <3>5. now' - armed <= Period + l
      BY <3>1, <3>2, <3>3, <3>4
    <3> QED BY <3>5 DEF l
  <2> QED BY <2>1, <2>2
<1>7. JustArmed'
  <2> SUFFICES ASSUME at = "armed"
               PROVE  Target /\ now' - armed <= late' /\ (ocf' => short)
    BY <1>2 DEF JustArmed, Target
  <2>1. Target /\ now - armed <= late /\ (ocf => short)
    BY DEF Parts, JustArmed
  <2>2. late < Latency /\ late' = late + 1
    BY DEF Tick, Pending, Switching
  <2>3. now' - armed <= late'
    BY <1>1, <1>2, <2>1, <2>2 DEF Numbers
  <2>4. TCNT0 # ocr
    <3> DEFINE d == armed + Interval - now
    <3>1. d \in 1..(Period - 1) /\ armed + Interval = now + d
      BY <1>1, <2>1, <2>2, Sizes DEF Numbers
    <3> HIDE DEF d
    <3> QED BY <1>1, <2>1, <3>1, NoMatch
  <2>5. ocf' => ocf
    BY <2>4 DEF Tick
  <2> QED BY <2>1, <2>3, <2>5
<1>8. OwnMatch'
  <2> SUFFICES ASSUME ~short
               PROVE  /\ at = "user" =>
                           Target /\ (ocf' => now' - armed \in (Interval + 1)..(Interval + 1 + late'))
                      /\ at = "isr" =>
                           /\ Target /\ ~ocf'
                           /\ now' - armed \in (Interval + 1)..(Interval + 1 + Latency + late')
    BY <1>2 DEF OwnMatch, Target
  <2>1. ASSUME at = "user"
        PROVE  Target /\ (ocf' => now' - armed \in (Interval + 1)..(Interval + 1 + late'))
    <3>1. Target
      BY <2>1 DEF Parts, OwnMatch
    <3>2. CASE ocf
      <4>1. late' = late + 1
        BY <2>1, <3>2 DEF Tick, Pending
      <4>2. now - armed \in (Interval + 1)..(Interval + 1 + late)
        BY <2>1, <3>2 DEF Parts, OwnMatch
      <4>3. now' - armed \in (Interval + 1)..(Interval + 1 + late')
        BY <1>1, <1>2, <4>1, <4>2, Sizes DEF Numbers
      <4> QED BY <3>1, <4>3
    <3>3. CASE ~ocf
      <4>1. now - armed <= Interval
        BY <1>1, <2>1, <3>1, <3>3, BeforeTarget DEF Parts, NoneMissed
      <4>2. ASSUME ocf' PROVE now - armed = Interval
        <5>1. TCNT0 = ocr
          BY <3>3, <4>2 DEF Tick
        <5> DEFINE d == armed + Interval - now
        <5>2. d \in 0..(Period - 1) /\ armed + Interval = now + d
          BY <1>1, <4>1, Sizes DEF Numbers
        <5> HIDE DEF d
        <5>3. d # 0 => d \in 1..(Period - 1)
          BY <5>2, Sizes
        <5>4. d = 0
          BY <1>1, <3>1, <5>1, <5>2, <5>3, NoMatch
        <5> QED BY <1>1, <5>2, <5>4, Sizes DEF Numbers
      <4>3. now - armed = Interval => now' - armed \in (Interval + 1)..(Interval + 1 + late')
        <5>1. now \in Nat /\ armed \in Nat /\ late' \in Nat /\ Interval \in Nat
          BY <1>1, Sizes DEF Numbers
        <5>2. now' = now + 1
          BY <1>2
        <5> DEFINE l == late'
        <5>3. l \in Nat
          BY <5>1
        <5> HIDE DEF l
        <5>4. now - armed = Interval => now' - armed \in (Interval + 1)..(Interval + 1 + l)
          BY <5>1, <5>2, <5>3
        <5> QED BY <5>4 DEF l
      <4> QED BY <3>1, <4>2, <4>3
    <3> QED BY <3>2, <3>3
  <2>2. ASSUME at = "isr"
        PROVE  /\ Target /\ ~ocf'
               /\ now' - armed \in (Interval + 1)..(Interval + 1 + Latency + late')
    <3>1. Target /\ ~ocf /\ now - armed \in (Interval + 1)..(Interval + 1 + Latency + late)
      BY <2>2 DEF Parts, OwnMatch
    <3>2. late < Latency /\ late' = late + 1
      BY <2>2 DEF Tick, Pending, Switching
    <3>3. now' - armed \in (Interval + 1)..(Interval + 1 + Latency + late')
      BY <1>1, <1>2, <3>1, <3>2, Sizes DEF Numbers
    <3>4. TCNT0 # ocr
      <4> DEFINE d == now - armed - Interval
      <4>1. d \in 1..(Period - 1) /\ now = armed + Interval + d
        BY <1>1, <3>1, <3>2, Sizes DEF Numbers
      <4> HIDE DEF d
      <4> QED BY <1>1, <3>1, <4>1, NoMatch
    <3>5. ~ocf'
      BY <3>1, <3>4 DEF Tick
    <3> QED BY <3>1, <3>3, <3>5
  <2> QED BY <2>1, <2>2
<1> QED BY <1>3, <1>4, <1>5, <1>6, <1>7, <1>8 DEF Parts

\* kernel_start: the first slice.
LEMMA StartStep ==
  ASSUME Parts, kernel_start PROVE Parts'
<1>1. Numbers
  BY NumbersOf
<1>2. /\ at = "boot" /\ at' = "user" /\ armed' = now /\ born' = now /\ lead' = now /\ late' = 0
      /\ now' = now /\ ocr' = (Interval + TCNT0) % Period
      /\ UNCHANGED <<ocf, held, c_task, exec_time_us, exec_time_overflow_count,
                     exec_start_time_us, short, due, longest, overflows>>
  BY DEF kernel_start, task
<1>3. TypeOK'
  <2>1. ocr' \in 0..(Period - 1) /\ late' \in 0..Latency
    BY <1>1, <1>2, Written, Sizes
  <2> QED BY <1>1, <1>2, <2>1 DEF Parts, TypeOK, Numbers
<1>4. Charged'
  <2>1. now < Wrap
    BY <1>1, <1>2, Sizes DEF Parts, Charged, Numbers
  <2>2. exec_start_time_us[c_task] = 0
    BY <1>2 DEF Parts, Charged
  <2>3. (now - now) % Wrap = 0
    <3>1. 0 \in 0..(Wrap - 1) /\ Wrap * 0 + 0 = 0 /\ now - now = 0
      BY <1>1, Sizes DEF Numbers
    <3>2. (Wrap * 0 + 0) % Wrap = 0
      BY <3>1, Sizes, RemainderUnique
    <3> QED BY <3>1, <3>2
  <2>4. exec_start_time_us'[c_task'] = (born' - lead') % Wrap
    BY <1>2, <2>2, <2>3
  <2>5. now' - born' + lead' < Wrap /\ born' <= now' /\ armed' <= now' /\ lead' <= born'
    BY <1>1, <1>2, <2>1, Sizes DEF Numbers
  <2> QED BY <1>2, <2>4, <2>5 DEF Charged, Switching
<1>5. NoneMissed'
  <2>1. \A i : ~(i \in now..(now - 1))
    BY <1>1 DEF Numbers
  <2> QED BY <1>2, <2>1 DEF NoneMissed
<1>6. ServedInTime'
  <2>1. now - now <= Period + 0
    BY <1>1, Sizes DEF Numbers
  <2> QED BY <1>2, <2>1 DEF ServedInTime
<1>7. JustArmed'
  BY <1>2 DEF JustArmed
<1>8. OwnMatch'
  BY <1>2 DEF OwnMatch, Parts, Charged
<1> QED BY <1>3, <1>4, <1>5, <1>6, <1>7, <1>8 DEF Parts

\* Arm: the switch writes OCR0B.
LEMMA ArmStep ==
  ASSUME Parts, Arm PROVE Parts'
<1>1. Numbers
  BY NumbersOf
<1>2. /\ at \in {"isr", "yield"} /\ at' = "armed" /\ armed' = now
      /\ ocr' = (Interval + TCNT0) % Period /\ ocf' = (ocf /\ at = "isr")
      /\ now' = now /\ late' = late
      /\ UNCHANGED <<held, c_task, exec_time_us, exec_time_overflow_count,
                     exec_start_time_us, born, short, due, lead, longest, overflows>>
  BY DEF Arm, task
<1>3. TypeOK'
  <2>1. ocr' \in 0..(Period - 1)
    BY <1>1, <1>2, Written
  <2>2. ocf' \in BOOLEAN
    BY <1>2
  <2> QED BY <1>1, <1>2, <2>1, <2>2 DEF Parts, TypeOK, Numbers, Switching
<1>4. Charged'
  <2>1. lead = 0
    BY <1>2 DEF Parts, Charged, Switching
  <2>2. now' - born' + lead' < Wrap /\ born' <= now' /\ armed' <= now' /\ lead' <= born'
    BY <1>1, <1>2 DEF Numbers
  <2> QED BY <1>2, <2>1, <2>2 DEF Charged
<1>5. NoneMissed'
  <2>1. \A i : ~(i \in now..(now - 1))
    BY <1>1 DEF Numbers
  <2> QED BY <1>2, <2>1 DEF NoneMissed
<1>6. ServedInTime'
  BY <1>2 DEF ServedInTime
<1>7. JustArmed'
  <2>1. Target'
    BY <1>1, <1>2, Written DEF Target
  <2>2. now' - armed' <= late'
    BY <1>1, <1>2 DEF Numbers
  <2>3. ocf' => short'
    BY <1>2 DEF Parts, OwnMatch
  <2> QED BY <2>1, <2>2, <2>3 DEF JustArmed
<1>8. OwnMatch'
  BY <1>2 DEF OwnMatch
<1> QED BY <1>3, <1>4, <1>5, <1>6, <1>7, <1>8 DEF Parts

\* Start: the next task goes on.
LEMMA GoOnStep ==
  ASSUME Parts, Start PROVE Parts'
<1>1. Numbers
  BY NumbersOf
<1>2. /\ at = "armed" /\ at' = "user" /\ born' = now /\ late' = 0 /\ short' = (short /\ ocf)
      /\ exec_start_time_us' = [exec_start_time_us EXCEPT ![c_task] = get_us]
      /\ now' = now /\ ocr' = ocr /\ ocf' = ocf /\ armed' = armed
      /\ UNCHANGED <<held, c_task, exec_time_us, exec_time_overflow_count, due, lead,
                     longest, overflows>>
  BY DEF Start
<1>3. Target /\ now - armed <= late /\ (ocf => short)
  BY <1>2 DEF Parts, JustArmed
<1>4. c_task \in Tasks /\ exec_start_time_us \in [Tasks -> 0..(Wrap - 1)]
  BY DEF Parts, TypeOK
<1>5. TypeOK'
  <2>1. exec_start_time_us' \in [Tasks -> 0..(Wrap - 1)]
    BY <1>1, <1>2, <1>4, Written
  <2>2. short' \in BOOLEAN
    BY <1>2
  <2>3. late' \in 0..Latency
    BY <1>2, Sizes
  <2> QED BY <1>1, <1>2, <2>1, <2>2, <2>3 DEF Parts, TypeOK, Numbers
<1>6. Charged'
  <2>1. lead' = 0
    BY <1>2 DEF Parts, Charged, Switching
  <2>2. now' - born' + lead' < Wrap /\ born' <= now' /\ armed' <= now' /\ lead' <= born'
    BY <1>1, <1>2, <2>1, Sizes DEF Numbers
  <2>3. exec_start_time_us'[c_task'] = now % Wrap
    BY <1>2, <1>4 DEF get_us
  <2>4. now - 0 = now
    BY <1>1 DEF Numbers
  <2>5. exec_start_time_us'[c_task'] = (born' - lead') % Wrap
    BY <1>2, <2>1, <2>3, <2>4
  <2> QED BY <1>2, <2>2, <2>5 DEF Charged, Switching
<1>7. NoneMissed'
  BY <1>2 DEF NoneMissed, Parts
<1>8. ServedInTime'
  <2>1. now - armed <= Period + 0
    BY <1>1, <1>3, Sizes DEF Numbers
  <2> QED BY <1>2, <2>1 DEF ServedInTime
<1>9. JustArmed'
  BY <1>2 DEF JustArmed
<1>10. OwnMatch'
  BY <1>2, <1>3 DEF OwnMatch, Target
<1> QED BY <1>5, <1>6, <1>7, <1>8, <1>9, <1>10 DEF Parts

\* soft_yield: the task reads TCNT0, and stores it in OCR0B later on.
LEMMA SoftStep ==
  ASSUME Parts, SoftYield PROVE Parts'
<1>1. Numbers
  BY NumbersOf
<1>2. /\ at = "user" /\ at' = at /\ now' = now /\ ocf' = ocf /\ late' = late
      /\ UNCHANGED <<c_task, exec_time_us, exec_time_overflow_count, exec_start_time_us, born,
                     due, lead, longest, overflows>>
  BY DEF SoftYield, soft_yield, Free, task
<1>3. held \in [Tasks -> 0..Nothing] /\ c_task \in Tasks /\ held[c_task] \in 0..Period
      /\ Nothing \in 0..Nothing
  BY Sizes DEF Parts, TypeOK, Nothing
<1>4. CASE held' = [held EXCEPT ![c_task] = TCNT0] /\ UNCHANGED <<ocr, armed, short>>
  <2>1. TypeOK'
    <3>1. TCNT0 \in 0..Nothing
      BY <1>1, Written, Sizes DEF Nothing
    <3>2. held' \in [Tasks -> 0..Nothing]
      BY <1>3, <1>4, <3>1, Zenon
    <3> QED BY <1>1, <1>2, <1>4, <3>2 DEF Parts, TypeOK, Numbers
  <2>2. Charged'
    BY <1>2, <1>4 DEF Parts, Charged, Switching
  <2>3. NoneMissed' /\ ServedInTime' /\ JustArmed'
    BY <1>2, <1>4 DEF Parts, NoneMissed, ServedInTime, JustArmed
  <2>4. OwnMatch'
    BY <1>2, <1>4 DEF Parts, OwnMatch, Target
  <2> QED BY <2>1, <2>2, <2>3, <2>4 DEF Parts
<1>5. CASE /\ held[c_task] # Nothing /\ ocr' = held[c_task] /\ armed' = now /\ short' = TRUE
           /\ held' = [held EXCEPT ![c_task] = Nothing]
  <2>1. TypeOK'
    <3>1. held' \in [Tasks -> 0..Nothing]
      BY <1>3, <1>5, Zenon
    <3>2. ocr' \in 0..(Period - 1)
      BY <1>3, <1>5, Sizes DEF Nothing
    <3> QED BY <1>1, <1>2, <1>5, <3>1, <3>2 DEF Parts, TypeOK, Numbers
  <2>2. Charged'
    <3>1. now <= now
      BY <1>1 DEF Numbers
    <3> QED BY <1>2, <1>5, <3>1 DEF Parts, Charged, Switching
  <2>3. NoneMissed'
    <3>1. \A i : ~(i \in now..(now - 1))
      BY <1>1 DEF Numbers
    <3> QED BY <1>2, <1>5, <3>1 DEF NoneMissed
  <2>4. ServedInTime'
    <3>1. now - now <= Period + late
      BY <1>1, Sizes DEF Numbers
    <3> QED BY <1>2, <1>5, <3>1 DEF ServedInTime
  <2>5. JustArmed' /\ OwnMatch'
    BY <1>2, <1>5 DEF JustArmed, OwnMatch
  <2> QED BY <2>1, <2>2, <2>3, <2>4, <2>5 DEF Parts
<1> QED BY <1>4, <1>5 DEF SoftYield, soft_yield

\* create_task: the task is not the running one.
LEMMA CreateStep ==
  ASSUME Parts, NEW t \in Tasks, create_task(t) PROVE Parts'
<1>1. /\ t # c_task
      /\ exec_time_us' = [exec_time_us EXCEPT ![t] = 0]
      /\ exec_time_overflow_count' = [exec_time_overflow_count EXCEPT ![t] = 0]
      /\ exec_start_time_us' = [exec_start_time_us EXCEPT ![t] = 0]
      /\ due' = [due EXCEPT ![t] = 0] /\ longest' = [longest EXCEPT ![t] = 0]
      /\ overflows' = [overflows EXCEPT ![t] = 0]
  BY DEF create_task
<1>2. UNCHANGED <<now, ocr, ocf, late, at, c_task, born, lead, armed, short>>
  BY DEF create_task
<1>3. TypeOK'
  <2>1. TypeOK
    BY DEF Parts
  <2>2. 0 \in 0..(Wrap - 1) /\ 0 \in 0..(Counts - 1) /\ 0 \in Nat
    BY Sizes
  <2>3. /\ exec_time_us' \in [Tasks -> 0..(Wrap - 1)]
        /\ exec_time_overflow_count' \in [Tasks -> 0..(Counts - 1)]
        /\ exec_start_time_us' \in [Tasks -> 0..(Wrap - 1)]
        /\ due' \in [Tasks -> Nat] /\ longest' \in [Tasks -> Nat]
        /\ overflows' \in [Tasks -> Nat]
    BY <1>1, <2>1, <2>2, Zenon DEF TypeOK
  <2>4. held' \in [Tasks -> 0..Nothing]
    <3>1. Nothing \in 0..Nothing /\ held \in [Tasks -> 0..Nothing]
      BY <2>1, Sizes DEF TypeOK, Nothing
    <3>2. held' = [held EXCEPT ![t] = Nothing]
      BY DEF create_task
    <3> QED BY <3>1, <3>2, Zenon
  <2> QED BY <1>2, <2>1, <2>3, <2>4 DEF TypeOK
<1>4. Charged'
  <2>1. exec_start_time_us'[c_task] = exec_start_time_us[c_task]
    BY <1>1 DEF Parts, TypeOK
  <2> QED BY <1>2, <2>1 DEF Parts, Charged
<1>5. NoneMissed' /\ ServedInTime' /\ JustArmed' /\ OwnMatch'
  BY <1>2 DEF Parts, NoneMissed, ServedInTime, JustArmed, OwnMatch, Target
<1> QED BY <1>3, <1>4, <1>5 DEF Parts

(***************************************************************************)
(* The charge.                                                             *)
(***************************************************************************)
\* The difference of two readings of a clock that wraps is the time between
\* them, if that is less than the wrap.
LEMMA Difference ==
  ASSUME NEW w \in Nat \ {0}, NEW s \in Nat, NEW d \in 0..(w - 1)
  PROVE  d = IF (s + d) % w >= s % w
             THEN ((s + d) % w) - (s % w)
             ELSE ((w - 1) - (s % w)) + ((s + d) % w) + 1
<1> DEFINE r == s % w
           e == (s + d) % w
<1>1. r \in 0..(w - 1)
  BY DivMod
<1>2. e = IF r + d < w THEN r + d ELSE r + d - w
  BY ModStep
<1> HIDE DEF r, e
<1>3. d = IF e >= r THEN e - r ELSE ((w - 1) - r) + e + 1
  BY <1>1, <1>2
<1> QED BY <1>3 DEF r, e

\* The running task is charged the time since its slice began, with its lead.
LEMMA ChargeExact ==
  ASSUME Parts, at = "user"
  PROVE  /\ Elapsed(c_task) = now - born + lead
         /\ now - born + lead \in 0..(Wrap - 1)
<1>1. Numbers
  BY NumbersOf
<1>2. exec_start_time_us[c_task] = (born - lead) % Wrap
  BY DEF Parts, Charged
<1> DEFINE s == born - lead
           d == now - born + lead
<1>3. s \in Nat /\ d \in 0..(Wrap - 1) /\ s + d = now
  BY <1>1, Sizes DEF Numbers
<1> HIDE DEF s, d
<1>4. d = IF (s + d) % Wrap >= s % Wrap
          THEN ((s + d) % Wrap) - (s % Wrap)
          ELSE ((Wrap - 1) - (s % Wrap)) + ((s + d) % Wrap) + 1
  BY <1>3, Sizes, Difference
<1>5. Elapsed(c_task) = d
  BY <1>2, <1>3, <1>4, Zenon DEF Elapsed, get_us, s
<1> QED BY <1>3, <1>5 DEF d

\* What the switch does to the accounts of the task that it leaves.
Account(t, e) ==
  /\ e \in 0..(Wrap - 1)
  /\ \/ /\ exec_time_us[t] > (Wrap - 1) - e
        /\ exec_time_overflow_count' = [exec_time_overflow_count EXCEPT ![t] = (@ + 1) % Counts]
        /\ overflows' = [overflows EXCEPT ![t] = @ + 1]
        /\ exec_time_us' = [exec_time_us EXCEPT ![t] = e]
     \/ /\ exec_time_us[t] <= (Wrap - 1) - e
        /\ exec_time_us' = [exec_time_us EXCEPT ![t] = @ + e]
        /\ UNCHANGED <<exec_time_overflow_count, overflows>>
  /\ due' = [due EXCEPT ![t] = @ + e]
  /\ longest' = [longest EXCEPT ![t] = IF e > @ THEN e ELSE @]

LEMMA SwitchAccount ==
  ASSUME Parts, at = "user", NEW how, NEW next, Switch(how, next)
  PROVE  Account(c_task, now - born + lead)
<1> DEFINE e == now - born + lead
<1>1. Elapsed(c_task) = e /\ e \in 0..(Wrap - 1)
  BY ChargeExact
<1>2. \/ /\ exec_time_us[c_task] > (Wrap - 1) - e
         /\ exec_time_overflow_count' = [exec_time_overflow_count EXCEPT ![c_task] = (@ + 1) % Counts]
         /\ overflows' = [overflows EXCEPT ![c_task] = @ + 1]
         /\ exec_time_us' = [exec_time_us EXCEPT ![c_task] = e]
      \/ /\ exec_time_us[c_task] <= (Wrap - 1) - e
         /\ exec_time_us' = [exec_time_us EXCEPT ![c_task] = @ + e]
         /\ UNCHANGED <<exec_time_overflow_count, overflows>>
  <2> HIDE DEF e
  <2> QED BY <1>1, Zenon DEF Switch, calculate_task_execution_time
<1>3. due' = [due EXCEPT ![c_task] = @ + e]
  <2>1. due' = [due EXCEPT ![c_task] = @ + (now - born) + lead]
    BY DEF Switch, EndOfSlice
  <2>2. due[c_task] \in Nat /\ Numbers
    BY NumbersOf DEF Parts, TypeOK
  <2>3. due[c_task] + (now - born) + lead = due[c_task] + e
    BY <2>2 DEF Numbers
  <2> QED BY <2>1, <2>3
<1>4. longest' = [longest EXCEPT ![c_task] = IF e > @ THEN e ELSE @]
  BY DEF Switch, EndOfSlice
<1> HIDE DEF e
<1>5. Account(c_task, e)
  BY <1>1, <1>2, <1>3, <1>4, Zenon DEF Account
<1> QED BY <1>5 DEF e

\* The accounts stay within their widths.
LEMMA AccountTyped ==
  ASSUME TypeOK, NEW t \in Tasks, NEW e, Account(t, e)
  PROVE  /\ exec_time_us' \in [Tasks -> 0..(Wrap - 1)]
         /\ exec_time_overflow_count' \in [Tasks -> 0..(Counts - 1)]
         /\ due' \in [Tasks -> Nat] /\ longest' \in [Tasks -> Nat]
         /\ overflows' \in [Tasks -> Nat]
<1>1. /\ exec_time_us \in [Tasks -> 0..(Wrap - 1)]
      /\ exec_time_overflow_count \in [Tasks -> 0..(Counts - 1)]
      /\ due \in [Tasks -> Nat] /\ longest \in [Tasks -> Nat]
      /\ overflows \in [Tasks -> Nat]
  BY DEF TypeOK
<1>2. e \in 0..(Wrap - 1) /\ e \in Nat
  BY Sizes DEF Account
<1>3. due' \in [Tasks -> Nat] /\ longest' \in [Tasks -> Nat]
  BY <1>1, <1>2 DEF Account
<1>4. CASE /\ exec_time_us[t] > (Wrap - 1) - e
           /\ exec_time_overflow_count' = [exec_time_overflow_count EXCEPT ![t] = (@ + 1) % Counts]
           /\ overflows' = [overflows EXCEPT ![t] = @ + 1]
           /\ exec_time_us' = [exec_time_us EXCEPT ![t] = e]
  <2> DEFINE k == exec_time_overflow_count[t] + 1
  <2>1. k \in Nat
    BY <1>1, Sizes
  <2> HIDE DEF k
  <2>2. k % Counts \in 0..(Counts - 1)
    BY <2>1, Sizes, DivMod
  <2>3. exec_time_overflow_count' = [exec_time_overflow_count EXCEPT ![t] = k % Counts]
    BY <1>4 DEF k
  <2>4. exec_time_overflow_count' \in [Tasks -> 0..(Counts - 1)]
    BY <1>1, <2>2, <2>3, Zenon
  <2>5. overflows' \in [Tasks -> Nat]
    BY <1>1, <1>4
  <2>6. exec_time_us' \in [Tasks -> 0..(Wrap - 1)]
    BY <1>1, <1>2, <1>4, Zenon
  <2> QED BY <1>3, <2>4, <2>5, <2>6
<1>5. CASE /\ exec_time_us[t] <= (Wrap - 1) - e
           /\ exec_time_us' = [exec_time_us EXCEPT ![t] = @ + e]
           /\ UNCHANGED <<exec_time_overflow_count, overflows>>
  <2>1. exec_time_us[t] + e \in 0..(Wrap - 1)
    BY <1>1, <1>2, <1>5, Sizes
  <2>2. exec_time_us' \in [Tasks -> 0..(Wrap - 1)]
    BY <1>1, <1>5, <2>1, Zenon
  <2> QED BY <1>1, <1>3, <1>5, <2>2
<1> QED BY <1>4, <1>5 DEF Account

\* Switch: whichever way it is entered.
LEMMA SwitchParts ==
  ASSUME Parts, at = "user", ocf' \in BOOLEAN,
         NEW how \in {"isr", "yield"}, NEW next \in Tasks, Switch(how, next)
  PROVE  TypeOK' /\ Charged' /\ NoneMissed' /\ ServedInTime' /\ JustArmed'
<1>1. Numbers
  BY NumbersOf
<1>2. /\ at' = how /\ c_task' = next /\ late' = 0 /\ born' = now /\ lead' = 0
      /\ UNCHANGED <<now, ocr, held, exec_start_time_us, armed, short>>
  BY DEF Switch
<1>3. TypeOK'
  <2>1. c_task \in Tasks /\ TypeOK
    BY DEF Parts, TypeOK
  <2>2. /\ exec_time_us' \in [Tasks -> 0..(Wrap - 1)]
        /\ exec_time_overflow_count' \in [Tasks -> 0..(Counts - 1)]
        /\ due' \in [Tasks -> Nat] /\ longest' \in [Tasks -> Nat]
        /\ overflows' \in [Tasks -> Nat]
    BY <2>1, SwitchAccount, AccountTyped
  <2>3. late' \in 0..Latency /\ lead' \in Nat /\ born' \in Nat
    BY <1>1, <1>2, Sizes DEF Numbers
  <2>4. at' \in {"boot", "user"} \cup Switching
    BY <1>2 DEF Switching
  <2> QED BY <1>2, <2>1, <2>2, <2>3, <2>4 DEF TypeOK
<1>4. Charged'
  <2>1. now' - born' + lead' < Wrap /\ born' <= now' /\ armed' <= now' /\ lead' <= born'
    BY <1>1, <1>2, Sizes DEF Numbers
  <2> QED BY <1>2, <2>1 DEF Charged
<1>5. NoneMissed' /\ ServedInTime' /\ JustArmed'
  BY <1>2 DEF NoneMissed, ServedInTime, JustArmed
<1> QED BY <1>3, <1>4, <1>5

\* TIMER0_COMPB_vect: the slice ends with its match.
LEMMA IsrStep ==
  ASSUME Parts, NEW t \in Tasks, TIMER0_COMPB_vect(t) PROVE Parts'
<1>1. at = "user" /\ ocf /\ ocf' = FALSE /\ Switch("isr", t)
  BY DEF TIMER0_COMPB_vect
<1>2. TypeOK' /\ Charged' /\ NoneMissed' /\ ServedInTime' /\ JustArmed'
  BY <1>1, SwitchParts
<1>3. OwnMatch'
  <2>1. at' = "isr" /\ late' = 0 /\ UNCHANGED <<now, ocr, armed, short>>
    BY <1>1 DEF Switch
  <2> SUFFICES ASSUME ~short
               PROVE  Target /\ now - armed \in (Interval + 1)..(Interval + 1 + Latency + 0)
    BY <1>1, <2>1 DEF OwnMatch, Target
  <2>2. Target /\ now - armed \in (Interval + 1)..(Interval + 1 + late)
    BY <1>1 DEF Parts, OwnMatch
  <2>3. Numbers
    BY NumbersOf
  <2> QED BY <2>2, <2>3, Sizes DEF Numbers
<1> QED BY <1>2, <1>3 DEF Parts

\* yield: the slice ends early.
LEMMA YieldStep ==
  ASSUME Parts, NEW t \in Tasks, yield(t) PROVE Parts'
<1>1. at = "user" /\ ocf' = ocf /\ Switch("yield", t) /\ at' = "yield"
  BY DEF yield, Free, Switch
<1>2. ocf' \in BOOLEAN
  BY <1>1 DEF Parts, TypeOK
<1>3. TypeOK' /\ Charged' /\ NoneMissed' /\ ServedInTime' /\ JustArmed'
  BY <1>1, <1>2, SwitchParts
<1>4. OwnMatch'
  BY <1>1 DEF OwnMatch
<1> QED BY <1>3, <1>4 DEF Parts

\* Every step.
LEMMA PartsStep ==
  ASSUME Parts, [Next]_vars PROVE Parts'
<1>1. CASE Tick
  BY <1>1, TickStep
<1>2. CASE kernel_start
  BY <1>2, StartStep
<1>3. CASE Arm
  BY <1>3, ArmStep
<1>4. CASE Start
  BY <1>4, GoOnStep
<1>5. CASE SoftYield
  BY <1>5, SoftStep
<1>6. ASSUME NEW t \in Tasks, TIMER0_COMPB_vect(t) PROVE Parts'
  BY <1>6, IsrStep
<1>7. ASSUME NEW t \in Tasks, yield(t) PROVE Parts'
  BY <1>7, YieldStep
<1>8. ASSUME NEW t \in Tasks, create_task(t) PROVE Parts'
  BY <1>8, CreateStep
<1>9. CASE UNCHANGED vars
  BY <1>9 DEF vars, task, history, Parts, TypeOK, Charged, NoneMissed, ServedInTime, JustArmed,
              OwnMatch, Target
<1> QED BY <1>1, <1>2, <1>3, <1>4, <1>5, <1>6, <1>7, <1>8, <1>9 DEF Next

(***************************************************************************)
(* The execution time modulo the width of its two counters.                *)
(***************************************************************************)
\* Products are monotonic.
LEMMA Product ==
  ASSUME NEW a \in Nat, NEW b \in Nat, NEW c \in Nat, b <= c
  PROVE  a * b <= a * c /\ a * b \in Nat /\ a * c \in Nat
BY Z3

\* What fits between two multiples of w stays below w * c.
LEMMA Room ==
  ASSUME NEW w \in Nat \ {0}, NEW c \in Nat \ {0}, NEW k \in 0..(c - 1)
  PROVE  /\ w * k \in Nat /\ w * c \in Nat \ {0} /\ w * k + w <= w * c
         /\ w * (k + 1) = w * k + w
<1>1. k + 1 \in Nat /\ k + 1 <= c /\ w \in Nat /\ c \in Nat /\ k \in Nat
  OBVIOUS
<1>2. w * (k + 1) <= w * c /\ w * (k + 1) \in Nat /\ w * c \in Nat
  BY <1>1, Product
<1>3. w * (k + 1) = w * k + w
  BY <1>1, Z3
<1>4. w * k \in Nat
  BY <1>1, Z3
<1>5. w * c # 0
  BY Z3
<1> QED BY <1>2, <1>3, <1>4, <1>5

\* A charge without overflow keeps the two counters in step with the time; one
\* with overflow, which loses exec_time_us instead of carrying, is in step with
\* a time that is larger by what was missing for the overflow.
LEMMA Charge ==
  \A x \in 0..(Wrap - 1), k \in 0..(Counts - 1), D \in Nat, e \in 0..(Wrap - 1) :
    x + Wrap * k = D % (Wrap * Counts) =>
      /\ x + e <= Wrap - 1 => (x + e) + Wrap * k = (D + e) % (Wrap * Counts)
      /\ x + e > Wrap - 1  => e + Wrap * ((k + 1) % Counts)
                                = (D + e + (Wrap - x)) % (Wrap * Counts)
<1> TAKE x \in 0..(Wrap - 1), k \in 0..(Counts - 1), D \in Nat, e \in 0..(Wrap - 1)
<1> HAVE x + Wrap * k = D % (Wrap * Counts)
<1> USE Sizes
<1> DEFINE M == Wrap * Counts
           p == Wrap * k
           q == D \div M
           d == D % M
<1>1. p \in Nat /\ M \in Nat \ {0} /\ p + Wrap <= M /\ Wrap * (k + 1) = p + Wrap
  BY Room
<1>2. d = x + p
  OBVIOUS
<1> HIDE DEF M, p
<1>3. D = M * q + d /\ q \in Nat
  BY <1>1, DivMod
<1> HIDE DEF q, d
<1>4. M * q \in Nat
  BY <1>1, <1>3, Z3
<1>5. ASSUME x + e <= Wrap - 1 PROVE (x + e) + p = (D + e) % M
  <2>1. (x + e) + p \in 0..(M - 1) /\ D + e = M * q + ((x + e) + p)
    BY <1>1, <1>2, <1>3, <1>4, <1>5
  <2>2. (M * q + ((x + e) + p)) % M = (x + e) + p
    BY <1>1, <1>3, <2>1, RemainderUnique
  <2> QED BY <2>1, <2>2
<1>6. ASSUME x + e > Wrap - 1 PROVE e + Wrap * ((k + 1) % Counts) = (D + e + (Wrap - x)) % M
  <2>1. D + e + (Wrap - x) = M * q + (e + p + Wrap)
    BY <1>1, <1>2, <1>3, <1>4
  <2>2. CASE k + 1 < Counts
    <3>1. (k + 1) % Counts = k + 1
      <4>1. k + 1 \in 0..(Counts - 1) /\ Counts * 0 + (k + 1) = k + 1
        BY <2>2
      <4>2. (Counts * 0 + (k + 1)) % Counts = k + 1
        BY <4>1, RemainderUnique
      <4> QED BY <4>1, <4>2
    <3>2. p + Wrap + Wrap <= M
      <4>1. k + 1 \in 0..(Counts - 1)
        BY <2>2
      <4>2. Wrap * (k + 1) + Wrap <= Wrap * Counts
        BY <4>1, Room
      <4> QED BY <1>1, <4>2 DEF M
    <3>3. e + p + Wrap \in 0..(M - 1)
      BY <1>1, <3>2
    <3>4. (M * q + (e + p + Wrap)) % M = e + p + Wrap
      BY <1>1, <1>3, <3>3, RemainderUnique
    <3>5. e + Wrap * ((k + 1) % Counts) = e + p + Wrap
      BY <1>1, <3>1
    <3> QED BY <2>1, <3>4, <3>5
  <2>3. CASE k + 1 = Counts
    <3>1. (k + 1) % Counts = 0
      <4>1. 0 \in 0..(Counts - 1) /\ Counts * 1 + 0 = Counts
        OBVIOUS
      <4>2. (Counts * 1 + 0) % Counts = 0
        BY <4>1, RemainderUnique
      <4> QED BY <2>3, <4>1, <4>2
    <3>2. p + Wrap = M
      BY <1>1, <2>3 DEF M
    <3>3. M * (q + 1) = M * q + M
      BY <1>1, <1>3, Z3
    <3>4. M * q + (e + p + Wrap) = M * (q + 1) + e /\ e \in 0..(M - 1) /\ q + 1 \in Nat
      BY <1>1, <1>3, <1>4, <3>2, <3>3
    <3>5. (M * (q + 1) + e) % M = e
      BY <1>1, <3>4, RemainderUnique
    <3>6. Wrap * ((k + 1) % Counts) = 0
      BY <3>1
    <3> QED BY <2>1, <3>4, <3>5, <3>6
  <2> QED BY <2>2, <2>3
<1> QED BY <1>5, <1>6 DEF M, p

\* The account of one task.
Books(t) ==
  \E error \in 0..(overflows[t] * longest[t]) :
    Reading(t) = (due[t] + error) % (Wrap * Counts)

\* A charge leaves the account of its task in order.
LEMMA ChargeBooks ==
  ASSUME TypeOK, NEW t \in Tasks, NEW e, Account(t, e), Books(t)
  PROVE  Books(t)'
<1> DEFINE x == exec_time_us[t]
           k == exec_time_overflow_count[t]
           n == overflows[t]
           l == longest[t]
           D == due[t]
           l2 == IF e > l THEN e ELSE l
<1>1. x \in 0..(Wrap - 1) /\ k \in 0..(Counts - 1) /\ n \in Nat /\ l \in Nat /\ D \in Nat
  BY DEF TypeOK
<1>2. e \in 0..(Wrap - 1) /\ e \in Nat
  BY Sizes DEF Account
<1>3. PICK error \in 0..(n * l) : x + Wrap * k = (D + error) % (Wrap * Counts)
  BY DEF Books, Reading
<1>4. due'[t] = D + e /\ longest'[t] = l2
  BY DEF Account, TypeOK
<1>5. l2 \in Nat /\ l <= l2 /\ e <= l2
  BY <1>1, <1>2
<1>6. n * l \in Nat /\ n * l2 \in Nat /\ n * l <= n * l2 /\ (n + 1) * l2 = n * l2 + l2
  <2> HIDE DEF l2, l, n
  <2>1. n * l \in Nat /\ n * l2 \in Nat /\ n * l <= n * l2
    BY <1>1, <1>5, Product
  <2>2. (n + 1) * l2 = n * l2 + l2
    BY <1>1, <1>5, Z3
  <2> QED BY <2>1, <2>2
<1>7. error \in Nat /\ D + error \in Nat
  BY <1>1, <1>3, <1>6
<1>8. /\ x + e <= Wrap - 1 => (x + e) + Wrap * k = ((D + error) + e) % (Wrap * Counts)
      /\ x + e > Wrap - 1  => e + Wrap * ((k + 1) % Counts)
                                = ((D + error) + e + (Wrap - x)) % (Wrap * Counts)
  <2> HIDE DEF x, k, D
  <2> DEFINE T == D + error
  <2>1. T \in Nat /\ x + Wrap * k = T % (Wrap * Counts)
    BY <1>3, <1>7
  <2> HIDE DEF T
  <2>2. /\ x + e <= Wrap - 1 => (x + e) + Wrap * k = (T + e) % (Wrap * Counts)
        /\ x + e > Wrap - 1  => e + Wrap * ((k + 1) % Counts)
                                  = (T + e + (Wrap - x)) % (Wrap * Counts)
    <3>1. /\ x \in 0..(Wrap - 1) /\ k \in 0..(Counts - 1) /\ e \in 0..(Wrap - 1)
          /\ Wrap \in Nat \ {0} /\ Counts \in Nat \ {0}
      BY <1>1, <1>2, Sizes
    <3> QED BY ONLY <2>1, <3>1, Charge, Zenon
  <2> QED BY <2>2 DEF T
<1>9. CASE /\ x > (Wrap - 1) - e
           /\ exec_time_overflow_count' = [exec_time_overflow_count EXCEPT ![t] = (@ + 1) % Counts]
           /\ overflows' = [overflows EXCEPT ![t] = @ + 1]
           /\ exec_time_us' = [exec_time_us EXCEPT ![t] = e]
  <2>1. /\ exec_time_overflow_count'[t] = (k + 1) % Counts
        /\ overflows'[t] = n + 1 /\ exec_time_us'[t] = e
    BY <1>9 DEF TypeOK
  <2> DEFINE more == error + (Wrap - x)
  <2> HIDE DEF x, k, n, l, D, l2
  <2>2. x + e > Wrap - 1
    BY <1>1, <1>2, <1>9, Sizes
  <2>3. more \in 0..((n + 1) * l2)
    BY <1>1, <1>2, <1>3, <1>5, <1>6, <1>7, <2>2, Sizes
  <2>4. (D + error) + e + (Wrap - x) = (D + e) + more
    BY <1>1, <1>2, <1>7, Sizes
  <2> HIDE DEF more
  <2>5. e + Wrap * ((k + 1) % Counts) = ((D + e) + more) % (Wrap * Counts)
    BY <1>8, <2>2, <2>4
  <2>6. exec_time_us'[t] + Wrap * exec_time_overflow_count'[t]
          = (due'[t] + more) % (Wrap * Counts)
    BY <1>4, <2>1, <2>5
  <2>7. more \in 0..(overflows'[t] * longest'[t])
    BY <1>4, <2>1, <2>3
  <2> QED BY <2>6, <2>7, Zenon DEF Books, Reading
<1>10. CASE /\ x <= (Wrap - 1) - e
            /\ exec_time_us' = [exec_time_us EXCEPT ![t] = @ + e]
            /\ UNCHANGED <<exec_time_overflow_count, overflows>>
  <2>1. exec_time_overflow_count'[t] = k /\ overflows'[t] = n /\ exec_time_us'[t] = x + e
    BY <1>10 DEF TypeOK
  <2> HIDE DEF x, k, n, l, D, l2
  <2>2. x + e <= Wrap - 1
    BY <1>1, <1>2, <1>10, Sizes
  <2>3. error \in 0..(n * l2)
    BY <1>3, <1>6, <1>7
  <2>4. (D + error) + e = (D + e) + error
    BY <1>1, <1>2, <1>7
  <2>5. (x + e) + Wrap * k = ((D + e) + error) % (Wrap * Counts)
    BY <1>8, <2>2, <2>4
  <2>6. exec_time_us'[t] + Wrap * exec_time_overflow_count'[t]
          = (due'[t] + error) % (Wrap * Counts)
    BY <1>4, <2>1, <2>5
  <2>7. error \in 0..(overflows'[t] * longest'[t])
    BY <1>4, <2>1, <2>3
  <2> QED BY <2>6, <2>7, Zenon DEF Books, Reading
<1> QED BY <1>9, <1>10 DEF Account

\* A task that has not run has been charged nothing.
LEMMA EmptyBooks ==
  \E error \in 0..(0 * 0) : 0 + Wrap * 0 = (0 + error) % (Wrap * Counts)
<1>1. Wrap * Counts \in Nat \ {0}
  <2>1. 0 \in 0..(Counts - 1)
    BY Sizes
  <2> QED BY <2>1, Sizes, Room
<1> DEFINE M == Wrap * Counts
<1>2. M \in Nat \ {0}
  BY <1>1
<1> HIDE DEF M
<1>3. 0 \in 0..(M - 1) /\ M * 0 + 0 = 0
  BY <1>2
<1>4. (M * 0 + 0) % M = 0
  BY <1>2, <1>3, RemainderUnique
<1>5. 0 \in 0..(0 * 0) /\ 0 + Wrap * 0 = 0 /\ 0 + 0 = 0
  BY Sizes
<1>6. 0 + Wrap * 0 = (0 + 0) % (Wrap * Counts)
  BY <1>3, <1>4, <1>5 DEF M
<1> QED BY <1>5, <1>6

\* The accounts of all tasks, in any step.
LEMMA BooksStep ==
  ASSUME Parts, [Next]_vars, AccountingBounded PROVE AccountingBounded'
<1> SUFFICES ASSUME NEW t \in Tasks PROVE Books(t)'
  BY DEF AccountingBounded, Books
<1>1. TypeOK /\ Books(t)
  BY DEF Parts, AccountingBounded, Books
<1>2. ASSUME UNCHANGED <<exec_time_us, exec_time_overflow_count, due, longest, overflows>>
      PROVE  Books(t)'
  BY <1>1, <1>2, Zenon DEF Books, Reading
<1>3. CASE Tick \/ kernel_start \/ Arm \/ Start \/ SoftYield \/ UNCHANGED vars
  BY <1>2, <1>3 DEF Tick, kernel_start, Arm, Start, SoftYield, vars, task, history
<1>4. ASSUME NEW how, NEW next, at = "user", Switch(how, next) PROVE Books(t)'
  <2> DEFINE e == now - born + lead
  <2>1. Account(c_task, e)
    BY <1>4, SwitchAccount
  <2> HIDE DEF e
  <2>2. CASE t = c_task
    BY <1>1, <2>1, <2>2, ChargeBooks
  <2>3. CASE t # c_task
    <3>1. /\ exec_time_us'[t] = exec_time_us[t] /\ due'[t] = due[t] /\ longest'[t] = longest[t]
          /\ exec_time_overflow_count'[t] = exec_time_overflow_count[t]
          /\ overflows'[t] = overflows[t]
      BY <1>1, <2>1, <2>3 DEF Account, TypeOK
    <3> QED BY <1>1, <3>1, Zenon DEF Books, Reading
  <2> QED BY <2>2, <2>3
<1>5. ASSUME NEW n \in Tasks, TIMER0_COMPB_vect(n) \/ yield(n) PROVE Books(t)'
  <2>1. at = "user" /\ (Switch("isr", n) \/ Switch("yield", n))
    BY <1>5 DEF TIMER0_COMPB_vect, yield, Free
  <2> QED BY <1>4, <2>1
<1>6. ASSUME NEW n \in Tasks, create_task(n) PROVE Books(t)'
  <2>1. CASE t = n
    <3>1. /\ exec_time_us'[t] = 0 /\ exec_time_overflow_count'[t] = 0 /\ due'[t] = 0
          /\ longest'[t] = 0 /\ overflows'[t] = 0
      BY <1>1, <1>6, <2>1 DEF create_task, TypeOK
    <3> QED BY <3>1, EmptyBooks DEF Books, Reading
  <2>2. CASE t # n
    <3>1. /\ exec_time_us'[t] = exec_time_us[t] /\ due'[t] = due[t] /\ longest'[t] = longest[t]
          /\ exec_time_overflow_count'[t] = exec_time_overflow_count[t]
          /\ overflows'[t] = overflows[t]
      BY <1>1, <1>6, <2>2 DEF create_task, TypeOK
    <3> QED BY <1>1, <3>1, Zenon DEF Books, Reading
  <2> QED BY <2>1, <2>2
<1> QED BY <1>3, <1>5, <1>6 DEF Next

(***************************************************************************)
(* The theorems.                                                           *)
(***************************************************************************)
\* Init: before the first tick.
LEMMA InitParts == Init => Parts /\ AccountingBounded
<1> SUFFICES ASSUME Init PROVE Parts /\ AccountingBounded
  OBVIOUS
<1>1. /\ now = 0 /\ ocr = 0 /\ ocf = FALSE /\ late = 0 /\ at = "boot" /\ held = [t \in Tasks |-> Nothing]
      /\ c_task \in Tasks /\ born = 0 /\ armed = 0 /\ short = TRUE /\ lead = 0
      /\ exec_time_us = Zero /\ exec_time_overflow_count = Zero /\ exec_start_time_us = Zero
      /\ due = Zero /\ longest = Zero /\ overflows = Zero
  BY DEF Init
<1>2. 0 \in 0..(Period - 1) /\ 0 \in 0..Latency /\ 0 \in 0..(Wrap - 1) /\ 0 \in 0..(Counts - 1)
  BY Sizes
<1>3. TypeOK
  <2>1. /\ Zero \in [Tasks -> 0..(Wrap - 1)] /\ Zero \in [Tasks -> 0..(Counts - 1)]
        /\ Zero \in [Tasks -> Nat] /\ [t \in Tasks |-> Nothing] \in [Tasks -> 0..Nothing]
    BY <1>2, Sizes DEF Zero, Nothing
  <2> QED BY <1>1, <1>2, <2>1 DEF TypeOK
<1>4. Charged
  <2>1. 0 - 0 + 0 < Wrap
    BY Sizes
  <2> QED BY <1>1, <2>1 DEF Charged, Zero, Switching
<1>5. NoneMissed /\ ServedInTime /\ JustArmed /\ OwnMatch
  BY <1>1 DEF NoneMissed, ServedInTime, JustArmed, OwnMatch
<1>6. AccountingBounded
  <2> SUFFICES ASSUME NEW t \in Tasks PROVE Books(t)
    BY DEF AccountingBounded, Books
  <2>1. /\ exec_time_us[t] = 0 /\ exec_time_overflow_count[t] = 0 /\ due[t] = 0
        /\ longest[t] = 0 /\ overflows[t] = 0
    BY <1>1 DEF Zero
  <2> QED BY <2>1, EmptyBooks DEF Books, Reading
<1> QED BY <1>3, <1>4, <1>5, <1>6 DEF Parts

\* calculate_task_execution_time, OCR0B: the counters stay within their width,
\* and every slice ends within one period of the timer from the last write of
\* OCR0B, plus the latency.
THEOREM SliceInvariant == Spec => []SliceInv
<1>1. Init => Parts
  BY InitParts
<1>2. Parts /\ [Next]_vars => Parts'
  BY PartsStep
<1>3. Parts => SliceInv
  BY EndsInTime DEF Parts, SliceInv
<1> QED BY <1>1, <1>2, <1>3, PTL DEF Spec

\* TIMER0_COMPB_vect / yield: no task is interrupted before its interval is
\* over, unless its slice is the first, or short because of a store of soft_yield
\* (in the slice itself, or so late in the one before that its match fell into
\* the switch).
THEOREM WholeSlices == Spec => []FullSlice
<1>1. SliceInv => FullSlice
  <2> SUFFICES ASSUME SliceInv, at = "user", ocf, ~short PROVE now - armed > Interval
    BY DEF FullSlice
  <2>1. now - armed \in (Interval + 1)..(Interval + 1 + late)
    BY DEF SliceInv, OwnMatch
  <2>2. now \in Nat /\ armed \in Nat /\ late \in Nat /\ Interval \in Nat
    BY Sizes DEF SliceInv, TypeOK
  <2> QED BY <2>1, <2>2
<1> QED BY <1>1, SliceInvariant, PTL

\* calculate_task_execution_time: the counters of every task show the time it
\* has run, modulo their width, with an error of at most its longest slice for
\* each overflow, whenever the clock wraps.
THEOREM TimeAccounted == Spec => []AccountingBounded
<1>1. Init => Parts /\ AccountingBounded
  BY InitParts
<1>2. Parts /\ AccountingBounded /\ [Next]_vars => (Parts /\ AccountingBounded)'
  BY PartsStep, BooksStep
<1> QED BY <1>1, <1>2, PTL DEF Spec
=============================================================================
