--------------------------- MODULE UsartTxProofs ---------------------------
(***************************************************************************)
(* The transmit ring, for every port, ring size, set of tasks and texts:   *)
(* the invariant, the order of the bytes, the interrupt flag and the       *)
(* refinement of BoundedQueue.  The writers take turns (Serialised); the   *)
(* calls may be made with interrupts disabled and the USART initialised    *)
(* again at any time.                                                      *)
(***************************************************************************)
EXTENDS UsartTx, SequenceTheorems, TLAPS

USE DEF InsertPoints, Masked, hardware, ring, call

(***************************************************************************)
(* Arithmetic on a ring of n slots.                                        *)
(***************************************************************************)
\* Below n the remainder is the number itself, below 2 n it is n less, and a
\* negative number is moved up by n.
LEMMA ModBelow ==
  ASSUME NEW n \in Nat \ {0}, NEW x \in 0..(n - 1) PROVE x % n = x
BY Z3

LEMMA ModAbove ==
  ASSUME NEW n \in Nat \ {0}, NEW x \in n..(2 * n - 1) PROVE x % n = x - n
BY Z3

LEMMA ModNegative ==
  ASSUME NEW n \in Nat \ {0}, NEW x \in (-n)..(-1) PROVE x % n = x + n
BY Z3

\* The slot after h, and the number of slots from t to h.
LEMMA Wrap ==
  ASSUME NEW n \in Nat, n >= 2
  PROVE  \A x \in (-n)..(2 * n - 1) :
           /\ x % n \in 0..(n - 1)
           /\ x < 0 => x % n = x + n
           /\ x \in 0..(n - 1) => x % n = x
           /\ x >= n => x % n = x - n
<1> TAKE x \in (-n)..(2 * n - 1)
<1>1. n \in Nat \ {0} /\ x \in Int
  OBVIOUS
<1>2. CASE x \in (-n)..(-1)
  <2>1. x % n = x + n
    BY ONLY <1>1, <1>2, ModNegative, Zenon
  <2> QED BY <1>2, <2>1
<1>3. CASE x \in 0..(n - 1)
  <2>1. x % n = x
    BY ONLY <1>1, <1>3, ModBelow, Zenon
  <2> QED BY <1>3, <2>1
<1>4. CASE x \in n..(2 * n - 1)
  <2>1. x % n = x - n
    BY ONLY <1>1, <1>4, ModAbove, Zenon
  <2> QED BY <1>4, <2>1
<1> QED BY <1>1, <1>2, <1>3, <1>4

\* The next slot.
LEMMA Succ ==
  ASSUME NEW n \in Nat, n >= 2
  PROVE  \A x \in 0..(n - 1) : (x + 1) % n = IF x = n - 1 THEN 0 ELSE x + 1
<1> TAKE x \in 0..(n - 1)
<1> DEFINE d == x + 1
<1>1. d \in (-n)..(2 * n - 1) /\ d = x + 1
  OBVIOUS
<1> HIDE DEF d
<1>2. (d \in 0..(n - 1) => d % n = d) /\ (d >= n => d % n = d - n)
  BY <1>1, Wrap
<1> QED BY <1>1, <1>2 DEF d

\* What the ring holds: from the slot after t up to h.
Used(h, t, n) == IF h >= t THEN h - t ELSE h - t + n

\* An index and the number of bytes, when one is written or taken.
LEMMA Moves ==
  ASSUME NEW n \in Nat, n >= 2, NEW h \in 0..(n - 1), NEW t \in 0..(n - 1)
  PROVE  /\ (h - t) % n = Used(h, t, n) /\ Used(h, t, n) \in 0..(n - 1)
         /\ Used(h, t, n) = 0 <=> h = t
         /\ (h + 1) % n \in 0..(n - 1) /\ (t + 1) % n \in 0..(n - 1)
         /\ (h + 1) % n # h
         /\ (h + 1) % n # t => Used((h + 1) % n, t, n) = Used(h, t, n) + 1
         /\ h # t => Used(h, (t + 1) % n, n) = Used(h, t, n) - 1
<1>1. (h - t) % n = Used(h, t, n)
  <2> DEFINE d == h - t
  <2>1. d \in (-n)..(2 * n - 1) /\ d = h - t
    OBVIOUS
  <2> HIDE DEF d
  <2>2. (d < 0 => d % n = d + n) /\ (d \in 0..(n - 1) => d % n = d)
    BY <2>1, Wrap
  <2> QED BY <2>1, <2>2 DEF Used, d
<1>2. \A x \in 0..(n - 1) : (x + 1) % n = IF x = n - 1 THEN 0 ELSE x + 1
  BY Succ
<1> QED BY <1>1, <1>2 DEF Used

\* A sequence is its first element and the rest.
LEMMA HeadThenTail ==
  ASSUME NEW S, NEW s \in Seq(S), s # <<>> PROVE <<Head(s)>> \o Tail(s) = s
<1>1. /\ Head(s) \in S /\ Tail(s) \in Seq(S) /\ Len(Tail(s)) = Len(s) - 1
      /\ \A i \in 1..Len(Tail(s)) : Tail(s)[i] = s[i + 1]
  BY HeadTailProperties
<1>2. Len(s) \in Nat \ {0}
  BY EmptySeq
<1>3. <<Head(s)>> \in Seq(S) /\ Len(<<Head(s)>>) = 1 /\ <<Head(s)>>[1] = s[1]
  BY <1>1, <1>2
<1> DEFINE r == <<Head(s)>> \o Tail(s)
           n == Len(s)
<1>4. /\ r \in Seq(S) /\ Len(r) = 1 + Len(Tail(s))
      /\ \A i \in 1..(1 + Len(Tail(s))) :
           r[i] = IF i <= 1 THEN <<Head(s)>>[i] ELSE Tail(s)[i - 1]
  BY <1>1, <1>3, ConcatProperties
<1>5. n \in Nat /\ n > 0 /\ Len(Tail(s)) = n - 1
  BY <1>1, <1>2
<1> HIDE DEF r, n
<1>6. Len(r) = n
  BY <1>4, <1>5
<1>7. ASSUME NEW i \in 1..n PROVE r[i] = s[i]
  <2>1. CASE i = 1
    BY <1>3, <1>4, <1>5, <2>1
  <2>2. CASE i # 1
    <3>1. i - 1 \in 1..(n - 1) /\ (i - 1) + 1 = i /\ ~(i <= 1) /\ i \in 1..(1 + (n - 1))
      BY <1>5, <2>2
    <3>2. r[i] = Tail(s)[i - 1]
      BY <1>4, <1>5, <3>1
    <3>3. Tail(s)[i - 1] = s[(i - 1) + 1]
      BY <1>1, <1>5, <3>1
    <3> QED BY <3>1, <3>2, <3>3
  <2> QED BY <2>1, <2>2
<1>8. r = s
  BY <1>4, <1>6, <1>7, SeqEqual DEF n
<1> QED BY <1>8 DEF r

(***************************************************************************)
(* The copies of the driver.                                               *)
(***************************************************************************)
LEMMA Sizes == ASSUME TypeOK PROVE Size \in Nat /\ Size >= 2 /\ Size = TxSize[port]
<1>1. port \in 0..3
  BY PortsAssumption DEF TypeOK
<1>2. Size \in {2, 4, 8, 16, 32, 64, 128, 256}
  BY <1>1, SizeAssumption DEF Size
<1> QED BY <1>2 DEF Size

\* Every copy works with the size of its own ring.
LEMMA Copies ==
  /\ \A c \in Clients : putc(c) => Insert(c, "putc", Size)
  /\ \A c \in Clients : putc_noblock(c) => Insert(c, "putc_noblock", Size)
  /\ UDRE_ISR => UDRE(Size)
<1>1. ASSUME NEW c \in Clients, putc(c) PROVE Insert(c, "putc", Size)
  <2>1. CASE uart3_putc(c)
    BY <2>1, SizeAssumption DEF uart3_putc, Size
  <2>2. CASE uart0_putc(c) \/ uart1_putc(c) \/ uart2_putc(c)
    BY <2>2 DEF uart0_putc, uart1_putc, uart2_putc, Size
  <2> QED BY <1>1, <2>1, <2>2 DEF putc
<1>2. ASSUME NEW c \in Clients, putc_noblock(c) PROVE Insert(c, "putc_noblock", Size)
  BY <1>2 DEF putc_noblock, uart0_putc_noblock, uart1_putc_noblock,
              uart2_putc_noblock, uart3_putc_noblock, Size
<1>3. ASSUME UDRE_ISR PROVE UDRE(Size)
  BY <1>3 DEF UDRE_ISR, UDRE0_ISR, UDRE1_ISR, UDRE2_ISR, UDRE3_ISR, Size
<1> QED BY <1>1, <1>2, <1>3

\* The texts consist of characters, and these are bytes.
LEMMA TextBytes ==
  /\ \A t \in Texts : t \in Seq(Byte) /\ t \in Seq(Characters) /\ t # <<>>
  /\ Characters \subseteq Byte
<1>1. ASSUME NEW t \in Texts
      PROVE  t \in Seq(Byte) /\ t \in Seq(Characters) /\ t # <<>> /\ Range(t) \subseteq Byte
  <2>1. t \in Seq(Byte) /\ t # <<>>
    BY TextsAssumption
  <2>2. Len(t) \in Nat /\ t \in [1..Len(t) -> Byte]
    BY <2>1, LenProperties
  <2>3. \A i \in 1..Len(t) : t[i] \in Range(t) /\ t[i] \in Byte
    BY <2>2 DEF Range
  <2>4. Range(t) \subseteq Characters
    BY DEF Characters
  <2>5. t \in [1..Len(t) -> Characters]
    BY <2>2, <2>3, <2>4
  <2>6. t \in Seq(Characters)
    BY <2>2, <2>5
  <2>7. Range(t) \subseteq Byte
    BY <2>2 DEF Range
  <2> QED BY <2>1, <2>6, <2>7
<1> QED BY <1>1 DEF Characters

\* The data register as a sequence.
LEMMA UdrSeq == ASSUME TypeOK PROVE udr \in Seq(Byte)
<1>1. udr = <<>> \/ \E b \in Byte : udr = <<b>>
  BY DEF TypeOK
<1>2. <<>> \in Seq(Byte) /\ \A b \in Byte : <<b>> \in Seq(Byte)
  OBVIOUS
<1> QED BY <1>1, <1>2

\* uart_init leaves an empty ring and a disabled interrupt.
LEMMA InitTxInv == Init => TxInv /\ FlagInv
<1> SUFFICES ASSUME Init PROVE TxInv /\ FlagInv
  OBVIOUS
<1>1. Size \in Nat /\ Size >= 2
  <2>1. port \in 0..3
    BY PortsAssumption DEF Init
  <2>2. Size \in {2, 4, 8, 16, 32, 64, 128, 256}
    BY <2>1, SizeAssumption DEF Size
  <2> QED BY <2>2
<1>2. 0 \in 0..(Size - 1) /\ 0 \in Byte
  BY <1>1 DEF Byte
<1>3. <<>> \in Seq(Byte) /\ <<>> \in Seq(Characters)
  BY EmptySeq
<1>4. TypeOK
  BY <1>2, <1>3 DEF Init, TypeOK
<1>5. OneWriter /\ MaskedAlone /\ SlotReserved /\ NoEmptyInterrupt
  BY <1>3 DEF Init, OneWriter, MaskedAlone, SlotReserved, NoEmptyInterrupt
<1>6. FlagInv
  BY <1>5 DEF FlagInv, Init
<1> QED BY <1>4, <1>5, <1>6 DEF TxInv

\* The end of a byte: the call goes on with the next one or is over.
LEMMA ByteDone ==
  ASSUME TypeOK, OneWriter, NEW c \in Clients, at[c] \in InsertPoints, NextByte(c)
  PROVE  /\ at' \in [Clients -> {"user", "flush"} \cup InsertPoints]
         /\ at'[c] \in {"load", "user"} /\ \A d \in Clients \ {c} : at'[d] = at[d]
         /\ at'[c] = "load" => text'[c] # <<>>
         /\ \A d \in Clients \ {c} : text'[d] = text[d]
         /\ text' \in [Clients -> Seq(Byte)] /\ text'[c] \in Seq(Characters)
         /\ kind' \in [Clients -> {"putc", "putc_noblock"}]
         /\ head' \in [Clients -> 0..(Size - 1)]
         /\ \A d \in Clients \ {c} : head'[d] = head[d]
         /\ sreg' \in [Clients -> BOOLEAN]
         /\ \A d \in Clients \ {c} : sreg'[d] = sreg[d]
<1>1. 0 \in 0..(Size - 1)
  BY Sizes
<1>2. text[c] \in Seq(Byte) /\ text[c] \in Seq(Characters) /\ text[c] # <<>>
  BY DEF TypeOK, OneWriter
<1>3. /\ Tail(text[c]) \in Seq(Byte) /\ Tail(text[c]) \in Seq(Characters)
      /\ Len(text[c]) > 1 => Tail(text[c]) # <<>>
  <2>1. Tail(text[c]) \in Seq(Byte) /\ Len(Tail(text[c])) = Len(text[c]) - 1
    BY <1>2, HeadTailProperties
  <2>2. Tail(text[c]) \in Seq(Characters)
    BY <1>2, HeadTailProperties
  <2>3. Len(text[c]) \in Nat
    BY <1>2, LenProperties
  <2>4. ASSUME Len(text[c]) > 1 PROVE Tail(text[c]) # <<>>
    <3> DEFINE n == Len(text[c])
               m == Len(Tail(text[c]))
    <3>0. n \in Nat /\ n > 1 /\ m = n - 1
      BY <2>1, <2>3, <2>4
    <3> HIDE DEF n, m
    <3>1. m # 0
      BY <3>0
    <3>2. Len(<<>>) = 0
      BY EmptySeq
    <3> QED BY <3>1, <3>2, Zenon DEF m
  <2> QED BY <2>1, <2>2, <2>4
<1>4. at' = [at EXCEPT ![c] = "load"] \/ at' = [at EXCEPT ![c] = "user"]
  BY DEF NextByte
<1>5. at'[c] = "load" => Len(text[c]) > 1
  BY DEF NextByte, TypeOK
<1>6. text' = [text EXCEPT ![c] = Tail(text[c])]
  BY DEF NextByte
<1>7. /\ text' \in [Clients -> Seq(Byte)] /\ text'[c] = Tail(text[c])
      /\ \A d \in Clients \ {c} : text'[d] = text[d]
  BY <1>3, <1>6 DEF TypeOK
<1>8. /\ at' \in [Clients -> {"user", "flush"} \cup InsertPoints]
      /\ at'[c] \in {"load", "user"} /\ \A d \in Clients \ {c} : at'[d] = at[d]
  BY <1>4 DEF TypeOK
<1>9. kind' \in [Clients -> {"putc", "putc_noblock"}]
  BY DEF NextByte, TypeOK
<1>10. /\ head' \in [Clients -> 0..(Size - 1)]
       /\ \A d \in Clients \ {c} : head'[d] = head[d]
  BY <1>1 DEF NextByte, TypeOK
<1>11. /\ sreg' \in [Clients -> BOOLEAN]
       /\ \A d \in Clients \ {c} : sreg'[d] = sreg[d]
  BY DEF NextByte, TypeOK
<1> QED BY <1>3, <1>5, <1>7, <1>8, <1>9, <1>10, <1>11

(***************************************************************************)
(* Every step keeps TxInv.                                                 *)
(***************************************************************************)
\* The transmitter, the scheduler, cli and sei, uart_flush and uart_reinit do
\* not touch the ring.
LEMMA OutsideSteps ==
  ASSUME TxInv,
         \/ Shift
         \/ \E c \in Clients :
              \/ Preempt(c) \/ CallFlush(c) \/ flush(c) \/ reinit(c)
              \/ \E b \in BOOLEAN : SetIrq(c, b)
  PROVE  TxInv'
<1> USE DEF TxInv, Goto
<1>1. UNCHANGED <<port, ring, call, accepted>> /\ Size' = Size
  BY DEF Shift, Preempt, CallFlush, flush, reinit, SetIrq, Size
<1>2. \A c \in Clients : \/ at'[c] = at[c]
                         \/ at[c] \in {"user", "flush"} /\ at'[c] \in {"user", "flush"}
  BY DEF Shift, Preempt, CallFlush, flush, reinit, SetIrq, TypeOK
<1>3. TypeOK'
  <2>1. CASE Shift
    <3>1. sent' \in Seq(Byte)
      <4>1. udr \in Seq(Byte) /\ sent \in Seq(Byte)
        BY UdrSeq DEF TypeOK
      <4> QED BY <2>1, <4>1, ConcatProperties DEF Shift
    <3> QED BY <1>1, <2>1, <3>1 DEF Shift, TypeOK
  <2>2. ASSUME NEW c \in Clients, Preempt(c) PROVE TypeOK'
    BY <1>1, <2>2 DEF Preempt, TypeOK
  <2>3. ASSUME NEW c \in Clients, CallFlush(c) \/ flush(c) PROVE TypeOK'
    BY <1>1, <2>3 DEF CallFlush, flush, TypeOK
  <2>4. ASSUME NEW c \in Clients, reinit(c) PROVE TypeOK'
    BY <1>1, <2>4 DEF reinit, TypeOK
  <2>5. ASSUME NEW c \in Clients, NEW b \in BOOLEAN, SetIrq(c, b) PROVE TypeOK'
    BY <1>1, <2>5 DEF SetIrq, TypeOK
  <2> QED BY <2>1, <2>2, <2>3, <2>4, <2>5
<1>4. OneWriter'
  BY <1>1, <1>2 DEF OneWriter, TypeOK
<1>5. MaskedAlone'
  <2>1. CASE Shift
    BY <2>1 DEF Shift, MaskedAlone
  <2>2. ASSUME NEW c \in Clients, Preempt(c) PROVE MaskedAlone'
    BY <2>2 DEF Preempt, MaskedAlone
  <2>3. ASSUME NEW c \in Clients, CallFlush(c) \/ flush(c) PROVE MaskedAlone'
    BY <1>2, <2>3 DEF CallFlush, flush, MaskedAlone
  <2>4. ASSUME NEW c \in Clients, reinit(c) PROVE MaskedAlone'
    BY <2>4 DEF reinit, MaskedAlone
  <2>5. ASSUME NEW c \in Clients, NEW b \in BOOLEAN, SetIrq(c, b) PROVE MaskedAlone'
    BY <2>5 DEF SetIrq, MaskedAlone
  <2> QED BY <2>1, <2>2, <2>3, <2>4, <2>5
<1>6. SlotReserved'
  BY <1>1, <1>2 DEF SlotReserved
<1>7. NoEmptyInterrupt'
  BY <1>1 DEF NoEmptyInterrupt, Shift, Preempt, CallFlush, flush, reinit, SetIrq
<1> QED BY <1>3, <1>4, <1>5, <1>6, <1>7

\* A writer starts when nobody else is inside.
LEMMA WriteStep ==
  ASSUME Serialised, TxInv, NEW c \in Clients, NEW k \in {"putc", "putc_noblock"},
         NEW t \in Texts, Write(c, k, t)
  PROVE  TxInv'
<1> USE DEF TxInv, Goto
<1>1. UNCHANGED <<port, irq, cpu, udrie, ring, head>> /\ Size' = Size
  BY DEF Write, Size
<1>2. /\ at[c] = "user" /\ at' = [at EXCEPT ![c] = "load"]
      /\ text' = [text EXCEPT ![c] = t] /\ kind' = [kind EXCEPT ![c] = k]
      /\ \A d \in Clients \ {c} : at[d] \in {"user", "flush"}
      /\ UNCHANGED <<udr, sent, sreg, accepted, enabled>>
  BY DEF Write, MyTurn
<1>3. t \in Seq(Byte) /\ t \in Seq(Characters) /\ t # <<>>
  BY TextBytes
<1>4. TypeOK'
  BY <1>1, <1>2, <1>3 DEF TypeOK
<1>5. OneWriter'
  BY <1>2, <1>3 DEF OneWriter, TypeOK
<1>6. MaskedAlone'
  BY <1>1, <1>2 DEF MaskedAlone, TypeOK
<1>7. SlotReserved'
  BY <1>1, <1>2 DEF SlotReserved, TypeOK
<1>8. NoEmptyInterrupt'
  BY <1>1 DEF NoEmptyInterrupt
<1> QED BY <1>4, <1>5, <1>6, <1>7, <1>8

\* The interrupt takes a byte: a slot that a writer has found free stays free.
LEMMA UdreStep == ASSUME TxInv, UDRE(Size) PROVE TxInv'
<1> USE DEF TxInv
<1> DEFINE tail == (tx_Tail + 1) % Size
<1>1. /\ UNCHANGED <<port, cpu, irq, sent, tx_Head, tx_buffer, at, call, accepted, enabled>>
      /\ irq /\ udrie /\ udrie' = (tail # tx_Head) /\ tx_Tail' = tail
      /\ udr' = <<tx_buffer[tail]>> /\ Size' = Size
  BY DEF UDRE, Size
<1>2. /\ Size \in Nat /\ Size >= 2 /\ tx_Head \in 0..(Size - 1) /\ tx_Tail \in 0..(Size - 1)
      /\ tx_Tail # tx_Head
  BY <1>1, Sizes DEF NoEmptyInterrupt, TypeOK
<1>3. tail \in 0..(Size - 1)
  BY <1>2, Moves
<1>4. (tx_Head + 1) % Size # tail
  <2>1. \A x \in 0..(Size - 1) : (x + 1) % Size = IF x = Size - 1 THEN 0 ELSE x + 1
    BY <1>2, Succ
  <2> QED BY <1>2, <2>1
<1>5. TypeOK'
  <2>1. tx_buffer[tail] \in Byte
    BY <1>3 DEF TypeOK
  <2> HIDE DEF tail
  <2>2. udr' \in {<<>>} \cup {<<b>> : b \in Byte} /\ udrie' \in BOOLEAN
    BY <1>1, <2>1
  <2> QED BY <1>1, <1>3, <2>2 DEF TypeOK
<1> HIDE DEF tail
<1>6. OneWriter'
  BY <1>1 DEF OneWriter
<1>7. MaskedAlone'
  BY <1>1 DEF MaskedAlone
<1>8. SlotReserved'
  <2> SUFFICES ASSUME NEW c \in Clients
               PROVE  /\ at[c] \in {"direct", "wait", "store", "cli", "publish"}
                           => head[c] = (tx_Head + 1) % Size
                      /\ at[c] \in {"store", "cli", "publish"} => head[c] # tail
                      /\ at[c] \in {"cli", "publish"} => tx_buffer[head[c]] = Head(text[c])
                      /\ at[c] # "direct" /\ at[c] # "enable"
    BY <1>1 DEF SlotReserved
  <2>1. at[c] # "direct" /\ at[c] # "enable"
    BY <1>1, <1>2 DEF SlotReserved, MaskedAlone
  <2> QED BY <1>4, <2>1 DEF SlotReserved
<1>9. NoEmptyInterrupt'
  BY <1>1 DEF NoEmptyInterrupt
<1> QED BY <1>5, <1>6, <1>7, <1>8, <1>9

\* While one inserts, the others are in their own code or in uart_flush.
LEMMA Alone ==
  ASSUME TypeOK, OneWriter, NEW c \in Clients, at[c] \in InsertPoints
  PROVE  \A d \in Clients \ {c} : at[d] \in {"user", "flush"}
BY DEF TypeOK, OneWriter

\* The steps of an insertion that go on with the same byte.
LEMMA Advance ==
  ASSUME TypeOK, OneWriter, NEW c \in Clients, NEW to \in InsertPoints,
         at[c] \in InsertPoints, at' = [at EXCEPT ![c] = to], UNCHANGED text
  PROVE  OneWriter' /\ at' \in [Clients -> {"user", "flush"} \cup InsertPoints]
BY Alone DEF OneWriter, TypeOK

\* The steps that end a byte keep everything but the fields of the call.
LEMMA EndStep ==
  ASSUME TxInv, NEW c \in Clients, at[c] \in InsertPoints, NextByte(c),
         UNCHANGED <<port, cpu, ring>>, irq' \in BOOLEAN,
         enabled' \in [Clients -> BOOLEAN], udrie' = udrie,
         udr' \in {<<>>} \cup {<<b>> : b \in Byte},
         accepted' \in Seq(Byte), sent' \in Seq(Byte)
  PROVE  TxInv'
<1> USE DEF TxInv
<1>1. Size' = Size
  BY DEF Size
<1>2. \A d \in Clients \ {c} : at[d] \in {"user", "flush"}
  BY Alone
<1>3. TypeOK'
  BY <1>1, ByteDone DEF TypeOK
<1>4. at'[c] \in {"load", "user"} /\ \A d \in Clients \ {c} : at'[d] \in {"user", "flush"}
  BY <1>2, ByteDone
<1>5. OneWriter'
  <2>1. \A d \in Clients : at'[d] \in InsertPoints => d = c
    BY <1>4
  <2>2. at'[c] \in InsertPoints => text'[c] # <<>>
    BY <1>4, ByteDone
  <2>3. \A d \in Clients : text'[d] \in Seq(Characters)
    BY ByteDone DEF OneWriter
  <2> QED BY <2>1, <2>2, <2>3 DEF OneWriter
<1>6. MaskedAlone' /\ SlotReserved'
  BY <1>4 DEF MaskedAlone, SlotReserved
<1>7. NoEmptyInterrupt'
  BY DEF NoEmptyInterrupt
<1> QED BY <1>3, <1>5, <1>6, <1>7

\* uart_putc and uart_putc_noblock.
LEMMA InsertStep ==
  ASSUME TxInv, NEW c \in Clients, NEW k, Insert(c, k, Size) PROVE TxInv'
<1> USE DEF TxInv, Goto
<1>0. /\ Size \in Nat /\ Size >= 2 /\ tx_Head \in 0..(Size - 1) /\ tx_Tail \in 0..(Size - 1)
      /\ head[c] \in 0..(Size - 1)
  BY Sizes DEF TypeOK
<1>1. CASE Load(c, Size)
  <2> DEFINE new == (tx_Head + 1) % Size
  <2>1. PICK to \in {"direct", "wait"} :
               /\ at' = [at EXCEPT ![c] = to]
               /\ to = "direct" => tx_Tail = tx_Head
    BY <1>1 DEF Load
  <2>2. /\ UNCHANGED <<port, cpu, irq, hardware, ring, kind, text, sreg, accepted, enabled>>
        /\ at[c] = "load" /\ head' = [head EXCEPT ![c] = new] /\ Size' = Size
    BY <1>1 DEF Load, Size
  <2>3. new \in 0..(Size - 1)
    BY <1>0, Moves
  <2>4. OneWriter' /\ at' \in [Clients -> {"user", "flush"} \cup InsertPoints]
    BY <2>1, <2>2, Advance
  <2>5. \A d \in Clients \ {c} : at[d] \in {"user", "flush"}
    BY <2>2, Alone
  <2>6. new = ((tx_Head + 1) % Size)'
    BY <2>2
  <2> HIDE DEF new
  <2>7. TypeOK'
    BY <2>2, <2>3, <2>4 DEF TypeOK
  <2>8. MaskedAlone'
    BY <2>1, <2>2, <2>5 DEF MaskedAlone, TypeOK
  <2>9. SlotReserved'
    BY <2>1, <2>2, <2>5, <2>6 DEF SlotReserved, TypeOK
  <2> QED BY <2>2, <2>4, <2>7, <2>8, <2>9 DEF NoEmptyInterrupt
<1>2. CASE Direct(c)
  <2>1. CASE udr # <<>>
    <3>1. /\ at[c] = "direct" /\ at' = [at EXCEPT ![c] = "wait"] /\ Size' = Size
          /\ UNCHANGED <<port, cpu, irq, hardware, ring, call, accepted, enabled>>
      BY <1>2, <2>1 DEF Direct, Size
    <3>2. OneWriter' /\ at' \in [Clients -> {"user", "flush"} \cup InsertPoints]
      BY <3>1, Advance
    <3>3. TypeOK' /\ MaskedAlone'
      BY <3>1, <3>2 DEF TypeOK, MaskedAlone
    <3>4. SlotReserved'
      BY <3>1 DEF SlotReserved, TypeOK
    <3> QED BY <3>1, <3>2, <3>3, <3>4 DEF NoEmptyInterrupt
  <2>2. CASE udr = <<>>
    <3>1. /\ at[c] = "direct" /\ NextByte(c) /\ udr' = <<Head(text[c])>>
          /\ accepted' = Append(accepted, Head(text[c]))
          /\ UNCHANGED <<port, cpu, irq, udrie, sent, ring, enabled>>
      BY <1>2, <2>2 DEF Direct
    <3>2. Head(text[c]) \in Byte /\ accepted \in Seq(Byte)
      BY <3>1, HeadTailProperties DEF TypeOK, OneWriter
    <3>3. accepted' \in Seq(Byte)
      BY <3>1, <3>2, AppendProperties
    <3> QED BY <3>1, <3>2, <3>3, EndStep DEF TypeOK
  <2> QED BY <2>1, <2>2
<1>3. CASE Wait(c)
  <2>1. CASE tx_Tail # head[c]
    <3>1. /\ at[c] = "wait" /\ at' = [at EXCEPT ![c] = "store"] /\ Size' = Size
          /\ UNCHANGED <<port, cpu, irq, hardware, ring, call, accepted, enabled>>
      BY <1>3, <2>1 DEF Wait, Size
    <3>2. OneWriter' /\ at' \in [Clients -> {"user", "flush"} \cup InsertPoints]
      BY <3>1, Advance
    <3>3. TypeOK' /\ MaskedAlone'
      BY <3>1, <3>2 DEF TypeOK, MaskedAlone
    <3>4. SlotReserved'
      BY <2>1, <3>1 DEF SlotReserved, TypeOK
    <3> QED BY <3>1, <3>2, <3>3, <3>4 DEF NoEmptyInterrupt
  <2>2. CASE tx_Tail = head[c]
    <3>1. /\ at[c] = "wait" /\ NextByte(c)
          /\ UNCHANGED <<port, cpu, irq, hardware, ring, accepted, enabled>>
      BY <1>3, <2>2 DEF Wait
    <3> QED BY <3>1, EndStep DEF TypeOK
  <2> QED BY <2>1, <2>2
<1>4. CASE Store(c)
  <2>1. /\ at[c] = "store" /\ at' = [at EXCEPT ![c] = "cli"] /\ Size' = Size
        /\ tx_buffer' = [tx_buffer EXCEPT ![head[c]] = Head(text[c])]
        /\ UNCHANGED <<port, cpu, irq, hardware, tx_Head, tx_Tail, call, accepted, enabled>>
    BY <1>4 DEF Store, Size
  <2>2. Head(text[c]) \in Byte
    BY <2>1, HeadTailProperties DEF TypeOK, OneWriter
  <2>3. OneWriter' /\ at' \in [Clients -> {"user", "flush"} \cup InsertPoints]
    BY <2>1, Advance
  <2>4. TypeOK' /\ MaskedAlone'
    BY <2>1, <2>2, <2>3 DEF TypeOK, MaskedAlone
  <2>5. \A d \in Clients \ {c} : at[d] \in {"user", "flush"}
    BY <2>1, Alone
  <2>6. tx_buffer'[head[c]] = Head(text[c])
    BY <1>0, <2>1 DEF TypeOK
  <2>7. SlotReserved'
    BY <2>1, <2>5, <2>6 DEF SlotReserved, TypeOK
  <2> QED BY <2>1, <2>3, <2>4, <2>7 DEF NoEmptyInterrupt
<1>5. CASE Cli(c)
  <2>1. /\ cpu = c /\ at[c] = "cli" /\ at' = [at EXCEPT ![c] = "publish"] /\ Size' = Size
        /\ sreg' = [sreg EXCEPT ![c] = irq] /\ irq' = FALSE
        /\ UNCHANGED <<port, cpu, hardware, ring, kind, text, head, accepted, enabled>>
    BY <1>5 DEF Cli, Size
  <2>2. OneWriter' /\ at' \in [Clients -> {"user", "flush"} \cup InsertPoints]
    BY <2>1, Advance
  <2>3. TypeOK' /\ MaskedAlone'
    BY <2>1, <2>2 DEF TypeOK, MaskedAlone
  <2>4. SlotReserved'
    BY <2>1 DEF SlotReserved, TypeOK
  <2> QED BY <2>1, <2>2, <2>3, <2>4 DEF NoEmptyInterrupt
<1>6. CASE Publish(c)
  <2>1. /\ at[c] = "publish" /\ at' = [at EXCEPT ![c] = "enable"] /\ Size' = Size
        /\ tx_Head' = head[c] /\ accepted' = Append(accepted, Head(text[c]))
        /\ UNCHANGED <<port, cpu, irq, hardware, tx_Tail, tx_buffer, call, enabled>>
    BY <1>6 DEF Publish, Size
  <2>2. Head(text[c]) \in Byte /\ accepted \in Seq(Byte)
    BY <2>1, HeadTailProperties DEF TypeOK, OneWriter
  <2>3. accepted' \in Seq(Byte)
    BY <2>1, <2>2, AppendProperties
  <2>4. OneWriter' /\ at' \in [Clients -> {"user", "flush"} \cup InsertPoints]
    BY <2>1, Advance
  <2>5. TypeOK' /\ MaskedAlone'
    BY <1>0, <2>1, <2>3, <2>4 DEF TypeOK, MaskedAlone
  <2>6. \A d \in Clients \ {c} : at[d] \in {"user", "flush"}
    BY <2>1, Alone
  <2>7. head[c] # tx_Tail
    BY <2>1 DEF SlotReserved
  <2>8. SlotReserved' /\ NoEmptyInterrupt'
    BY <2>1, <2>6, <2>7 DEF SlotReserved, TypeOK, NoEmptyInterrupt
  <2> QED BY <2>4, <2>5, <2>8
<1>7. CASE Enable(c)
  <2>1. /\ at[c] = "enable" /\ at' = [at EXCEPT ![c] = "return"] /\ Size' = Size
        /\ udrie' = TRUE
        /\ UNCHANGED <<port, cpu, irq, udr, sent, ring, call, accepted, enabled>>
    BY <1>7 DEF Enable, Size
  <2>2. OneWriter' /\ at' \in [Clients -> {"user", "flush"} \cup InsertPoints]
    BY <2>1, Advance
  <2>3. TypeOK' /\ MaskedAlone'
    BY <2>1, <2>2 DEF TypeOK, MaskedAlone
  <2>4. SlotReserved' /\ NoEmptyInterrupt'
    BY <2>1 DEF SlotReserved, TypeOK, NoEmptyInterrupt
  <2> QED BY <2>2, <2>3, <2>4
<1>8. CASE Return(c)
  <2>1. /\ at[c] = "return" /\ NextByte(c) /\ irq' = (kind[c] = "putc" \/ sreg[c])
        /\ enabled' = [enabled EXCEPT ![c] = (kind[c] = "putc" \/ enabled[c])]
        /\ UNCHANGED <<port, cpu, hardware, ring, accepted>>
    BY <1>8 DEF Return
  <2>2. irq' \in BOOLEAN /\ enabled' \in [Clients -> BOOLEAN]
    BY <2>1, Zenon DEF TypeOK
  <2> QED BY <2>1, <2>2, EndStep DEF TypeOK
<1> QED BY <1>1, <1>2, <1>3, <1>4, <1>5, <1>6, <1>7, <1>8 DEF Insert

\* Every step keeps TxInv.
LEMMA NextTxInv == ASSUME Serialised PROVE TxInv /\ [Next]_vars => TxInv'
<1> SUFFICES ASSUME TxInv, [Next]_vars PROVE TxInv'
  OBVIOUS
<1>1. CASE UNCHANGED vars
  BY <1>1 DEF vars, TxInv, TypeOK, OneWriter, MaskedAlone, SlotReserved,
              NoEmptyInterrupt, Size
<1>2. CASE UDRE_ISR
  BY <1>2, Copies, UdreStep
<1>3. CASE Shift
  BY <1>3, OutsideSteps
<1>4. ASSUME NEW c \in Clients, Preempt(c) \/ UserStep(c) \/ Inside(c) PROVE TxInv'
  <2>1. CASE putc(c) \/ putc_noblock(c)
    BY <2>1, Copies, InsertStep
  <2>2. ASSUME NEW k \in {"putc", "putc_noblock"}, NEW t \in Texts, Write(c, k, t)
        PROVE  TxInv'
    BY <2>2, WriteStep
  <2>3. CASE \/ Preempt(c) \/ CallFlush(c) \/ flush(c) \/ reinit(c)
             \/ \E b \in BOOLEAN : SetIrq(c, b)
    BY <2>3, OutsideSteps
  <2> QED BY <1>4, <2>1, <2>2, <2>3 DEF UserStep, Inside
<1> QED BY <1>1, <1>2, <1>3, <1>4 DEF Next

\* uart_putc, uart_putc_noblock and the UDRE interrupt keep the indices in the
\* ring, a writer's slot its own and the interrupt disabled for an empty ring.
THEOREM TxInvariant == ASSUME Serialised PROVE Spec => []TxInv
<1>1. Init => TxInv
  BY InitTxInv
<1>2. TxInv /\ [Next]_vars => TxInv'
  BY NextTxInv
<1> QED BY <1>1, <1>2, PTL DEF Spec

(***************************************************************************)
(* The interrupt flag.  Nothing of this depends on the writers' turns.     *)
(***************************************************************************)
FlagTypes ==
  /\ cpu \in Clients /\ irq \in BOOLEAN
  /\ at \in [Clients -> {"user", "flush"} \cup InsertPoints]
  /\ sreg \in [Clients -> BOOLEAN] /\ enabled \in [Clients -> BOOLEAN]

\* A step of the running task outside its masked part.
LEMMA OpenStep ==
  ASSUME FlagTypes, FlagInv, NEW c \in Clients,
         NEW p \in {"user", "flush"} \cup InsertPoints,
         cpu = c, at[c] \notin Masked, p \notin Masked, at' = [at EXCEPT ![c] = p],
         UNCHANGED <<cpu, irq, enabled>>, sreg' \in [Clients -> BOOLEAN]
  PROVE  FlagTypes' /\ FlagInv'
BY DEF FlagTypes, FlagInv, MaskedAlone

\* The end of a byte outside the masked part.
LEMMA OpenEnd ==
  ASSUME FlagTypes, FlagInv, NEW c \in Clients, at[c] \notin Masked, NextByte(c),
         UNCHANGED <<cpu, irq, enabled>>
  PROVE  FlagTypes' /\ FlagInv'
<1>1. sreg' \in [Clients -> BOOLEAN]
  BY DEF NextByte, FlagTypes
<1>2. PICK p \in {"load", "user"} : cpu = c /\ at' = [at EXCEPT ![c] = p]
  BY DEF NextByte
<1> QED BY <1>1, <1>2, OpenStep

\* Every step keeps the flag and what is kept of it.
LEMMA NextFlagInv == FlagTypes /\ FlagInv /\ [Next]_vars => FlagTypes' /\ FlagInv'
<1> SUFFICES ASSUME FlagTypes, FlagInv, [Next]_vars PROVE FlagTypes' /\ FlagInv'
  OBVIOUS
<1> USE DEF Goto
<1>1. CASE UNCHANGED <<cpu, irq, at, sreg, enabled>>
  BY <1>1 DEF FlagTypes, FlagInv, MaskedAlone
<1>2. CASE Shift \/ UDRE_ISR
  BY <1>1, <1>2, Copies DEF Shift, UDRE
<1>3. ASSUME NEW c \in Clients, Preempt(c) PROVE FlagTypes' /\ FlagInv'
  BY <1>3 DEF Preempt, FlagTypes, FlagInv, MaskedAlone
<1>4. ASSUME NEW c \in Clients, NEW b \in BOOLEAN, SetIrq(c, b)
      PROVE  FlagTypes' /\ FlagInv'
  BY <1>4 DEF SetIrq, FlagTypes, FlagInv, MaskedAlone
<1>5. ASSUME NEW c \in Clients, NEW k \in {"putc", "putc_noblock"}, NEW t \in Texts,
             Write(c, k, t)
      PROVE  FlagTypes' /\ FlagInv'
  BY <1>5, OpenStep DEF Write, FlagTypes
<1>6. ASSUME NEW c \in Clients, CallFlush(c) \/ flush(c) \/ reinit(c)
      PROVE  FlagTypes' /\ FlagInv'
  <2>1. CASE CallFlush(c)
    BY <2>1, OpenStep DEF CallFlush, FlagTypes
  <2>2. CASE flush(c)
    BY <2>2, OpenStep DEF flush, FlagTypes
  <2>3. CASE reinit(c)
    BY <1>1, <2>3 DEF reinit
  <2> QED BY <1>6, <2>1, <2>2, <2>3
<1>7. ASSUME NEW c \in Clients, NEW k, Insert(c, k, Size) PROVE FlagTypes' /\ FlagInv'
  <2>1. CASE Load(c, Size)
    <3>1. PICK p \in {"direct", "wait"} : at' = [at EXCEPT ![c] = p]
      BY <2>1 DEF Load
    <3> QED BY <2>1, <3>1, OpenStep DEF Load, FlagTypes
  <2>2. CASE Direct(c)
    BY <2>2, OpenStep, OpenEnd DEF Direct, FlagTypes
  <2>3. CASE Wait(c)
    BY <2>3, OpenStep, OpenEnd DEF Wait, FlagTypes
  <2>4. CASE Store(c)
    BY <2>4, OpenStep DEF Store, FlagTypes
  <2>5. CASE Cli(c)
    BY <2>5 DEF Cli, FlagTypes, FlagInv, MaskedAlone
  <2>6. CASE Publish(c)
    BY <2>6 DEF Publish, FlagTypes, FlagInv, MaskedAlone
  <2>7. CASE Enable(c)
    BY <2>7 DEF Enable, FlagTypes, FlagInv, MaskedAlone
  <2>8. CASE Return(c)
    <3>1. /\ cpu = c /\ at[c] = "return" /\ UNCHANGED cpu
          /\ irq' = (kind[c] = "putc" \/ sreg[c])
          /\ enabled' = [enabled EXCEPT ![c] = (kind[c] = "putc" \/ enabled[c])]
          /\ sreg' = [sreg EXCEPT ![c] = TRUE]
      BY <2>8 DEF Return, NextByte
    <3>2. PICK p \in {"load", "user"} : at' = [at EXCEPT ![c] = p]
      BY <2>8 DEF Return, NextByte
    <3>3. FlagTypes'
      BY <3>1, <3>2, Zenon DEF FlagTypes
    <3>4. MaskedAlone'
      BY <3>1, <3>2 DEF FlagTypes, FlagInv, MaskedAlone
    <3>5. sreg[c] = enabled[c] /\ enabled'[c] = (kind[c] = "putc" \/ enabled[c])
      BY <3>1 DEF FlagInv, FlagTypes
    <3>6. irq' = enabled'[c] /\ \A d \in Clients \ {c} : enabled'[d]
      BY <3>1, <3>5 DEF FlagInv, FlagTypes
    <3>7. at'[c] \notin Masked
      BY <3>2 DEF FlagTypes
    <3> QED BY <3>1, <3>3, <3>4, <3>6, <3>7 DEF FlagInv
  <2> QED BY <1>7, <2>1, <2>2, <2>3, <2>4, <2>5, <2>6, <2>7, <2>8 DEF Insert
<1>8. ASSUME NEW c \in Clients, UserStep(c) \/ Inside(c) PROVE FlagTypes' /\ FlagInv'
  BY <1>4, <1>5, <1>6, <1>7, <1>8, Copies DEF UserStep, Inside
<1> QED BY <1>1, <1>2, <1>3, <1>8 DEF Next, vars

\* uart_putc and uart_putc_noblock leave the I bit as the library promises, for
\* writers in any order, with or without interrupts enabled.
THEOREM InterruptFlag == Spec => []InterruptFlagKept
<1>1. Init => FlagTypes /\ FlagInv
  BY InitTxInv DEF Init, FlagTypes
<1>2. FlagTypes /\ FlagInv /\ [Next]_vars => FlagTypes' /\ FlagInv'
  BY NextFlagInv
<1>3. FlagInv => InterruptFlagKept
  BY DEF FlagInv, InterruptFlagKept
<1> QED BY <1>1, <1>2, <1>3, PTL DEF Spec

(***************************************************************************)
(* The order of the bytes.                                                 *)
(***************************************************************************)
\* The numbers of the ring.
Indices ==
  /\ Size \in Nat /\ Size >= 2 /\ tx_Head \in 0..(Size - 1) /\ tx_Tail \in 0..(Size - 1)

Stored == Used(tx_Head, tx_Tail, Size)

\* The ring as a sequence.
Readable ==
  /\ Indices /\ Stored \in 0..(Size - 1)
  /\ Pending \in Seq(Byte) /\ Len(Pending) = Stored
  /\ \A i \in 1..Stored : Pending[i] = tx_buffer[(tx_Tail + i) % Size]

LEMMA PendingSeq == TxInv => Readable
<1> SUFFICES ASSUME TxInv PROVE Readable
  OBVIOUS
<1>1. Indices /\ tx_buffer \in [0..(Size - 1) -> Byte]
  BY Sizes DEF TxInv, TypeOK, Indices
<1>2. (tx_Head - tx_Tail) % Size = Stored /\ Stored \in 0..(Size - 1)
  BY <1>1, Moves DEF Stored, Indices
<1>3. ASSUME NEW i \in 1..Stored PROVE tx_buffer[(tx_Tail + i) % Size] \in Byte
  <2> DEFINE x == tx_Tail + i
  <2>1. x \in (-Size)..(2 * Size - 1)
    BY <1>1, <1>2 DEF Indices
  <2> HIDE DEF x
  <2>2. x % Size \in 0..(Size - 1)
    BY <1>1, <2>1, Wrap DEF Indices
  <2> QED BY <1>1, <2>2 DEF x
<1>4. Pending = [i \in 1..Stored |-> tx_buffer[(tx_Tail + i) % Size]]
  BY <1>2 DEF Pending
<1>5. Pending \in [1..Stored -> Byte]
  BY <1>3, <1>4
<1>6. Pending \in Seq(Byte) /\ Len(Pending) = Stored
  BY <1>2, <1>5
<1> QED BY <1>1, <1>2, <1>4, <1>6 DEF Readable

\* Nothing happens to the slots in use.
LEMMA SamePending ==
  ASSUME Readable, Readable', UNCHANGED <<port, tx_Head, tx_Tail>>,
         \A i \in 1..Stored : tx_buffer'[(tx_Tail + i) % Size] = tx_buffer[(tx_Tail + i) % Size]
  PROVE  Pending' = Pending /\ Size' = Size
<1>1. Size' = Size
  BY DEF Size
<1>2. Stored' = Stored
  BY <1>1 DEF Stored
<1>3. \A i \in 1..Stored : Pending'[i] = Pending[i]
  BY <1>1, <1>2 DEF Readable
<1> QED BY <1>1, <1>2, <1>3, SeqEqual DEF Readable

\* A store into the slot after the newest byte is none of them.
LEMMA StorePending ==
  ASSUME Readable, NEW i \in 1..Stored
  PROVE  (tx_Tail + i) % Size # (tx_Head + 1) % Size /\ (tx_Tail + i) % Size \in 0..(Size - 1)
<1> DEFINE n == Size
           x == tx_Tail + i
<1>1. /\ n \in Nat /\ n >= 2 /\ tx_Head \in 0..(n - 1) /\ tx_Tail \in 0..(n - 1)
      /\ Stored = IF tx_Head >= tx_Tail THEN tx_Head - tx_Tail ELSE tx_Head - tx_Tail + n
  BY DEF Readable, Indices, Stored, Used
<1>2. x \in 0..(2 * n - 1) /\ x >= tx_Tail + 1
      /\ x <= (IF tx_Head >= tx_Tail THEN tx_Head ELSE tx_Head + n)
  BY <1>1
<1> HIDE DEF x, n
<1>3. x % n = IF x < n THEN x ELSE x - n
  <2>1. x \in (-n)..(2 * n - 1)
    BY <1>1, <1>2
  <2>2. /\ x \in 0..(n - 1) => x % n = x
        /\ x >= n => x % n = x - n
    BY <1>1, <2>1, Wrap
  <2> QED BY <1>1, <1>2, <2>2
<1>4. (tx_Head + 1) % n = IF tx_Head = n - 1 THEN 0 ELSE tx_Head + 1
  BY <1>1, Succ
<1>5. x % n # (tx_Head + 1) % n /\ x % n \in 0..(n - 1)
  BY <1>1, <1>2, <1>3, <1>4
<1> QED BY <1>5 DEF x, n

\* tx_Head = tmp_tx_Head puts the byte in the slot behind the newest one.
LEMMA PublishPending ==
  ASSUME Readable, Readable', UNCHANGED <<port, tx_Tail, tx_buffer>>,
         tx_Head' = (tx_Head + 1) % Size, tx_Head' # tx_Tail, NEW b \in Byte,
         tx_buffer[tx_Head'] = b
  PROVE  Pending' = Append(Pending, b) /\ Stored < Size - 1 /\ Size' = Size
<1>0. Size' = Size
  BY DEF Size
<1>1. /\ Size \in Nat /\ Size >= 2 /\ tx_Head \in 0..(Size - 1) /\ tx_Tail \in 0..(Size - 1)
      /\ Stored \in 0..(Size - 1) /\ Stored' \in 0..(Size - 1)
  BY <1>0 DEF Readable, Indices
<1>2. Stored' = Stored + 1
  BY <1>0, <1>1, Moves DEF Stored
<1>3. (tx_Tail + (Stored + 1)) % Size = tx_Head'
  <2> DEFINE x == tx_Tail + (Stored + 1)
  <2>1. x \in 0..(2 * Size - 1)
        /\ x = IF tx_Head >= tx_Tail THEN tx_Head + 1 ELSE tx_Head + 1 + Size
    BY <1>1, <1>2 DEF Stored, Used
  <2> HIDE DEF x
  <2>2. x \in (-Size)..(2 * Size - 1)
    BY <1>1, <2>1
  <2>3. /\ x \in 0..(Size - 1) => x % Size = x
        /\ x >= Size => x % Size = x - Size
    BY <1>1, <2>2, Wrap
  <2>4. tx_Head' = IF tx_Head = Size - 1 THEN 0 ELSE tx_Head + 1
    BY <1>1, Succ
  <2>5. x % Size = tx_Head'
    BY <1>1, <2>1, <2>3, <2>4
  <2> QED BY <2>5 DEF x
<1>4. /\ Pending \in Seq(Byte) /\ Len(Pending) = Stored
      /\ \A i \in 1..Stored : Pending[i] = tx_buffer[(tx_Tail + i) % Size]
      /\ Pending' \in Seq(Byte) /\ Len(Pending') = Stored + 1
      /\ \A i \in 1..(Stored + 1) : Pending'[i] = tx_buffer[(tx_Tail + i) % Size]
  BY <1>0, <1>2 DEF Readable
<1>5. /\ Append(Pending, b) \in Seq(Byte) /\ Len(Append(Pending, b)) = Stored + 1
      /\ \A i \in 1..Stored : Append(Pending, b)[i] = Pending[i]
      /\ Append(Pending, b)[Stored + 1] = b
  BY <1>4, AppendProperties
<1>6. Pending'[Stored + 1] = b
  BY <1>1, <1>3, <1>4
<1>7. ASSUME NEW i \in 1..(Stored + 1) PROVE Pending'[i] = Append(Pending, b)[i]
  <2>1. i \in 1..Stored \/ i = Stored + 1
    BY <1>1
  <2> QED BY <1>4, <1>5, <1>6, <2>1
<1>8. Pending' = Append(Pending, b)
  BY <1>4, <1>5, <1>7, SeqEqual
<1> QED BY <1>0, <1>1, <1>2, <1>8

\* The interrupt takes the oldest byte.
LEMMA UdrePending ==
  ASSUME Readable, Readable', UNCHANGED <<port, tx_Head, tx_buffer>>,
         tx_Tail' = (tx_Tail + 1) % Size, tx_Tail # tx_Head
  PROVE  /\ Pending # <<>> /\ Pending' = Tail(Pending) /\ Size' = Size
         /\ Head(Pending) = tx_buffer[tx_Tail']
<1>0. Size' = Size
  BY DEF Size
<1>1. /\ Size \in Nat /\ Size >= 2 /\ tx_Head \in 0..(Size - 1) /\ tx_Tail \in 0..(Size - 1)
      /\ Stored \in 0..(Size - 1) /\ Stored' \in 0..(Size - 1)
  BY <1>0 DEF Readable, Indices
<1>2. Stored' = Stored - 1 /\ Stored # 0
  BY <1>0, <1>1, Moves DEF Stored
<1>3. /\ Pending \in Seq(Byte) /\ Len(Pending) = Stored
      /\ \A i \in 1..Stored : Pending[i] = tx_buffer[(tx_Tail + i) % Size]
      /\ Pending' \in Seq(Byte) /\ Len(Pending') = Stored - 1
      /\ \A i \in 1..(Stored - 1) : Pending'[i] = tx_buffer[(tx_Tail' + i) % Size]
  BY <1>0, <1>2 DEF Readable
<1>4. Pending # <<>> /\ Head(Pending) = Pending[1]
  <2>1. Len(<<>>) = 0
    BY EmptySeq
  <2> QED BY <1>2, <1>3, <2>1
<1>5. Pending[1] = tx_buffer[tx_Tail']
  BY <1>1, <1>2, <1>3
<1>6. /\ Tail(Pending) \in Seq(Byte) /\ Len(Tail(Pending)) = Stored - 1
      /\ \A i \in 1..(Stored - 1) : Tail(Pending)[i] = Pending[i + 1]
  BY <1>3, <1>4, HeadTailProperties
<1>7. ASSUME NEW i \in 1..(Stored - 1) PROVE Pending'[i] = Tail(Pending)[i]
  <2> DEFINE x == tx_Tail + (i + 1)
             y == tx_Tail' + i
  <2>0. tx_Tail' = IF tx_Tail = Size - 1 THEN 0 ELSE tx_Tail + 1
    BY <1>1, Succ
  <2>1. /\ x \in (-Size)..(2 * Size - 1) /\ y \in (-Size)..(2 * Size - 1)
        /\ x \in Nat /\ y \in Nat /\ (x = y \/ x = y + Size)
    BY <1>1, <2>0
  <2> HIDE DEF x, y
  <2>2. /\ x \in 0..(Size - 1) => x % Size = x
        /\ x >= Size => x % Size = x - Size
        /\ y \in 0..(Size - 1) => y % Size = y
        /\ y >= Size => y % Size = y - Size
    BY <1>1, <2>1, Wrap
  <2>3. x % Size = y % Size
    BY <1>1, <2>1, <2>2
  <2>4. i + 1 \in 1..Stored
    BY <1>1
  <2>5. Pending[i + 1] = tx_buffer[x % Size]
    BY <1>3, <2>4 DEF x
  <2>6. Pending'[i] = tx_buffer[y % Size]
    BY <1>3 DEF y
  <2> QED BY <1>6, <2>3, <2>5, <2>6
<1>8. Pending' = Tail(Pending)
  BY <1>3, <1>6, <1>7, SeqEqual
<1> QED BY <1>0, <1>4, <1>5, <1>8

\* What a step does to the bytes: nothing, one goes to the wire, or one is
\* accepted.
Bytes == udr \o Pending
Kept == UNCHANGED <<Size, Bytes, sent, accepted>>
Taken == Queue!Take /\ UNCHANGED accepted
Accepted(b) == Queue!Accept(b) /\ accepted' = Append(accepted, b)

\* Register and ring together as a sequence.
WellFormed ==
  /\ udr \in Seq(Byte) /\ Pending \in Seq(Byte) /\ Bytes \in Seq(Byte)
  /\ sent \in Seq(Byte) /\ accepted \in Seq(Byte)
  /\ Len(Bytes) = Len(udr) + Len(Pending) /\ Len(udr) \in {0, 1}

LEMMA BytesSeq == TxInv => WellFormed
<1> SUFFICES ASSUME TxInv PROVE WellFormed
  OBVIOUS
<1>1. udr \in Seq(Byte) /\ sent \in Seq(Byte) /\ accepted \in Seq(Byte)
  BY UdrSeq DEF TxInv, TypeOK
<1>2. Pending \in Seq(Byte)
  BY PendingSeq DEF Readable
<1>3. Bytes \in Seq(Byte) /\ Len(Bytes) = Len(udr) + Len(Pending)
  BY <1>1, <1>2, ConcatProperties DEF Bytes
<1>4. udr = <<>> \/ \E b \in Byte : udr = <<b>>
  BY DEF TxInv, TypeOK
<1>5. Len(<<>>) = 0 /\ \A b \in Byte : Len(<<b>>) = 1
  BY EmptySeq
<1> QED BY <1>1, <1>2, <1>3, <1>4, <1>5 DEF WellFormed

\* A step that touches neither the ring nor the wire.
LEMMA NothingElse ==
  ASSUME TxInv, TxInv', UNCHANGED <<port, ring, udr, sent, accepted>> PROVE Kept
<1>1. Readable /\ Readable'
  BY PendingSeq, PTL
<1>2. Pending' = Pending /\ Size' = Size
  BY <1>1, SamePending
<1> QED BY <1>2 DEF Kept, Bytes

\* The transmitter takes the byte in the data register.
LEMMA ShiftTakes == ASSUME TxInv, TxInv', Shift PROVE Taken
<1>1. Readable /\ Readable'
  BY PendingSeq, PTL
<1>2. Pending' = Pending /\ Size' = Size /\ UNCHANGED accepted
  BY <1>1, SamePending DEF Shift
<1>3. PICK b \in Byte : udr = <<b>>
  BY DEF Shift, TxInv, TypeOK
<1>4. /\ Pending \in Seq(Byte) /\ sent \in Seq(Byte) /\ <<b>> \in Seq(Byte)
      /\ Bytes \in Seq(Byte)
  BY <1>3, BytesSeq DEF WellFormed
<1>5. Bytes' = Pending
  BY <1>2, <1>4, ConcatEmptySeq DEF Bytes, Shift
<1>6. /\ Bytes # <<>> /\ Head(Bytes) = b /\ Tail(Bytes) = Pending
  <2>1. /\ Len(Bytes) = 1 + Len(Pending) /\ Len(Pending) \in Nat
        /\ \A i \in 1..(1 + Len(Pending)) :
             Bytes[i] = IF i <= 1 THEN <<b>>[i] ELSE Pending[i - 1]
    <3>1. Len(<<b>>) = 1 /\ Len(Pending) \in Nat
      BY <1>4, LenProperties
    <3> QED BY <1>3, <1>4, <3>1, ConcatProperties DEF Bytes
  <2>2. Len(<<>>) = 0
    BY EmptySeq
  <2>3. Bytes # <<>>
    BY <2>1, <2>2
  <2>4. Head(Bytes) = b
    BY <1>4, <2>1, <2>3
  <2>5. /\ Tail(Bytes) \in Seq(Byte) /\ Len(Tail(Bytes)) = Len(Bytes) - 1
        /\ \A i \in 1..Len(Tail(Bytes)) : Tail(Bytes)[i] = Bytes[i + 1]
    BY <1>4, <2>3, HeadTailProperties
  <2>6. Len(Tail(Bytes)) = Len(Pending)
    BY <2>1, <2>5
  <2>7. ASSUME NEW i \in 1..Len(Pending) PROVE Tail(Bytes)[i] = Pending[i]
    <3>1. i + 1 \in 1..(1 + Len(Pending)) /\ ~(i + 1 <= 1) /\ (i + 1) - 1 = i
      BY <2>1
    <3>2. Bytes[i + 1] = Pending[i]
      BY <2>1, <3>1
    <3> QED BY <2>5, <2>6, <3>2
  <2>8. Tail(Bytes) = Pending
    BY <1>4, <2>5, <2>6, <2>7, SeqEqual
  <2> QED BY <2>3, <2>4, <2>8
<1>7. sent' = Append(sent, b)
  BY <1>3, <1>4, AppendIsConcat DEF Shift
<1> QED BY <1>2, <1>5, <1>6, <1>7 DEF Taken, Queue!Take, Bytes

\* The interrupt moves a byte from the ring to the register.
LEMMA UdreKeeps == ASSUME TxInv, TxInv', UDRE(Size) PROVE Kept
<1>1. Readable /\ Readable'
  BY PendingSeq, PTL
<1>2. /\ tx_Tail # tx_Head /\ tx_Tail' = (tx_Tail + 1) % Size /\ udr = <<>>
      /\ udr' = <<tx_buffer[tx_Tail']>> /\ UNCHANGED <<port, tx_Head, tx_buffer>>
      /\ UNCHANGED <<sent, accepted>>
  BY DEF UDRE, TxInv, NoEmptyInterrupt
<1>3. /\ Pending # <<>> /\ Pending' = Tail(Pending) /\ Size' = Size
      /\ Head(Pending) = tx_buffer[tx_Tail']
  BY <1>1, <1>2, UdrePending
<1>4. Pending \in Seq(Byte)
  BY BytesSeq DEF WellFormed
<1>5. Bytes = Pending
  BY <1>2, <1>4, ConcatEmptySeq DEF Bytes
<1>6. Bytes' = <<Head(Pending)>> \o Tail(Pending)
  BY <1>2, <1>3 DEF Bytes
<1>7. <<Head(Pending)>> \o Tail(Pending) = Pending
  BY <1>3, <1>4, HeadThenTail
<1> QED BY <1>2, <1>3, <1>5, <1>6, <1>7 DEF Kept

\* uart_putc and uart_putc_noblock accept a byte in the write to the data
\* register or in the store of tx_Head, and nowhere else.
LEMMA InsertKinds ==
  ASSUME TxInv, TxInv', NEW c \in Clients, NEW k, Insert(c, k, Size)
  PROVE  Kept \/ \E b \in Characters : Accepted(b)
<1> USE DEF Goto
<1>0. Readable /\ Readable'
  BY PendingSeq, PTL
<1>1. CASE Load(c, Size) \/ Wait(c) \/ Cli(c) \/ Enable(c) \/ Return(c)
  BY <1>1, NothingElse DEF Load, Wait, Cli, Enable, Return
<1>2. CASE Store(c)
  <2>1. /\ tx_buffer' = [tx_buffer EXCEPT ![head[c]] = Head(text[c])]
        /\ head[c] = (tx_Head + 1) % Size /\ tx_buffer \in [0..(Size - 1) -> Byte]
        /\ UNCHANGED <<port, tx_Head, tx_Tail, udr, sent, accepted>>
    BY <1>2 DEF Store, TxInv, SlotReserved, TypeOK
  <2>2. ASSUME NEW i \in 1..Stored
        PROVE  tx_buffer'[(tx_Tail + i) % Size] = tx_buffer[(tx_Tail + i) % Size]
    <3>1. /\ (tx_Tail + i) % Size # (tx_Head + 1) % Size
          /\ (tx_Tail + i) % Size \in 0..(Size - 1)
      BY <1>0, StorePending
    <3> QED BY <2>1, <3>1
  <2>3. Pending' = Pending /\ Size' = Size
    BY <1>0, <2>1, <2>2, SamePending
  <2> QED BY <2>1, <2>3 DEF Kept, Bytes
<1>3. CASE Publish(c)
  <2> DEFINE b == Head(text[c])
  <2>1. /\ tx_Head' = head[c] /\ head[c] = (tx_Head + 1) % Size /\ head[c] # tx_Tail
        /\ tx_buffer[head[c]] = b /\ accepted' = Append(accepted, b)
        /\ UNCHANGED <<port, tx_Tail, tx_buffer, udr, sent>>
    BY <1>3 DEF Publish, TxInv, SlotReserved
  <2>2. b \in Byte /\ b \in Characters
    <3>1. text[c] \in Seq(Characters) /\ text[c] # <<>>
      BY <1>3 DEF Publish, TxInv, OneWriter
    <3>2. b \in Characters
      BY <3>1, HeadTailProperties
    <3> QED BY <3>2, TextBytes
  <2> HIDE DEF b
  <2>3. Pending' = Append(Pending, b) /\ Stored < Size - 1 /\ Size' = Size
    BY <1>0, <2>1, <2>2, PublishPending
  <2>4. /\ udr \in Seq(Byte) /\ Pending \in Seq(Byte) /\ Bytes \in Seq(Byte)
        /\ Len(Bytes) = Len(udr) + Len(Pending) /\ Len(udr) \in {0, 1}
    BY BytesSeq DEF WellFormed
  <2>5. Len(Bytes) < Size
    <3>1. Len(Pending) = Stored /\ Stored \in Nat /\ Size \in Nat
      BY <1>0 DEF Readable, Indices
    <3> DEFINE n == Len(Bytes)
               m == Len(udr)
    <3>2. n = m + Stored /\ m \in {0, 1} /\ Stored < Size - 1
      BY <2>3, <2>4, <3>1
    <3> HIDE DEF n, m
    <3>3. n < Size
      BY <3>1, <3>2
    <3> QED BY <3>3 DEF n
  <2>6. Bytes' = Append(Bytes, b)
    <3>1. <<b>> \in Seq(Byte)
      BY <2>2
    <3>2. Append(Pending, b) = Pending \o <<b>> /\ Append(Bytes, b) = Bytes \o <<b>>
      BY <2>2, <2>4, AppendIsConcat
    <3>3. udr \o (Pending \o <<b>>) = (udr \o Pending) \o <<b>>
      BY <2>4, <3>1, ConcatAssociative
    <3>4. Bytes' = udr \o Append(Pending, b)
      BY <2>1, <2>3 DEF Bytes
    <3> QED BY <3>2, <3>3, <3>4 DEF Bytes
  <2>7. Accepted(b)
    BY <2>1, <2>3, <2>5, <2>6 DEF Accepted, Queue!Accept, Bytes
  <2> QED BY <2>2, <2>7
<1>4. CASE Direct(c)
  <2>1. CASE udr # <<>>
    BY <1>4, <2>1, NothingElse DEF Direct
  <2>2. CASE udr = <<>>
    <3> DEFINE b == Head(text[c])
    <3>1. /\ udr' = <<b>> /\ accepted' = Append(accepted, b)
          /\ UNCHANGED <<port, sent, ring>> /\ tx_Tail = tx_Head
      BY <1>4, <2>2 DEF Direct, TxInv, SlotReserved
    <3>2. b \in Byte /\ b \in Characters
      <4>1. text[c] \in Seq(Characters) /\ text[c] # <<>>
        BY <1>4 DEF Direct, TxInv, OneWriter
      <4>2. b \in Characters
        BY <4>1, HeadTailProperties
      <4> QED BY <4>2, TextBytes
    <3> HIDE DEF b
    <3>3. Pending' = Pending /\ Size' = Size
      BY <1>0, <3>1, SamePending
    <3>4. Pending = <<>>
      <4>1. Stored = 0 /\ Len(Pending) = Stored /\ Pending \in Seq(Byte)
        BY <1>0, <3>1, Moves DEF Readable, Indices, Stored
      <4> QED BY <4>1, EmptySeq
    <3>5. Bytes = <<>> /\ Bytes' = <<b>>
      <4>1. <<>> \in Seq(Byte) /\ <<b>> \in Seq(Byte)
        BY <3>2
      <4> QED BY <2>2, <3>1, <3>3, <3>4, <4>1, ConcatEmptySeq DEF Bytes
    <3>6. Bytes' = Append(Bytes, b) /\ Len(Bytes) < Size
      <4>1. Len(<<>>) = 0 /\ Append(<<>>, b) = <<b>>
        BY EmptySeq
      <4> QED BY <1>0, <3>5, <4>1 DEF Readable, Indices
    <3>7. Accepted(b)
      BY <3>1, <3>3, <3>6 DEF Accepted, Queue!Accept, Bytes
    <3> QED BY <3>2, <3>7
  <2> QED BY <2>1, <2>2
<1> QED BY <1>1, <1>2, <1>3, <1>4 DEF Insert

\* Every step of the driver is a step of the queue or leaves it alone.
LEMMA StepKinds ==
  ASSUME TxInv, TxInv', [Next]_vars
  PROVE  Kept \/ Taken \/ \E b \in Characters : Accepted(b)
<1>1. CASE UNCHANGED vars
  BY <1>1, NothingElse DEF vars
<1>2. CASE UDRE_ISR
  BY <1>2, Copies, UdreKeeps
<1>3. CASE Shift
  BY <1>3, ShiftTakes
<1>4. ASSUME NEW c \in Clients, Preempt(c) \/ UserStep(c) \/ flush(c) PROVE Kept
  BY <1>4, NothingElse DEF Preempt, UserStep, SetIrq, Write, CallFlush, reinit, flush
<1>5. ASSUME NEW c \in Clients, putc(c) \/ putc_noblock(c)
      PROVE  Kept \/ \E b \in Characters : Accepted(b)
  BY <1>5, Copies, InsertKinds
<1> QED BY <1>1, <1>2, <1>3, <1>4, <1>5 DEF Next, Inside

\* What is on the wire, in the register and in the ring is what was accepted.
LEMMA OrderKept ==
  ASSUME TxInv, TxInv', [Next]_vars, SentInOrder PROVE SentInOrder'
<1>0. udr \in Seq(Byte) /\ Pending \in Seq(Byte) /\ sent \in Seq(Byte)
  BY BytesSeq DEF WellFormed
<1>1. Bytes \in Seq(Byte) /\ sent \in Seq(Byte) /\ accepted \in Seq(Byte)
  BY BytesSeq DEF WellFormed
<1>2. (sent \o udr) \o Pending = sent \o (udr \o Pending)
  BY <1>0, ConcatAssociative
<1>3. accepted = sent \o Bytes
  BY <1>2 DEF SentInOrder, Bytes
<1>4. udr' \in Seq(Byte) /\ Pending' \in Seq(Byte) /\ sent' \in Seq(Byte)
  <2>1. WellFormed'
    BY BytesSeq, PTL
  <2> QED BY <2>1 DEF WellFormed
<1>5. SentInOrder' <=> accepted' = sent' \o Bytes'
  <2>1. (sent' \o udr') \o Pending' = sent' \o (udr' \o Pending')
    BY <1>4, ConcatAssociative
  <2> QED BY <2>1 DEF SentInOrder, Bytes
<1>6. CASE Kept
  BY <1>3, <1>5, <1>6 DEF Kept
<1>7. CASE Taken
  <2>1. /\ Bytes # <<>> /\ sent' = Append(sent, Head(Bytes)) /\ Bytes' = Tail(Bytes)
        /\ accepted' = accepted
    BY <1>7 DEF Taken, Queue!Take, Bytes
  <2>2. Head(Bytes) \in Byte /\ Tail(Bytes) \in Seq(Byte)
    BY <1>1, <2>1, HeadTailProperties
  <2>3. sent' = sent \o <<Head(Bytes)>> /\ <<Head(Bytes)>> \in Seq(Byte)
    BY <1>1, <2>1, <2>2, AppendIsConcat
  <2>4. (sent \o <<Head(Bytes)>>) \o Tail(Bytes) = sent \o (<<Head(Bytes)>> \o Tail(Bytes))
    <3>1. sent \in Seq(Byte) /\ <<Head(Bytes)>> \in Seq(Byte) /\ Tail(Bytes) \in Seq(Byte)
      BY <1>1, <2>2, <2>3
    <3> QED BY ONLY <3>1, ConcatAssociative
  <2>5. <<Head(Bytes)>> \o Tail(Bytes) = Bytes
    BY <1>1, <2>1, HeadThenTail
  <2> QED BY <1>3, <1>5, <2>1, <2>3, <2>4, <2>5
<1>8. ASSUME NEW b \in Characters, Accepted(b) PROVE SentInOrder'
  <2>1. Bytes' = Append(Bytes, b) /\ sent' = sent /\ accepted' = Append(accepted, b)
    BY <1>8 DEF Accepted, Queue!Accept, Bytes
  <2>2. b \in Byte /\ <<b>> \in Seq(Byte)
    BY TextBytes
  <2>3. Append(Bytes, b) = Bytes \o <<b>> /\ Append(accepted, b) = accepted \o <<b>>
    BY <1>1, <2>2, AppendIsConcat
  <2>4. (sent \o Bytes) \o <<b>> = sent \o (Bytes \o <<b>>)
    <3>1. sent \in Seq(Byte) /\ Bytes \in Seq(Byte) /\ <<b>> \in Seq(Byte)
      BY <1>1, <2>2
    <3> QED BY ONLY <3>1, ConcatAssociative
  <2> QED BY <1>3, <1>5, <2>1, <2>3, <2>4
<1> QED BY <1>6, <1>7, <1>8, StepKinds

\* In the beginning there are no bytes.
LEMMA InitBytes == Init => Bytes = <<>> /\ SentInOrder /\ Queue!Init
<1> SUFFICES ASSUME Init PROVE Bytes = <<>> /\ SentInOrder /\ Queue!Init
  OBVIOUS
<1>1. TxInv
  BY InitTxInv
<1>2. Readable /\ tx_Head = tx_Tail /\ udr = <<>> /\ sent = <<>> /\ accepted = <<>>
  BY <1>1, PendingSeq DEF Init
<1>3. Stored = 0
  BY <1>2, Moves DEF Readable, Indices, Stored
<1>4. Pending = <<>>
  BY <1>2, <1>3, EmptySeq DEF Readable
<1>5. <<>> \o <<>> = <<>>
  OBVIOUS
<1> QED BY <1>2, <1>4, <1>5 DEF Bytes, SentInOrder, Queue!Init, Readable, Indices

\* The bytes of all calls leave in the order of their insertion: none is lost,
\* repeated or overwritten, whatever the interleaving of writers and interrupt.
THEOREM BytesInOrder == ASSUME Serialised PROVE Spec => []SentInOrder
<1>1. Init => SentInOrder
  BY InitBytes
<1>2. TxInv /\ TxInv' /\ SentInOrder /\ [Next]_vars => SentInOrder'
  BY OrderKept
<1> QED BY <1>1, <1>2, TxInvariant, PTL DEF Spec

\* The driver is a queue of Size bytes: one step of it accepts a byte, one step
\* puts it on the wire, all the others leave the queue alone.
THEOREM QueueRefinement == ASSUME Serialised PROVE Spec => ImplementsQueue
<1>1. Init => Queue!Init
  BY InitBytes
<1>2. TxInv /\ TxInv' /\ [Next]_vars => [Queue!Next]_<<Size, Bytes, sent>>
  <2> SUFFICES ASSUME TxInv, TxInv', [Next]_vars
               PROVE  [Queue!Next]_<<Size, Bytes, sent>>
    OBVIOUS
  <2> QED BY StepKinds DEF Kept, Taken, Accepted, Queue!Next
<1>3. TxInv /\ TxInv' /\ [Next]_vars => [Queue!Next]_<<Size, udr \o Pending, sent>>
  BY <1>2 DEF Bytes
<1> QED BY <1>1, <1>3, TxInvariant, PTL DEF Spec, ImplementsQueue, Queue!Spec
=============================================================================
