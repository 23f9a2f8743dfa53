------------------------------ MODULE UsartTx ------------------------------
(***************************************************************************)
(* The transmit half of lib/AVR-UART-LIB, the driver behind stdout: a ring *)
(* buffer filled by uart_putc in the tasks and emptied by the "data        *)
(* register empty" (UDRE) interrupt.  usart.c holds one copy of the code   *)
(* for each USART of the larger AVRs; a behaviour follows the copy of one  *)
(* port, chosen in Init (copies share no state).  The firmware's ATmega328 *)
(* has port 0 only.  The steps are the accesses to shared state of the     *)
(* assembly the build compiles; the C text beside it (for                  *)
(* USART_NO_ABI_BREAKING_PREMATURES) makes the same accesses.  The options *)
(* for RS485, MPCM and CTS are off in usart_config.h and left out.         *)
(***************************************************************************)
EXTENDS Integers, Sequences, FiniteSets, SequencesExt, UsartText

CONSTANTS
  Ports,        \* the copies that are compiled
  TxSize,       \* TxSize[n]: TXn_BUFFER_SIZE, a power of two up to 256
  Clients,      \* the tasks that write to stdout
  Texts,        \* the byte strings they write
  MaxBytes,     \* bound: bytes accepted in a behaviour
  FastPorts,    \* the ports with USARTn_PUTC_FAST_INSERTIONS (none in the firmware)
  Serialised,   \* writers take turns, as the library demands of its users
  MaskedCalls,  \* the blocking calls may be made with interrupts disabled
  Undrained     \* uart_reinit may be called while the ring holds bytes

VARIABLES
  port,       \* the USART whose copy of the driver is followed
  cpu,        \* the running task
  irq,        \* the I bit of SREG
  udrie,      \* UDRIEn: the UDRE interrupt is enabled
  udr,        \* the transmit data register: <<>> (UDREn set) or <<byte>>
  tx_Head, tx_Tail, tx_buffer,
  at,         \* at[c]: what c executes next
  kind,       \* kind[c]: the function c uses to insert
  text,       \* text[c]: the bytes its call has still to insert
  head,       \* head[c]: tmp_tx_Head
  sreg,       \* sreg[c]: the I bit to restore
  enabled,    \* enabled[c]: the I bit c itself last asked for
  accepted,   \* history: the bytes inserted, in order
  sent        \* history: the bytes on the wire, in order

hardware == <<udrie, udr, sent>>
ring == <<tx_Head, tx_Tail, tx_buffer>>
call == <<kind, text, head, sreg>>
vars == <<port, cpu, irq, hardware, ring, at, call, accepted, enabled>>

Byte == 0..255
Size == TxSize[port]

(***************************************************************************)
(* With fast insertion uart3_putc is compiled with TX2_BUFFER_MASK         *)
(* (usart.c:2147): that copy works only where both buffers have one size.  *)
(***************************************************************************)
ASSUME PortsAssumption == Ports \subseteq 0..3 /\ Ports # {}
ASSUME SizeAssumption ==
  /\ TxSize \in [0..3 -> {2, 4, 8, 16, 32, 64, 128, 256}]
  /\ FastPorts \subseteq 0..3
  /\ 3 \in FastPorts => TxSize[2] = TxSize[3]
ASSUME ClientsAssumption == IsFiniteSet(Clients) /\ Clients # {}
ASSUME TextsAssumption == Texts \subseteq Seq(Byte) \ {<<>>}
ASSUME FlagsAssumption ==
  /\ Serialised \in BOOLEAN /\ MaskedCalls \in BOOLEAN /\ Undrained \in BOOLEAN
  /\ MaxBytes \in Nat

\* The statements of uart_putc and uart_putc_noblock, and of uart_flush.
InsertPoints == {"load", "direct", "wait", "store", "cli", "publish",
                 "enable", "return"}
Masked == {"publish", "enable", "return"}

TypeOK ==
  /\ port \in Ports
  /\ cpu \in Clients
  /\ irq \in BOOLEAN /\ udrie \in BOOLEAN
  /\ udr \in {<<>>} \cup {<<b>> : b \in Byte}
  /\ tx_Head \in 0..(Size - 1) /\ tx_Tail \in 0..(Size - 1)
  /\ tx_buffer \in [0..(Size - 1) -> Byte]
  /\ at \in [Clients -> {"user", "flush"} \cup InsertPoints]
  /\ kind \in [Clients -> {"putc", "putc_noblock"}]
  /\ text \in [Clients -> Seq(Byte)]
  /\ head \in [Clients -> 0..(Size - 1)]
  /\ sreg \in [Clients -> BOOLEAN]
  /\ enabled \in [Clients -> BOOLEAN]
  /\ accepted \in Seq(Byte) /\ sent \in Seq(Byte)

\* uart_init has run, with UDRIE clear; a task is about to write.
Init ==
  /\ port \in Ports
  /\ cpu \in Clients
  /\ irq = TRUE /\ udrie = FALSE /\ udr = <<>>
  /\ tx_Head = 0 /\ tx_Tail = 0
  /\ tx_buffer = [i \in 0..(Size - 1) |-> 0]
  /\ at = [c \in Clients |-> "user"]
  /\ kind = [c \in Clients |-> "putc"]
  /\ text = [c \in Clients |-> <<>>]
  /\ head = [c \in Clients |-> 0]
  /\ sreg = [c \in Clients |-> TRUE]
  /\ enabled = [c \in Clients |-> TRUE]
  /\ accepted = <<>> /\ sent = <<>>

(***************************************************************************)
(* The hardware and the kernel.                                            *)
(***************************************************************************)
\* The byte leaves the data register for the wire.
Shift ==
  /\ udr # <<>>
  /\ sent' = sent \o udr
  /\ udr' = <<>>
  /\ UNCHANGED <<port, cpu, irq, udrie, ring, at, call, accepted, enabled>>

\* The scheduler's interrupt; the task resumed goes on with the I bit set.
Preempt(c) ==
  /\ irq /\ cpu # c
  /\ cpu' = c
  /\ UNCHANGED <<port, irq, hardware, ring, at, call, accepted, enabled>>

(***************************************************************************)
(* uart_putc and uart_putc_noblock: the insertion of one byte.             *)
(***************************************************************************)
Goto(c, from, to) ==
  cpu = c /\ at[c] = from /\ at' = [at EXCEPT ![c] = to]

\* The byte is done: a string function goes on with the next one.  The locals
\* are dead.
NextByte(c) ==
  LET more == Len(text[c]) > 1
  IN /\ cpu = c
     /\ text' = [text EXCEPT ![c] = Tail(@)]
     /\ at' = [at EXCEPT ![c] = IF more THEN "load" ELSE "user"]
     /\ kind' = [kind EXCEPT ![c] = IF more THEN @ ELSE "putc"]
     /\ head' = [head EXCEPT ![c] = 0]
     /\ sreg' = [sreg EXCEPT ![c] = TRUE]

\* lds head, tx_Head; inc; andi mask.  The fast path of uart_putc is tried on
\* an empty ring; uart_putc_noblock tests UCSRA against the number of the
\* UDRE bit instead of the bit and never takes it.
Load(c, size) ==
  /\ Goto(c, "load", IF /\ kind[c] = "putc" /\ port \in FastPorts
                        /\ tx_Tail = tx_Head
                     THEN "direct" ELSE "wait")
  /\ head' = [head EXCEPT ![c] = (tx_Head + 1) % size]
  /\ UNCHANGED <<port, cpu, irq, hardware, ring, kind, text, sreg, accepted, enabled>>

\* sbrs UCSRA, UDRE; sts UDR; ret.
Direct(c) ==
  \/ /\ udr # <<>>
     /\ Goto(c, "direct", "wait")
     /\ UNCHANGED <<port, cpu, irq, hardware, ring, call, accepted, enabled>>
  \/ /\ udr = <<>>
     /\ at[c] = "direct"
     /\ NextByte(c)
     /\ udr' = <<Head(text[c])>>
     /\ accepted' = Append(accepted, Head(text[c]))
     /\ UNCHANGED <<port, cpu, irq, udrie, sent, ring, enabled>>

\* Mutant: a full ring is not waited for.
WaitForgotten(c) ==
  /\ Goto(c, "wait", "store")
  /\ UNCHANGED <<port, cpu, irq, hardware, ring, call, accepted, enabled>>

\* waitforspace: lds r27, tx_Tail; cp; breq.  putc_noblock: return BUFFER_FULL.
Wait(c) ==
  \/ /\ tx_Tail # head[c]
     /\ Goto(c, "wait", "store")
     /\ UNCHANGED <<port, cpu, irq, hardware, ring, call, accepted, enabled>>
  \/ /\ tx_Tail = head[c] /\ kind[c] = "putc_noblock"
     /\ at[c] = "wait"
     /\ NextByte(c)
     /\ UNCHANGED <<port, cpu, irq, hardware, ring, accepted, enabled>>

\* tx_buffer[tmp_tx_Head] = data.
Store(c) ==
  /\ Goto(c, "store", "cli")
  /\ tx_buffer' = [tx_buffer EXCEPT ![head[c]] = Head(text[c])]
  /\ UNCHANGED <<port, cpu, irq, hardware, tx_Head, tx_Tail, call, accepted, enabled>>

\* Mutant: the cli() is missing.
CliForgotten(c) ==
  /\ Goto(c, "cli", "publish")
  /\ UNCHANGED <<port, cpu, irq, hardware, ring, call, accepted, enabled>>

Cli(c) ==
  /\ Goto(c, "cli", "publish")
  /\ sreg' = [sreg EXCEPT ![c] = irq]
  /\ irq' = FALSE
  /\ UNCHANGED <<port, cpu, hardware, ring, kind, text, head, accepted, enabled>>

\* tx_Head = tmp_tx_Head: the interrupt may take the byte from here on.
Publish(c) ==
  /\ Goto(c, "publish", "enable")
  /\ tx_Head' = head[c]
  /\ accepted' = Append(accepted, Head(text[c]))
  /\ UNCHANGED <<port, cpu, irq, hardware, tx_Tail, tx_buffer, call, enabled>>

\* Mutant: the interrupt is not enabled.
EnableForgotten(c) ==
  /\ Goto(c, "enable", "return")
  /\ UNCHANGED <<port, cpu, irq, hardware, ring, call, accepted, enabled>>

\* UCSRB |= 1 << UDRIE.
Enable(c) ==
  /\ Goto(c, "enable", "return")
  /\ udrie' = TRUE
  /\ UNCHANGED <<port, cpu, irq, udr, sent, ring, call, accepted, enabled>>

\* Mutant: uart_putc_noblock ends in reti, too.
ReturnEnabled(c) ==
  /\ at[c] = "return"
  /\ NextByte(c)
  /\ irq' = TRUE
  /\ enabled' = [enabled EXCEPT ![c] = kind[c] = "putc" \/ @]
  /\ UNCHANGED <<port, cpu, hardware, ring, accepted>>

\* uart_putc ends in reti, which sets the I bit whatever it was; the end of
\* the ATOMIC_BLOCK of uart_putc_noblock restores it.
Return(c) ==
  /\ at[c] = "return"
  /\ NextByte(c)
  /\ irq' = (kind[c] = "putc" \/ sreg[c])
  /\ enabled' = [enabled EXCEPT ![c] = kind[c] = "putc" \/ @]
  /\ UNCHANGED <<port, cpu, hardware, ring, accepted>>

\* size is the ring size whose mask the copy is compiled with.
Insert(c, k, size) ==
  /\ kind[c] = k
  /\ \/ Load(c, size) \/ Direct(c) \/ Wait(c) \/ Store(c)
     \/ Cli(c) \/ Publish(c) \/ Enable(c) \/ Return(c)

uart0_putc(c) == port = 0 /\ Insert(c, "putc", TxSize[0])
uart1_putc(c) == port = 1 /\ Insert(c, "putc", TxSize[1])
uart2_putc(c) == port = 2 /\ Insert(c, "putc", TxSize[2])
uart3_putc(c) ==
  port = 3 /\ Insert(c, "putc", IF 3 \in FastPorts THEN TxSize[2] ELSE TxSize[3])

uart0_putc_noblock(c) == port = 0 /\ Insert(c, "putc_noblock", TxSize[0])
uart1_putc_noblock(c) == port = 1 /\ Insert(c, "putc_noblock", TxSize[1])
uart2_putc_noblock(c) == port = 2 /\ Insert(c, "putc_noblock", TxSize[2])
uart3_putc_noblock(c) == port = 3 /\ Insert(c, "putc_noblock", TxSize[3])

(***************************************************************************)
(* ISR(UDREn): runs while UDRIE and UDRE are set, with the I bit clear     *)
(* from entry to reti.  It takes it for granted that the ring holds a      *)
(* byte, and disables itself when it takes the last one.                   *)
(***************************************************************************)
\* Mutant: the interrupt stays enabled when the last byte is taken.
UDRE_NeverDisabled(size) ==
  LET tail == (tx_Tail + 1) % size
  IN /\ irq /\ udrie /\ udr = <<>>
     /\ tx_Tail' = tail
     /\ udr' = <<tx_buffer[tail]>>
     /\ UNCHANGED <<port, cpu, irq, udrie, sent, tx_Head, tx_buffer, at, call,
                    accepted, enabled>>

UDRE(size) ==
  LET tail == (tx_Tail + 1) % size
  IN /\ irq /\ udrie /\ udr = <<>>
     /\ udrie' = (tail # tx_Head)
     /\ tx_Tail' = tail
     /\ udr' = <<tx_buffer[tail]>>
     /\ UNCHANGED <<port, cpu, irq, sent, tx_Head, tx_buffer, at, call,
                    accepted, enabled>>

UDRE0_ISR == port = 0 /\ UDRE(TxSize[0])
UDRE1_ISR == port = 1 /\ UDRE(TxSize[1])
UDRE2_ISR == port = 2 /\ UDRE(TxSize[2])
UDRE3_ISR == port = 3 /\ UDRE(TxSize[3])

(***************************************************************************)
(* What the tasks call.                                                    *)
(***************************************************************************)
\* cli() or sei() in the task's own code.
SetIrq(c, b) ==
  /\ cpu = c /\ at[c] = "user" /\ irq # b
  /\ irq' = b
  /\ enabled' = [enabled EXCEPT ![c] = b]
  /\ UNCHANGED <<port, cpu, hardware, ring, at, call, accepted>>

MyTurn(c) == Serialised => \A d \in Clients \ {c} : at[d] \in {"user", "flush"}

\* A string, number or stdio function, or uart_putc itself.
Write(c, k, t) ==
  /\ MyTurn(c)
  /\ k = "putc" => irq \/ MaskedCalls
  /\ k = "putc_noblock" => Len(t) = 1
  /\ Len(accepted) + Len(t) <= MaxBytes
  /\ Goto(c, "user", "load")
  /\ kind' = [kind EXCEPT ![c] = k]
  /\ text' = [text EXCEPT ![c] = t]
  /\ UNCHANGED <<port, cpu, irq, hardware, ring, head, sreg, accepted, enabled>>

\* uart_flush: while(tx_Tail != tx_Head).
CallFlush(c) ==
  /\ irq \/ MaskedCalls
  /\ Goto(c, "user", "flush")
  /\ UNCHANGED <<port, cpu, irq, hardware, ring, call, accepted, enabled>>

flush(c) ==
  /\ tx_Tail = tx_Head
  /\ Goto(c, "flush", "user")
  /\ UNCHANGED <<port, cpu, irq, hardware, ring, call, accepted, enabled>>

\* uart_reinit: UCSRB = 0, then UCSRB = USARTn_CONFIG_B without UDRIE.  A byte
\* in the data register is still sent.
reinit(c) ==
  /\ cpu = c /\ at[c] = "user" /\ MyTurn(c)
  /\ Undrained \/ tx_Tail = tx_Head
  /\ udrie' = FALSE
  /\ UNCHANGED <<port, cpu, irq, udr, sent, ring, at, call, accepted, enabled>>

UDRE_ISR == UDRE0_ISR \/ UDRE1_ISR \/ UDRE2_ISR \/ UDRE3_ISR

putc(c) == uart0_putc(c) \/ uart1_putc(c) \/ uart2_putc(c) \/ uart3_putc(c)

putc_noblock(c) ==
  \/ uart0_putc_noblock(c) \/ uart1_putc_noblock(c)
  \/ uart2_putc_noblock(c) \/ uart3_putc_noblock(c)

Inside(c) == putc(c) \/ putc_noblock(c) \/ flush(c)

UserStep(c) ==
  \/ \E b \in BOOLEAN : SetIrq(c, b)
  \/ \E k \in {"putc", "putc_noblock"}, t \in Texts : Write(c, k, t)
  \/ CallFlush(c) \/ reinit(c)

Next == \/ Shift \/ UDRE_ISR
        \/ \E c \in Clients : Preempt(c) \/ UserStep(c) \/ Inside(c)

Spec == Init /\ [][Next]_vars

(***************************************************************************)
(* Fairness.  The transmitter shifts; the interrupt flag is level          *)
(* triggered, so the interrupt is taken once the I bit is set again; the   *)
(* scheduler is round-robin; a task that is given the processor again and  *)
(* again executes its next statement; one that disabled interrupts enables *)
(* them some day.                                                          *)
(***************************************************************************)
Fairness ==
  /\ WF_vars(Shift) /\ SF_vars(UDRE_ISR)
  /\ \A c \in Clients : SF_vars(Preempt(c)) /\ SF_vars(Inside(c))
  /\ SF_vars(\E c \in Clients : SetIrq(c, TRUE))

FairSpec == Spec /\ Fairness

(***************************************************************************)
(* Properties.                                                             *)
(***************************************************************************)
\* The bytes of the ring, oldest first: the slots behind tx_Tail up to tx_Head.
Pending ==
  [i \in 1..((tx_Head - tx_Tail) % Size) |-> tx_buffer[(tx_Tail + i) % Size]]

\* uart_putc / UDRE interrupt: the bytes of all calls leave in the order in
\* which they were inserted; none is lost, repeated or overwritten while the
\* interrupt and the tasks work on the ring.
SentInOrder == accepted = sent \o udr \o Pending

\* UDRE interrupt: it is never enabled for an empty ring, where it would send
\* the whole buffer once more (the comment at usart.c:4654 sees the race).
NoEmptyInterrupt == udrie => tx_Tail # tx_Head

\* The bytes that may be written.
Characters == UNION {Range(t) : t \in Texts}

\* The ring and the data register: a queue with room for Size bytes, of which
\* size - 1 are in the ring.
Queue == INSTANCE BoundedQueue WITH
  Items <- Characters, capacity <- Size, queue <- udr \o Pending, taken <- sent

\* uart_putc / UDRE interrupt: statement by statement they implement that
\* queue, whatever the interleaving.
ImplementsQueue == Queue!Spec

\* uart_putc_noblock leaves the I bit as it found it; after uart_putc it is
\* set, as the library says, so that the next task finds it as it expects.
InterruptFlagKept == at[cpu] = "user" => irq = enabled[cpu]

\* uart_putc and uart_flush, called with interrupts enabled, return: the
\* interrupt that makes room is never left disabled behind a waiting task.
CallsReturn == \A c \in Clients : at[c] # "user" ~> at[c] = "user"

\* Every byte inserted gets to the wire, also when nobody calls again.
EveryByteSent ==
  \A n \in 1..MaxBytes : Len(accepted) >= n ~> Len(sent) >= n

(***************************************************************************)
(* The inductive invariants behind these properties.                       *)
(***************************************************************************)
\* Writers take turns, and what they write are the bytes of the texts.
OneWriter ==
  /\ \A c, d \in Clients : at[c] \in InsertPoints /\ at[d] \in InsertPoints => c = d
  /\ \A c \in Clients : at[c] \in InsertPoints => text[c] # <<>>
  /\ \A c \in Clients : text[c] \in Seq(Characters)

\* Between cli and the end of the call neither interrupts nor tasks run.
MaskedAlone == \A c \in Clients : at[c] \in Masked => cpu = c /\ ~irq

\* tmp_tx_Head is the slot after the newest byte, free from the test on and
\* filled from the store on; the interrupt cannot empty what was published.
SlotReserved ==
  \A c \in Clients :
    /\ at[c] \in {"direct", "wait", "store", "cli", "publish"}
         => head[c] = (tx_Head + 1) % Size
    /\ at[c] \in {"store", "cli", "publish"} => head[c] # tx_Tail
    /\ at[c] \in {"cli", "publish"} => tx_buffer[head[c]] = Head(text[c])
    /\ at[c] = "direct" => tx_Tail = tx_Head
    /\ at[c] = "enable" => tx_Tail # tx_Head

\* uart_putc / UDRE interrupt: the indices stay inside the ring, a writer's slot
\* stays its own, and the interrupt, which does not look, is enabled only while
\* there is a byte.
TxInv ==
  /\ TypeOK /\ OneWriter /\ MaskedAlone /\ SlotReserved
  /\ NoEmptyInterrupt

\* The I bit and what is kept of it: the running task has the one it asked for,
\* or keeps it in sreg while it is clear, and a task is switched out only with
\* interrupts enabled.
FlagInv ==
  /\ MaskedAlone
  /\ IF at[cpu] \in Masked THEN sreg[cpu] = enabled[cpu] ELSE irq = enabled[cpu]
  /\ \A c \in Clients \ {cpu} : enabled[c]
=============================================================================
