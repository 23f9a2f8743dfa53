------------------------------ MODULE UsartRx ------------------------------
(***************************************************************************)
(* The receive half of lib/AVR-UART-LIB, the driver behind stdin: the      *)
(* "receive complete" (RX) interrupt fills a ring, one task empties it     *)
(* with uart_getc, uart_getData or uart_LoadData, and the line and number  *)
(* readers call uart_getc in a loop.  As in UsartTx a behaviour follows    *)
(* the copy of the code for one port, and the steps are the accesses to    *)
(* shared state of the code the build compiles.  RX_NEWLINE_MODE is 2: a   *)
(* line ends in CR LF.  uart_getchar, behind scanf, echoes what it reads   *)
(* (RX_STDIO_GETCHAR_ECHO) and may have to wait for room in the transmit   *)
(* ring, of which only that is kept here: UsartTx has the rest.  The       *)
(* options EXTEND_RX_BUFFER, RTS, MPCM and RX0_GETC_ECHO are off in        *)
(* usart_config.h and left out.                                            *)
(***************************************************************************)
EXTENDS Integers, Sequences, SequencesExt, UsartText

CONSTANTS
  Ports,      \* the copies that are compiled
  RxSize,     \* RxSize[n]: RXn_BUFFER_SIZE, a power of two up to 256
  Data,       \* the bytes the other end sends in mode "data"
  Lines,      \* the lines it sends in mode "lines" and "text", without their CR LF
  Words,      \* the words it sends in mode "words", without the space between
  Numbers,    \* the numbers it sends in mode "numbers"
  Limits,     \* the array sizes passed to the line readers
  MaxLost     \* bound: bytes lost in a behaviour

Modes == {"data", "text", "lines", "words", "numbers"}
Byte == 0..255
Visible == {c \in Byte : c > Space}

ASSUME PortsAssumption == Ports \subseteq 0..3 /\ Ports # {}
ASSUME SizeAssumption == RxSize \in [0..3 -> {2, 4, 8, 16, 32, 64, 128, 256}]
ASSUME InputAssumption ==
  /\ Data \in Seq(Byte) /\ Lines \in Seq(Seq(Byte \ {NUL, CR, LF}))
  /\ Words \in Seq(Seq(Visible) \ {<<>>}) /\ Numbers \in Seq(Int16)

\* uart_getlnToFirstWhiteSpace counts an array of size 1 down to -1.
ASSUME LimitsAssumption == Limits \subseteq 2..255
ASSUME MaxLostAssumption == MaxLost \in Nat

VARIABLES
  port,       \* the USART whose copy of the driver is followed
  mode,       \* what the other end sends and the task reads
  wire,       \* the bytes still to come
  udr,        \* the receiver's two-byte FIFO behind UDRn
  rx_Head, rx_Tail, rx_buffer,
  tx_full,    \* the transmit ring has no room (mode "data": nothing else echoes)
  at,         \* the statement of the getter the task executes next
  op,         \* the function the task has called
  phase,      \* the loop of that function it is in
  tail, tmp,  \* locals of the getters
  limit,      \* bufferlimit, 8 bits
  size,       \* the size of the array passed
  buffer,     \* the bytes stored into that array so far
  results,    \* history: what the task has got
  taken,      \* history: the bytes taken out of it, in order
  lost,       \* history: how many bytes were dropped, by the interrupt or before it
  roomy       \* history: every array passed so far had room for its line

ring == <<rx_Head, rx_Tail, rx_buffer>>
locals == <<op, phase, tail, tmp, limit, size, buffer>>
history == <<results, taken, lost, roomy>>
vars == <<port, mode, wire, udr, ring, tx_full, at, locals, history>>

Size == RxSize[port]

\* The strings the other end sends, and what it sends behind each of them.
Strings(m) ==
  IF m \in {"text", "lines"} THEN Lines
  ELSE IF m = "words" THEN Words
  ELSE [i \in 1..Len(Numbers) |-> putint(Numbers[i])]

End(m) == IF m = "words" THEN <<Space>> ELSE <<CR, LF>>

\* Trailing(m)[j]: the last j strings, each with its end.
Trailing(m) ==
  LET n == Len(Strings(m))
      trailing[j \in 0..n] ==
        IF j = 0 THEN <<>> ELSE Strings(m)[n - (j - 1)] \o (End(m) \o trailing[j - 1])
  IN trailing

\* What the other end sends, and what the task should get in the end.
Sent(m) == IF m = "data" THEN Data ELSE Trailing(m)[Len(Strings(m))]

Expected(m) ==
  CASE m \in {"data", "text"} -> Sent(m)
    [] m = "lines" -> Lines
    [] m = "words" -> Words
    [] m = "numbers" -> Numbers

TypeOK ==
  /\ port \in Ports /\ mode \in Modes
  /\ wire \in Seq(Byte) /\ udr \in Seq(Byte) /\ Len(udr) <= 2
  /\ rx_Head \in 0..(Size - 1) /\ rx_Tail \in 0..(Size - 1)
  /\ rx_buffer \in [0..(Size - 1) -> Byte]
  /\ tx_full \in BOOLEAN
  /\ at \in {"user", "test", "read", "take", "result"}
  /\ tail \in 0..(Size - 1) /\ tmp \in -1..255 /\ limit \in Byte
  /\ size \in Byte /\ buffer \in Seq(-1..255) /\ taken \in Seq(Byte)
  /\ lost \in 0..MaxLost /\ roomy \in BOOLEAN

Init ==
  /\ port \in Ports /\ mode \in Modes
  /\ wire = Sent(mode) /\ udr = <<>>
  /\ rx_Head = 0 /\ rx_Tail = 0
  /\ rx_buffer = [i \in 0..(Size - 1) |-> 0] /\ tx_full = FALSE
  /\ at = "user" /\ op = "getc" /\ phase = "body"
  /\ tail = 0 /\ tmp = 0 /\ limit = 0 /\ size = 0 /\ buffer = <<>>
  /\ results = <<>> /\ taken = <<>>
  /\ lost = 0 /\ roomy = TRUE

(***************************************************************************)
(* The receiver and ISR(RXn).                                              *)
(***************************************************************************)
\* A byte arrives; with two bytes unread in front of it it is lost.
Arrive ==
  /\ wire # <<>>
  /\ wire' = Tail(wire)
  /\ \/ Len(udr) < 2 /\ udr' = Append(udr, Head(wire)) /\ UNCHANGED lost
     \/ Len(udr) = 2 /\ lost < MaxLost /\ lost' = lost + 1 /\ UNCHANGED udr
  /\ UNCHANGED <<port, mode, ring, tx_full, at, locals, results, taken, roomy>>

\* Mutant: a full ring is not noticed.
RXOverwrites(n) ==
  LET head == (rx_Head + 1) % n
  IN /\ udr # <<>>
     /\ udr' = Tail(udr)
     /\ rx_Head' = head
     /\ rx_buffer' = [rx_buffer EXCEPT ![head] = Head(udr)]
     /\ UNCHANGED <<port, mode, wire, rx_Tail, tx_full, at, locals, results, taken,
                    lost, roomy>>

\* The byte is dropped when the ring is full.
RX(n) ==
  LET head == (rx_Head + 1) % n
  IN /\ udr # <<>>
     /\ udr' = Tail(udr)
     /\ \/ /\ rx_Tail # head
           /\ rx_Head' = head
           /\ rx_buffer' = [rx_buffer EXCEPT ![head] = Head(udr)]
           /\ UNCHANGED lost
        \/ /\ rx_Tail = head /\ lost < MaxLost
           /\ lost' = lost + 1
           /\ UNCHANGED <<rx_Head, rx_buffer>>
     /\ UNCHANGED <<port, mode, wire, rx_Tail, tx_full, at, locals, results, taken, roomy>>

RX0_ISR == port = 0 /\ RX(RxSize[0])
RX1_ISR == port = 1 /\ RX(RxSize[1])
RX2_ISR == port = 2 /\ RX(RxSize[2])
RX3_ISR == port = 3 /\ RX(RxSize[3])
RX_ISR == RX0_ISR \/ RX1_ISR \/ RX2_ISR \/ RX3_ISR

(***************************************************************************)
(* uart_getc, uart_getData and uart_LoadData: the same three accesses; on  *)
(* an empty ring they return 0, -1 and BUFFER_EMPTY (here -1).             *)
(***************************************************************************)
Getter == CASE op \in {"getData", "getchar"} -> "getData"
            [] op = "LoadData" -> "LoadData"
            [] OTHER -> "getc"

shared == <<port, mode, wire, udr, rx_Head, rx_buffer>>
caller == <<op, phase, limit, size, buffer, results, lost, roomy, tx_full>>

\* tmp_rx_Tail = rx_Tail; if(tmp_rx_Tail == rx_Head) return.
Test ==
  /\ at = "test"
  /\ tail' = rx_Tail
  /\ \/ rx_Tail = rx_Head /\ at' = "result" /\ tmp' = (IF Getter = "getc" THEN 0 ELSE -1)
     \/ rx_Tail # rx_Head /\ at' = "read" /\ UNCHANGED tmp
  /\ UNCHANGED <<shared, rx_Tail, caller, taken>>

\* Mutant: the slot read is the one before.
ReadBefore(n) ==
  /\ at = "read" /\ at' = "take"
  /\ tail' = (tail + 1) % n
  /\ tmp' = rx_buffer[tail]
  /\ UNCHANGED <<shared, rx_Tail, caller, taken>>

\* tmp = rx_buffer[(tmp_rx_Tail + 1) & mask].
Read(n) ==
  /\ at = "read" /\ at' = "take"
  /\ tail' = (tail + 1) % n
  /\ tmp' = rx_buffer[tail']
  /\ UNCHANGED <<shared, rx_Tail, caller, taken>>

\* rx_Tail = tmp_rx_Tail: the slot is given back to the interrupt.
Take ==
  /\ at = "take" /\ at' = "result"
  /\ rx_Tail' = tail
  /\ taken' = Append(taken, tmp)
  /\ UNCHANGED <<shared, tail, tmp, caller>>

Get(g, n) == Getter = g /\ (Test \/ Read(n) \/ Take)

uart0_getc == port = 0 /\ Get("getc", RxSize[0])
uart1_getc == port = 1 /\ Get("getc", RxSize[1])
uart2_getc == port = 2 /\ Get("getc", RxSize[2])
uart3_getc == port = 3 /\ Get("getc", RxSize[3])

uart0_getData == port = 0 /\ Get("getData", RxSize[0])
uart1_getData == port = 1 /\ Get("getData", RxSize[1])
uart2_getData == port = 2 /\ Get("getData", RxSize[2])
uart3_getData == port = 3 /\ Get("getData", RxSize[3])

uart0_LoadData == port = 0 /\ Get("LoadData", RxSize[0])
uart1_LoadData == port = 1 /\ Get("LoadData", RxSize[1])
uart2_LoadData == port = 2 /\ Get("LoadData", RxSize[2])
uart3_LoadData == port = 3 /\ Get("LoadData", RxSize[3])

GetByte ==
  \/ uart0_getc \/ uart1_getc \/ uart2_getc \/ uart3_getc
  \/ uart0_getData \/ uart1_getData \/ uart2_getData \/ uart3_getData
  \/ uart0_LoadData \/ uart1_LoadData \/ uart2_LoadData \/ uart3_LoadData

(***************************************************************************)
(* The functions that call a getter, at the point where it has returned    *)
(* tmp.  buffer is what has been stored into the array of size bytes.      *)
(***************************************************************************)
Driver == <<shared, rx_Tail, taken, lost>>

\* The getter is left: its locals are dead.
GetterDone == tail' = 0 /\ tmp' = 0

\* The byte asked for is handed to the caller; got is what it sees of it.
Deliver(got) ==
  /\ at' = "user"
  /\ results' = results \o got
  /\ GetterDone
  /\ UNCHANGED <<Driver, op, phase, limit, size, buffer, roomy>>

\* The getter is called once more, for phase p.
Again(p) ==
  /\ at' = "test" /\ phase' = p
  /\ GetterDone
  /\ UNCHANGED <<Driver, op, limit, size, buffer, results, roomy, tx_full>>

\* store_NULL: the string in front of it is what the caller gets.
Terminate(b, got) ==
  /\ at' = "user"
  /\ buffer' = Append(b, NUL)
  /\ results' = results \o got
  /\ GetterDone
  /\ UNCHANGED <<Driver, op, phase, limit, size, roomy, tx_full>>

\* Mutant: the limit is tested before it is decremented.
LoopTooLong(b, n, got) ==
  \/ n = 0 /\ Terminate(b, got)
  \/ /\ n # 0
     /\ at' = "test" /\ phase' = "body"
     /\ buffer' = b /\ limit' = (n - 1) % 256
     /\ GetterDone
     /\ UNCHANGED <<Driver, op, size, results, roomy, tx_full>>

\* loop: dec limit; breq store_NULL; rcall uart_getc.
Loop(b, n, got) ==
  \/ n = 1 /\ Terminate(b, got)
  \/ /\ n # 1
     /\ at' = "test" /\ phase' = "body"
     /\ buffer' = b /\ limit' = (n - 1) % 256
     /\ GetterDone
     /\ UNCHANGED <<Driver, op, size, results, roomy, tx_full>>

\* uart_gets: stops at the first NUL, which is also what an empty ring gives.
gets ==
  /\ at = "result" /\ op = "gets"
  /\ LET b == Append(buffer, tmp)
     IN \/ tmp = NUL /\ Terminate(b, CString(b))
        \/ tmp # NUL /\ Loop(b, limit, CString(b))

\* Mutants: the LF is left in the ring; the line has to end in CR CR.
getlnLeavesLF ==
  /\ at = "result" /\ op = "getln"
  /\ \/ tmp = NUL /\ Again(phase)
     \/ tmp = CR /\ Terminate(buffer, <<buffer>>)
     \/ /\ tmp \notin {NUL, CR}
        /\ LET b == Append(buffer, tmp) IN Loop(b, limit, <<b>>)

getlnWaitsForCR ==
  /\ at = "result" /\ op = "getln"
  /\ \/ tmp = NUL /\ Again(phase)
     \/ tmp # CR /\ phase = "eol" /\ Again("eol")
     \/ tmp = CR /\ phase = "eol" /\ Terminate(buffer, <<buffer>>)
     \/ tmp = CR /\ phase = "body" /\ Again("eol")
     \/ /\ tmp \notin {NUL, CR} /\ phase = "body"
        /\ LET b == Append(buffer, tmp) IN Loop(b, limit, <<b>>)

\* uart_getln: waits for CR LF, or until the array is full.
getln ==
  /\ at = "result" /\ op = "getln"
  /\ \/ tmp = NUL /\ Again(phase)
     \/ tmp # NUL /\ phase = "eol" /\ Terminate(buffer, <<buffer>>)
     \/ tmp = CR /\ phase = "body" /\ Again("eol")
     \/ /\ tmp \notin {NUL, CR} /\ phase = "body"
        /\ LET b == Append(buffer, tmp) IN Loop(b, limit, <<b>>)

\* uart_getlnToFirstWhiteSpace: skips white space, then reads up to the next.
getlnToFirstWhiteSpace(value(_)) ==
  \/ tmp <= Space /\ phase = "skip" /\ Again("skip")
  \/ /\ tmp > Space /\ phase = "skip"
     /\ LET b == Append(buffer, tmp) IN Loop(b, limit - 1, <<value(b)>>)
  \/ tmp = NUL /\ phase \in {"body", "eol"} /\ Again(phase)
  \/ tmp # NUL /\ phase = "eol" /\ Terminate(buffer, <<value(buffer)>>)
  \/ tmp = CR /\ phase = "body" /\ Again("eol")
  \/ /\ tmp \in (1..Space) \ {CR} /\ phase = "body"
     /\ Terminate(buffer, <<value(buffer)>>)
  \/ /\ tmp > Space /\ phase = "body"
     /\ LET b == Append(buffer, tmp) IN Loop(b, limit, <<value(b)>>)

getword == /\ at = "result" /\ op = "getword"
           /\ getlnToFirstWhiteSpace(LAMBDA b : b)

\* uart_getint reads a word into its array of 7 bytes and converts it.
getint == at = "result" /\ op = "getint" /\ getlnToFirstWhiteSpace(atoi)

uart0_gets == port = 0 /\ gets
uart1_gets == port = 1 /\ gets
uart2_gets == port = 2 /\ gets
uart3_gets == port = 3 /\ gets

uart0_getln == port = 0 /\ getln
uart1_getln == port = 1 /\ getln
uart2_getln == port = 2 /\ getln
uart3_getln == port = 3 /\ getln

uart0_getlnToFirstWhiteSpace == port = 0 /\ getword
uart1_getlnToFirstWhiteSpace == port = 1 /\ getword
uart2_getlnToFirstWhiteSpace == port = 2 /\ getword
uart3_getlnToFirstWhiteSpace == port = 3 /\ getword

uart0_getint == port = 0 /\ getint
uart1_getint == port = 1 /\ getint
uart2_getint == port = 2 /\ getint
uart3_getint == port = 3 /\ getint

\* uart_getc, uart_getData and uart_LoadData called by the task itself.
getc == /\ at = "result" /\ op = "getc" /\ UNCHANGED tx_full
        /\ Deliver(CString(<<tmp>>))

getData ==
  /\ at = "result" /\ op \in {"getData", "LoadData"} /\ UNCHANGED tx_full
  /\ Deliver(IF tmp < 0 THEN <<>> ELSE <<tmp>>)

\* uart_getchar, the input function of the stdio stream: waits for a byte, then,
\* to echo it with uart_putc, for room in the transmit ring.  The echo may take
\* the last place.
Echoing == at = "result" /\ op = "getchar" /\ tmp >= 0

uart_getchar ==
  \/ at = "result" /\ op = "getchar" /\ tmp < 0 /\ Again("body")
  \/ Echoing /\ ~tx_full /\ tx_full' \in BOOLEAN /\ Deliver(<<tmp>>)

\* The UDRE interrupt makes room; other tasks print, in turn with the echo.
Transmit ==
  /\ tx_full /\ tx_full' = FALSE
  /\ UNCHANGED <<port, mode, wire, udr, ring, at, locals, history>>

Output ==
  /\ mode = "data" /\ ~Echoing /\ ~tx_full /\ tx_full' = TRUE
  /\ UNCHANGED <<port, mode, wire, udr, ring, at, locals, history>>

(***************************************************************************)
(* The task: one kind of call for each kind of input.                      *)
(***************************************************************************)
Operations(m) ==
  CASE m = "data" -> {"getData", "LoadData", "getchar"}
    [] m = "text" -> {"getc", "gets"}
    [] m = "lines" -> {"getln"}
    [] m = "words" -> {"getword"}
    [] m = "numbers" -> {"getint"}

\* The array getln needs for the next line, getword for the next word: getln
\* wants room for the CR too, or it leaves it for the next call.
Room(o) ==
  LET next == Len(results) + 1
  IN CASE o = "getln" /\ next <= Len(Lines) -> Len(Lines[next]) + 2
       [] o = "getword" /\ next <= Len(Words) -> Len(Words[next]) + 1
       [] OTHER -> 0

Call(o, n) ==
  /\ at = "user"
  /\ o = "getint" => n = 7
  /\ o \in {"getc", "getData", "LoadData", "getchar"} => n = 0
  /\ o \in {"gets", "getln", "getword"} => n \in Limits
  /\ op' = o /\ size' = n /\ buffer' = <<>>
  /\ roomy' = (roomy /\ n >= Room(o))
  /\ at' = "test"
  /\ \/ o \in {"getword", "getint"} /\ phase' = "skip" /\ limit' = n
     \/ o \in {"gets", "getln"} /\ phase' = "body" /\ limit' = n - 1
     \/ /\ o \in {"getc", "getData", "LoadData", "getchar"}
        /\ phase' = "body" /\ limit' = 0
  /\ UNCHANGED <<Driver, tail, tmp, results, tx_full>>

ReadString ==
  \/ uart0_gets \/ uart1_gets \/ uart2_gets \/ uart3_gets
  \/ uart0_getln \/ uart1_getln \/ uart2_getln \/ uart3_getln
  \/ uart0_getlnToFirstWhiteSpace \/ uart1_getlnToFirstWhiteSpace
  \/ uart2_getlnToFirstWhiteSpace \/ uart3_getlnToFirstWhiteSpace
  \/ uart0_getint \/ uart1_getint \/ uart2_getint \/ uart3_getint

Task ==
  \/ GetByte \/ ReadString \/ getc \/ getData \/ uart_getchar
  \/ \E o \in Operations(mode), n \in Limits \cup {0, 7} : Call(o, n)

Next == Arrive \/ RX_ISR \/ Task \/ Transmit \/ Output

Spec == Init /\ [][Next]_vars

\* Bytes sent arrive, the interrupts are taken (UsartTx: the transmit ring does
\* not stay full), and the task goes on reading.
FairSpec ==
  Spec /\ WF_vars(Arrive) /\ WF_vars(RX_ISR) /\ WF_vars(Transmit) /\ WF_vars(Task)

(***************************************************************************)
(* Properties.                                                             *)
(***************************************************************************)
AvailableBytes == (rx_Head - rx_Tail) % Size
peek == rx_buffer[(rx_Tail + 1) % Size]
Pending == [i \in 1..AvailableBytes |-> rx_buffer[(rx_Tail + i) % Size]]

\* The ring: a queue with room for size - 1 bytes.
Queue == INSTANCE BoundedQueue WITH
  Items <- Byte, capacity <- Size - 1, queue <- Pending

\* RX interrupt / uart_getc, uart_getData, uart_LoadData: access by access they
\* implement that queue; a full ring costs new bytes, never old ones.
ImplementsQueue == Queue!Spec

\* The library is made for if(uart_AvailableBytes()) ... uart_peek(): what was
\* counted and seen stays there until the task itself takes it, whatever the
\* interrupt does in between.
PeekHolds ==
  [][ AvailableBytes > 0 /\ taken' = taken
        => AvailableBytes' >= AvailableBytes /\ peek' = peek ]_vars

\* uart_gets, uart_getln, uart_getlnToFirstWhiteSpace, uart_getint: nothing is
\* stored outside the array passed, the final NUL included.
ArrayKept == Len(buffer) <= size

\* Until a byte is lost or an array is too small, the task gets the lines,
\* words, numbers or bytes that were sent: none split, joined or missed,
\* however the getters' polling and the interrupt are timed; and uart_getint
\* reads back what uart_putint wrote.
InputIntact == lost = 0 /\ roomy => IsPrefix(results, Expected(mode))

\* The waiting loops end: a task that goes on reading gets everything.
EverythingRead ==
  <>(lost > 0 \/ ~roomy \/ Len(results) >= Len(Expected(mode)))

\* A getter that has found a byte: the interrupt neither takes nor changes it.
GetterSees ==
  /\ at \in {"read", "take"} => rx_Tail # rx_Head
  /\ at = "read" => tail = rx_Tail
  /\ at = "take" => tail = (rx_Tail + 1) % Size /\ tmp = rx_buffer[tail]

\* A reader that stores: limit is what the array still takes before its NUL.
RoomLeft ==
  at # "user" /\ op \in {"gets", "getln", "getword", "getint"} =>
    \/ /\ op \in {"getword", "getint"} /\ phase = "skip"
       /\ buffer = <<>> /\ limit = size /\ size >= 2
    \/ /\ phase \in {"body", "eol"}
       /\ limit >= 1 /\ Len(buffer) + limit = size - 1

\* The ring and the array passed.
RingInv == TypeOK /\ ArrayKept /\ GetterSees /\ RoomLeft

(***************************************************************************)
(* Where the bytes are, as long as none is lost.                           *)
(***************************************************************************)
\* What a getter returns when the ring is empty, and the byte it has returned.
Nothing == IF mode = "data" THEN -1 ELSE NUL
InHand == IF at = "result" /\ tmp # Nothing THEN <<tmp>> ELSE <<>>

\* The bytes that no reader has looked at, oldest first.
Rest == InHand \o (Pending \o (udr \o wire))

\* The strings behind the first k.
Left(k) == Trailing(mode)[Len(Strings(mode)) - k]

\* Bytes are handed out one by one, or, by uart_gets, as they are in its array.
Held == IF at # "user" /\ op = "gets" THEN buffer ELSE <<>>

BytesInOrder ==
  mode \in {"data", "text"} =>
    /\ results \in Seq(Byte) /\ Held \in Seq(Byte \ {NUL})
    /\ results \o (Held \o Rest) = Sent(mode)

\* A reader that fills its array returns before the end of the string is read:
\* uart_getlnToFirstWhiteSpace finds it in front of the next one.
Between(k) ==
  \/ Rest = Left(k)
  \/ mode # "lines" /\ Rest \in {End(mode) \o Left(k), Tail(End(mode)) \o Left(k)}

InString(k) ==
  /\ k < Len(Strings(mode)) => Len(buffer) <= Len(Strings(mode)[k + 1])
  /\ buffer \o Rest = Left(k)

\* The CR is read, the LF is not.
InEnd(k) ==
  /\ mode # "words" /\ k < Len(Strings(mode)) /\ buffer = Strings(mode)[k + 1]
  /\ Rest = Tail(End(mode)) \o Left(k + 1)

\* The array takes the k-th string, and the CR behind it if uart_getln reads.
Fits(k) ==
  k <= Len(Strings(mode))
    => size >= Len(Strings(mode)[k]) + (IF mode = "lines" THEN 2 ELSE 1)

StringsInOrder ==
  mode \notin {"data", "text"} =>
    LET k == Len(results)
    IN /\ k \in 0..Len(Strings(mode)) /\ results = SubSeq(Expected(mode), 1, k)
       /\ at = "user" => Between(k)
       /\ at # "user" =>
            /\ Fits(k + 1)
            /\ phase = "skip" => Between(k)
            /\ phase = "body" => InString(k)
            /\ phase = "eol" => InEnd(k)

InputInv ==
  /\ at # "user" => op \in Operations(mode)
  /\ lost = 0 => Rest \in Seq(IF mode = "data" THEN Byte ELSE Byte \ {NUL})
  /\ lost = 0 /\ roomy => BytesInOrder /\ StringsInOrder

\* RX interrupt and readers: the indices stay inside the ring, what a getter has
\* found stays there, what is stored stays inside the caller's array, and every
\* byte sent is in the task's hands, in the ring or still to come.
RxInv == RingInv /\ InputInv
=============================================================================
