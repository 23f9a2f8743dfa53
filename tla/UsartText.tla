----------------------------- MODULE UsartText -----------------------------
(***************************************************************************)
(* The functions of lib/AVR-UART-LIB that turn their argument into bytes   *)
(* and hand them to uart_putc one after the other, as the byte strings     *)
(* they produce, and the conversion the number readers apply to what they  *)
(* have read.  itoa, utoa and atoi are avr-libc's.  Floats are left out.   *)
(***************************************************************************)
EXTENDS Integers, Sequences

NUL == 0
LF == 10
CR == 13
Space == 32
Minus == 45
Zero == 48

\* The bytes of a C string: what stands in front of the first NUL.
CString(s) ==
  LET ends == {i \in 1..Len(s) : s[i] = NUL}
  IN IF ends = {} THEN s
     ELSE SubSeq(s, 1, (CHOOSE i \in ends : \A j \in ends : i <= j) - 1)

\* uart_putstr(s), and uart_puts_p(s) for a string in flash.
putstr(s) == CString(s)
puts_p(s) == CString(s)

\* uart_putstrl(s, n): NUL bytes are sent like any other.
putstrl(s, n) == SubSeq(s, 1, n)

\* uart_putchar, the output function of the stdio stream.
uart_putchar(c) == IF c = LF THEN <<CR, LF>> ELSE <<c>>

\* '0'..'9', 'a'..'z'
Digit(d) == IF d <= 9 THEN Zero + d ELSE 87 + d

puthex(b) == <<Digit(b \div 16), Digit(b % 16)>>

\* The ranges of an uint16_t, 0..(Word - 1), and of an int16_t.
Word == 65536
Half == Word \div 2
Int16 == (-Half)..(Half - 1)

\* The digits of an uint16_t, most significant first.
DigitsIn(radix) ==
  LET digits[n \in 0..(Word - 1)] ==
        IF n < radix THEN <<Digit(n)>>
        ELSE Append(digits[n \div radix], Digit(n % radix))
  IN digits

utoa(n, radix) == DigitsIn(radix)[n]

\* Radix 10 is signed, every other radix shows the 16-bit pattern.
itoa(i, radix) ==
  IF radix = 10 /\ i < 0 THEN <<Minus>> \o utoa(-i, 10)
  ELSE utoa(i % Word, radix)

putint(i) == putstr(itoa(i, 10))
putintr(i, radix) == putstr(itoa(i, radix))
putuint(n) == putstr(utoa(n, 10))
putuintr(n, radix) == putstr(utoa(n, radix))

IsDigit(c) == c >= Zero /\ c <= Zero + 9

\* The number the first i bytes of t stand for.
Value(t) ==
  LET value[i \in 0..Len(t)] ==
        IF i = 0 THEN 0 ELSE value[i - 1] * 10 + (t[i] - Zero)
  IN value

\* How many digits t begins with.
DigitCount(t) ==
  CHOOSE k \in 0..Len(t) :
    /\ \A i \in 1..k : IsDigit(t[i])
    /\ k < Len(t) => ~IsDigit(t[k + 1])

\* atoi of a C string of digits with an optional sign, as int16_t; it stops at
\* the first byte that is no digit.
atoi(s) ==
  LET neg == s # <<>> /\ Head(s) = Minus
      t == IF neg THEN Tail(s) ELSE s
      n == Value(t)[DigitCount(t)]
      wrapped == (IF neg THEN -n ELSE n) % Word
  IN IF wrapped >= Half THEN wrapped - Word ELSE wrapped
=============================================================================
