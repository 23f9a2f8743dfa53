------------------------------ MODULE MCClock ------------------------------
(***************************************************************************)
(* A counter of 4 values in place of 256, with ticks of 256 us so that an  *)
(* overflow still stands for 1024 us, and words of 11 bits: in 8300 ticks  *)
(* every counter of the driver wraps, timer0_ms after 8000 ticks and       *)
(* timer0_overflow_count after 8192.                                       *)
(***************************************************************************)
EXTENDS Clock
=============================================================================
