----------------------------- MODULE MCUsartTx -----------------------------
(***************************************************************************)
(* Two tasks write a character, a string, a number and a line end through  *)
(* the copies of all four ports, with rings of two and of four slots.      *)
(***************************************************************************)
EXTENDS UsartTx, TLC

CONSTANTS c1, c2

MCClients == {c1, c2}
MCTxSize == (0 :> 2) @@ (1 :> 4) @@ (2 :> 2) @@ (3 :> 2)
MCTexts == {putstr(<<65, NUL, 66>>), uart_putchar(LF)}
=============================================================================
