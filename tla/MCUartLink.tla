----------------------------- MODULE MCUartLink -----------------------------
(* An instance of UartLink with values of two bits; the two values sent    *)
(* differ in both their parity and their lowest bit.                       *)
EXTENDS UartLink

MCSent == {[i \in 0 .. 1 |-> 0], [i \in 0 .. 1 |-> 1 - i]}
=============================================================================
