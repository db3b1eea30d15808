------------------------------ MODULE MCTimer0 ------------------------------
(* A small instance of Timer0: a millisecond is three ticks, an overflow one  *)
(* millisecond and a third, and micros() wraps around every four overflows.   *)
EXTENDS Timer0
=============================================================================
