---------------------------- MODULE MCInterrupts ----------------------------
(* The CCI, process C and the null process: two processes that print and one that only *)
(* releases the processor.                                                             *)
EXTENDS Interrupts

CONSTANTS CCI, C, NullProc
=============================================================================
