------------------------------ MODULE MCConsole ------------------------------
(* The two processes that print and wait: the CCI, which also reads, and process C. *)
EXTENDS Console

CONSTANTS CCI, C
=============================================================================
