----------------------------- MODULE MCScheduler -----------------------------
(* Three clients, two of them of one priority, three changes of priority: queues of up   *)
(* to three processes, one of which moves while it is first, in the middle or last.  The *)
(* table of the program itself has a fourth process: the CCI and the processes A, B, C.  *)
EXTENDS Scheduler, TLC

CONSTANTS c1, c2, c3, CCI, A, B, C

McTable    == (CCI :> 0) @@ (A :> 1) @@ (B :> 1) @@ (C :> 1) @@ (NullProc :> 2)
McPriority == (c1 :> 0) @@ (c2 :> 1) @@ (c3 :> 1) @@ (NullProc :> 2)
=============================================================================
