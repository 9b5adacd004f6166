------------------------------ MODULE MCKernel ------------------------------
(* Three clients on two priority levels over the null process, and two envelopes: two *)
(* processes can wait for an envelope while the third still holds or returns one.     *)
EXTENDS Kernel, TLC

CONSTANTS c1, c2, c3, e1, e2

McPriority == (c1 :> 0) @@ (c2 :> 0) @@ (c3 :> 1) @@ (NullProc :> 2)

(* Clients of one priority, and envelopes, are interchangeable. *)
Symmetry == Permutations({c1, c2}) \cup Permutations({e1, e2})
=============================================================================
