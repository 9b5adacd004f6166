---------------------------- MODULE MCPreemption ----------------------------
(* Three envelopes: both queues can hold one while a third is put in or taken out. *)
EXTENDS Preemption

CONSTANTS e1, e2, e3
=============================================================================
