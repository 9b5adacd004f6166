------------------------------- MODULE MCApps -------------------------------
(* Six envelopes: three for the CCI and two for the clock leave one, so that with the one *)
(* that starts A two reports can be under way, and the pool runs dry.                     *)
EXTENDS Apps, TLC

CONSTANTS e1, e2, e3, e4, e5, e6

McEnvelopes == {e1, e2, e3, e4, e5, e6}
McMsgList   == <<e1, e2, e3, e4, e5, e6>>
McPriority  == (A :> 1) @@ (B :> 1) @@ (C :> 1) @@ (CLOCK :> 0) @@ (CCI :> 0) @@ (NullProc :> 3)
=============================================================================
