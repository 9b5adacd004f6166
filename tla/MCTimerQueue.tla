---------------------------- MODULE MCTimerQueue ----------------------------
(* Three envelopes, one more than the program times at once, and a clock that stops *)
(* soon enough for delays to be asked for whose end it does not reach.              *)
EXTENDS TimerQueue

CONSTANTS e1, e2, e3
=============================================================================
