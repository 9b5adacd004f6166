----------------------------- MODULE TimerQueue -----------------------------
(***************************************************************************)
(* Delays: k_request_delay, the timer i-process and TIMEOUT_Q (timerQ.c).  *)
(*                                                                         *)
(* One SIGALRM runs one execution of timer_i_proc.  Its parts are steps of *)
(* their own here (the entry, each insertion of its loop, the final check) *)
(* and nothing else runs between them: the handler is on the stack of the  *)
(* one process there is.  The time is NUM_OF_TICKS, a float: from 2^24 on  *)
(* adding one no longer changes it.                                        *)
(***************************************************************************)
EXTENDS Integers, Sequences, FiniteSets, SequencesExt, Functions

CONSTANTS
  Envelopes,   \* the envelopes used to ask for a delay
  Delays,      \* the delays asked for, in seconds
  FloatLimit   \* 2^24

ASSUME TimerConstants ==
  IsFiniteSet(Envelopes) /\ Delays \subseteq Nat /\ FloatLimit \in Nat

VARIABLES
  NUM_OF_TICKS,
  requests,    \* rcv_msg_queue of the timer i-process
  TIMEOUT_Q,
  time_delay,  \* MsgEnv.time_delay: the delay, and once inserted the deadline
  inHandler,   \* timer_i_proc is running
  crashed,     \* the program has followed a null pointer
  asked        \* for an envelope being timed: when, and for how long (history)

vars == <<NUM_OF_TICKS, requests, TIMEOUT_Q, time_delay, inHandler, crashed, asked>>

TicksPerSecond == 10

NotAsked == [at |-> 0, delay |-> 0]

Timed == Range(requests) \cup Range(TIMEOUT_Q)

TypeOK ==
  /\ NUM_OF_TICKS \in 0 .. FloatLimit
  /\ requests \in Seq(Envelopes) /\ IsInjective(requests)
  /\ TIMEOUT_Q \in Seq(Envelopes) /\ IsInjective(TIMEOUT_Q)
  /\ Range(requests) \cap Range(TIMEOUT_Q) = {}
  /\ time_delay \in [Envelopes -> Nat]
  /\ inHandler \in BOOLEAN
  /\ crashed \in BOOLEAN
  /\ asked \in [Envelopes -> [at : 0 .. FloatLimit, delay : Nat]]

-----------------------------------------------------------------------------
(* TIMEOUT_Q as timeout_q_insert and check_timeout_q treat it. *)

(* The places behind the head where the loop of timeout_q_insert can stop. *)
StopsAt(q, deadline, due) == {k \in 2 .. Len(q) : deadline <= due[q[k]]}

(* The loop reads env->time_delay before it tests env: it must stop before the end.  Apps
   shows that the program never has the three delays this takes (TwoDelaysAtMost). *)
RunsOffTheEnd(q, deadline, due) ==
  /\ q # <<>> /\ ~ (deadline < due[q[1]])
  /\ Len(q) >= 2 /\ StopsAt(q, deadline, due) = {}

(* Mutant: nothing is inserted in front of the head. *)
PlaceOf_BehindHead(q, deadline, due) ==
  IF StopsAt(q, deadline, due) = {} THEN Len(q) + 1
  ELSE CHOOSE k \in StopsAt(q, deadline, due) :
         \A j \in StopsAt(q, deadline, due) : k <= j

(* The place the new envelope gets. *)
PlaceOf(q, deadline, due) ==
  IF q = <<>> \/ deadline < due[q[1]] THEN 1
  ELSE IF StopsAt(q, deadline, due) = {} THEN Len(q) + 1
  ELSE CHOOSE k \in StopsAt(q, deadline, due) :
         \A j \in StopsAt(q, deadline, due) : k <= j

InsertedAt(q, k, e) ==
  [i \in 1 .. Len(q) + 1 |-> IF i < k THEN q[i] ELSE IF i = k THEN e ELSE q[i - 1]]

-----------------------------------------------------------------------------
Init ==
  /\ NUM_OF_TICKS = 0
  /\ requests = <<>> /\ TIMEOUT_Q = <<>>
  /\ time_delay = [e \in Envelopes |-> 0]
  /\ inHandler = FALSE /\ crashed = FALSE
  /\ asked = [e \in Envelopes |-> NotAsked]

(* k_request_delay, by a process that holds the envelope. *)
RequestDelay(e, delay) ==
  /\ ~ crashed /\ ~ inHandler /\ e \notin Timed
  /\ time_delay' = [time_delay EXCEPT ![e] = delay]
  /\ requests' = Append(requests, e)
  /\ asked' = [asked EXCEPT ![e] = [at |-> NUM_OF_TICKS, delay |-> delay]]
  /\ UNCHANGED <<NUM_OF_TICKS, TIMEOUT_Q, inHandler, crashed>>

clock_inc_time == NUM_OF_TICKS' = IF NUM_OF_TICKS < FloatLimit THEN NUM_OF_TICKS + 1
                                  ELSE NUM_OF_TICKS

(* SIGALRM. *)
timer_i_proc ==
  /\ ~ crashed /\ ~ inHandler
  /\ inHandler' = TRUE
  /\ clock_inc_time
  /\ UNCHANGED <<requests, TIMEOUT_Q, time_delay, crashed, asked>>

(* Mutant: the first message is read and left where it is. *)
Unread_Peeked == requests

(* What k_receive_message leaves in the queue. *)
Unread == Tail(requests)

(* Mutant: seconds are taken for ticks. *)
Deadline_InSeconds(e) == NUM_OF_TICKS + time_delay[e]

(* The deadline of an envelope inserted now. *)
Deadline(e) == NUM_OF_TICKS + time_delay[e] * TicksPerSecond

(* One pass of the loop: the first request goes to TIMEOUT_Q. *)
timeout_q_insert ==
  /\ ~ crashed /\ inHandler /\ requests # <<>>
  /\ LET e == Head(requests)
     IN  /\ time_delay' = [time_delay EXCEPT ![e] = Deadline(e)]
         /\ requests' = Unread
         /\ IF RunsOffTheEnd(TIMEOUT_Q, Deadline(e), time_delay)
            THEN crashed' = TRUE /\ UNCHANGED TIMEOUT_Q
            ELSE /\ TIMEOUT_Q' =
                      InsertedAt(TIMEOUT_Q, PlaceOf(TIMEOUT_Q, Deadline(e), time_delay), e)
                 /\ UNCHANGED crashed
  /\ UNCHANGED <<NUM_OF_TICKS, inHandler, asked>>

(* Mutant: an envelope that is due is returned only if it became due at this tick. *)
IsDue_JustNow == TIMEOUT_Q # <<>> /\ time_delay[Head(TIMEOUT_Q)] = NUM_OF_TICKS

IsDue == TIMEOUT_Q # <<>> /\ time_delay[Head(TIMEOUT_Q)] <= NUM_OF_TICKS

(* The last part: the head of TIMEOUT_Q goes back to its sender if it is due.  Its while
   loop returns from its first pass: one envelope a tick at most. *)
check_timeout_q ==
  /\ ~ crashed /\ inHandler /\ requests = <<>>
  /\ TIMEOUT_Q' = IF IsDue THEN Tail(TIMEOUT_Q) ELSE TIMEOUT_Q
  /\ inHandler' = FALSE
  /\ asked' = [e \in Envelopes |-> IF IsDue /\ e = Head(TIMEOUT_Q) THEN NotAsked ELSE asked[e]]
  /\ UNCHANGED <<NUM_OF_TICKS, requests, time_delay, crashed>>

Handler == timer_i_proc \/ timeout_q_insert \/ check_timeout_q

Next ==
  \/ \E e \in Envelopes, delay \in Delays : RequestDelay(e, delay)
  \/ timer_i_proc
  \/ timeout_q_insert
  \/ check_timeout_q

(* Every SIGALRM arms the next one (ualarm, iProcs.c:143) and its handler returns. *)
Spec == Init /\ [][Next]_vars /\ WF_vars(Handler)
-----------------------------------------------------------------------------
(* Properties. *)

(* check_timeout_q looks at the head alone: no envelope behind it may be due before it. *)
Sorted ==
  \A i, j \in 1 .. Len(TIMEOUT_Q) :
    i < j => time_delay[TIMEOUT_Q[i]] <= time_delay[TIMEOUT_Q[j]]

(* No delay ends early: an envelope leaves TIMEOUT_Q no sooner than the delay asked for
   after it was asked for. *)
NotEarly ==
  [][\A e \in Range(TIMEOUT_Q) \ Range(TIMEOUT_Q') :
       NUM_OF_TICKS >= asked[e].at + asked[e].delay * TicksPerSecond]_vars

(* Nor much too late: one tick until the request is read, and one for each other envelope
   that may be due before it, since a tick returns one envelope.  After a tick, an envelope
   in place i has i more to wait for. *)
NeverLate ==
  ~ crashed /\ ~ inHandler =>
    \A i \in 1 .. Len(TIMEOUT_Q) :
      LET ask == asked[TIMEOUT_Q[i]]
      IN  NUM_OF_TICKS + i
            <= ask.at + ask.delay * TicksPerSecond + Cardinality(Envelopes)

(* A delay does end, unless the program has crashed, if the clock can count up to its
   latest end.  Past that, delays never end, and among equal deadlines the last envelope
   inserted is put in front: at the limit one may be overtaken for ever. *)
ClockReaches(e) ==
  asked[e].at + asked[e].delay * TicksPerSecond + Cardinality(Envelopes) <= FloatLimit
DelaysEnd ==
  \A e \in Envelopes : (e \in Timed /\ ClockReaches(e)) ~> (e \notin Timed \/ crashed)
=============================================================================
