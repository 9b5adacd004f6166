----------------------------- MODULE Interrupts -----------------------------
(***************************************************************************)
(* How an i-process takes over: k_i_proc_interrupt on entry to a handler   *)
(* and k_i_proc_return on leaving it, statement by statement, with the one *)
(* PREV_PROCESS they share.  crt_i_proc is entered in the same way when    *)
(* k_send_console_chars calls it.                                          *)
(*                                                                         *)
(* A handler is not interrupted by its own signal (sigset blocks it), but  *)
(* by the other two it is, and so is crt_i_proc(0) by all three.           *)
(***************************************************************************)
EXTENDS Naturals, Sequences, SequencesExt

CONSTANTS
  UserProcs,
  KB, CRT, TIMER,
  MaxNesting     \* bound: how many of these activations are on the stack

IProcs == {KB, CRT, TIMER}

ASSUME ProcessTable == IProcs \cap UserProcs = {} /\ MaxNesting \in Nat

(* The i-process behind each signal (init_signals). *)
HandlerOf == [SIGUSR1 |-> KB, SIGUSR2 |-> CRT, SIGALRM |-> TIMER]
Signals   == DOMAIN HandlerOf
Call      == "call"       \* crt_i_proc(0)

VARIABLES
  CURRENT_PROCESS, PREV_PROCESS,
  running,    \* the process whose code the processor executes
  stack,      \* the activations on top of it, the last one on top
  aborted,    \* an assert has failed
  disturbed   \* a signal has landed while PREV_PROCESS was in use (history)

vars == <<CURRENT_PROCESS, PREV_PROCESS, running, stack, aborted, disturbed>>

Places == {"save", "take", "body", "keep", "restore", "swap"}

(* temp is the local variable of k_i_proc_return, of no account before it is set. *)
Frame == [by : Signals \cup {Call}, at : Places, temp : UserProcs \cup IProcs]

TypeOK ==
  /\ CURRENT_PROCESS \in UserProcs \cup IProcs
  /\ PREV_PROCESS \in UserProcs \cup IProcs
  /\ running \in UserProcs
  /\ stack \in Seq(Frame) /\ Len(stack) <= MaxNesting
  /\ aborted \in BOOLEAN /\ disturbed \in BOOLEAN

(* PREV_PROCESS is null at first; its value then is never used. *)
Init ==
  /\ running \in UserProcs
  /\ CURRENT_PROCESS = running /\ PREV_PROCESS = running
  /\ stack = <<>> /\ aborted = FALSE /\ disturbed = FALSE

-----------------------------------------------------------------------------
Self(frame) == IF frame.by = Call THEN CRT ELSE HandlerOf[frame.by]

(* PREV_PROCESS holds the interrupted process from its saving to its restoring. *)
InUse == {"take", "body", "keep", "restore"}

Push(by) ==
  /\ ~ aborted /\ Len(stack) < MaxNesting
  /\ stack' = Append(stack, [by |-> by, at |-> "save", temp |-> CRT])
  /\ disturbed' = (disturbed \/ (stack # <<>> /\ Last(stack).at \in InUse))
  /\ UNCHANGED <<CURRENT_PROCESS, PREV_PROCESS, running, aborted>>

Signal(s) == (\A i \in 1 .. Len(stack) : stack[i].by # s) /\ Push(s)

SendConsoleChars == stack = <<>> /\ Push(Call)

(* The next statement of the activation on top. *)
Top(place) == ~ aborted /\ stack # <<>> /\ Last(stack).at = place

Advance(place) == stack' = [stack EXCEPT ![Len(stack)].at = place]

(* k_i_proc_interrupt *)
SavePrevious ==
  /\ Top("save") /\ Advance("take")
  /\ PREV_PROCESS' = CURRENT_PROCESS
  /\ UNCHANGED <<CURRENT_PROCESS, running, aborted, disturbed>>

(* Mutant: the signal number is passed for the pid. *)
TakeOver_BySignal ==
  /\ Top("take") /\ Advance("body")
  /\ CURRENT_PROCESS' = Last(stack).by
  /\ UNCHANGED <<PREV_PROCESS, running, aborted, disturbed>>

TakeOver ==
  /\ Top("take") /\ Advance("body")
  /\ CURRENT_PROCESS' = Self(Last(stack))
  /\ UNCHANGED <<PREV_PROCESS, running, aborted, disturbed>>

Body ==
  /\ Top("body") /\ Advance("keep")
  /\ UNCHANGED <<CURRENT_PROCESS, PREV_PROCESS, running, aborted, disturbed>>

(* k_i_proc_return *)
KeepCurrent ==
  /\ Top("keep")
  /\ stack' = [stack EXCEPT ![Len(stack)].at = "restore", ![Len(stack)].temp = CURRENT_PROCESS]
  /\ UNCHANGED <<CURRENT_PROCESS, PREV_PROCESS, running, aborted, disturbed>>

(* Mutant: the exchange without the local variable. *)
RestorePrevious_Swapped ==
  /\ Top("restore") /\ Advance("swap")
  /\ PREV_PROCESS' = CURRENT_PROCESS
  /\ UNCHANGED <<CURRENT_PROCESS, running, aborted, disturbed>>

RestorePrevious ==
  /\ Top("restore") /\ Advance("swap")
  /\ CURRENT_PROCESS' = PREV_PROCESS
  /\ UNCHANGED <<PREV_PROCESS, running, aborted, disturbed>>

Leave ==
  /\ Top("swap")
  /\ PREV_PROCESS' = Last(stack).temp
  /\ stack' = Front(stack)
  /\ UNCHANGED <<CURRENT_PROCESS, running, aborted, disturbed>>

(* k_release_processor: proc_pq_enqueue asserts that what it puts on a ready queue is no
   i-process; then some process, perhaps the same one, gets the processor. *)
ReleaseProcessor ==
  /\ ~ aborted /\ stack = <<>>
  /\ IF CURRENT_PROCESS \in IProcs
     THEN aborted' = TRUE /\ UNCHANGED <<CURRENT_PROCESS, running>>
     ELSE \E p \in UserProcs : CURRENT_PROCESS' = p /\ running' = p /\ UNCHANGED aborted
  /\ UNCHANGED <<PREV_PROCESS, stack, disturbed>>

Next ==
  \/ \E s \in Signals : Signal(s)
  \/ SendConsoleChars
  \/ SavePrevious \/ TakeOver \/ Body
  \/ KeepCurrent \/ RestorePrevious \/ Leave
  \/ ReleaseProcessor

Spec == Init /\ [][Next]_vars
-----------------------------------------------------------------------------
(* Properties. *)

(* When the last handler has returned, the process that was interrupted is current again:
   every primitive it calls works on CURRENT_PROCESS, and the assert of procPQ.c:97 holds.
   Nesting alone does no harm, only a signal between the saving of PREV_PROCESS and its
   use. *)
CurrentRestored ==
  stack = <<>> /\ ~ disturbed => CURRENT_PROCESS = running /\ ~ aborted

(* assert(!pcb->is_i_process) at procPQ.c:97. *)
AssertsHold == ~ aborted
=============================================================================
