----------------------------- MODULE Preemption -----------------------------
(***************************************************************************)
(* What a signal meets when it lands inside a primitive.  One process runs *)
(* k_get_console_chars and k_receive_message statement by statement, over  *)
(* the linked lists of MsgEnvQueue.c.  kbd_i_proc, the SIGUSR1 handler,    *)
(* sends back an envelope for each line typed; it runs to its end between  *)
(* two statements of the process.                                          *)
(*                                                                         *)
(* The null process runs while the process waits, and its own primitive is *)
(* one step; so is an operation on the ready queue.  Of an event the trace *)
(* keeps the destination.                                                  *)
(***************************************************************************)
EXTENDS TraceBuffer, FiniteSets, SequencesExt

CONSTANTS Envelopes, NULL

ASSUME EnvelopeTable == IsFiniteSet(Envelopes) /\ NULL \notin Envelopes

Queues == {"PROC", "KB"}       \* the receive queues of the process and of KB
Events == {"SEND", "RECEIVE"}  \* the two trace buffers

VARIABLES
  lists,    \* head and tail of each MsgEnvQ, and next of every envelope
  pc,       \* the statement the process executes next
  env,      \* msg_envelope of the send, or returnEnv of the receive, in progress
  hand,     \* the envelopes the process holds
  state,    \* pcb.state of the process
  running,  \* the processor is with the process rather than with the null process
  ready,    \* the process is on its ready queue
  trace,    \* SEND_TRACE_BUF and RECEIVE_TRACE_BUF
  tail,     \* of the k_log_event in progress
  fifo,     \* what each queue should hold, by completed operations (history)
  logged    \* the last events of each kind (history)

mailVars  == <<lists, env, hand, fifo>>
traceVars == <<trace, tail, logged>>
vars      == <<mailVars, pc, state, running, ready, traceVars>>

AtRest == pc \in {"user", "suspended"}

-----------------------------------------------------------------------------
(* MsgEnvQueue.c without interruption, as the handler executes it. *)

MsgEnvQ_enqueue(L, q, e) ==
  IF L.head[q] = NULL
  THEN [L EXCEPT !.head[q] = e, !.tail[q] = e, !.next[e] = NULL]
  ELSE [L EXCEPT !.next[L.tail[q]] = e, !.tail[q] = e, !.next[e] = NULL]

(* Of a queue that is not empty.  The link of the last envelope is not read. *)
MsgEnvQ_dequeue(L, q) ==
  IF L.head[q] = L.tail[q]
  THEN [L EXCEPT !.head[q] = NULL, !.tail[q] = NULL]
  ELSE [L EXCEPT !.head[q] = L.next[L.head[q]], !.next[L.head[q]] = NULL]

Init ==
  /\ lists = [head |-> [q \in Queues |-> NULL], tail |-> [q \in Queues |-> NULL],
              next |-> [e \in Envelopes |-> NULL]]
  /\ pc = "user" /\ env = NULL /\ hand = Envelopes
  /\ state = "EXECUTING" /\ running = TRUE /\ ready = FALSE
  /\ fifo = [q \in Queues |-> <<>>]
  /\ trace = [b \in Events |-> EmptyTrace(NULL)] /\ tail = 0
  /\ logged = [b \in Events |-> <<>>]

At(statement) == running /\ pc = statement

Goto(statement) == pc' = statement

Unmoved == UNCHANGED <<state, running, ready, traceVars>>

-----------------------------------------------------------------------------
(* k_send_message to the keyboard i-process: MsgEnvQ_enqueue, statement by statement. *)

GetConsoleChars(e) ==
  /\ At("user") /\ e \in hand /\ Goto("enq_test")
  /\ env' = e /\ hand' = hand \ {e}
  /\ Unmoved /\ UNCHANGED <<lists, fifo>>

EnqueueTest ==
  /\ At("enq_test")
  /\ Goto(IF lists.head["KB"] = NULL THEN "enq_first" ELSE "enq_link")
  /\ Unmoved /\ UNCHANGED mailVars

EnqueueFirst ==
  /\ At("enq_first") /\ Goto("enq_tail")
  /\ lists' = [lists EXCEPT !.head["KB"] = env]
  /\ Unmoved /\ UNCHANGED <<env, hand, fifo>>

(* queue->tail->next = env.  A handler may have emptied the queue since the test: its tail
   is null then, and the program is killed here, or two statements further on. *)
EnqueueLink ==
  /\ At("enq_link")
  /\ IF lists.tail["KB"] = NULL THEN Goto("killed") /\ UNCHANGED lists
     ELSE Goto("enq_tail") /\ lists' = [lists EXCEPT !.next[lists.tail["KB"]] = env]
  /\ Unmoved /\ UNCHANGED <<env, hand, fifo>>

EnqueueTail ==
  /\ At("enq_tail") /\ Goto("enq_end")
  /\ lists' = [lists EXCEPT !.tail["KB"] = env]
  /\ Unmoved /\ UNCHANGED <<env, hand, fifo>>

EnqueueEnd ==
  /\ At("enq_end")
  /\ IF lists.tail["KB"] = NULL THEN Goto("killed") /\ UNCHANGED <<lists, env, fifo>>
     ELSE /\ Goto("send_tail")
          /\ lists' = [lists EXCEPT !.next[lists.tail["KB"]] = NULL]
          /\ env' = NULL
          /\ fifo' = [fifo EXCEPT !["KB"] = Append(@, env)]
  /\ Unmoved /\ UNCHANGED hand

-----------------------------------------------------------------------------
(* k_receive_message: the test of its loop, ... *)

Receive ==
  /\ At("user") /\ Goto("rcv_test")
  /\ Unmoved /\ UNCHANGED mailVars

(* Mutant: "< 0" for "<= 0". *)
ReceiveTest_Negative ==
  /\ At("rcv_test") /\ Goto("deq_head")
  /\ Unmoved /\ UNCHANGED mailVars

ReceiveTest ==
  /\ At("rcv_test")
  /\ Goto(IF lists.head["PROC"] = NULL THEN "switch_dequeue" ELSE "deq_head")
  /\ Unmoved /\ UNCHANGED mailVars

(* ... k_process_switch to the null process, ... *)
SwitchDequeue ==
  /\ At("switch_dequeue") /\ Goto("switch_block")
  /\ Unmoved /\ UNCHANGED mailVars

SwitchBlock ==
  /\ At("switch_block") /\ Goto("switch_go")
  /\ state' = "BLOCKED_ON_RCV"
  /\ UNCHANGED <<mailVars, running, ready, traceVars>>

SwitchGo ==
  /\ At("switch_go") /\ Goto("suspended")
  /\ running' = FALSE
  /\ UNCHANGED <<mailVars, state, ready, traceVars>>

(* ... from which the null process's release_processor brings it back once it is ready, ... *)
NullReleases ==
  /\ ~ running /\ ready
  /\ running' = TRUE /\ ready' = FALSE /\ state' = "EXECUTING"
  /\ Goto("rcv_test")
  /\ UNCHANGED <<mailVars, traceVars>>

(* ... and MsgEnvQ_dequeue. *)
DequeueHead ==
  /\ At("deq_head") /\ Goto("deq_last")
  /\ env' = lists.head["PROC"]
  /\ Unmoved /\ UNCHANGED <<lists, hand, fifo>>

DequeueLast ==
  /\ At("deq_last")
  /\ Goto(IF lists.head["PROC"] = lists.tail["PROC"] THEN "deq_clear_head" ELSE "deq_test")
  /\ Unmoved /\ UNCHANGED mailVars

DequeueClearHead ==
  /\ At("deq_clear_head") /\ Goto("deq_clear_tail")
  /\ lists' = [lists EXCEPT !.head["PROC"] = NULL]
  /\ Unmoved /\ UNCHANGED <<env, hand, fifo>>

(* Mutant: only the head is cleared. *)
DequeueClearTail_Not ==
  /\ At("deq_clear_tail") /\ Goto("deq_test")
  /\ Unmoved /\ UNCHANGED mailVars

DequeueClearTail ==
  /\ At("deq_clear_tail") /\ Goto("deq_test")
  /\ lists' = [lists EXCEPT !.tail["PROC"] = NULL]
  /\ Unmoved /\ UNCHANGED <<env, hand, fifo>>

DequeueTest ==
  /\ At("deq_test")
  /\ Goto(IF lists.head["PROC"] # NULL THEN "deq_advance" ELSE "rcv_tail")
  /\ Unmoved /\ UNCHANGED mailVars

DequeueAdvance ==
  /\ At("deq_advance") /\ Goto("deq_unlink")
  /\ lists' = [lists EXCEPT !.head["PROC"] = lists.next[lists.head["PROC"]]]
  /\ Unmoved /\ UNCHANGED <<env, hand, fifo>>

DequeueUnlink ==
  /\ At("deq_unlink") /\ Goto("rcv_tail")
  /\ lists' = [lists EXCEPT !.next[env] = NULL]
  /\ Unmoved /\ UNCHANGED <<env, hand, fifo>>

-----------------------------------------------------------------------------
(* k_log_event, at the end of both. *)

Recent(events, e) == Append(IF Len(events) < TRACE_LOG_SIZE THEN events ELSE Tail(events), e)

LogTail(b, here, next) ==
  /\ At(here) /\ Goto(next)
  /\ tail' = get_trace_tail(trace[b])
  /\ UNCHANGED <<mailVars, state, running, ready, trace, logged>>

LogEntry(b, here, next, dest) ==
  /\ At(here) /\ Goto(next)
  /\ trace' = [trace EXCEPT ![b] = WriteEntry(@, tail, dest)]
  /\ UNCHANGED <<mailVars, state, running, ready, tail, logged>>

LogAdvance(b, here, dest) ==
  /\ At(here) /\ Goto("user")
  /\ trace'  = [trace EXCEPT ![b] = Advance(@)] /\ tail' = 0
  /\ logged' = [logged EXCEPT ![b] = Recent(@, dest)]
  /\ UNCHANGED <<state, running, ready>>

LogSend ==
  \/ LogTail("SEND", "send_tail", "send_entry")
  \/ LogEntry("SEND", "send_entry", "send_advance", "KB")
  \/ LogAdvance("SEND", "send_advance", "KB") /\ UNCHANGED mailVars

(* After the log the receive returns env to the process. *)
LogReceive ==
  \/ LogTail("RECEIVE", "rcv_tail", "rcv_entry")
  \/ LogEntry("RECEIVE", "rcv_entry", "rcv_advance", "PROC")
  \/ /\ LogAdvance("RECEIVE", "rcv_advance", "PROC")
     /\ hand' = hand \cup {env} /\ env' = NULL
     /\ fifo' = [fifo EXCEPT !["PROC"] = RemoveFirst(@, env)]
     /\ UNCHANGED lists

-----------------------------------------------------------------------------
(* The handler's receive and send are one step. *)
SendsBack(e) ==
  /\ lists'  = MsgEnvQ_enqueue(MsgEnvQ_dequeue(lists, "KB"), "PROC", e)
  /\ fifo'   = [fifo EXCEPT !["KB"] = RemoveFirst(@, e), !["PROC"] = Append(@, e)]
  /\ trace'  = [SEND    |-> k_log_event(trace["SEND"], "PROC"),
                RECEIVE |-> k_log_event(trace["RECEIVE"], "KB")]
  /\ logged' = [SEND    |-> Recent(logged["SEND"], "PROC"),
                RECEIVE |-> Recent(logged["RECEIVE"], "KB")]

(* Mutant: a process that was blocked is not made ready. *)
kbd_i_proc_NoWake ==
  /\ lists.head["KB"] # NULL /\ SendsBack(lists.head["KB"])
  /\ UNCHANGED <<pc, env, hand, state, running, ready, tail>>

(* SIGUSR1: the first envelope KB has is sent back to the process, which becomes ready if
   it was waiting to receive.  With none, the handler changes nothing here. *)
kbd_i_proc ==
  /\ lists.head["KB"] # NULL /\ SendsBack(lists.head["KB"])
  /\ IF state = "BLOCKED_ON_RCV" THEN state' = "READY" /\ ready' = TRUE
                                 ELSE UNCHANGED <<state, ready>>
  /\ UNCHANGED <<pc, env, hand, running, tail>>

Statement ==
  \/ \E e \in Envelopes : GetConsoleChars(e)
  \/ EnqueueTest \/ EnqueueFirst \/ EnqueueLink \/ EnqueueTail \/ EnqueueEnd
  \/ Receive \/ ReceiveTest
  \/ SwitchDequeue \/ SwitchBlock \/ SwitchGo \/ NullReleases
  \/ DequeueHead \/ DequeueLast \/ DequeueClearHead \/ DequeueClearTail
  \/ DequeueTest \/ DequeueAdvance \/ DequeueUnlink
  \/ LogSend \/ LogReceive

(* atomic() returns before it masks anything: a signal may land between two statements. *)
Next == Statement \/ kbd_i_proc

Spec == Init /\ [][Next]_vars

(* The executions in which every signal lands outside a primitive: those of Kernel. *)
SpecUninterrupted == Init /\ [][Statement \/ (AtRest /\ kbd_i_proc)]_vars
-----------------------------------------------------------------------------
(* Properties. *)

(* No lost wakeup: a process that waits to receive has no message.  This is what masking
   the signals "so atomicity is enforced" (kernal.c:137) is for. *)
NoLostWakeup == state = "BLOCKED_ON_RCV" => lists.head["PROC"] = NULL

(* The links of q lead from its head to its tail through s; an empty queue has neither. *)
Linked(L, q, s) ==
  IF s = <<>> THEN L.head[q] = NULL /\ L.tail[q] = NULL
  ELSE /\ L.head[q] = s[1] /\ L.tail[q] = Last(s)
       /\ \A i \in 1 .. Len(s) - 1 : L.next[s[i]] = s[i + 1]

(* Between two primitives each linked list holds what was put into the queue and not yet
   taken, first in, first out, an empty one has neither head nor tail (the assert at
   MsgEnvQueue.c:37), and each envelope is in one list, or with the process. *)
QueuesAreFifo ==
  AtRest =>
    /\ \A q \in Queues : Linked(lists, q, fifo[q]) /\ IsInjective(fifo[q])
    /\ Range(fifo["PROC"]) \cap Range(fifo["KB"]) = {}
    /\ hand = Envelopes \ (Range(fifo["PROC"]) \cup Range(fifo["KB"]))

(* Between two primitives the table printed for the command b shows the last events, oldest
   first, each once: it neither stops short of a full ring, whose head and tail are the
   same, nor goes past the tail of another (kernal.c:320).  Only of an empty ring it prints
   what it should not. *)
TraceIsRecent ==
  AtRest => \A b \in Events : logged[b] # <<>> => k_get_trace_buffer(trace[b]) = logged[b]
=============================================================================
