----------------------------- MODULE TraceBuffer -----------------------------
(***************************************************************************)
(* The ring that k_send_message and k_receive_message log events in, and   *)
(* what k_get_trace_buffer prints of it.  An entry is whatever is logged.  *)
(***************************************************************************)
EXTENDS Naturals, Sequences

CONSTANT TRACE_LOG_SIZE

ASSUME TraceLogSize == TRACE_LOG_SIZE \in Nat \ {0}

(* The places of trace_log. *)
Places == 0 .. TRACE_LOG_SIZE - 1

TraceBuffers(Entry) ==
  [head : Places, count : 0 .. TRACE_LOG_SIZE, trace_log : [Places -> Entry]]

(* The tables are zero before anything is logged. *)
EmptyTrace(zero) == [head |-> 0, count |-> 0, trace_log |-> [i \in Places |-> zero]]

get_trace_tail(buf) == (buf.head + buf.count) % TRACE_LOG_SIZE

(* k_log_event: the entry is written at the tail computed before, then the ring grows ... *)
WriteEntry(buf, tail, entry) == [buf EXCEPT !.trace_log[tail] = entry]

(* Mutant: the head of a full ring stays. *)
Advance_Not(buf) ==
  IF buf.count = TRACE_LOG_SIZE THEN buf ELSE [buf EXCEPT !.count = @ + 1]

(* ... or, when it is full, turns. *)
Advance(buf) ==
  IF buf.count = TRACE_LOG_SIZE
  THEN [buf EXCEPT !.head = (@ + 1) % TRACE_LOG_SIZE]
  ELSE [buf EXCEPT !.count = @ + 1]

k_log_event(buf, entry) == Advance(WriteEntry(buf, get_trace_tail(buf), entry))

(* The do-while of k_get_trace_buffer prints at least one row, and goes on until it comes
   to the tail. *)
RowCount(buf) ==
  CHOOSE n \in 1 .. TRACE_LOG_SIZE : (buf.head + n) % TRACE_LOG_SIZE = get_trace_tail(buf)

Row(buf, i) == buf.trace_log[(buf.head + i - 1) % TRACE_LOG_SIZE]

k_get_trace_buffer(buf) == [i \in 1 .. RowCount(buf) |-> Row(buf, i)]
=============================================================================
