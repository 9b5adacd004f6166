CONSTANTS
  e1 = e1
  e2 = e2
  e3 = e3
  Envelopes = {e1, e2, e3}
  NULL = NULL
  TRACE_LOG_SIZE = 3
SPECIFICATION SpecUninterrupted
INVARIANTS NoLostWakeup QueuesAreFifo TraceIsRecent
CHECK_DEADLOCK FALSE
