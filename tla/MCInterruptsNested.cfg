CONSTANTS
  CCI = CCI
  C = C
  NullProc = NullProc
  UserProcs = {CCI, C, NullProc}
  KB = KB
  CRT = CRT
  TIMER = TIMER
  MaxNesting = 2
SPECIFICATION Spec
INVARIANT AssertsHold
CHECK_DEADLOCK FALSE
