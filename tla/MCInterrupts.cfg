CONSTANTS
  CCI = CCI
  C = C
  NullProc = NullProc
  UserProcs = {CCI, C, NullProc}
  KB = KB
  CRT = CRT
  TIMER = TIMER
  MaxNesting = 4
SPECIFICATION Spec
INVARIANTS TypeOK CurrentRestored
CHECK_DEADLOCK FALSE
