CONSTANTS
  c1 = c1
  c2 = c2
  c3 = c3
  CCI = CCI
  A = A
  B = B
  C = C
  Clients = {CCI, A, B, C}
  NullProc = NullProc
  Cci = CCI
  NULL = NULL
  NUM_PRIORITY_LEVEL = 3
  InitPriority <- McTable
  MaxCommands = 1
SPECIFICATION Spec
INVARIANT AssertsHold
