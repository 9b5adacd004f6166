CONSTANTS
  c1 = c1
  c2 = c2
  c3 = c3
  CCI = CCI
  A = A
  B = B
  C = C
  Clients = {c1, c2, c3}
  NullProc = NullProc
  Cci = c1
  NULL = NULL
  NUM_PRIORITY_LEVEL = 3
  InitPriority <- McPriority
  MaxCommands = 3
SPECIFICATION SpecKeepingTails
INVARIANTS TypeOK AssertsHold ListsWellFormed
PROPERTIES ImplementsFifoScheduler ReadyEventuallyRuns
