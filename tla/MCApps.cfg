CONSTANTS
  e1 = e1
  e2 = e2
  e3 = e3
  e4 = e4
  e5 = e5
  e6 = e6
  A = A
  B = B
  C = C
  CCI = CCI
  CLOCK = CLOCK
  NullProc = NullProc
  KB = KB
  CRT = CRT
  TIMER = TIMER
  FREE_ENV_QUEUE = FREE_ENV_QUEUE
  DISPLAYQ = DISPLAYQ
  NoPid = NoPid
  NoEnv = NoEnv
  Clients = {A, B, C, CCI, CLOCK}
  Envelopes <- McEnvelopes
  MSG_LIST <- McMsgList
  NUM_PRIORITY_LEVEL = 4
  Priority <- McPriority
  REPORT_EVERY = 3
  COUNT_LIMIT = 3
SPECIFICATION AppSpec
INVARIANTS ReportsInOrder CommandsNeverStarve ResentOnlyIfUnconfirmed TwoDelaysAtMost
PROPERTIES FloodDrains
