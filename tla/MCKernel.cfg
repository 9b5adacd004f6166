CONSTANTS
  c1 = c1
  c2 = c2
  c3 = c3
  e1 = e1
  e2 = e2
  Clients = {c1, c2, c3}
  NullProc = NullProc
  KB = KB
  CRT = CRT
  TIMER = TIMER
  Envelopes = {e1, e2}
  FREE_ENV_QUEUE = FREE_ENV_QUEUE
  DISPLAYQ = DISPLAYQ
  NoPid = NoPid
  NUM_PRIORITY_LEVEL = 3
  Priority <- McPriority
SPECIFICATION Spec
SYMMETRY Symmetry
INVARIANTS TypeOK EnvelopesConserved SchedulerConsistent ServiceRequestsValid SwitchFindsProcess NoLostWakeup NoStrandedEnvelope
PROPERTIES DispatchByPriority ImplementsOwnership
