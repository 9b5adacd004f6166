CONSTANTS
  e1 = e1
  e2 = e2
  e3 = e3
  Envelopes = {e1, e2, e3}
  Delays = {0, 1}
  FloatLimit = 16
SPECIFICATION Spec
INVARIANTS TypeOK Sorted NeverLate
PROPERTIES NotEarly DelaysEnd
CHECK_DEADLOCK FALSE
