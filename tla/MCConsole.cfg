CONSTANTS
  CCI = CCI
  C = C
  Senders = {CCI, C}
  Cci = CCI
  NoSender = NoSender
SPECIFICATION Spec
INVARIANTS TypeOK SignalHasEnvelope LineWhole
PROPERTIES AckMeansDisplayedInTurn OutputConfirmed LineLostOnlyAtBoot AskedLineDelivered
CHECK_DEADLOCK FALSE
