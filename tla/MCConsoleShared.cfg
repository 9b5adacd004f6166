CONSTANTS
  CCI = CCI
  C = C
  Senders = {CCI, C}
  Cci = CCI
  NoSender = NoSender
SPECIFICATION Spec
PROPERTY AckMeansDisplayed
CHECK_DEADLOCK FALSE
