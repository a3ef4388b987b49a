SPECIFICATION Spec
CONSTANTS
  Slots = {0}
  Workers = {w1, w2}
  Methods = {"CONNECT", "DISCONNECT", "APDU", "TRANSFER_ATR", "POWER", "RESET_SIM", "TRANSFER_CARD_READER_STATUS", "SET_TRANSFER_PROTOCOL"}
  MaxRequests = 2
  MaxUnsol = 1
  MaxDeaths = 1
  Several = {"APDU", "POWER"}
  Mixed = FALSE
INVARIANTS
  SapMemorySound
  SapAnswersTrue
PROPERTY SapAnswered
CHECK_DEADLOCK FALSE
