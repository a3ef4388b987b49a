SPECIFICATION FairSpec
CONSTANTS
  Addr = {a1, a2}
  Slots = {0, 1}
  Workers = {w1, w2}
  MaxSerial = 2
  Callers = {hidl, urc}
  Hidl = hidl
  MaxLocal = 1
  None = None
INVARIANTS
  NoDanglingRequest
  AnsweredOnce
PROPERTY
  EveryRequestAnswered
