CONSTANTS
  Services = {s1, s2}
  Radio = {s1}
  Clients = {1, 2}
  Vendor = {v1, v2}
  Binder = b
  None = None
  MaxMessages = 2
  MaxNitz = 1
SPECIFICATION FairSpec
INVARIANT CallbackStable
PROPERTIES ResetsOnlyDead ConnectReturns
CHECK_DEADLOCK FALSE
