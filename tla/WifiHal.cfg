SPECIFICATION Spec
CONSTANTS
  AllocCmd = 2
  AllocCb = 64
  Counts = {1, 300, 400}
  RTT_MAX_RESULTS = 1
  MaxOverrun = 2
  MaxObjects = 2
  Companions = {"Scan", "Rtt"}
  MaxEvents = 1
INVARIANTS
  NoFreedCommand
  ListensWhileWanted
  WholeRequestsOnly
  WithinRoom
  ReleasesInOrder
PROPERTY CleanupReturns
CHECK_DEADLOCK FALSE
