CONSTANTS
  MAX_FD_EVENTS = 2
  Fds = {1, 2}
  Persist = {1}
  WakeFd = 0
  Timers = {t1, t2}
  Threads = {a}
  Delays = {0, 1}
  MaxTime = 2
  NoTimeout = NoTimeout
SPECIFICATION FairSpec
INVARIANT EventsConsistent
PROPERTIES TimerFires WatchServed
