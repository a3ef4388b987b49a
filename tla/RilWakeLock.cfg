CONSTANTS
  Infos = {i1, i2, i3}
  NoInfo = NoInfo
  Senders = {s1, s2}
SPECIFICATION WakeFairSpec
INVARIANT HeldHasTimer
PROPERTY LockReleased
