SPECIFICATION Spec
CONSTANTS
  ConfFiles <- SmallConfs
  MaxPieces = 2
  RetryLimit = 2
  DayZero = 13507
  MaxDay = 1
PROPERTIES EpoWhole RetryEnds
INVARIANT EpoTimesRight
CHECK_DEADLOCK FALSE
