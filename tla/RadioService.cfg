SPECIFICATION Spec
CONSTANTS
  Versions = {14, 15}
  Cids = {1, 2}
  Profiles = {1, 2}
INVARIANTS
  RequestMemorySound
  AnswersFaithful
  ReadsWithinPayload
  HandledByOwnRow
  InterfaceIsFree
CHECK_DEADLOCK FALSE
