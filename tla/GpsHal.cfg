SPECIFICATION FairSpec
CONSTANTS
  ConfFiles <- EpoOff
  MaxPieces = 1
  RetryLimit = 1
  DayZero = 13507
  MaxDay = 0
  GPS_MAX_SVS = 3
  GNSS_MAX_SVS = 4
  NMEA_MAX_SV_INFO = 2
  FixLines <- SmallFixLines
  SvLines <- SmallSvLines
  MaxInits = 2
  MaxFaults = 1
  MaxMessages = 1
INVARIANTS StartHandshake SessionAgreed CallbacksReady SvListSound FixOfThisSession
PROPERTY CallsReturn
CHECK_DEADLOCK FALSE
