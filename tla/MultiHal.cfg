CONSTANTS
  queueCount = 2
  LocalHandle = {1}
  full_to_global <- MCFullToGlobal
  MaxEvents = 3
  Reports <- MCReports
  mCapacity = 2
  Garbage = Garbage
  MaxReads = {1, 2}
SPECIFICATION FairSpec
INVARIANT RegionIsPrivate
PROPERTIES RefinesStream EveryEventTaken WriterResumes
