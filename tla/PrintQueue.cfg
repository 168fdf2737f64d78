CONSTANTS
  j1 = j1
  j2 = j2
  m1 = m1
  m2 = m2
  Jobs <- TwoJobs
  Models <- TwoModels
  NoRow = NoRow
  NoFile = NoFile
  Unknown = Unknown
  Mixed = Mixed
  Unread = Unread
  Scenarios <- Few
SPECIFICATION FairSpec
INVARIANTS DownloadIsWhole 
PROPERTIES DotConverges PageConverges BackfillEnds
CHECK_DEADLOCK FALSE
