CONSTANTS
  b1 = b1
  b2 = b2
  Boxes <- TwoBoxes
  v1 = v1
  v2 = v2
  Versions <- TwoVersions
  Starts <- Older
  Goals <- NewerOrAny
  NoVersion = NoVersion
  NoRow = NoRow
  Passes = 2
  Overlap = FALSE
  MaxRuns = 2
  Budgets <- Few
SPECIFICATION FairSpec
INVARIANTS TriggeredOnce SuccessIsEarned RetagFirst
PROPERTIES KeepsLedger RunsEnd
CHECK_DEADLOCK FALSE
