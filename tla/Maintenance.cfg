CONSTANTS
  clean = clean
  oil = oil
  a1 = a1
  Types <- TwoTypes
  Lists <- Extended
  Admins <- OneAdmin
  Grace = 1
  Renewing <- None
  NoSave = NoSave
  NoSeed = NoSeed
  MaxHours = 3
  Budgets <- Few
SPECIFICATION FairSpec
INVARIANTS TypeOK ServedOnce SchedulesFollowList RepeatedOnlyForBackstop
PROPERTIES DueIsOpened OverdueIsMarked
CHECK_DEADLOCK FALSE
