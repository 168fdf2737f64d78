CONSTANTS
  p1 = p1
  e1 = e1
  on = on
  off = off
  Printers = {p1}
  Entities = {e1}
  Values <- TwoValues
  Ids = {1, 2}
  NoValue = NoValue
  Scenarios <- Pair
SPECIFICATION FairSpec
PROPERTIES EveryReacts
CHECK_DEADLOCK FALSE
