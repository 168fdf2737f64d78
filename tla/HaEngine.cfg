CONSTANTS
  p1 = p1
  e1 = e1
  on = on
  off = off
  Printers = {p1}
  Entities = {e1}
  Values <- TwoValues
  Ids = {1, 2, 3}
  NoValue = NoValue
  Scenarios <- Few
SPECIFICATION FairSpec
PROPERTIES FiresOncePerChange FirstReacts
CHECK_DEADLOCK FALSE
