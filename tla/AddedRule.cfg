CONSTANTS
  p1 = p1
  e1 = e1
  on = on
  off = off
  Printers = {p1}
  Entities = {e1}
  Values <- TwoValues
  Ids = {1, 2}
  NoValue = NoValue
  Scenarios <- Lone
SPECIFICATION Spec
PROPERTIES AddedRuleWaits
CHECK_DEADLOCK FALSE
