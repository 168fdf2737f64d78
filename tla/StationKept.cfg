CONSTANTS
  s1 = s1
  s2 = s2
  s3 = s3
  t1 = t1
  t2 = t2
  pla = pla
  petg = petg
  Trays <- OneTray
  Spools <- ThreeSpools
  Types <- TwoTypes
  Unused = Unused
  Gone = Gone
  NoRow = NoRow
  NoSpool = NoSpool
  Scenarios <- OneRequest
SPECIFICATION Spec
INVARIANTS KeptInPlace
CHECK_DEADLOCK FALSE
