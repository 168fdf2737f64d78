CONSTANTS
  Printers = {p1}
  a = a
  b = b
  Jobs = {a, b}
  NoJob = NoJob
  Polls = {r1, r2}
  NoInfo = NoInfo
  NoList = NoList
  Scenarios <- Few
SPECIFICATION FairSpec
INVARIANTS ToldOnce
PROPERTIES ViewConverges PendingIsResolved
CHECK_DEADLOCK FALSE
