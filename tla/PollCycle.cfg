CONSTANTS
  p1 = p1
  p2 = p2
  t0 = t0
  t1 = t1
  Printers <- TwoPrinters
  Jobs = {a, b}
  Configs = {c1, c2}
  Targets <- TwoTargets
  NoTarget = t0
  Echoing <- OnePrinter
  NoRow = NoRow
  NoJob = NoJob
  NoPrinter = NoPrinter
  NoSig = NoSig
  Grace = 2
  Heartbeat = 2
  Scenarios <- Each
  MaxFaults = 1
SPECIFICATION FairSpec
INVARIANTS TargetLostOnlyInFlight EditLostOnlyInFlight HoursSurviveUpsert CountedOncePerPrint
PROPERTIES NoJobVanishesUncounted OfflineOnlyAfterGrace RowsConverge
