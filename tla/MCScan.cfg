CONSTANTS
  t1 = t1
  t2 = t2
  t3 = t3
  Task = {t1, t2, t3}
  Ops = {"discover", "find", "stop"}
  Faults = {"refuse", "drop"}
  MaxScans = 3
  MaxCalls = 1
  None = None
SPECIFICATION FairSpec
INVARIANTS
  TypeOK
  NoOrphanScan
PROPERTIES
  RejectedOnlyDuringStop
  ScanningEnds
\* Callers stop after MaxCalls.
CHECK_DEADLOCK FALSE
