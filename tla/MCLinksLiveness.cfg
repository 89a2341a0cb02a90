CONSTANTS
  c1 = c1
  c2 = c2
  Addr = {a1}
  Caller <- Tasks
  Pump = pump
  None = None
  MaxAttempts = 1
  MaxCalls = 2
  MaxDrops = 1
  Ops = {"connect", "disconnect", "discover"}
  Faults = {"drop", "power"}
SPECIFICATION FairSpec
PROPERTIES
  EveryCallReturns
  LostLinkRunsCallback
\* Callers may stop calling, and MaxCalls stops them.
CHECK_DEADLOCK FALSE
