CONSTANTS
  c1 = c1
  c2 = c2
  Addr = {a1}
  Caller <- OneTask
  Pump = pump
  None = None
  MaxAttempts = 1
  MaxCalls = 3
  MaxDrops = 2
  Ops = {"connect", "disconnect"}
  Faults = {"drop", "retry", "power", "twice", "query"}
SPECIFICATION Spec
INVARIANTS
  AgreeWhenQuiet
\* Callers may stop calling, and MaxCalls stops them.
CHECK_DEADLOCK FALSE
