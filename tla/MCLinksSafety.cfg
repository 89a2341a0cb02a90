CONSTANTS
  c1 = c1
  c2 = c2
  Addr = {a1}
  Caller <- Tasks
  Pump = pump
  None = None
  MaxAttempts = 2
  MaxCalls = 2
  MaxDrops = 1
  Ops = {"connect", "disconnect", "discover"}
  Faults = {"drop", "silent", "retry", "power", "query", "refuse"}
SYMMETRY TaskSymmetry
SPECIFICATION Spec
INVARIANTS
  TypeOK
  PendingLinkHasConnector
  TemporaryLinkHasDiscovery
  NoCallbackIsLost
  ClosedLinkIsDone
PROPERTIES
  CallbackPromise
  DisconnectIsExact
\* Callers may stop calling, and MaxCalls stops them.
CHECK_DEADLOCK FALSE
