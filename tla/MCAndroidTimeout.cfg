SPECIFICATION Spec
CONSTANTS
  Connector = {m1}
  Stopper = {}
  User = {u1}
  GivesUp = {m1, u1}
  MaxClients = 2
  MaxCalls = 4
  MaxAttempts = 1
  MaxDisconnects = 1
  None = None
INVARIANTS
  NoClientLeaked
\* Callers stop after MaxCalls.
CHECK_DEADLOCK FALSE
