CONSTANTS
  MaxWrites = 2
  c1 = c1
  c2 = c2
  Char = {c1}
  None = None
  Kinds <- AllKinds
  MaxAttempts = 1
  MaxLosses = 0
  Statuses = {"ok", "error"}
  CallersMayCancel = TRUE
SPECIFICATION FairSpec
PROPERTIES
  QueueDrains
\* Callers stop after MaxWrites.
CHECK_DEADLOCK FALSE
