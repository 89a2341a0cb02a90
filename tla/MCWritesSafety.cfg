CONSTANTS
  MaxWrites = 2
  c1 = c1
  c2 = c2
  Char = {c1, c2}
  None = None
  Kinds <- WaitingKinds
  MaxAttempts = 1
  MaxLosses = 1
  Statuses = {"ok", "transient"}
  CallersMayCancel = TRUE
SYMMETRY CharsAlike
SPECIFICATION Spec
INVARIANTS
  TypeOK
  NoStalledQueue
  SentWriteIsAnswered
  InOrder
  ResolvedMeansDelivered
  WithResponseSentOnce
\* Callers stop after MaxWrites.
CHECK_DEADLOCK FALSE
