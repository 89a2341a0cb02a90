CONSTANTS
  t1 = t1
  p1 = p1
  p2 = p2
  s1 = s1
  Task = {t1, p1, p2}
  Streams = {t1, p1, p2}
  Pumps = {p1, p2}
  None = None
  Starter = {s1}
  MaxEmits = 1
SPECIFICATION FairSpec
INVARIANTS
  TypeOK
  EntriesAreExact
  PumpHearsEvents
PROPERTIES
  CallsPromise
  EveryCallEnds
\* Each task makes one call.
CHECK_DEADLOCK FALSE
