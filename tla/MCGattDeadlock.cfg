CONSTANTS
  t1 = t1
  t2 = t2
  c1 = c1
  c2 = c2
  Task = {t1, t2}
  Callback = Callback
  None = None
  Charac = {c1}
  MaxLinks = 2
  CallbackKinds = {"access"}
SPECIFICATION FairSpec
PROPERTIES
  NotificationReachesListeners
\* The device may be gone for good.
CHECK_DEADLOCK FALSE
