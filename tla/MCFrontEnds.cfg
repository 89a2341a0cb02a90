SPECIFICATION FairSpec
CONSTANTS
  Addr = {d1, d2}
  App = {t1}
  Pump = Pump
  WebView = {v1}
  Mirror = Mirror
  Capacity = 1
  MaxConnects = 2
  None = None
INVARIANTS
  TypeOK
  EveryReportIsHeard
  MirrorIsCurrent
PROPERTIES
  EveryReportEnds
\* The app may stop using the devices.
CHECK_DEADLOCK FALSE
