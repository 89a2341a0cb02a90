SPECIFICATION FairSpec
CONSTANTS
  Connector = {m1}
  Stopper = {s1}
  User = {u1}
  GivesUp = {s1}
  MaxClients = 2
  MaxCalls = 4
  MaxAttempts = 1
  MaxDisconnects = 2
  None = None
INVARIANTS
  TypeOK
  NoClientOutOfReach
  ConnectedIsOpen
  

  
\* Callers stop after MaxCalls.
CHECK_DEADLOCK FALSE
