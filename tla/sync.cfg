\* A session with a timeout next to a caller without one.
SPECIFICATION FairSpec
CONSTANTS
  s1 = s1
  s2 = s2
  Callers <- TwoCallers
  Timed <- OneCaller
  MaxCalls = 2
  None = None
  Running = Running
INVARIANTS
  TypeOK
  CleanCallExact
  ForeignIsAbandoned
PROPERTIES
  TimedCallEnds
  Implements
CHECK_DEADLOCK FALSE
