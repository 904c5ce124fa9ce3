\* Expected to fail: see the finding on ResponseMatchesRequest.
SPECIFICATION Spec
CONSTANTS
  s1 = s1
  s2 = s2
  Callers <- OneCaller
  Timed <- OneCaller
  MaxCalls = 2
  None = None
  Running = Running
INVARIANT
  ResponseMatchesRequest
CHECK_DEADLOCK FALSE
