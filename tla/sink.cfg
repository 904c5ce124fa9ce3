\* Requests of three sessions, no keep-alive thread.
SPECIFICATION FairSpec
CONSTANTS
  j1 = j1
  j2 = j2
  j3 = j3
  k1 = k1
  k2 = k2
  Jobs <- ThreeJobs
  Chains <- TwoChains
  KeepAlive = KeepAlive
  WithKeepAlive = FALSE
  MayFail = TRUE
  Values <- TwoAngles
  Home = 0
  Query = Query
  Requests <- AziOrQuery
  Unset = Unset
INVARIANTS
  TypeOK
  SamplingHasOwner
PROPERTIES
  Implements
  SamplingEnds
CHECK_DEADLOCK FALSE
