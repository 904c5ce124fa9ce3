\* A client that changes the target, and the keep-alive thread.
SPECIFICATION FairSpec
CONSTANTS
  j1 = j1
  j2 = j2
  j3 = j3
  k1 = k1
  k2 = k2
  Jobs <- OneJob
  Chains <- TwoChains
  KeepAlive = KeepAlive
  WithKeepAlive = TRUE
  MayFail = FALSE
  Values <- TwoAngles
  Home = 0
  Query = Query
  Requests <- AziOrQuery
  Unset = Unset
PROPERTY
  KeepAliveRestores
CHECK_DEADLOCK FALSE
