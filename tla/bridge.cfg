\* A session with two commands beside the keep-alive thread.
SPECIFICATION FairSpec
CONSTANTS
  s1 = s1
  ka = ka
  Callers <- OneAndKeepAlive
  KeepAlive = ka
  MaxCalls = 4
  MaxRounds = 1
  MaxCommands <- JustTwo
  None = None
  Running = Running
  Home = Home
  Unset = Unset
  Garbage = Garbage
INVARIANTS
  TypeOK
  RestsAtLatest
  ReadsOwnWrites
PROPERTY
  CommandsReplied
CHECK_DEADLOCK FALSE
