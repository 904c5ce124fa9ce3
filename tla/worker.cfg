\* Start, three requests, Terminate, the loss of the device.
SPECIFICATION FairSpec
CONSTANTS
  c1 = c1
  c2 = c2
  q1 = q1
  Jobs <- ThreeJobs
  Queries <- OneQuery
  NoJob = NoJob
  MayTerminate = TRUE
INVARIANTS
  TypeOK
  NoLostWakeup
  EachJobOnce
  FailureIsLast
  EmptyPopMeansClosing
  LeftWorkerRefuses
PROPERTIES
  TerminateIsFinal
  AdmittedAnswered
  TerminateReturnsAfterJob
  Implements
CHECK_DEADLOCK FALSE
