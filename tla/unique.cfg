CONSTANTS
  MsgIds = {m1, m2}
  Accounts = {a1}
  MaxVer = 1
  Priorities = {1, 2}
  MaxRetries = 1
  MaxWait = 1
  Retention = 1
  QueueSize = 2
  None = None
  Handlers = {h1}
  BatchSizes = {1, 2}
  RetryDelays <- MCDelays
  StartActive = TRUE
  Commands = {"cleanupMessages"}
  MaxFaults = 1
SPECIFICATION FairSpec
INVARIANTS
  ReportedWasTold
  OneOutcomeTold
  DispatchedIsDue
  OrderWithinAccount
PROPERTIES
  SentIsFinal
  ForgottenWasTold
  KeepsPromise
  EveryMessageSettles
  EveryOutcomeTold
