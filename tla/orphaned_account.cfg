CONSTANTS
  MsgIds = {m1, m2}
  Accounts = {a1, a2}
  MaxVer = 1
  Priorities = {2}
  MaxRetries = 0
  MaxWait = 1
  Retention = 1
  QueueSize = 2
  None = None
  Handlers = {h1}
  BatchSizes = {2}
  RetryDelays <- MCDelays
  StartActive = TRUE
  Commands = {"deleteAccount"}
  MaxFaults = 0
SPECIFICATION FairSpec
PROPERTY AccountsAreIsolated
