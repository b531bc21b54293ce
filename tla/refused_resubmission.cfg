CONSTANTS
  MsgIds = {m1}
  Accounts = {a1}
  MaxVer = 2
  Priorities = {2}
  MaxRetries = 0
  MaxWait = 1
  Retention = 1
  QueueSize = 1
  None = None
  Handlers = {h1}
  BatchSizes = {1}
  RetryDelays <- MCDelays
  StartActive = TRUE
  Commands = {"foreign"}
  MaxFaults = 0
SPECIFICATION Spec
PROPERTY SentOutlivesRefusal
