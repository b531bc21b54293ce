CONSTANTS
  MsgIds = {m1}
  Accounts = {a1}
  MaxVer = 2
  Priorities = {2}
  MaxRetries = 1
  MaxWait = 1
  Retention = 1
  QueueSize = 1
  None = None
  Handlers = {h1, h2}
  BatchSizes = {1}
  RetryDelays <- MCDelays
  StartActive = FALSE
  Commands = {"foreign", "malformed", "noAccount", "deleteMessages", "deleteAccount",
              "suspend", "cleanupMessages"}
  MaxFaults = 1
SYMMETRY MCSymmetry
SPECIFICATION Spec
INVARIANTS
  TypeOK
  DuplicatesArePaidFor
  AttemptsWithinBudget
  SentMeansTaken
PROPERTIES
  QueuedNeverDropped
  DeletedStaysDeleted
