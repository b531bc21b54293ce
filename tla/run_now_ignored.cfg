CONSTANTS
  Modes = {TRUE}
  MaxReady = 1
  QueueSize = 1
SPECIFICATION FairSpec
PROPERTY RunNowWakesDispatcher
