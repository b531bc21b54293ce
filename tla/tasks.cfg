CONSTANTS
  Modes = {TRUE, FALSE}
  MaxReady = 2
  QueueSize = 2
SPECIFICATION FairSpec
INVARIANTS
  TypeOK
  NoLostWakeup
  StopIsPrompt
PROPERTIES
  StopCompletes
  QueueIsServed
  OutcomesPosted
