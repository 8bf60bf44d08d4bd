CONSTANTS
  Queues = {on_indexed, on_request}
  Consumers = {i1, i2, i3}
  NotifyAll = TRUE
  MaxPushes = 3
SPECIFICATION FairSpec
INVARIANTS NoLostWakeup QuitReachesAll
PROPERTY QuitTerminates
CHECK_DEADLOCK FALSE
