CONSTANTS
  Calls = {1, 2, 3}
  Ids = {1, 2, 3}
  Threads = {1, 2}
  IdOf <- OwnIds
  ThreadOf <- TwoThreads
  MAX_ACTIVE_TASKS = 2
  Cancels = {2}
  NoCall = 0
  NoId = 0
SPECIFICATION RegistryFairSpec
CHECK_DEADLOCK FALSE
INVARIANT RegistryTypeOK
PROPERTIES GcSparesUnfinished SweptSessionIsIdle CancelledInQueueNeverRuns EveryDispatchEnds
