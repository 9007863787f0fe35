CONSTANTS
  Calls = {1, 2, 3}
  Ids = {1, 2, 3}
  Threads = {1, 2}
  IdOf <- OwnIds
  ThreadOf <- OneThread
  MAX_ACTIVE_TASKS = 3
  Cancels = {}
  NoCall = 0
  NoId = 0
SPECIFICATION RegistrySpec
CHECK_DEADLOCK FALSE
INVARIANT SerialPerThread
