CONSTANTS
  Agents = {a1}
  TTL = 5
  Interval = 2
  Timeout = 1
  MaxToken = 2
  MaxLate = 1
SPECIFICATION FairSpec
CHECK_DEADLOCK FALSE
PROPERTIES EveryTaskEnds RunningIsResolved
