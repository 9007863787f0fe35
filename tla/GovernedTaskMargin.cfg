CONSTANTS
  Agents = {a1, a2}
  TTL = 3
  Interval = 1
  Timeout = 1
  MaxToken = 2
  MaxLate = 0
SPECIFICATION Spec
CHECK_DEADLOCK FALSE
INVARIANT ChildUnderLease
