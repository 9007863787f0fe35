CONSTANTS
  Agents = {a1, a2}
  TTL = 4
  Interval = 1
  Timeout = 1
  MaxToken = 2
  MaxLate = 0
SPECIFICATION Spec
SYMMETRY AgentSymmetry
CHECK_DEADLOCK FALSE
INVARIANTS TypeOK ChildUnderLease CompletedIsPersisted
PROPERTIES PushIsFresh ImplementsFencedWork
