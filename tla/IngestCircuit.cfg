CONSTANTS
  Senders = {s1, s2, s3}
  Attempts = 2
  CIRCUIT_FAILURE_THRESHOLD = 3
  Reset = 2
SPECIFICATION IngestSpec
INVARIANT OpensOnStreak
PROPERTY CircuitRecovers
