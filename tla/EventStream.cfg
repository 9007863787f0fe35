CONSTANTS
  Readers = {r1, r2}
  Clients = {c1}
  Cap = 2
  MaxSeq = 4
SPECIFICATION StreamFairSpec
CHECK_DEADLOCK FALSE
INVARIANTS StreamTypeOK SnapshotMeetsLive EndedStreamSawDone
PROPERTY StreamsEnd
