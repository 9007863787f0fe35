CONSTANTS
  Resources = {task, leader}
  Holders = {a, b}
  NoHolder = none
  Ttls = {1, 2}
  Jobs = {job}
  Keys = {k1, k2}
  Values = {v1, v2}
  EffectKeys = {e}
  MaxTime = 3
  MaxClaims = 3
  MaxWrites = 2
  Workers = {w1, w2, w3}
  SlotCapacity = 2
  QuotaCapacity = 2
  Window = 2
  MaxBeats = 2
SPECIFICATION FleetSpec
CHECK_DEADLOCK FALSE
CONSTRAINT OneFamily
INVARIANTS OneAuthority WatchMatchesStore CapacityIsBounded LapsesCountedOnce
PROPERTIES StaleStaysStale CommitsInOrder
