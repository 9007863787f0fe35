------------------------- MODULE IngestCircuitProofs -------------------------
(* Machine-checked proof that the breaker opens exactly on a streak, for any  *)
(* senders, attempts, threshold and window.                                   *)
EXTENDS IngestCircuit, TLAPS

\* Nothing has failed in a new process.
LEMMA StreakInit == IngestInit => StreakInv
BY IngestAssumption DEF IngestInit, StreakInv, OpensOnStreak, Closed

\* Every report of a sender, whenever it started, and every event that asks
\* keeps the breaker's counter equal to the streak.
LEMMA StreakStep ==
  ASSUME StreakInv, [IngestNext]_ivars
  PROVE  StreakInv'
<1> USE IngestAssumption
<1>1. ASSUME NEW s \in Senders, SpawnIngest(s) PROVE StreakInv'
  <2>1. CASE UNCHANGED <<circuit, streak>>
    BY <2>1 DEF StreakInv, OpensOnStreak
  <2>2. CASE circuit' = Closed /\ streak' = 0
    BY <2>2 DEF Closed, StreakInv, OpensOnStreak
  <2> QED
    BY <1>1, <2>1, <2>2 DEF SpawnIngest, CircuitAllows
<1>2. CASE Tick
  BY <1>2 DEF Tick, StreakInv, OpensOnStreak
<1>3. ASSUME NEW s \in Senders, AttemptSucceeds(s) PROVE StreakInv'
  BY <1>3 DEF AttemptSucceeds, RecordSuccess, Closed, StreakInv, OpensOnStreak
<1>4. ASSUME NEW s \in Senders, AttemptFails(s) PROVE StreakInv'
  BY <1>4 DEF AttemptFails, StreakInv, OpensOnStreak
<1>5. ASSUME NEW s \in Senders, LastAttemptFails(s) PROVE StreakInv'
  <2>1. /\ circuit' = [consecutive_failures |-> circuit.consecutive_failures + 1,
                       is_open |-> \/ circuit.is_open
                                   \/ circuit.consecutive_failures + 1 >= CIRCUIT_FAILURE_THRESHOLD]
        /\ streak' = streak + 1
    BY <1>5 DEF LastAttemptFails, RecordFailure
  <2>2. streak' >= CIRCUIT_FAILURE_THRESHOLD
          <=> streak >= CIRCUIT_FAILURE_THRESHOLD \/ streak + 1 >= CIRCUIT_FAILURE_THRESHOLD
    BY <2>1 DEF StreakInv
  <2>3. circuit'.is_open <=> circuit.is_open \/ streak + 1 >= CIRCUIT_FAILURE_THRESHOLD
    BY <2>1 DEF StreakInv
  <2>4. /\ circuit' \in [consecutive_failures : Nat, is_open : BOOLEAN]
        /\ circuit'.consecutive_failures = streak'
    BY <2>1 DEF StreakInv
  <2> QED
    BY <2>2, <2>3, <2>4 DEF StreakInv, OpensOnStreak
<1>6. CASE UNCHANGED ivars
  BY <1>6 DEF ivars, StreakInv, OpensOnStreak
<1> QED
  BY <1>1, <1>2, <1>3, <1>4, <1>5, <1>6 DEF IngestNext, Emit, Answered

\* The breaker is open exactly when CIRCUIT_FAILURE_THRESHOLD senders gave up
\* since the last success or reset, whatever late senders report.
THEOREM BreakerOpensOnStreak == IngestSpec => []OpensOnStreak
<1>1. StreakInv => OpensOnStreak
  BY DEF StreakInv
<1> QED
  BY <1>1, StreakInit, StreakStep, PTL DEF IngestSpec
=============================================================================
