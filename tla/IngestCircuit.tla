---------------------------- MODULE IngestCircuit ----------------------------
(***************************************************************************)
(* The circuit breaker of the event-ingest side channel: circuit_allows,   *)
(* record_failure, record_success and spawn_ingest (src/event_bus.rs).     *)
(*                                                                         *)
(* Every event that the circuit allows has a sender of its own, a spawned  *)
(* task with several attempts; senders outlive the state of the circuit    *)
(* that let them start.  Time is kept as the age of the last failure, and  *)
(* the length of a backoff is left open.                                   *)
(***************************************************************************)
EXTENDS Naturals, FiniteSets

CONSTANTS
  Senders,    \* bound: senders in flight at once
  Attempts,   \* attempts of a sender, 5
  CIRCUIT_FAILURE_THRESHOLD,
  Reset       \* CIRCUIT_RESET_MS, in ticks

ASSUME IngestAssumption ==
  /\ IsFiniteSet(Senders) /\ Reset \in Nat
  /\ Attempts \in Nat \ {0} /\ CIRCUIT_FAILURE_THRESHOLD \in Nat \ {0}

VARIABLES
  circuit,   \* [consecutive_failures, is_open]
  age,       \* ticks since last_fail_at, up to Reset + 1
  attempt,   \* attempt of each sender; 0 when it is not in flight
  streak     \* history: exhausted senders since a success or a reset

ivars == <<circuit, age, attempt, streak>>

Closed == [consecutive_failures |-> 0, is_open |-> FALSE]

IngestInit ==
  /\ circuit = Closed /\ age = Reset + 1
  /\ attempt = [s \in Senders |-> 0] /\ streak = 0

\* Faulty variant: an open circuit never lets a probe through.
CircuitAllowsNoProbe == ~circuit.is_open /\ UNCHANGED <<circuit, streak>>

\* circuit_allows is also what closes the circuit again, when the next event
\* comes after the window.
CircuitAllows ==
  \/ ~circuit.is_open /\ UNCHANGED <<circuit, streak>>
  \/ circuit.is_open /\ age > Reset /\ circuit' = Closed /\ streak' = 0

\* An event that is not allowed is dropped from this channel.
SpawnIngest(s) ==
  /\ attempt[s] = 0 /\ CircuitAllows
  /\ attempt' = [attempt EXCEPT ![s] = 1]
  /\ UNCHANGED age

RecordFailure ==
  LET failures == circuit.consecutive_failures + 1
  IN  /\ circuit' = [consecutive_failures |-> failures,
                     is_open |-> circuit.is_open \/ failures >= CIRCUIT_FAILURE_THRESHOLD]
      /\ age' = 0 /\ streak' = streak + 1

\* Faulty variant: only an open circuit is reset.
RecordSuccessOpenOnly ==
  /\ circuit' = IF circuit.is_open THEN Closed ELSE circuit
  /\ streak' = 0 /\ UNCHANGED age

RecordSuccess == circuit' = Closed /\ streak' = 0 /\ UNCHANGED age

AttemptSucceeds(s) ==
  /\ attempt[s] > 0 /\ attempt' = [attempt EXCEPT ![s] = 0]
  /\ RecordSuccess

AttemptFails(s) ==
  /\ attempt[s] \in 1..(Attempts - 1) /\ attempt' = [attempt EXCEPT ![s] = @ + 1]
  /\ UNCHANGED <<circuit, age, streak>>

LastAttemptFails(s) ==
  /\ attempt[s] = Attempts /\ attempt' = [attempt EXCEPT ![s] = 0]
  /\ RecordFailure

Tick ==
  /\ age' = IF age <= Reset THEN age + 1 ELSE age
  /\ UNCHANGED <<circuit, attempt, streak>>

Emit == \E s \in Senders : SpawnIngest(s)
Answered(s) == AttemptSucceeds(s) \/ AttemptFails(s) \/ LastAttemptFails(s)
IngestNext == Emit \/ Tick \/ \E s \in Senders : Answered(s)

\* The clock runs, requests and backoffs end, and events keep coming.
IngestSpec ==
  /\ IngestInit /\ [][IngestNext]_ivars
  /\ WF_ivars(Tick) /\ WF_ivars(Emit) /\ \A s \in Senders : WF_ivars(Answered(s))

-----------------------------------------------------------------------------
(* Properties *)

\* The circuit is open exactly when CIRCUIT_FAILURE_THRESHOLD senders gave up
\* with no success and no reset in between, also when senders that started
\* under an earlier state of the circuit report late.
OpensOnStreak == circuit.is_open <=> streak >= CIRCUIT_FAILURE_THRESHOLD

\* An open circuit closes again as long as events are emitted, although late
\* failures restart its window and only the next event after it closes it.
CircuitRecovers == circuit.is_open ~> ~circuit.is_open
-----------------------------------------------------------------------------
(* Inductive invariant (IngestCircuitProofs) *)

\* The breaker's own counter is the streak, and decides.
StreakInv ==
  /\ circuit \in [consecutive_failures : Nat, is_open : BOOLEAN]
  /\ circuit.consecutive_failures = streak
  /\ OpensOnStreak
=============================================================================
