-------------------------------- MODULE Outbox --------------------------------
(***************************************************************************)
(* The durable outbox of lifecycle events: src/nats.rs.  Every event is a  *)
(* file in the pending directory until JetStream acknowledges it, or in    *)
(* the dead-letter directory once its attempts are used up.  One drain     *)
(* runs at a time (outbox_gate); every file operation may fail and the     *)
(* process may die between any two of them.  JetStream is external: it may *)
(* store a message and its acknowledgement be lost; a redelivery carries   *)
(* the same dedup id, so the stream is the SET of messages it stores.      *)
(***************************************************************************)
EXTENDS Naturals, FiniteSets

CONSTANTS
  Events,       \* message ids, in the order of (created_at_ms, message_id)
  MaxAttempts,  \* nats_outbox_max_attempts after with_outbox's max(1)
  MaxCrashes    \* bound: how often the process dies

ASSUME OutboxAssumption ==
  /\ Events \subseteq Nat /\ IsFiniteSet(Events)
  /\ MaxAttempts \in Nat \ {0} /\ MaxCrashes \in Nat

VARIABLES
  pending, dead,    \* files in the outbox and in dead-letter/
  attempts,         \* OutboxRecord.attempts of each file
  backoff,          \* files whose next_attempt_at_ms lies in the future
  stored,           \* external: the stream
  up, crashes,
  emitted,          \* where each event's publish_event call is
  phase,            \* where the holder of outbox_gate is ("free": nobody)
  cur, due,         \* its record in hand, its due records
  client,           \* ConnectionState.client is cached
  outbox_pending, dead_lettered,   \* gauges
  accepted          \* history: events that persist_record took

files == <<pending, dead, attempts, backoff>>
gauges == <<outbox_pending, dead_lettered>>
obvars == <<files, stored, up, crashes, emitted, phase, cur, due, client, gauges, accepted>>

Phases == {"free", "persist", "read", "scan", "connect", "publish", "ack", "unack", "bury"}

OutboxTypeOK ==
  /\ pending \subseteq Events /\ dead \subseteq Events
  /\ attempts \in [Events -> 0..MaxAttempts]
  /\ backoff \subseteq Events /\ stored \subseteq Events
  /\ up \in BOOLEAN /\ crashes \in 0..MaxCrashes
  /\ emitted \in [Events -> {"no", "waiting", "locked", "yes", "gone"}]
  /\ phase \in Phases
  /\ cur \in Events /\ due \subseteq Events
  /\ client \in BOOLEAN
  /\ outbox_pending \in Nat /\ dead_lettered \in Nat
  /\ accepted \subseteq Events

OutboxInit ==
  /\ pending = {} /\ dead = {} /\ backoff = {} /\ stored = {}
  /\ attempts = [e \in Events |-> 0]
  /\ up = TRUE /\ crashes = 0
  /\ emitted = [e \in Events |-> "no"]
  /\ phase = "free" /\ cur \in Events /\ due = {}
  /\ client = FALSE
  /\ outbox_pending = 0 /\ dead_lettered = 0
  /\ accepted = {}

\* read_records sorts: the records of S are taken from the first on.
First(S) == {e \in S : \A f \in S : e <= f}

-----------------------------------------------------------------------------
(* publish_event *)

\* An event is emitted: a task is spawned for it (spawn_nats).
Emit(e) ==
  /\ up /\ emitted[e] = "no"
  /\ emitted' = [emitted EXCEPT ![e] = "waiting"]
  /\ UNCHANGED <<files, stored, up, crashes, phase, cur, due, client, gauges, accepted>>

\* An envelope that does not encode is refused before the gate.
RefuseEnvelope(e) ==
  /\ up /\ emitted[e] = "waiting"
  /\ emitted' = [emitted EXCEPT ![e] = "gone"]
  /\ UNCHANGED <<files, stored, up, crashes, phase, cur, due, client, gauges, accepted>>

LockGate(e) ==
  /\ up /\ emitted[e] = "waiting" /\ phase = "free"
  /\ phase' = "persist" /\ cur' = e
  /\ emitted' = [emitted EXCEPT ![e] = "locked"]
  /\ UNCHANGED <<files, stored, up, crashes, due, client, gauges, accepted>>

\* persist_record: a temporary file renamed into place, or an error.
PersistRecord ==
  /\ phase = "persist"
  /\ pending' = pending \cup {cur}
  /\ attempts' = [attempts EXCEPT ![cur] = 0]
  /\ outbox_pending' = outbox_pending + 1
  /\ accepted' = accepted \cup {cur}
  /\ emitted' = [emitted EXCEPT ![cur] = "yes"]
  /\ phase' = "read"
  /\ UNCHANGED <<dead, backoff, stored, up, crashes, cur, due, client, dead_lettered>>

PersistFails ==
  /\ phase = "persist"
  /\ emitted' = [emitted EXCEPT ![cur] = "gone"]
  /\ phase' = "free"
  /\ UNCHANGED <<files, stored, up, crashes, cur, due, client, gauges, accepted>>

-----------------------------------------------------------------------------
(* drain_locked *)

\* The holder returns: the gate is free.
Return == phase' = "free" /\ due' = {}

\* drain_outbox from the periodic task.
DrainTick ==
  /\ up /\ phase = "free"
  /\ phase' = "read"
  /\ UNCHANGED <<files, stored, up, crashes, emitted, cur, due, client, gauges, accepted>>

\* Faulty variant: records with no attempt left are due as well.
ReadPendingAll ==
  /\ phase = "read"
  /\ \/ phase' = "scan" /\ due' = pending \ backoff
     \/ Return
  /\ UNCHANGED <<files, stored, up, crashes, emitted, cur, client, gauges, accepted>>

ReadPending ==
  /\ phase = "read"
  /\ \/ phase' = "scan" /\ due' = {e \in pending \ backoff : attempts[e] < MaxAttempts}
     \/ Return
  /\ UNCHANGED <<files, stored, up, crashes, emitted, cur, client, gauges, accepted>>

\* move_to_dead_letter: rename, or drop the source when the letter exists.
MoveToDeadLetter(e) ==
  /\ pending' = pending \ {e}
  /\ dead' = dead \cup {e}
  /\ outbox_pending' = outbox_pending - 1
  /\ dead_lettered' = dead_lettered + 1
  /\ UNCHANGED <<attempts, backoff>>

\* A record left behind with its attempts used up goes first.
Exhausted == {e \in pending : attempts[e] >= MaxAttempts}

Quarantine ==
  /\ phase = "scan" /\ Exhausted # {}
  /\ \/ (\E e \in First(Exhausted) : MoveToDeadLetter(e)) /\ UNCHANGED <<phase, due>>
     \/ Return /\ UNCHANGED <<files, gauges>>
  /\ UNCHANGED <<stored, up, crashes, emitted, cur, client, accepted>>

Scanned ==
  /\ phase = "scan" /\ Exhausted = {}
  /\ phase' = IF due = {} THEN "free" ELSE "connect"
  /\ UNCHANGED <<files, stored, up, crashes, emitted, cur, due, client, gauges, accepted>>

\* client(): the cached one, or a connection attempt (at most one every
\* CONNECT_RETRY) that may fail.
Connect ==
  /\ phase = "connect"
  /\ phase' = "publish" /\ client' = TRUE
  /\ UNCHANGED <<files, stored, up, crashes, emitted, cur, due, gauges, accepted>>

ConnectFails ==
  /\ phase = "connect" /\ ~client
  /\ Return
  /\ UNCHANGED <<files, stored, up, crashes, emitted, cur, client, gauges, accepted>>

\* NatsPublisher.publish (external): acknowledged, or not and perhaps stored.
PublishAcked ==
  /\ phase = "publish"
  /\ cur' \in First(due)
  /\ stored' = stored \cup {cur'} /\ phase' = "ack"
  /\ UNCHANGED <<files, up, crashes, emitted, due, client, gauges, accepted>>

\* Faulty variant: a publish without an acknowledgement counts as delivered.
PublishUnackedAsAck ==
  /\ phase = "publish"
  /\ cur' \in First(due)
  /\ stored' \in {stored, stored \cup {cur'}} /\ phase' = "ack"
  /\ UNCHANGED <<files, up, crashes, emitted, due, client, gauges, accepted>>

PublishUnacked ==
  /\ phase = "publish"
  /\ cur' \in First(due)
  /\ stored' \in {stored, stored \cup {cur'}} /\ phase' = "unack"
  /\ UNCHANGED <<files, up, crashes, emitted, due, client, gauges, accepted>>

\* finalize_delivery of an acknowledged record removes its file.
FinalizeAcked ==
  /\ phase = "ack"
  /\ \/ /\ pending' = pending \ {cur}
        /\ outbox_pending' = outbox_pending - 1
        /\ due' = due \ {cur}
        /\ phase' = IF due' = {} THEN "free" ELSE "publish"
     \/ Return /\ UNCHANGED <<pending, outbox_pending>>
  /\ UNCHANGED <<dead, attempts, backoff, stored, up, crashes, emitted, cur, client,
                 dead_lettered, accepted>>

\* Faulty variant: the attempt is not written back.
FinalizeUnackedUncounted ==
  /\ phase = "unack"
  /\ Return /\ client' = FALSE
  /\ backoff' = backoff \cup {cur}
  /\ UNCHANGED <<attempts, pending, dead, stored, up, crashes, emitted, cur, gauges, accepted>>

\* finalize_delivery of an unacknowledged record counts the attempt; the drain
\* drops the client and returns, after the quarantine if it was the last.
FinalizeUnacked ==
  /\ phase = "unack"
  /\ \/ /\ attempts' = [attempts EXCEPT ![cur] = @ + 1]
        /\ backoff' = backoff \cup {cur}
        /\ IF attempts'[cur] >= MaxAttempts
             THEN phase' = "bury" /\ UNCHANGED <<due, client>>
             ELSE Return /\ client' = FALSE
     \/ Return /\ UNCHANGED <<attempts, backoff, client>>
  /\ UNCHANGED <<pending, dead, stored, up, crashes, emitted, cur, gauges, accepted>>

Bury ==
  /\ phase = "bury"
  /\ Return
  /\ \/ MoveToDeadLetter(cur) /\ client' = FALSE
     \/ UNCHANGED <<files, gauges, client>>
  /\ UNCHANGED <<stored, up, crashes, emitted, cur, accepted>>

-----------------------------------------------------------------------------
(* Around the drain *)

\* publish_live connects when it must, and drops the client when its publish
\* fails; it does not take the gate.
PublishLive ==
  /\ up
  /\ client' \in BOOLEAN
  /\ UNCHANGED <<files, stored, up, crashes, emitted, phase, cur, due, gauges, accepted>>

\* The clock passes next_attempt_at_ms.
Elapse(e) ==
  /\ e \in backoff
  /\ backoff' = backoff \ {e}
  /\ UNCHANGED <<pending, dead, attempts, stored, up, crashes, emitted, phase, cur, due,
                 client, gauges, accepted>>

\* The process dies: tasks that wait for the gate are lost with it.
Crash ==
  /\ up /\ crashes < MaxCrashes
  /\ up' = FALSE /\ crashes' = crashes + 1
  /\ emitted' = [e \in Events |-> IF emitted[e] \in {"waiting", "locked"} THEN "gone"
                                 ELSE emitted[e]]
  /\ Return
  /\ client' = FALSE
  /\ UNCHANGED <<files, stored, cur, gauges, accepted>>

\* Faulty variant: the gauges of a new process start from zero.
StartFromZero ==
  /\ ~up
  /\ up' = TRUE /\ phase' = "read"
  /\ outbox_pending' = 0 /\ dead_lettered' = 0
  /\ UNCHANGED <<files, stored, crashes, emitted, cur, due, client, accepted>>

\* start: recount the files, then drain.
Start ==
  /\ ~up
  /\ up' = TRUE /\ phase' = "read"
  /\ outbox_pending' = Cardinality(pending)
  /\ dead_lettered' = Cardinality(dead)
  /\ UNCHANGED <<files, stored, crashes, emitted, cur, due, client, accepted>>

-----------------------------------------------------------------------------
DrainStep ==
  \/ ReadPending \/ Quarantine \/ Scanned \/ Connect \/ ConnectFails
  \/ PublishAcked \/ PublishUnacked \/ FinalizeAcked \/ FinalizeUnacked \/ Bury

OutboxNext ==
  \/ \E e \in Events : Emit(e) \/ RefuseEnvelope(e) \/ LockGate(e) \/ Elapse(e)
  \/ PersistRecord \/ PersistFails
  \/ DrainTick \/ DrainStep
  \/ PublishLive \/ Crash \/ Start

OutboxSpec == OutboxInit /\ [][OutboxNext]_obvars

\* The periodic task keeps draining, the clock runs, a dead process is started
\* again; and the file system, the broker's listener and the queue behind the
\* gate do not fail for ever: strong fairness of each success.
OutboxFairness ==
  /\ WF_obvars(DrainTick) /\ WF_obvars(DrainStep) /\ WF_obvars(Start)
  /\ WF_obvars(PersistRecord \/ PersistFails)
  /\ \A e \in Events : WF_obvars(Elapse(e))
  /\ SF_obvars(ReadPending /\ phase' = "scan") /\ SF_obvars(Connect)
  /\ SF_obvars(Quarantine /\ phase' = "scan")
  /\ SF_obvars(FinalizeAcked /\ pending' # pending)
  /\ SF_obvars(FinalizeUnacked /\ attempts' # attempts)

OutboxFairSpec == OutboxSpec /\ OutboxFairness

-----------------------------------------------------------------------------
(* Properties *)

\* "Persisted before publish, removed only after an ACK": whatever fails and
\* whenever the process dies, an accepted event is a file or is in the stream.
NoEventLost == accepted \subseteq pending \cup dead \cup stored

\* The gauges of /metrics count the files whenever no drain is under way, also
\* after a failed move and after a restart.
GaugesCountFiles ==
  up /\ phase = "free" => /\ outbox_pending = Cardinality(pending)
                          /\ dead_lettered = Cardinality(dead)

\* Only an event that failed the full number of times is quarantined, and a
\* quarantined event is never tried again.
QuarantineIsFinal ==
  /\ \A e \in dead : attempts[e] >= MaxAttempts
  /\ dead \cap pending = {}
  /\ dead \cap due = {}

Promise == INSTANCE Delivery WITH held <- pending

\* The outbox implements what it promises: each step on the files, the stream
\* and the dead letters is one that Delivery allows, and every accepted event
\* settles in the end, not stuck behind another that keeps failing, however
\* the drains are interrupted.
ImplementsDelivery == Promise!DeliverySpec

\* Its safety part, which OutboxProofs proves.
DeliverySteps ==
  Promise!DeliveryInit /\ [][Promise!DeliveryNext]_<<pending, dead, stored>>

-----------------------------------------------------------------------------
(* Inductive invariant (OutboxProofs) *)

\* Who holds what: a task that waits has no file yet; the due records are
\* pending and have attempts left until the last of them is used up; a record
\* in hand is due, and stored once it was acknowledged.
GateInv ==
  /\ \A e \in Events : emitted[e] \in {"no", "waiting", "locked"} =>
       e \notin pending \cup dead \cup accepted
  /\ phase = "persist" => emitted[cur] = "locked"
  /\ phase \in {"free", "persist", "read"} => due = {}
  /\ due \subseteq pending
  /\ phase # "bury" => \A e \in due : attempts[e] < MaxAttempts
  /\ phase \in {"ack", "unack"} => cur \in due
  /\ phase = "ack" => cur \in stored
  /\ phase = "bury" => cur \in pending /\ attempts[cur] >= MaxAttempts
  /\ ~up => phase = "free"

\* The gauges count the files at every step of a drain.
GaugeInv == up => /\ outbox_pending = Cardinality(pending)
                  /\ dead_lettered = Cardinality(dead)

\* Nothing is in the stream or in the outbox that was not accepted.
OriginInv == pending \cup stored \subseteq accepted

OutboxInv == OutboxTypeOK /\ GateInv /\ GaugeInv /\ QuarantineIsFinal /\ NoEventLost
=============================================================================
