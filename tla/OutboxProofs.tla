----------------------------- MODULE OutboxProofs -----------------------------
(* Machine-checked proofs about Outbox: no accepted event is lost, quarantine *)
(* is final, and the gauges count the files, for every finite set of events,  *)
(* every attempt limit and any number of crashes.                             *)
EXTENDS Outbox, FiniteSetTheorems, TLAPS

\* The sets of files are finite; adding and removing a file counts by one.
LEMMA Counting ==
  ASSUME NEW S \in SUBSET Events
  PROVE  /\ Cardinality(S) \in Nat
         /\ \A e \in S : Cardinality(S) - 1 \in Nat /\ Cardinality(S \ {e}) = Cardinality(S) - 1
         /\ \A e : e \notin S => Cardinality(S \cup {e}) = Cardinality(S) + 1
<1>1. IsFiniteSet(S) /\ Cardinality(S) \in Nat
  BY OutboxAssumption, FS_Subset, FS_CardinalityType
<1>2. ASSUME NEW e \in S
      PROVE  Cardinality(S) - 1 \in Nat /\ Cardinality(S \ {e}) = Cardinality(S) - 1
  <2>1. Cardinality(S) # 0
    BY <1>1, FS_EmptySet
  <2>2. Cardinality(S \ {e}) = Cardinality(S) - 1
    BY <1>1, FS_RemoveElement
  <2>3. Cardinality(S) - 1 \in Nat
    BY <1>1, <2>1
  <2> QED
    BY <2>2, <2>3
<1>3. ASSUME NEW e, e \notin S
      PROVE  Cardinality(S \cup {e}) = Cardinality(S) + 1
  BY <1>1, <1>3, FS_AddElement
<1> QED
  BY <1>1, <1>2, <1>3

\* Outside a drain the process may be down; inside one it is up, and the
\* gauge of the pending files is not zero when there is one.
LEMMA GaugeOfMember ==
  ASSUME OutboxTypeOK, GateInv, GaugeInv, phase # "free", NEW e \in pending
  PROVE  outbox_pending - 1 \in Nat
<1>1. up /\ pending \in SUBSET Events
  BY DEF GateInv, OutboxTypeOK
<1> QED
  BY <1>1, Counting DEF GaugeInv

\* Every step keeps the types.  The gauges are naturals because they count.
LEMMA OutboxTypeStep ==
  ASSUME OutboxTypeOK, GateInv, GaugeInv, [OutboxNext]_obvars
  PROVE  OutboxTypeOK'
<1> USE OutboxAssumption
<1>1. ASSUME NEW e \in Events, Emit(e) PROVE OutboxTypeOK'
  BY <1>1 DEF Emit, OutboxTypeOK, Phases, files, gauges
<1>2. ASSUME NEW e \in Events, RefuseEnvelope(e) PROVE OutboxTypeOK'
  BY <1>2 DEF RefuseEnvelope, OutboxTypeOK, Phases, files, gauges
<1>3. ASSUME NEW e \in Events, LockGate(e) PROVE OutboxTypeOK'
  BY <1>3 DEF LockGate, OutboxTypeOK, Phases, files, gauges
<1>4. ASSUME NEW e \in Events, Elapse(e) PROVE OutboxTypeOK'
  BY <1>4 DEF Elapse, OutboxTypeOK, Phases, files, gauges
<1>5. CASE PersistRecord
  BY <1>5 DEF PersistRecord, OutboxTypeOK, Phases, files, gauges
<1>6. CASE PersistFails
  BY <1>6 DEF PersistFails, OutboxTypeOK, Phases, files, gauges
<1>7. CASE DrainTick
  BY <1>7 DEF DrainTick, OutboxTypeOK, Phases, files, gauges
<1>8. CASE ReadPending
  BY <1>8 DEF ReadPending, Return, OutboxTypeOK, Phases, files, gauges
<1>9. CASE Quarantine
  <2>1. CASE \E e \in Exhausted : MoveToDeadLetter(e) /\ UNCHANGED <<phase, due>>
    <3>1. outbox_pending - 1 \in Nat
      BY <1>9, <2>1, GaugeOfMember DEF Quarantine, Exhausted
    <3> QED
      BY <1>9, <2>1, <3>1 DEF Quarantine, Exhausted, MoveToDeadLetter, OutboxTypeOK, gauges
  <2>2. CASE Return /\ UNCHANGED <<files, gauges>>
    BY <1>9, <2>2 DEF Quarantine, Return, OutboxTypeOK, Phases, files, gauges
  <2> QED
    BY <1>9, <2>1, <2>2 DEF Quarantine, First
<1>10. CASE Scanned
  BY <1>10 DEF Scanned, Exhausted, OutboxTypeOK, Phases, files, gauges
<1>11. CASE Connect
  BY <1>11 DEF Connect, OutboxTypeOK, Phases, files, gauges
<1>12. CASE ConnectFails
  BY <1>12 DEF ConnectFails, Return, OutboxTypeOK, Phases, files, gauges
<1>13. CASE PublishAcked
  BY <1>13 DEF PublishAcked, First, OutboxTypeOK, Phases, files, gauges
<1>14. CASE PublishUnacked
  BY <1>14 DEF PublishUnacked, First, OutboxTypeOK, Phases, files, gauges
<1>15. CASE FinalizeAcked
  <2>1. outbox_pending - 1 \in Nat
    BY <1>15, GaugeOfMember DEF FinalizeAcked, GateInv
  <2> QED
    BY <1>15, <2>1 DEF FinalizeAcked, Return, OutboxTypeOK, Phases
<1>16. CASE FinalizeUnacked
  <2>1. cur \in Events /\ attempts[cur] + 1 \in 0..MaxAttempts
    BY <1>16 DEF FinalizeUnacked, GateInv, OutboxTypeOK
  <2>2. attempts' \in [Events -> 0..MaxAttempts] /\ backoff' \subseteq Events
    BY <1>16, <2>1 DEF FinalizeUnacked, OutboxTypeOK
  <2>3. phase' \in Phases /\ due' \subseteq Events /\ client' \in BOOLEAN
    BY <1>16 DEF FinalizeUnacked, Return, Phases, OutboxTypeOK
  <2> QED
    BY <1>16, <2>2, <2>3 DEF FinalizeUnacked, OutboxTypeOK, gauges
<1>17. CASE Bury
  <2>1. outbox_pending - 1 \in Nat
    BY <1>17, GaugeOfMember DEF Bury, GateInv
  <2>2. CASE MoveToDeadLetter(cur) /\ client' = FALSE
    <3>1. dead_lettered + 1 \in Nat /\ cur \in Events
      BY DEF OutboxTypeOK
    <3>2. outbox_pending' \in Nat /\ dead_lettered' \in Nat
      BY <2>1, <2>2, <3>1 DEF MoveToDeadLetter
    <3>3. pending' \subseteq Events /\ dead' \subseteq Events
      BY <2>2, <3>1 DEF MoveToDeadLetter, OutboxTypeOK
    <3>4. phase' \in Phases /\ due' \subseteq Events /\ client' \in BOOLEAN
      BY <1>17, <2>2 DEF Bury, Return, Phases
    <3>5. UNCHANGED <<attempts, backoff, stored, up, crashes, emitted, cur, accepted>>
      BY <1>17, <2>2 DEF Bury, MoveToDeadLetter
    <3> QED
      BY <3>2, <3>3, <3>4, <3>5 DEF OutboxTypeOK
  <2>3. CASE UNCHANGED <<files, gauges, client>>
    BY <1>17, <2>3 DEF Bury, Return, OutboxTypeOK, Phases, files, gauges
  <2> QED
    BY <1>17, <2>2, <2>3 DEF Bury
<1>18. CASE PublishLive
  BY <1>18 DEF PublishLive, OutboxTypeOK, Phases, files, gauges
<1>19. CASE Crash
  <2>1. emitted' \in [Events -> {"no", "waiting", "locked", "yes", "gone"}]
    BY <1>19 DEF Crash, OutboxTypeOK
  <2>2. crashes' \in 0..MaxCrashes
    <3>1. crashes \in 0..MaxCrashes /\ crashes < MaxCrashes /\ crashes' = crashes + 1
      BY <1>19 DEF Crash, OutboxTypeOK
    <3> QED
      BY <3>1
  <2>5. up' \in BOOLEAN
    BY <1>19 DEF Crash
  <2>3. phase' \in Phases /\ due' \subseteq Events /\ client' \in BOOLEAN
    BY <1>19 DEF Crash, Return, Phases
  <2>4. UNCHANGED <<pending, dead, attempts, backoff, stored, cur, outbox_pending,
                    dead_lettered, accepted>>
    BY <1>19 DEF Crash, files, gauges
  <2> QED
    BY <2>1, <2>2, <2>3, <2>4, <2>5 DEF OutboxTypeOK
<1>20. CASE Start
  <2>1. Cardinality(pending) \in Nat /\ Cardinality(dead) \in Nat
    BY Counting DEF OutboxTypeOK
  <2> QED
    BY <1>20, <2>1 DEF Start, OutboxTypeOK, Phases, files
<1>21. CASE UNCHANGED obvars
  BY <1>21 DEF obvars, OutboxTypeOK, Phases, files, gauges
<1> QED
  BY <1>1, <1>2, <1>3, <1>4, <1>5, <1>6, <1>7, <1>8, <1>9, <1>10, <1>11, <1>12, <1>13, <1>14, <1>15, <1>16, <1>17, <1>18, <1>19, <1>20, <1>21 DEF OutboxNext, DrainStep

\* Every step keeps what the holder of the gate relies on.
LEMMA GateStep ==
  ASSUME OutboxTypeOK, GateInv, [OutboxNext]_obvars
  PROVE  GateInv'
<1> USE OutboxAssumption
<1>1. ASSUME NEW e \in Events, Emit(e) PROVE GateInv'
  BY <1>1 DEF Emit, GateInv, OutboxTypeOK, Phases, files, gauges
<1>2. ASSUME NEW e \in Events, RefuseEnvelope(e) PROVE GateInv'
  BY <1>2 DEF RefuseEnvelope, GateInv, OutboxTypeOK, Phases, files, gauges
<1>3. ASSUME NEW e \in Events, LockGate(e) PROVE GateInv'
  BY <1>3 DEF LockGate, GateInv, OutboxTypeOK, Phases, files, gauges
<1>4. ASSUME NEW e \in Events, Elapse(e) PROVE GateInv'
  BY <1>4 DEF Elapse, GateInv, OutboxTypeOK, Phases, files, gauges
<1>5. CASE PersistRecord
  BY <1>5 DEF PersistRecord, GateInv, OutboxTypeOK, Phases, files, gauges
<1>6. CASE PersistFails
  BY <1>6 DEF PersistFails, GateInv, OutboxTypeOK, Phases, files, gauges
<1>7. CASE DrainTick
  BY <1>7 DEF DrainTick, GateInv, OutboxTypeOK, Phases, files, gauges
<1>8. CASE ReadPending
  BY <1>8 DEF ReadPending, Return, GateInv, OutboxTypeOK, Phases, files, gauges
<1>9. CASE Quarantine
  <2>1. ASSUME NEW e \in Exhausted, MoveToDeadLetter(e), UNCHANGED <<phase, due>>
        PROVE  GateInv'
    <3>1. e \in pending /\ e \notin due /\ phase = "scan"
      BY <1>9, <2>1 DEF Quarantine, Exhausted, GateInv, OutboxTypeOK
    <3>2. pending' = pending \ {e} /\ dead' = dead \cup {e}
      BY <2>1 DEF MoveToDeadLetter
    <3>3. UNCHANGED <<attempts, stored, up, emitted, phase, cur, due, accepted>>
      BY <1>9, <2>1 DEF Quarantine, MoveToDeadLetter
    <3> QED
      BY <3>1, <3>2, <3>3 DEF GateInv
  <2>2. CASE Return /\ UNCHANGED <<files, gauges>>
    BY <1>9, <2>2 DEF Quarantine, Return, GateInv, OutboxTypeOK, files
  <2> QED
    BY <1>9, <2>1, <2>2 DEF Quarantine, First
<1>10. CASE Scanned
  BY <1>10 DEF Scanned, Exhausted, GateInv, OutboxTypeOK, Phases, files, gauges
<1>11. CASE Connect
  BY <1>11 DEF Connect, GateInv, OutboxTypeOK, Phases, files, gauges
<1>12. CASE ConnectFails
  BY <1>12 DEF ConnectFails, Return, GateInv, OutboxTypeOK, Phases, files, gauges
<1>13. CASE PublishAcked
  BY <1>13 DEF PublishAcked, First, GateInv, OutboxTypeOK, Phases, files, gauges
<1>14. CASE PublishUnacked
  BY <1>14 DEF PublishUnacked, First, GateInv, OutboxTypeOK, Phases, files, gauges
<1>15. CASE FinalizeAcked
  BY <1>15 DEF FinalizeAcked, Return, GateInv, OutboxTypeOK, Phases, files, gauges
<1>16. CASE FinalizeUnacked
  BY <1>16 DEF FinalizeUnacked, Return, GateInv, OutboxTypeOK, Phases, files, gauges
<1>17. CASE Bury
  BY <1>17 DEF Bury, Return, MoveToDeadLetter, GateInv, OutboxTypeOK, Phases, files, gauges
<1>18. CASE PublishLive
  BY <1>18 DEF PublishLive, GateInv, OutboxTypeOK, Phases, files, gauges
<1>19. CASE Crash
  BY <1>19 DEF Crash, Return, GateInv, OutboxTypeOK, Phases, files, gauges
<1>20. CASE Start
  BY <1>20 DEF Start, GateInv, OutboxTypeOK, Phases, files, gauges
<1>21. CASE UNCHANGED obvars
  BY <1>21 DEF obvars, GateInv, OutboxTypeOK, Phases, files, gauges
<1> QED
  BY <1>1, <1>2, <1>3, <1>4, <1>5, <1>6, <1>7, <1>8, <1>9, <1>10, <1>11, <1>12, <1>13, <1>14, <1>15, <1>16, <1>17, <1>18, <1>19, <1>20, <1>21 DEF OutboxNext, DrainStep

\* Every step keeps the gauges in step with the files: a move counts down what
\* it counts up, because a record in hand is pending and is not yet quarantined.
LEMMA GaugeStep ==
  ASSUME OutboxTypeOK, GateInv, GaugeInv, QuarantineIsFinal, [OutboxNext]_obvars
  PROVE  GaugeInv'
<1>0. pending \in SUBSET Events /\ dead \in SUBSET Events
  BY DEF OutboxTypeOK
<1>1. ASSUME NEW e \in pending, phase # "free", MoveToDeadLetter(e), UNCHANGED up
      PROVE  GaugeInv'
  <2>1. e \notin dead /\ up
    BY <1>1 DEF QuarantineIsFinal, GateInv
  <2>2. outbox_pending' = Cardinality(pending)'
    BY <1>0, <1>1, <2>1, Counting DEF MoveToDeadLetter, GaugeInv
  <2>3. dead_lettered' = Cardinality(dead)'
    BY <1>0, <1>1, <2>1, Counting DEF MoveToDeadLetter, GaugeInv
  <2> QED
    BY <2>2, <2>3 DEF GaugeInv
<1>2. CASE PersistRecord
  <2>1. cur \notin pending
    BY <1>2 DEF PersistRecord, GateInv, OutboxTypeOK
  <2> QED
    BY <1>0, <1>2, <2>1, Counting DEF PersistRecord, GaugeInv
<1>3. CASE FinalizeAcked
  <2>1. cur \in pending
    BY <1>3 DEF FinalizeAcked, GateInv
  <2>2. CASE pending' = pending \ {cur} /\ outbox_pending' = outbox_pending - 1
    BY <1>0, <1>3, <2>1, <2>2, Counting DEF FinalizeAcked, GaugeInv
  <2>3. CASE UNCHANGED <<pending, outbox_pending>>
    BY <1>3, <2>3 DEF FinalizeAcked, GaugeInv
  <2> QED
    BY <1>3, <2>2, <2>3 DEF FinalizeAcked
<1>4. CASE Quarantine
  <2>1. CASE \E e \in Exhausted : MoveToDeadLetter(e)
    BY <1>1, <1>4, <2>1 DEF Quarantine, Exhausted
  <2>2. CASE UNCHANGED <<files, gauges>>
    BY <1>4, <2>2 DEF Quarantine, GaugeInv, files, gauges
  <2> QED
    BY <1>4, <2>1, <2>2 DEF Quarantine, First
<1>5. CASE Bury
  <2>1. CASE MoveToDeadLetter(cur)
    BY <1>1, <1>5, <2>1 DEF Bury, GateInv
  <2>2. CASE UNCHANGED <<files, gauges>>
    BY <1>5, <2>2 DEF Bury, GaugeInv, files, gauges
  <2> QED
    BY <1>5, <2>1, <2>2 DEF Bury
<1>6. CASE Crash
  BY <1>6 DEF Crash, GaugeInv
<1>7. CASE Start
  BY <1>7 DEF Start, GaugeInv, files
<1>8. CASE UNCHANGED <<files, gauges, up>>
  BY <1>8 DEF GaugeInv, files, gauges
<1>9. CASE UNCHANGED <<pending, dead, gauges, up>>
  BY <1>9 DEF GaugeInv, gauges
<1>10. CASE \E e \in Events : Emit(e) \/ RefuseEnvelope(e) \/ LockGate(e) \/ Elapse(e)
  BY <1>8, <1>9, <1>10 DEF Emit, RefuseEnvelope, LockGate, Elapse
<1>11. CASE PersistFails \/ DrainTick \/ PublishLive
  BY <1>8, <1>11 DEF PersistFails, DrainTick, PublishLive
<1>12. CASE ReadPending \/ Scanned \/ Connect \/ ConnectFails
  BY <1>8, <1>12 DEF ReadPending, Scanned, Connect, ConnectFails
<1>13. CASE PublishAcked \/ PublishUnacked
  BY <1>8, <1>13 DEF PublishAcked, PublishUnacked
<1>14. CASE FinalizeUnacked
  BY <1>9, <1>14 DEF FinalizeUnacked
<1>15. CASE UNCHANGED obvars
  BY <1>8, <1>15 DEF obvars
<1> QED
  BY <1>2, <1>3, <1>4, <1>5, <1>6, <1>7, <1>10, <1>11, <1>12, <1>13, <1>14, <1>15
     DEF OutboxNext, DrainStep

\* A move to the dead letters keeps the quarantine final when its record has no
\* attempt left and is not due.
LEMMA MoveKeepsQuarantine ==
  ASSUME QuarantineIsFinal, NEW e, attempts[e] >= MaxAttempts, MoveToDeadLetter(e),
         e \notin due', due' \subseteq due
  PROVE  QuarantineIsFinal'
BY DEF QuarantineIsFinal, MoveToDeadLetter

\* Every step keeps the quarantine final.
LEMMA QuarantineStep ==
  ASSUME OutboxTypeOK, GateInv, QuarantineIsFinal, [OutboxNext]_obvars
  PROVE  QuarantineIsFinal'
<1> USE OutboxAssumption
<1>1. CASE PersistRecord
  <2>1. cur \notin dead /\ cur \in Events
    BY <1>1 DEF PersistRecord, GateInv, OutboxTypeOK
  <2> QED
    BY <1>1, <2>1 DEF PersistRecord, QuarantineIsFinal, OutboxTypeOK
<1>2. CASE ReadPending
  BY <1>2 DEF ReadPending, Return, QuarantineIsFinal, files
<1>3. CASE Quarantine
  <2>1. CASE (\E e \in Exhausted : MoveToDeadLetter(e)) /\ UNCHANGED <<phase, due>>
    <3>1. PICK e \in Exhausted : MoveToDeadLetter(e)
      BY <2>1
    <3>2. attempts[e] >= MaxAttempts /\ e \notin due
      BY <1>3 DEF Quarantine, Exhausted, GateInv, OutboxTypeOK
    <3> QED
      BY <2>1, <3>1, <3>2, MoveKeepsQuarantine
  <2>2. CASE Return /\ UNCHANGED <<files, gauges>>
    BY <2>2 DEF Return, QuarantineIsFinal, files
  <2> QED
    BY <1>3, <2>1, <2>2 DEF Quarantine, First
<1>4. CASE FinalizeAcked
  BY <1>4 DEF FinalizeAcked, Return, QuarantineIsFinal
<1>5. CASE FinalizeUnacked
  <2>1. cur \notin dead /\ due' \subseteq due
    BY <1>5 DEF FinalizeUnacked, Return, GateInv, QuarantineIsFinal
  <2>2. \A e \in dead : attempts'[e] = attempts[e]
    BY <1>5, <2>1 DEF FinalizeUnacked, OutboxTypeOK
  <2> QED
    BY <1>5, <2>1, <2>2 DEF FinalizeUnacked, QuarantineIsFinal
<1>6. CASE Bury
  <2>1. CASE MoveToDeadLetter(cur)
    BY <1>6, <2>1, MoveKeepsQuarantine DEF Bury, Return, GateInv
  <2>2. CASE UNCHANGED <<files, gauges>>
    BY <1>6, <2>2 DEF Bury, Return, QuarantineIsFinal, files
  <2> QED
    BY <1>6, <2>1, <2>2 DEF Bury
<1>7. CASE UNCHANGED <<files, due>>
  BY <1>7 DEF QuarantineIsFinal, files
<1>8. CASE UNCHANGED <<files>> /\ due' = {}
  BY <1>8 DEF QuarantineIsFinal, files
<1>9. CASE \E e \in Events : Emit(e) \/ RefuseEnvelope(e) \/ LockGate(e)
  BY <1>7, <1>9 DEF Emit, RefuseEnvelope, LockGate
<1>10. CASE \E e \in Events : Elapse(e)
  BY <1>10 DEF Elapse, QuarantineIsFinal
<1>11. CASE PersistFails \/ DrainTick \/ PublishLive \/ Start
  BY <1>7, <1>11 DEF PersistFails, DrainTick, PublishLive, Start
<1>12. CASE Scanned \/ Connect \/ PublishAcked \/ PublishUnacked
  BY <1>7, <1>12 DEF Scanned, Connect, PublishAcked, PublishUnacked
<1>13. CASE ConnectFails \/ Crash
  BY <1>8, <1>13 DEF ConnectFails, Crash, Return
<1>14. CASE UNCHANGED obvars
  BY <1>7, <1>14 DEF obvars
<1> QED
  BY <1>1, <1>2, <1>3, <1>4, <1>5, <1>6, <1>9, <1>10, <1>11, <1>12, <1>13, <1>14
     DEF OutboxNext, DrainStep

\* Every step keeps each accepted event somewhere: a file is removed only for a
\* record that was acknowledged, and the stream forgets nothing.
LEMMA NoLossStep ==
  ASSUME GateInv, NoEventLost, [OutboxNext]_obvars
  PROVE  NoEventLost'
<1>1. CASE PersistRecord
  BY <1>1 DEF PersistRecord, NoEventLost
<1>2. CASE Quarantine
  BY <1>2 DEF Quarantine, MoveToDeadLetter, NoEventLost, files
<1>3. CASE PublishAcked \/ PublishUnacked
  BY <1>3 DEF PublishAcked, PublishUnacked, NoEventLost, files
<1>4. CASE FinalizeAcked
  BY <1>4 DEF FinalizeAcked, GateInv, NoEventLost
<1>5. CASE Bury
  BY <1>5 DEF Bury, MoveToDeadLetter, NoEventLost, files
<1>6. CASE UNCHANGED <<pending, dead, stored, accepted>>
  BY <1>6 DEF NoEventLost
<1>7. CASE \E e \in Events : Emit(e) \/ RefuseEnvelope(e) \/ LockGate(e) \/ Elapse(e)
  BY <1>6, <1>7 DEF Emit, RefuseEnvelope, LockGate, Elapse, files
<1>8. CASE PersistFails \/ DrainTick \/ PublishLive \/ Crash \/ Start
  BY <1>6, <1>8 DEF PersistFails, DrainTick, PublishLive, Crash, Start, files
<1>9. CASE ReadPending \/ Scanned \/ Connect \/ ConnectFails \/ FinalizeUnacked
  BY <1>6, <1>9 DEF ReadPending, Scanned, Connect, ConnectFails, FinalizeUnacked, files
<1>10. CASE UNCHANGED obvars
  BY <1>6, <1>10 DEF obvars, files
<1> QED
  BY <1>1, <1>2, <1>3, <1>4, <1>5, <1>7, <1>8, <1>9, <1>10 DEF OutboxNext, DrainStep

\* The empty outbox satisfies the invariant.
LEMMA OutboxInvInit == OutboxInit => OutboxInv
<1> SUFFICES ASSUME OutboxInit PROVE OutboxInv
  OBVIOUS
<1>1. OutboxTypeOK
  <2>1. 0 \in 0..MaxAttempts /\ 0 \in 0..MaxCrashes
    BY OutboxAssumption
  <2>2. attempts \in [Events -> 0..MaxAttempts] /\ crashes \in 0..MaxCrashes
    BY <2>1 DEF OutboxInit
  <2>3. emitted \in [Events -> {"no", "waiting", "locked", "yes", "gone"}]
    BY DEF OutboxInit
  <2> QED
    BY <2>2, <2>3 DEF OutboxInit, OutboxTypeOK, Phases
<1>2. GateInv
  BY DEF OutboxInit, GateInv
<1>3. GaugeInv
  BY FS_EmptySet DEF OutboxInit, GaugeInv
<1>4. QuarantineIsFinal /\ NoEventLost
  BY DEF OutboxInit, QuarantineIsFinal, NoEventLost
<1> QED
  BY <1>1, <1>2, <1>3, <1>4 DEF OutboxInv

\* The inductive invariant of the outbox holds throughout.
THEOREM OutboxInvariant == OutboxSpec => []OutboxInv
<1>1. OutboxInv /\ [OutboxNext]_obvars => OutboxInv'
  BY OutboxTypeStep, GateStep, GaugeStep, QuarantineStep, NoLossStep DEF OutboxInv
<1> QED
  BY <1>1, OutboxInvInit, PTL DEF OutboxSpec

\* The state of the outbox keeps its types; the gauges never go below zero.
THEOREM OutboxTyping == OutboxSpec => []OutboxTypeOK
<1>1. OutboxInv => OutboxTypeOK
  BY DEF OutboxInv
<1> QED
  BY <1>1, OutboxInvariant, PTL

\* An accepted event is a file or is in the stream, whatever fails and however
\* often the process dies between two steps of publish_event or of a drain.
THEOREM AcceptedIsNeverLost == OutboxSpec => []NoEventLost
<1>1. OutboxInv => NoEventLost
  BY DEF OutboxInv
<1> QED
  BY <1>1, OutboxInvariant, PTL

\* Only exhausted events are quarantined, and no drain tries them again.
THEOREM QuarantineFinal == OutboxSpec => []QuarantineIsFinal
<1>1. OutboxInv => QuarantineIsFinal
  BY DEF OutboxInv
<1> QED
  BY <1>1, OutboxInvariant, PTL

\* Between drains the gauges of /metrics count the files.
THEOREM GaugesCount == OutboxSpec => []GaugesCountFiles
<1>1. OutboxInv => GaugesCountFiles
  BY DEF OutboxInv, GaugeInv, GaugesCountFiles
<1> QED
  BY <1>1, OutboxInvariant, PTL

\* Only what was accepted is a file or is published.
LEMMA OriginStep ==
  ASSUME OutboxTypeOK, GateInv, OriginInv, [OutboxNext]_obvars
  PROVE  OriginInv'
<1>1. CASE PersistRecord
  BY <1>1 DEF PersistRecord, OriginInv
<1>2. CASE Quarantine
  BY <1>2 DEF Quarantine, MoveToDeadLetter, OriginInv, files
<1>3. CASE PublishAcked \/ PublishUnacked
  <2>1. cur' \in pending
    BY <1>3 DEF PublishAcked, PublishUnacked, First, GateInv
  <2> QED
    BY <1>3, <2>1 DEF PublishAcked, PublishUnacked, OriginInv, files
<1>4. CASE FinalizeAcked
  BY <1>4 DEF FinalizeAcked, OriginInv
<1>5. CASE Bury
  BY <1>5 DEF Bury, MoveToDeadLetter, OriginInv, files
<1>6. CASE UNCHANGED <<pending, stored, accepted>>
  BY <1>6 DEF OriginInv
<1>7. CASE \E e \in Events : Emit(e) \/ RefuseEnvelope(e) \/ LockGate(e) \/ Elapse(e)
  BY <1>6, <1>7 DEF Emit, RefuseEnvelope, LockGate, Elapse, files
<1>8. CASE PersistFails \/ DrainTick \/ PublishLive \/ Crash \/ Start
  BY <1>6, <1>8 DEF PersistFails, DrainTick, PublishLive, Crash, Start, files
<1>9. CASE ReadPending \/ Scanned \/ Connect \/ ConnectFails \/ FinalizeUnacked
  BY <1>6, <1>9 DEF ReadPending, Scanned, Connect, ConnectFails, FinalizeUnacked, files
<1>10. CASE UNCHANGED obvars
  BY <1>6, <1>10 DEF obvars, files
<1> QED
  BY <1>1, <1>2, <1>3, <1>4, <1>5, <1>7, <1>8, <1>9, <1>10 DEF OutboxNext, DrainStep

\* Every step of the outbox is a step of Delivery, or changes nothing of it.
LEMMA DeliveryStep ==
  ASSUME OutboxTypeOK, GateInv, OriginInv, [OutboxNext]_obvars
  PROVE  [Promise!DeliveryNext]_<<pending, dead, stored>>
<1>1. CASE PersistRecord
  <2>1. cur \in Events /\ cur \notin pending \cup dead \cup stored
    BY <1>1 DEF PersistRecord, OutboxTypeOK, GateInv, OriginInv
  <2>2. Promise!Accept(cur)
    BY <1>1, <2>1 DEF PersistRecord, Promise!Accept
  <2> QED
    BY <2>1, <2>2 DEF Promise!DeliveryNext
<1>2. CASE Quarantine
  <2>1. CASE \E e \in First(Exhausted) : MoveToDeadLetter(e)
    <3>1. PICK e \in First(Exhausted) : MoveToDeadLetter(e)
      BY <2>1
    <3>2. e \in pending /\ e \in Events
      BY <3>1 DEF First, Exhausted, OutboxTypeOK
    <3>3. Promise!GiveUp(e)
      BY <1>2, <3>1, <3>2 DEF Quarantine, MoveToDeadLetter, Promise!GiveUp
    <3> QED
      BY <3>2, <3>3 DEF Promise!DeliveryNext, Promise!Settle
  <2>2. CASE UNCHANGED files
    BY <1>2, <2>2 DEF Quarantine, files
  <2> QED
    BY <1>2, <2>1, <2>2 DEF Quarantine
<1>3. CASE PublishAcked \/ PublishUnacked
  <2>1. cur' \in pending /\ cur' \in Events
    BY <1>3 DEF PublishAcked, PublishUnacked, First, GateInv, OutboxTypeOK
  <2>2. Promise!Store(cur') \/ UNCHANGED <<pending, dead, stored>>
    BY <1>3, <2>1 DEF PublishAcked, PublishUnacked, files, Promise!Store
  <2>3. Promise!Store(cur') => Promise!DeliveryNext
    BY <2>1 DEF Promise!DeliveryNext
  <2> QED
    BY <2>2, <2>3
<1>4. CASE FinalizeAcked
  <2>1. cur \in pending /\ cur \in stored /\ cur \in Events
    BY <1>4 DEF FinalizeAcked, GateInv, OutboxTypeOK
  <2>2. Promise!Release(cur) \/ UNCHANGED <<pending, dead, stored>>
    BY <1>4, <2>1 DEF FinalizeAcked, Promise!Release
  <2> QED
    BY <2>1, <2>2 DEF Promise!DeliveryNext, Promise!Settle
<1>5. CASE Bury
  <2>1. cur \in pending /\ cur \in Events
    BY <1>5 DEF Bury, GateInv, OutboxTypeOK
  <2>2. Promise!GiveUp(cur) \/ UNCHANGED <<pending, dead, stored>>
    BY <1>5, <2>1 DEF Bury, MoveToDeadLetter, files, Promise!GiveUp
  <2> QED
    BY <2>1, <2>2 DEF Promise!DeliveryNext, Promise!Settle
<1>6. CASE \E e \in Events : Emit(e) \/ RefuseEnvelope(e) \/ LockGate(e) \/ Elapse(e)
  BY <1>6 DEF Emit, RefuseEnvelope, LockGate, Elapse, files
<1>7. CASE PersistFails \/ DrainTick \/ PublishLive \/ Crash \/ Start
  BY <1>7 DEF PersistFails, DrainTick, PublishLive, Crash, Start, files
<1>8. CASE ReadPending \/ Scanned \/ Connect \/ ConnectFails \/ FinalizeUnacked
  BY <1>8 DEF ReadPending, Scanned, Connect, ConnectFails, FinalizeUnacked, files
<1>9. CASE UNCHANGED obvars
  BY <1>9 DEF obvars, files
<1> QED
  BY <1>1, <1>2, <1>3, <1>4, <1>5, <1>6, <1>7, <1>8, <1>9 DEF OutboxNext, DrainStep

\* The outbox implements the safety part of Delivery: an accepted event is held
\* until the stream has it or it is given up, and it never comes back.
THEOREM OutboxImplementsDelivery == OutboxSpec => DeliverySteps
<1>1. OutboxInit => OriginInv /\ Promise!DeliveryInit
  BY DEF OutboxInit, OriginInv, Promise!DeliveryInit
<1>2. OutboxInv /\ OriginInv /\ [OutboxNext]_obvars => OriginInv'
  BY OriginStep DEF OutboxInv
<1>3. OutboxInv /\ OriginInv /\ [OutboxNext]_obvars =>
        [Promise!DeliveryNext]_<<pending, dead, stored>>
  BY DeliveryStep DEF OutboxInv
<1> QED
  BY <1>1, <1>2, <1>3, OutboxInvariant, PTL DEF OutboxSpec, DeliverySteps
=============================================================================
