-------------------------- MODULE TaskRegistryProofs --------------------------
(* Machine-checked proofs about TaskRegistry, for any finite set of calls and *)
(* any task ids, threads and ceiling.  Fairness is not used.                  *)
EXTENDS TaskRegistry, FiniteSetTheorems, TLAPS

\* The part of the type invariant that needs no other invariant.
Shapes ==
  /\ pc \in [Calls -> Stages]
  /\ tasks \in [Ids -> Calls \cup {NoCall}]
  /\ sessions \in [Threads -> {0} \cup Objects] /\ created \in {0} \cup Objects
  /\ sess \in [Calls -> {0} \cup Objects]
  /\ task_ids \in [Objects -> SUBSET Ids]
  /\ queue \in [Objects -> Calls \cup {NoCall}]
  /\ running_task_id \in [Objects -> Ids \cup {NoId}]
  /\ cancelled \subseteq Calls /\ old \subseteq Calls
  /\ gc \in {"idle", "remove"} /\ expired \subseteq Ids

\* Whoever has the queue of a session has that session.
QueueOfSession ==
  \A s \in Objects : queue[s] # NoCall => sess[queue[s]] = s /\ pc[queue[s]] \in Holding

\* The two parts are the type invariant.
LEMMA TypeParts == RegistryTypeOK <=> Shapes /\ QueueOfSession
BY DEF RegistryTypeOK, Shapes, QueueOfSession, Holding

\* There are as many objects as calls.
LEMMA CallsAreCounted == Cardinality(Calls) \in Nat
BY FS_CardinalityType, RegistryAssumption

\* What counts the calls that have a session is a number, no larger than the
\* number of calls, and smaller while some call has none.
LEMMA BoundCalls ==
  ASSUME NEW k \in Calls, sess[k] = 0
  PROVE  LET B == {j \in Calls : sess[j] # 0} IN
           /\ IsFiniteSet(B) /\ Cardinality(B) \in Nat
           /\ Cardinality(B) + 1 <= Cardinality(Calls)
           /\ Cardinality(B \cup {k}) = Cardinality(B) + 1
<1> DEFINE B == {j \in Calls : sess[j] # 0}
<1>1. IsFiniteSet(B) /\ IsFiniteSet(B \cup {k}) /\ B \cup {k} \subseteq Calls
  BY FS_Subset, RegistryAssumption
<1>2. Cardinality(B) \in Nat /\ Cardinality(B \cup {k}) = Cardinality(B) + 1
  BY <1>1, FS_CardinalityType, FS_AddElement
<1>3. Cardinality(B \cup {k}) <= Cardinality(Calls)
  BY <1>1, FS_Subset, RegistryAssumption
<1> QED
  BY <1>1, <1>2, <1>3

-----------------------------------------------------------------------------
(* What a step does to the stages *)

\* A step of a call moves no other call.
LEMMA OthersStay ==
  ASSUME Shapes, NEW k \in Calls, Handler(k) \/ Run(k), NEW j \in Calls, j # k
  PROVE  pc'[j] = pc[j]
BY DEF Shapes, Handler, Run, CheckDuplicate, CheckCapacity, GetOrCreateSession, RefuseBranch,
   PushTaskId, InsertTask, SpawnTask, LockQueue, StartTask, FinishTask, PanicTask, ReleaseQueue, Goto

\* A session is forgotten, a task collected or cancelled, or a retention time
\* ends without any call moving.
LEMMA NoCallMoves ==
  ASSUME \/ \E k \in Calls : Age(k)
         \/ \E i \in Ids : CancelTask(i) \/ RemoveTask(i)
         \/ CollectExpired \/ SweepSessions
  PROVE  UNCHANGED <<pc, sess, queue, created>>
BY DEF Age, CancelTask, RemoveTask, CollectExpired, SweepSessions, dispatchVars, gcVars

\* The steps of RegistryNext, in the two groups.
LEMMA StepKinds ==
  ASSUME RegistryNext
  PROVE  \/ \E k \in Calls : Handler(k) \/ Run(k)
         \/ \E k \in Calls : Age(k)
         \/ \E i \in Ids : CancelTask(i) \/ RemoveTask(i)
         \/ CollectExpired \/ SweepSessions
BY RegistryAssumption DEF RegistryNext

\* The stage a step of call k leads to, and from where.
LEMMA Moves ==
  ASSUME Shapes, NEW k \in Calls, Handler(k) \/ Run(k)
  PROVE  /\ pc' \in [Calls -> Stages]
         /\ \/ pc[k] = "idle" /\ pc'[k] \in {"checked", "rejected"} /\ UNCHANGED <<dispatchVars, queue>>
            \/ pc[k] = "checked" /\ pc'[k] \in {"admitted", "rejected"} /\ UNCHANGED <<dispatchVars, queue>>
            \/ pc[k] = "admitted" /\ pc'[k] = "rejected" /\ UNCHANGED <<dispatchVars, queue>>
            \/ GetOrCreateSession(k) /\ pc'[k] = "bound"
            \/ PushTaskId(k) /\ pc'[k] = "pushed"
            \/ InsertTask(k) /\ pc'[k] = "inserted"
            \/ pc[k] = "inserted" /\ pc'[k] = "queued" /\ UNCHANGED <<dispatchVars, queue>>
            \/ LockQueue(k) /\ pc'[k] = "holding"
            \/ pc[k] = "holding" /\ pc'[k] \in {"running", "unrun"} /\ UNCHANGED <<dispatchVars, queue>>
            \/ pc[k] \in {"running", "unrun"} /\ pc'[k] = "finished" /\ UNCHANGED <<dispatchVars, queue>>
            \/ PanicTask(k) /\ pc'[k] = "panicked"
            \/ ReleaseQueue(k) /\ pc'[k] = "ended"
<1> USE DEF Shapes, Stages, InHandler, Unfinished, Goto
<1>1. CASE CheckDuplicate(k) \/ CheckCapacity(k) \/ RefuseBranch(k) \/ SpawnTask(k)
  BY <1>1 DEF CheckDuplicate, CheckCapacity, RefuseBranch, SpawnTask
<1>2. CASE StartTask(k) \/ FinishTask(k)
  BY <1>2 DEF StartTask, FinishTask
<1>3. CASE GetOrCreateSession(k)
  BY <1>3 DEF GetOrCreateSession
<1>4. CASE PushTaskId(k)
  BY <1>4 DEF PushTaskId
<1>5. CASE InsertTask(k)
  BY <1>5 DEF InsertTask
<1>6. CASE LockQueue(k)
  BY <1>6 DEF LockQueue
<1>7. CASE PanicTask(k)
  BY <1>7 DEF PanicTask
<1>8. CASE ReleaseQueue(k)
  BY <1>8 DEF ReleaseQueue
<1> QED
  BY <1>1, <1>2, <1>3, <1>4, <1>5, <1>6, <1>7, <1>8 DEF Handler, Run

\* A step of a call does not touch the collector.
LEMMA CollectorStays ==
  ASSUME NEW k \in Calls, Handler(k) \/ Run(k)
  PROVE  UNCHANGED <<cancelled, gcVars>>
BY DEF Handler, Run, CheckDuplicate, CheckCapacity, GetOrCreateSession, RefuseBranch,
   PushTaskId, InsertTask, SpawnTask, LockQueue, StartTask, FinishTask, PanicTask, ReleaseQueue

-----------------------------------------------------------------------------
(* Types *)

\* Taking a session: the one of the thread, or a new object, for which there is
\* room because this call had none.
LEMMA TakesSession ==
  ASSUME Shapes, RegistryInv, NEW k \in Calls, GetOrCreateSession(k)
  PROVE  /\ sessions' \in [Threads -> {0} \cup Objects] /\ created' \in {0} \cup Objects
         /\ sess' \in [Calls -> {0} \cup Objects] /\ sess'[k] \in Objects
         /\ \A j \in Calls : j # k => sess'[j] = sess[j]
         /\ created' <= Cardinality({j \in Calls : sess'[j] # 0})
<1> DEFINE B == {j \in Calls : sess[j] # 0}
           t == ThreadOf[k]
<1>1. sess[k] = 0
  BY DEF RegistryInv, GetOrCreateSession, Bound, Unfinished
<1>2. /\ Cardinality(B) \in Nat /\ Cardinality(B) + 1 <= Cardinality(Calls)
      /\ Cardinality(B \cup {k}) = Cardinality(B) + 1
  BY <1>1, BoundCalls
<1>3. created \in Nat /\ created <= Cardinality(B) /\ t \in Threads
  BY CallsAreCounted, RegistryAssumption DEF RegistryInv, Shapes, Objects
<1>4. created + 1 \in Objects
  BY <1>2, <1>3, CallsAreCounted DEF Objects
<1>5. CASE sessions[t] # 0
  <2>1. /\ sess' = [sess EXCEPT ![k] = sessions[t]] /\ UNCHANGED <<sessions, created>>
        /\ sessions[t] \in Objects
    BY <1>3, <1>5 DEF GetOrCreateSession, Shapes
  <2>2. sess'[k] \in Objects /\ \A j \in Calls : j # k => sess'[j] = sess[j]
    BY <2>1 DEF Shapes
  <2>3. {j \in Calls : sess'[j] # 0} = B \cup {k}
    BY <2>2, <1>4, CallsAreCounted DEF Objects
  <2>4. Cardinality({j \in Calls : sess'[j] # 0}) = Cardinality(B) + 1
    BY <1>2, <2>3
  <2>5. created' <= Cardinality(B) + 1
    BY <1>2, <1>3, <2>1
  <2>6. sess' \in [Calls -> {0} \cup Objects]
    BY <2>1 DEF Shapes
  <2> QED
    BY <2>1, <2>2, <2>4, <2>5, <2>6 DEF Shapes
<1>6. CASE sessions[t] = 0
  <2>1. /\ sess' = [sess EXCEPT ![k] = created + 1] /\ created' = created + 1
        /\ sessions' = [sessions EXCEPT ![t] = created + 1]
    BY <1>6 DEF GetOrCreateSession
  <2>2. sess'[k] \in Objects /\ \A j \in Calls : j # k => sess'[j] = sess[j]
    BY <2>1, <1>4 DEF Shapes
  <2>3. {j \in Calls : sess'[j] # 0} = B \cup {k}
    BY <2>2, <1>4, CallsAreCounted DEF Objects
  <2>4. Cardinality({j \in Calls : sess'[j] # 0}) = Cardinality(B) + 1
    BY <1>2, <2>3
  <2>5. created' <= Cardinality(B) + 1
    BY <1>2, <1>3, <2>1
  <2>6. /\ sess' \in [Calls -> {0} \cup Objects] /\ created' \in Objects
        /\ sessions' \in [Threads -> {0} \cup Objects]
    BY <2>1, <1>4 DEF Shapes
  <2> QED
    BY <2>2, <2>4, <2>5, <2>6
<1> QED
  BY <1>5, <1>6

\* A call past `admitted` has an object.
LEMMA HasObject ==
  ASSUME Shapes, RegistryInv, NEW k \in Calls, pc[k] \in Bound
  PROVE  sess[k] \in Objects
BY DEF Shapes, RegistryInv

\* Every step keeps the shapes.
LEMMA ShapesStep ==
  ASSUME Shapes, RegistryInv, RegistryNext
  PROVE  Shapes'
<1>1. ASSUME NEW k \in Calls, Handler(k) \/ Run(k) PROVE Shapes'
  <2>0. UNCHANGED <<cancelled, old, gc, expired>> /\ IdOf[k] \in Ids
    BY <1>1, CollectorStays, RegistryAssumption DEF gcVars
  <2>1. /\ pc' \in [Calls -> Stages]
        /\ running_task_id' \in [Objects -> Ids \cup {NoId}]
    <3>1. pc' \in [Calls -> Stages]
      BY <1>1, Moves
    <3>2. CASE StartTask(k)
      BY <2>0, <3>1, <3>2 DEF StartTask, Shapes
    <3>3. CASE ReleaseQueue(k)
      BY <2>0, <3>1, <3>3 DEF ReleaseQueue, Shapes
    <3>4. CASE UNCHANGED running_task_id
      BY <3>1, <3>4 DEF Shapes
    <3>5. UNCHANGED running_task_id \/ StartTask(k) \/ ReleaseQueue(k)
      BY <1>1 DEF Handler, Run, CheckDuplicate, CheckCapacity, GetOrCreateSession, RefuseBranch,
         PushTaskId, InsertTask, SpawnTask, LockQueue, FinishTask, PanicTask
    <3> QED
      BY <3>2, <3>3, <3>4, <3>5
  <2>2. CASE UNCHANGED <<dispatchVars, queue>>
    BY <2>0, <2>1, <2>2 DEF Shapes, dispatchVars
  <2>3. CASE GetOrCreateSession(k)
    BY <2>0, <2>1, <2>3, TakesSession DEF GetOrCreateSession, Shapes
  <2>4. CASE PushTaskId(k)
    BY <2>0, <2>1, <2>4 DEF PushTaskId, Shapes
  <2>5. CASE InsertTask(k)
    BY <2>0, <2>1, <2>5 DEF InsertTask, Shapes
  <2>6. CASE LockQueue(k) \/ PanicTask(k) \/ ReleaseQueue(k)
    BY <2>0, <2>1, <2>6 DEF LockQueue, PanicTask, ReleaseQueue, Shapes, dispatchVars
  <2> QED
    BY <1>1, Moves, <2>2, <2>3, <2>4, <2>5, <2>6
<1>2. ASSUME NEW k \in Calls, Age(k) PROVE Shapes'
  BY <1>2 DEF Age, Shapes, dispatchVars
<1>3. ASSUME NEW i \in Ids, CancelTask(i) PROVE Shapes'
  BY <1>3 DEF CancelTask, live, Shapes, dispatchVars, gcVars
<1>4. ASSUME NEW i \in Ids, RemoveTask(i) PROVE Shapes'
  BY <1>4 DEF RemoveTask, Shapes
<1>5. CASE CollectExpired
  BY <1>5 DEF CollectExpired, Shapes, dispatchVars
<1>6. CASE SweepSessions
  <2>1. sessions' \in [Threads -> {0} \cup Objects]
    BY <1>6 DEF SweepSessions, Shapes
  <2> QED
    BY <1>6, <2>1 DEF SweepSessions, Shapes
<1> QED
  BY StepKinds, <1>1, <1>2, <1>3, <1>4, <1>5, <1>6

\* Only the holder of a queue releases it, and it is taken when it is free.
LEMMA QueueStep ==
  ASSUME Shapes, RegistryInv, QueueOfSession, RegistryNext, Shapes'
  PROVE  QueueOfSession'
<1>1. ASSUME NEW k \in Calls, Handler(k) \/ Run(k) PROVE QueueOfSession'
  <2> SUFFICES ASSUME NEW s \in Objects, queue'[s] # NoCall
               PROVE  sess'[queue'[s]] = s /\ pc'[queue'[s]] \in Holding
    BY DEF QueueOfSession
  <2> DEFINE h == queue'[s]
  <2>0. h \in Calls
    BY DEF Shapes
  <2>1. CASE LockQueue(k) /\ s = sess[k]
    BY <1>1, <2>1, Moves DEF LockQueue, Shapes, dispatchVars, Holding, Goto
  <2>2. CASE ~(LockQueue(k) /\ s = sess[k])
    <3>1. queue[s] = h /\ sess[h] = s /\ pc[h] \in Holding
      BY <1>1, <2>0, <2>2, Moves DEF LockQueue, PanicTask, ReleaseQueue, Shapes, QueueOfSession,
         GetOrCreateSession, PushTaskId, InsertTask
    <3>2. sess'[h] = s
      <4>1. CASE GetOrCreateSession(k)
        BY <4>1, <2>0, <3>1, TakesSession DEF GetOrCreateSession, Holding
      <4> QED
        BY <1>1, <2>0, <3>1, <4>1, Moves DEF LockQueue, PanicTask, ReleaseQueue, PushTaskId, InsertTask,
           dispatchVars
    <3>3. CASE h # k
      BY <1>1, <2>0, <3>1, <3>2, <3>3, OthersStay
    <3>4. CASE h = k
      BY <1>1, <3>1, <3>2, <3>4, Moves DEF Holding, LockQueue, PanicTask, ReleaseQueue, PushTaskId,
         InsertTask, GetOrCreateSession, Shapes
    <3> QED
      BY <3>3, <3>4
  <2> QED
    BY <2>1, <2>2
<1>2. CASE UNCHANGED <<pc, sess, queue>>
  BY <1>2 DEF QueueOfSession
<1> QED
  BY StepKinds, NoCallMoves, <1>1, <1>2

-----------------------------------------------------------------------------
(* The invariant *)

\* A step of a call keeps the invariant.
LEMMA CallKeeps ==
  ASSUME Shapes, QueueOfSession, RegistryInv, Shapes', NEW k \in Calls, Handler(k) \/ Run(k)
  PROVE  RegistryInv'
<1>0. UNCHANGED <<old, expired>> /\ \A j \in Calls : j # k => pc'[j] = pc[j]
  BY CollectorStays, OthersStay DEF gcVars
<1>1. /\ \A j \in Calls : sess'[j] # 0 <=> pc'[j] \in Bound
      /\ created' <= Cardinality({j \in Calls : sess'[j] # 0})
  <2>1. CASE GetOrCreateSession(k)
    <3>1. sess'[k] # 0 /\ pc'[k] \in Bound
      BY <2>1, TakesSession, CallsAreCounted DEF GetOrCreateSession, Goto, Shapes, Bound, Objects
    <3> QED
      BY <1>0, <2>1, <3>1, TakesSession DEF RegistryInv
  <2>2. CASE ~GetOrCreateSession(k)
    <3>1. UNCHANGED <<sess, created>>
      BY <2>2, Moves DEF PushTaskId, InsertTask, LockQueue, PanicTask, ReleaseQueue, dispatchVars
    <3>2. pc'[k] \in Bound <=> pc[k] \in Bound
      BY <2>2, Moves DEF PushTaskId, InsertTask, LockQueue, PanicTask, ReleaseQueue, Bound, Unfinished
    <3> QED
      BY <1>0, <3>1, <3>2 DEF RegistryInv
  <2> QED
    BY <2>1, <2>2
<1>2. ASSUME NEW j \in Calls, pc'[j] \in Holding PROVE queue'[sess'[j]] = j
  <2>1. CASE LockQueue(k) /\ j = k
    <3>1. sess[k] \in Objects
      BY <2>1, HasObject DEF LockQueue, Bound, Unfinished
    <3> QED
      BY <2>1, <3>1 DEF LockQueue, Shapes, dispatchVars
  <2>2. CASE ~(LockQueue(k) /\ j = k)
    <3>1. pc[j] \in Holding
      BY <1>0, <1>2, <2>2, Moves DEF Holding
    <3>2. queue[sess[j]] = j /\ sess[j] \in Objects
      BY <3>1, HasObject DEF RegistryInv, Holding, Bound, Unfinished
    <3>3. sess'[j] = sess[j]
      BY <3>1, <1>0, <1>2, Moves DEF PushTaskId, InsertTask, LockQueue, PanicTask, ReleaseQueue, dispatchVars,
         GetOrCreateSession, Shapes, Holding
    <3>4. CASE UNCHANGED queue
      BY <3>2, <3>3, <3>4
    <3>5. CASE LockQueue(k)
      <4>1. sess[j] # sess[k]
        BY <3>2, <3>5, RegistryAssumption DEF LockQueue
      <4> QED
        BY <3>2, <3>3, <3>5, <4>1 DEF LockQueue, Shapes
    <3>6. CASE PanicTask(k) \/ ReleaseQueue(k)
      <4>1. j # k
        BY <1>2, <3>6, Moves DEF PanicTask, ReleaseQueue, Holding, Shapes, Goto
      <4>2. queue[sess[k]] = k
        BY <3>6 DEF PanicTask, ReleaseQueue, RegistryInv, Holding
      <4>3. sess[j] # sess[k]
        BY <3>2, <4>1, <4>2
      <4> QED
        BY <3>2, <3>3, <3>6, <4>3 DEF PanicTask, ReleaseQueue, Shapes
    <3> QED
      BY Moves, <3>4, <3>5, <3>6 DEF PushTaskId, InsertTask, GetOrCreateSession
  <2> QED
    BY <2>1, <2>2
<1>3. \A j \in old' : pc'[j] = "ended"
  <2>1. pc[k] # "ended"
    BY Moves DEF PushTaskId, InsertTask, LockQueue, PanicTask, ReleaseQueue, GetOrCreateSession
  <2> QED
    BY <1>0, <2>1 DEF RegistryInv, Shapes
<1>4. ASSUME NEW i \in Ids, tasks'[i] # NoCall
      PROVE  IdOf[tasks'[i]] = i /\ pc'[tasks'[i]] \in Unfinished \cup {"finished", "ended"}
  <2>0. tasks'[i] \in Calls
    BY <1>4 DEF Shapes
  <2>1. CASE InsertTask(k) /\ i = IdOf[k]
    BY <2>1, Moves DEF InsertTask, Shapes, Unfinished, Goto
  <2>2. CASE ~(InsertTask(k) /\ i = IdOf[k])
    <3>1. tasks'[i] = tasks[i]
      BY <2>2, Moves DEF InsertTask, Shapes, dispatchVars, GetOrCreateSession, PushTaskId, LockQueue,
         PanicTask, ReleaseQueue
    <3>2. CASE tasks[i] # k
      BY <1>0, <1>4, <2>0, <3>1, <3>2 DEF RegistryInv
    <3>3. CASE tasks[i] = k
      <4>1. IdOf[k] = i /\ pc[k] \in Unfinished \cup {"finished", "ended"}
        BY <1>4, <3>1, <3>3 DEF RegistryInv
      <4>2. pc'[k] \in Unfinished \cup {"finished", "ended"}
        BY <4>1, Moves DEF Unfinished, PushTaskId, InsertTask, GetOrCreateSession
      <4> QED
        BY <3>1, <3>3, <4>1, <4>2
    <3> QED
      BY <3>2, <3>3
  <2> QED
    BY <2>1, <2>2
<1>5. ASSUME NEW i \in Ids PROVE tasks[i] \in old => tasks'[i] = tasks[i]
  <2>1. CASE InsertTask(k) /\ i = IdOf[k]
    BY <2>1 DEF InsertTask, RegistryInv, InHandler
  <2>2. CASE ~(InsertTask(k) /\ i = IdOf[k])
    BY <2>2, Moves DEF InsertTask, Shapes, dispatchVars, GetOrCreateSession, PushTaskId, LockQueue,
       PanicTask, ReleaseQueue
  <2> QED
    BY <2>1, <2>2
<1>6. ASSUME NEW i \in Ids, tasks'[i] \in old, NEW j \in Calls, IdOf[j] = i
      PROVE  pc'[j] \notin InHandler
  <2>1. tasks'[i] = tasks[i]
    <3>1. CASE InsertTask(k) /\ i = IdOf[k]
      <4>1. tasks'[i] = k /\ pc[k] = "pushed"
        BY <3>1 DEF InsertTask, Shapes
      <4> QED
        BY <1>6, <4>1 DEF RegistryInv
    <3>2. CASE ~(InsertTask(k) /\ i = IdOf[k])
      BY <3>2, Moves DEF InsertTask, Shapes, dispatchVars, GetOrCreateSession, PushTaskId, LockQueue,
         PanicTask, ReleaseQueue
    <3> QED
      BY <3>1, <3>2
  <2>2. pc[j] \notin InHandler /\ tasks[i] # NoCall
    BY <1>6, <2>1, RegistryAssumption DEF RegistryInv, Shapes
  <2>3. CASE j # k
    BY <1>0, <2>2, <2>3
  <2>4. CASE j = k /\ CheckDuplicate(k)
    BY <1>6, <2>2, <2>4 DEF CheckDuplicate, Goto, Shapes, InHandler
  <2>5. CASE j = k /\ ~CheckDuplicate(k)
    <3>1. pc[k] # "idle"
      BY <2>5 DEF Handler, Run, CheckCapacity, GetOrCreateSession, RefuseBranch, PushTaskId, InsertTask,
         SpawnTask, LockQueue, StartTask, FinishTask, PanicTask, ReleaseQueue
    <3> QED
      BY <2>2, <2>5, <3>1, Moves DEF InHandler, GetOrCreateSession, PushTaskId, InsertTask
  <2> QED
    BY <2>3, <2>4, <2>5
<1>7. \A i \in expired' : tasks'[i] \in old'
  BY <1>0, <1>5 DEF RegistryInv, Shapes
<1> QED
  BY <1>0, <1>1, <1>2, <1>3, <1>4, <1>6, <1>7 DEF RegistryInv

\* A step in which no call moves keeps the invariant: a retention time ends only
\* while no handler runs, and the collector removes what it collected.
LEMMA OtherKeeps ==
  ASSUME Shapes, RegistryInv, Shapes',
         \/ \E k \in Calls : Age(k)
         \/ \E i \in Ids : CancelTask(i) \/ RemoveTask(i)
         \/ CollectExpired \/ SweepSessions
  PROVE  RegistryInv'
<1>0. UNCHANGED <<pc, sess, queue, created>>
  BY NoCallMoves
<1>1. ASSUME NEW k \in Calls, Age(k) PROVE RegistryInv'
  <2>1. UNCHANGED <<tasks, expired>> /\ old' = old \cup {k} /\ pc[k] = "ended"
        /\ \A j \in Calls : pc[j] \notin InHandler
    BY <1>1 DEF Age, dispatchVars
  <2> QED
    BY <1>0, <2>1 DEF RegistryInv
<1>2. ASSUME NEW i \in Ids, CancelTask(i) PROVE RegistryInv'
  BY <1>0, <1>2 DEF CancelTask, RegistryInv, dispatchVars, gcVars
<1>3. ASSUME NEW i \in Ids, RemoveTask(i) PROVE RegistryInv'
  <2>1. UNCHANGED old /\ expired' = expired \ {i}
        /\ \A j \in Ids : tasks'[j] = tasks[j] \/ (j = i /\ tasks'[j] = NoCall)
    BY <1>3 DEF RemoveTask, Shapes
  <2>2. NoCall \notin old
    BY RegistryAssumption DEF Shapes
  <2>3. \A j \in expired' : tasks'[j] = tasks[j]
    BY <2>1 DEF Shapes
  <2> QED
    BY <1>0, <2>1, <2>2, <2>3 DEF RegistryInv
<1>4. CASE CollectExpired
  BY <1>0, <1>4 DEF CollectExpired, RegistryInv, dispatchVars
<1>5. CASE SweepSessions
  BY <1>0, <1>5 DEF SweepSessions, RegistryInv
<1> QED
  BY <1>1, <1>2, <1>3, <1>4, <1>5

\* The two invariants hold at the start and are kept together.
LEMMA RegistryStart == RegistryInit => Shapes /\ QueueOfSession /\ RegistryInv
<1> SUFFICES ASSUME RegistryInit PROVE Shapes /\ QueueOfSession /\ RegistryInv
  OBVIOUS
<1>1. Shapes /\ QueueOfSession
  BY DEF RegistryInit, Shapes, QueueOfSession, Stages
<1>2. created <= Cardinality({k \in Calls : sess[k] # 0})
  <2>1. {k \in Calls : sess[k] # 0} = {}
    BY DEF RegistryInit
  <2>2. Cardinality({}) = 0
    BY FS_EmptySet, Zenon
  <2>3. created = 0
    BY DEF RegistryInit
  <2> QED
    BY <2>1, <2>2, <2>3
<1> QED
  BY <1>1, <1>2 DEF RegistryInit, RegistryInv, Bound, Unfinished, Holding

\* What both invariants give to the theorems below.
LEMMA RegistryInductive ==
  Shapes /\ QueueOfSession /\ RegistryInv /\ [RegistryNext]_rvars
    => (Shapes /\ QueueOfSession /\ RegistryInv)'
<1> SUFFICES ASSUME Shapes, QueueOfSession, RegistryInv, [RegistryNext]_rvars
             PROVE  (Shapes /\ QueueOfSession /\ RegistryInv)'
  OBVIOUS
<1>1. CASE UNCHANGED rvars
  BY <1>1 DEF rvars, dispatchVars, gcVars, Shapes, QueueOfSession, RegistryInv
<1>2. CASE RegistryNext
  <2>1. Shapes'
    BY <1>2, ShapesStep
  <2>2. QueueOfSession'
    BY <1>2, <2>1, QueueStep
  <2>3. CASE \E k \in Calls : Handler(k) \/ Run(k)
    BY <2>1, <2>2, <2>3, CallKeeps
  <2>4. CASE ~\E k \in Calls : Handler(k) \/ Run(k)
    BY <1>2, <2>1, <2>2, <2>4, StepKinds, OtherKeeps
  <2> QED
    BY <2>3, <2>4
<1> QED
  BY <1>1, <1>2

\* Type correctness, in particular that the holder of a session's queue has
\* that session, and that there are never more sessions than calls.
THEOREM RegistryTyping == RegistrySpec => []RegistryTypeOK
<1> USE DEF RegistrySpec
<1>1. Shapes /\ QueueOfSession /\ RegistryInv => RegistryTypeOK
  BY TypeParts
<1> QED
  BY <1>1, RegistryStart, RegistryInductive, PTL

\* The invariant of the two-phase collector, whatever ids the calls ask for.
THEOREM RegistryInvariant == RegistrySpec => [](Shapes /\ RegistryInv)
BY RegistryStart, RegistryInductive, PTL DEF RegistrySpec

-----------------------------------------------------------------------------
(* The properties *)

\* Tasks with one session object never run at once, also when the map has
\* forgotten the object: the queue is a lock.  (SerialPerThread needs one object
\* per thread, which the sweep does not guarantee.)
THEOREM SessionQueueIsALock == RegistrySpec => []SerialPerSession
<1>1. Shapes /\ RegistryInv => SerialPerSession
  BY DEF RegistryInv, SerialPerSession, Running, Holding
<1> QED
  BY <1>1, RegistryInvariant, PTL

\* The collector takes only finished tasks out of the map, however its two
\* phases interleave with handlers that ask for the same id.
THEOREM CollectorSparesUnfinished == RegistrySpec => GcSparesUnfinished
<1> DEFINE Spares == \A i \in Ids : tasks[i] # NoCall /\ tasks'[i] = NoCall
                       => pc[tasks[i]] \in {"finished", "ended"}
<1>1. Shapes /\ RegistryInv /\ [RegistryNext]_rvars => [Spares]_rvars
  <2> SUFFICES ASSUME Shapes, RegistryInv, RegistryNext,
                      NEW i \in Ids, tasks[i] # NoCall, tasks'[i] = NoCall
               PROVE  pc[tasks[i]] \in {"finished", "ended"}
    OBVIOUS
  <2>1. ASSUME NEW k \in Calls, Handler(k) \/ Run(k) PROVE FALSE
    <3>1. CASE InsertTask(k)
      BY <3>1, RegistryAssumption DEF InsertTask, Shapes
    <3>2. CASE ~InsertTask(k)
      BY <2>1, <3>2, Moves DEF dispatchVars, GetOrCreateSession, PushTaskId, LockQueue, PanicTask,
         ReleaseQueue
    <3> QED
      BY <3>1, <3>2
  <2>2. ASSUME NEW j \in Ids, RemoveTask(j) PROVE pc[tasks[i]] = "ended"
    <3>1. i = j /\ i \in expired
      BY <2>2 DEF RemoveTask, Shapes
    <3> QED
      BY <3>1 DEF RegistryInv
  <2>3. CASE \/ \E k \in Calls : Age(k)
             \/ \E j \in Ids : CancelTask(j)
             \/ CollectExpired \/ SweepSessions
    BY <2>3 DEF Age, CancelTask, CollectExpired, SweepSessions, dispatchVars
  <2> QED
    BY StepKinds, <2>1, <2>2, <2>3
<1> QED
  BY <1>1, RegistryInvariant, PTL DEF RegistrySpec, GcSparesUnfinished

\* A task that was cancelled while it waited for the queue never runs.
THEOREM CancelledNeverRuns == RegistrySpec => CancelledInQueueNeverRuns
<1> DEFINE Stays == \A k \in Calls : k \in cancelled /\ ~Running(k) => ~Running(k)'
<1>1. Shapes /\ [RegistryNext]_rvars => [Stays]_rvars
  <2> SUFFICES ASSUME Shapes, RegistryNext, NEW k \in Calls, k \in cancelled, ~Running(k)
               PROVE  ~Running(k)'
    OBVIOUS
  <2>1. ASSUME NEW j \in Calls, Handler(j) \/ Run(j) PROVE ~Running(k)'
    <3>1. CASE j # k
      BY <2>1, <3>1, OthersStay DEF Running
    <3>2. CASE j = k /\ StartTask(k)
      BY <3>2 DEF StartTask, Goto, Running, Shapes
    <3>3. CASE j = k /\ ~StartTask(k)
      <4>1. pc[k] # "holding"
        BY <2>1, <3>3 DEF Handler, Run, CheckDuplicate, CheckCapacity, GetOrCreateSession, RefuseBranch,
           PushTaskId, InsertTask, SpawnTask, LockQueue, FinishTask, PanicTask, ReleaseQueue
      <4> QED
        BY <2>1, <3>3, <4>1, Moves DEF Running
    <3> QED
      BY <3>1, <3>2, <3>3
  <2> QED
    BY <2>1, StepKinds, NoCallMoves DEF Running
<1> QED
  BY <1>1, RegistryInvariant, PTL DEF RegistrySpec, CancelledInQueueNeverRuns

-----------------------------------------------------------------------------
(* The sweep *)

\* While no two unfinished tasks share an id, a step keeps every unfinished task
\* listed by its session and reachable through the map.
LEMMA EnrolledStep ==
  ASSUME Shapes, RegistryInv, Enrolled, [RegistryNext]_rvars, Shapes', OneTaskPerId'
  PROVE  Enrolled'
<1> DEFINE Listed(k) == pc[k] \in Unfinished \cup {"pushed"} => IdOf[k] \in task_ids[sess[k]]
           Mapped(k) == pc[k] \in Unfinished => tasks[IdOf[k]] = k
<1>1. ASSUME NEW k \in Calls, Handler(k) \/ Run(k), NEW j \in Calls PROVE Listed(j)' /\ Mapped(j)'
  <2>0. IdOf[j] \in Ids /\ IdOf[k] \in Ids /\ Listed(j) /\ Mapped(j)
    BY RegistryAssumption DEF Enrolled
  <2>1. CASE j # k
    <3>1. pc'[j] = pc[j]
      BY <1>1, <2>1, OthersStay
    <3>2. sess'[j] = sess[j]
      <4>1. CASE GetOrCreateSession(k)
        BY <2>1, <4>1, TakesSession
      <4> QED
        BY <1>1, <4>1, Moves DEF PushTaskId, InsertTask, LockQueue, PanicTask, ReleaseQueue, dispatchVars
    <3>3. ASSUME NEW s \in Objects PROVE task_ids[s] \subseteq task_ids'[s]
      <4>1. CASE PushTaskId(k)
        BY <4>1 DEF PushTaskId, Shapes
      <4> QED
        BY <1>1, <4>1, Moves DEF GetOrCreateSession, InsertTask, LockQueue, PanicTask, ReleaseQueue, dispatchVars
    <3>4. Listed(j)'
      BY <2>0, <3>1, <3>2, <3>3, HasObject DEF Bound, Unfinished
    <3>5. CASE InsertTask(k) /\ pc[j] \in Unfinished
      <4>1. pc'[k] \in Unfinished
        BY <3>5 DEF InsertTask, Goto, Shapes, Unfinished
      <4>2. IdOf[j] # IdOf[k]
        BY <2>1, <3>1, <3>5, <4>1 DEF OneTaskPerId
      <4> QED
        BY <2>0, <3>4, <3>5, <4>2 DEF InsertTask, Shapes
    <3>6. CASE ~(InsertTask(k) /\ pc[j] \in Unfinished)
      BY <1>1, <2>0, <3>1, <3>4, <3>6, Moves DEF PushTaskId, GetOrCreateSession, LockQueue, PanicTask,
         ReleaseQueue, dispatchVars
    <3> QED
      BY <3>5, <3>6
  <2>2. CASE j = k /\ PushTaskId(k)
    <3>1. sess[k] \in Objects
      BY <2>2, HasObject DEF PushTaskId, Bound
    <3> QED
      BY <2>0, <2>2, <3>1 DEF PushTaskId, Shapes, Goto, Unfinished
  <2>3. CASE j = k /\ InsertTask(k)
    BY <2>0, <2>3 DEF InsertTask, Shapes, Goto, Unfinished
  <2>4. CASE j = k /\ ~PushTaskId(k) /\ ~InsertTask(k)
    <3>1. CASE pc'[k] \in Unfinished \cup {"pushed"}
      BY <1>1, <2>0, <2>4, <3>1, Moves DEF LockQueue, PanicTask, ReleaseQueue, GetOrCreateSession,
         dispatchVars, Unfinished
    <3>2. CASE pc'[k] \notin Unfinished \cup {"pushed"}
      BY <2>4, <3>2
    <3> QED
      BY <3>1, <3>2
  <2> QED
    BY <2>1, <2>2, <2>3, <2>4
<1>2. ASSUME NEW i \in Ids, RemoveTask(i), NEW j \in Calls PROVE Listed(j)' /\ Mapped(j)'
  <2>1. /\ UNCHANGED <<pc, sess>> /\ tasks[i] \in old /\ IdOf[j] \in Ids
        /\ \A d \in Ids : d # i => tasks'[d] = tasks[d]
        /\ \A s \in Objects, d \in Ids : d # i /\ d \in task_ids[s] => d \in task_ids'[s]
    BY <1>2, RegistryAssumption DEF RemoveTask, RegistryInv, Shapes
  <2>2. pc[j] \in Unfinished \cup {"pushed"} => IdOf[j] # i
    <3> SUFFICES ASSUME pc[j] \in Unfinished \cup {"pushed"}, IdOf[j] = i PROVE FALSE
      OBVIOUS
    <3>1. pc[j] \notin InHandler
      BY <2>1 DEF RegistryInv
    <3>2. tasks[i] = j
      BY <3>1 DEF Enrolled, InHandler
    <3> QED
      BY <2>1, <3>2 DEF RegistryInv, Unfinished
  <2>3. pc[j] \in Unfinished \cup {"pushed"} => sess[j] \in Objects
    BY HasObject DEF Bound
  <2> QED
    BY <2>1, <2>2, <2>3 DEF Enrolled
<1>3. CASE \/ \E k \in Calls : Age(k)
           \/ \E i \in Ids : CancelTask(i)
           \/ CollectExpired \/ SweepSessions \/ UNCHANGED rvars
  BY <1>3 DEF Age, CancelTask, CollectExpired, SweepSessions, rvars, dispatchVars, Enrolled
<1> QED
  BY <1>1, <1>2, <1>3, StepKinds DEF Enrolled

\* While no two unfinished tasks share an id, the sweep forgets a session only
\* when every task that entered its id there has finished.
THEOREM SweepSparesBusySessions == RegistrySpec /\ []OneTaskPerId => SweptSessionIsIdle
<1> DEFINE Spares == \A t \in Threads : sessions[t] # 0 /\ sessions'[t] # sessions[t] =>
             \A k \in Calls : sess[k] = sessions[t] => pc[k] \in {"bound", "finished", "ended"}
<1>1. RegistryInit => Enrolled
  BY DEF RegistryInit, Enrolled, Unfinished
<1>2. Shapes /\ RegistryInv /\ Enrolled /\ [RegistryNext]_rvars => [Spares]_rvars
  <2> SUFFICES ASSUME Shapes, RegistryInv, Enrolled, RegistryNext,
                      NEW t \in Threads, sessions[t] # 0, sessions'[t] # sessions[t],
                      NEW k \in Calls, sess[k] = sessions[t]
               PROVE  pc[k] \in {"bound", "finished", "ended"}
    OBVIOUS
  <2>1. ASSUME NEW j \in Calls, Handler(j) \/ Run(j) PROVE FALSE
    <3>1. CASE GetOrCreateSession(j)
      BY <3>1, RegistryAssumption DEF GetOrCreateSession, Shapes
    <3> QED
      BY <2>1, <3>1, Moves DEF dispatchVars, InsertTask, PushTaskId, LockQueue, PanicTask, ReleaseQueue
  <2>2. CASE SweepSessions
    <3>1. task_ids[sess[k]] = {}
      BY <2>2 DEF SweepSessions
    <3>2. pc[k] \in Bound
      BY DEF RegistryInv
    <3> QED
      BY <3>1, <3>2 DEF Enrolled, Bound
  <2>3. CASE \/ \E j \in Calls : Age(j)
             \/ \E i \in Ids : CancelTask(i) \/ RemoveTask(i)
             \/ CollectExpired
    BY <2>3 DEF Age, CancelTask, RemoveTask, CollectExpired, dispatchVars
  <2> QED
    BY StepKinds, <2>1, <2>2, <2>3
<1>3. Shapes /\ RegistryInv /\ Enrolled /\ [RegistryNext]_rvars /\ Shapes' /\ OneTaskPerId' => Enrolled'
  BY EnrolledStep
<1> QED
  BY <1>1, <1>2, <1>3, RegistryInvariant, PTL DEF RegistrySpec, SweptSessionIsIdle
=============================================================================
