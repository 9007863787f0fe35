----------------------------- MODULE TaskRegistry -----------------------------
(***************************************************************************)
(* The worker's task and session maps: dispatch_task and cancel_task       *)
(* (src/http.rs), get_or_create_session and run_task                       *)
(* (src/orchestrator.rs) and gc_finished (src/state.rs).                   *)
(*                                                                         *)
(* Handlers, tasks and the collector run on different threads; each lock   *)
(* they take is one step.  A handler call is the identity of the TaskState *)
(* it creates.  A session object stays alive while a task refers to it,    *)
(* also when the map has forgotten it.                                     *)
(***************************************************************************)
EXTENDS Naturals, FiniteSets

CONSTANTS
  Calls,             \* POST /tasks calls
  Ids, Threads,      \* task ids and thread ids
  IdOf, ThreadOf,    \* what each call asks for
  MAX_ACTIVE_TASKS,
  Cancels,           \* bound: task ids for which cancel_task is called
  NoCall, NoId       \* Option::None

ASSUME RegistryAssumption ==
  /\ IsFiniteSet(Calls) /\ MAX_ACTIVE_TASKS \in Nat /\ Cancels \subseteq Ids
  /\ IdOf \in [Calls -> Ids] /\ ThreadOf \in [Calls -> Threads]
  /\ NoCall \notin Calls /\ NoId \notin Ids

VARIABLES
  pc,             \* where each call, and then its task, is
  tasks,          \* AppState.tasks
  sessions,       \* AppState.sessions: session object of each thread, or 0
  created,        \* how many session objects were created
  sess,           \* session object each call holds
  task_ids,       \* ThreadSession.task_ids, without repetitions
  queue,          \* holder of ThreadSession.queue
  running_task_id,
  cancelled,      \* tasks that were cancelled
  old,            \* finished tasks whose finished_at lies before the cutoff
  gc,             \* the collector: "idle" or "remove"
  expired         \* ids it has still to remove

dispatchVars == <<tasks, sessions, created, sess, task_ids>>
gcVars == <<old, gc, expired>>
rvars == <<pc, dispatchVars, queue, running_task_id, cancelled, gcVars>>

Objects == 1..Cardinality(Calls)

\* A handler between its first and its last step.
InHandler == {"checked", "admitted", "bound", "pushed", "inserted"}
\* A TaskState in the map whose `finished` flag is not set.
Unfinished == {"inserted", "queued", "holding", "running", "unrun", "panicked"}
Stages == InHandler \cup Unfinished \cup {"idle", "finished", "ended", "rejected"}

RegistryTypeOK ==
  /\ pc \in [Calls -> Stages]
  /\ tasks \in [Ids -> Calls \cup {NoCall}]
  /\ sessions \in [Threads -> {0} \cup Objects] /\ created \in {0} \cup Objects
  /\ sess \in [Calls -> {0} \cup Objects]
  /\ task_ids \in [Objects -> SUBSET Ids]
  /\ queue \in [Objects -> Calls \cup {NoCall}]
  /\ \A s \in Objects : queue[s] # NoCall =>
       sess[queue[s]] = s /\ pc[queue[s]] \in {"holding", "running", "unrun", "finished"}
  /\ running_task_id \in [Objects -> Ids \cup {NoId}]
  /\ cancelled \subseteq Calls /\ old \subseteq Calls
  /\ gc \in {"idle", "remove"} /\ expired \subseteq Ids

RegistryInit ==
  /\ pc = [k \in Calls |-> "idle"]
  /\ tasks = [i \in Ids |-> NoCall]
  /\ sessions = [t \in Threads |-> 0] /\ created = 0
  /\ sess = [k \in Calls |-> 0]
  /\ task_ids = [s \in Objects |-> {}]
  /\ queue = [s \in Objects |-> NoCall]
  /\ running_task_id = [s \in Objects |-> NoId]
  /\ cancelled = {} /\ old = {}
  /\ gc = "idle" /\ expired = {}

Goto(k, s) == pc' = [pc EXCEPT ![k] = s]

-----------------------------------------------------------------------------
(* dispatch_task *)

\* Idempotent re-dispatch: an id that is in the map is answered `duplicate`.
CheckDuplicate(k) ==
  /\ pc[k] = "idle"
  /\ Goto(k, IF tasks[IdOf[k]] = NoCall THEN "checked" ELSE "rejected")
  /\ UNCHANGED <<dispatchVars, queue, running_task_id, cancelled, gcVars>>

\* Registered tasks that are not finished.
live == {i \in Ids : tasks[i] # NoCall /\ pc[tasks[i]] \in Unfinished}

\* Backpressure.
CheckCapacity(k) ==
  /\ pc[k] = "checked"
  /\ Goto(k, IF Cardinality(live) >= MAX_ACTIVE_TASKS THEN "rejected" ELSE "admitted")
  /\ UNCHANGED <<dispatchVars, queue, running_task_id, cancelled, gcVars>>

\* get_or_create_session, under the lock of the map; a branch that is refused
\* ends the call before.
GetOrCreateSession(k) ==
  /\ pc[k] = "admitted"
  /\ LET t == ThreadOf[k]
     IN IF sessions[t] # 0
          THEN sess' = [sess EXCEPT ![k] = sessions[t]] /\ UNCHANGED <<sessions, created>>
          ELSE /\ created' = created + 1
               /\ sessions' = [sessions EXCEPT ![t] = created']
               /\ sess' = [sess EXCEPT ![k] = created']
  /\ Goto(k, "bound")
  /\ UNCHANGED <<tasks, task_ids, queue, running_task_id, cancelled, gcVars>>

RefuseBranch(k) ==
  /\ pc[k] = "admitted"
  /\ Goto(k, "rejected")
  /\ UNCHANGED <<dispatchVars, queue, running_task_id, cancelled, gcVars>>

PushTaskId(k) ==
  /\ pc[k] = "bound"
  /\ task_ids' = [task_ids EXCEPT ![sess[k]] = @ \cup {IdOf[k]}]
  /\ Goto(k, "pushed")
  /\ UNCHANGED <<tasks, sessions, created, sess, queue, running_task_id, cancelled, gcVars>>

InsertTask(k) ==
  /\ pc[k] = "pushed"
  /\ tasks' = [tasks EXCEPT ![IdOf[k]] = k]
  /\ Goto(k, "inserted")
  /\ UNCHANGED <<sessions, created, sess, task_ids, queue, running_task_id, cancelled, gcVars>>

\* queued_task_ids is written and never read; the task is spawned.
SpawnTask(k) ==
  /\ pc[k] = "inserted"
  /\ Goto(k, "queued")
  /\ UNCHANGED <<dispatchVars, queue, running_task_id, cancelled, gcVars>>

-----------------------------------------------------------------------------
(* run_task *)

LockQueue(k) ==
  /\ pc[k] = "queued" /\ queue[sess[k]] = NoCall
  /\ queue' = [queue EXCEPT ![sess[k]] = k]
  /\ Goto(k, "holding")
  /\ UNCHANGED <<dispatchVars, running_task_id, cancelled, gcVars>>

\* Faulty variant: the first check of ensure_task_active is missing.
StartTaskUnchecked(k) ==
  /\ pc[k] = "holding"
  /\ running_task_id' = [running_task_id EXCEPT ![sess[k]] = IdOf[k]]
  /\ Goto(k, "running")
  /\ UNCHANGED <<dispatchVars, queue, cancelled, gcVars>>

\* running_task_id is set; a cancelled task does not begin.
StartTask(k) ==
  /\ pc[k] = "holding"
  /\ running_task_id' = [running_task_id EXCEPT ![sess[k]] = IdOf[k]]
  /\ Goto(k, IF k \in cancelled THEN "unrun" ELSE "running")
  /\ UNCHANGED <<dispatchVars, queue, cancelled, gcVars>>

FinishTask(k) ==
  /\ pc[k] \in {"running", "unrun"}
  /\ Goto(k, "finished")
  /\ UNCHANGED <<dispatchVars, queue, running_task_id, cancelled, gcVars>>

\* run_task unwinds: sh_capture_with_cancel cuts the error text of a failed git
\* command at byte 1000, which panics inside a character.  The guard of the queue
\* drops; `finished` is never set and running_task_id stays.
PanicTask(k) ==
  /\ pc[k] = "running"
  /\ queue' = [queue EXCEPT ![sess[k]] = NoCall]
  /\ Goto(k, "panicked")
  /\ UNCHANGED <<dispatchVars, running_task_id, cancelled, gcVars>>

\* Faulty variant: the guard is leaked.
ReleaseQueueLeaked(k) ==
  /\ pc[k] = "finished"
  /\ running_task_id' = [running_task_id EXCEPT ![sess[k]] = IF @ = IdOf[k] THEN NoId ELSE @]
  /\ Goto(k, "ended")
  /\ UNCHANGED <<dispatchVars, queue, cancelled, gcVars>>

\* running_task_id is cleared if it is still this task, then the guard drops.
ReleaseQueue(k) ==
  /\ pc[k] = "finished"
  /\ running_task_id' = [running_task_id EXCEPT ![sess[k]] = IF @ = IdOf[k] THEN NoId ELSE @]
  /\ queue' = [queue EXCEPT ![sess[k]] = NoCall]
  /\ Goto(k, "ended")
  /\ UNCHANGED <<dispatchVars, cancelled, gcVars>>

\* cancel_task on a registered, unfinished task.
CancelTask(i) ==
  /\ i \in live /\ tasks[i] \notin cancelled
  /\ cancelled' = cancelled \cup {tasks[i]}
  /\ UNCHANGED <<pc, dispatchVars, queue, running_task_id, gcVars>>

-----------------------------------------------------------------------------
(* gc_finished *)

\* The retention time passes for a finished task; no handler call and no step
\* of a finished task lasts that long.
Age(k) ==
  /\ pc[k] = "ended" /\ k \notin old
  /\ \A j \in Calls : pc[j] \notin InHandler
  /\ old' = old \cup {k}
  /\ UNCHANGED <<pc, dispatchVars, queue, running_task_id, cancelled, gc, expired>>

\* Faulty variant: the collector takes every task that has been cancelled, too.
CollectCancelled ==
  /\ gc = "idle"
  /\ expired' = {i \in Ids : tasks[i] \in old \cup cancelled}
  /\ gc' = "remove"
  /\ UNCHANGED <<pc, dispatchVars, queue, running_task_id, cancelled, old>>

CollectExpired ==
  /\ gc = "idle"
  /\ expired' = {i \in Ids : tasks[i] \in old}
  /\ gc' = "remove"
  /\ UNCHANGED <<pc, dispatchVars, queue, running_task_id, cancelled, old>>

\* One turn of the loop: out of the map and out of its session.
RemoveTask(i) ==
  /\ gc = "remove" /\ i \in expired
  /\ expired' = expired \ {i}
  /\ IF tasks[i] = NoCall THEN UNCHANGED <<tasks, task_ids>>
     ELSE /\ tasks' = [tasks EXCEPT ![i] = NoCall]
          /\ task_ids' = [task_ids EXCEPT ![sess[tasks[i]]] = @ \ {i}]
  /\ UNCHANGED <<pc, sessions, created, sess, queue, running_task_id, cancelled, old, gc>>

\* Faulty variant: idle means only that nothing runs.
SweepNotRunning ==
  /\ gc = "remove" /\ expired = {}
  /\ gc' = "idle"
  /\ sessions' = [t \in Threads |->
       IF sessions[t] # 0 /\ running_task_id[sessions[t]] = NoId THEN 0 ELSE sessions[t]]
  /\ UNCHANGED <<pc, tasks, created, sess, task_ids, queue, running_task_id, cancelled, old, expired>>

\* Sessions with no task and nothing running are dropped.
SweepSessions ==
  /\ gc = "remove" /\ expired = {}
  /\ gc' = "idle"
  /\ sessions' = [t \in Threads |->
       IF /\ sessions[t] # 0
          /\ task_ids[sessions[t]] = {} /\ running_task_id[sessions[t]] = NoId
       THEN 0 ELSE sessions[t]]
  /\ UNCHANGED <<pc, tasks, created, sess, task_ids, queue, running_task_id, cancelled, old, expired>>

-----------------------------------------------------------------------------
Handler(k) ==
  \/ CheckDuplicate(k) \/ CheckCapacity(k) \/ GetOrCreateSession(k) \/ RefuseBranch(k)
  \/ PushTaskId(k) \/ InsertTask(k) \/ SpawnTask(k)

Run(k) == LockQueue(k) \/ StartTask(k) \/ FinishTask(k) \/ PanicTask(k) \/ ReleaseQueue(k)

RegistryNext ==
  \/ \E k \in Calls : Handler(k) \/ Run(k) \/ Age(k)
  \/ (\E i \in Cancels : CancelTask(i)) \/ (\E i \in Ids : RemoveTask(i))
  \/ CollectExpired \/ SweepSessions

RegistrySpec == RegistryInit /\ [][RegistryNext]_rvars

\* What a task does without waiting for anything but the queue.
Advance(k) == LockQueue(k) \/ StartTask(k) \/ (pc[k] = "unrun" /\ FinishTask(k)) \/ ReleaseQueue(k)

\* A handler that began goes on.  The queue is a fair mutex, a cancelled task
\* finishes at once and a finished one drops its guard.  Nothing obliges a
\* RUNNING task to finish: the output of a child that is dead is awaited without
\* a deadline.
RegistryFairSpec ==
  /\ RegistrySpec
  /\ \A k \in Calls : WF_rvars(pc[k] # "idle" /\ Handler(k)) /\ WF_rvars(Advance(k))

-----------------------------------------------------------------------------
(* Properties *)

Running(k) == pc[k] = "running"

\* The collector takes no task out of the map, and so out of reach of
\* cancel_task and of the duplicate check, before the task has finished.
GcSparesUnfinished ==
  [][\A i \in Ids : tasks[i] # NoCall /\ tasks'[i] = NoCall => pc[tasks[i]] \in {"finished", "ended"}]_rvars

\* A session is forgotten only when every task that entered its id has come to
\* its end, so its queue still orders the work of its thread.  (A call that has
\* the session and has not yet entered its id is not protected: SerialPerThread.)
SweptSessionIsIdle ==
  [][\A t \in Threads : sessions[t] # 0 /\ sessions'[t] # sessions[t] =>
       \A k \in Calls : sess[k] = sessions[t] => pc[k] \in {"bound", "finished", "ended"}]_rvars

\* A task that was cancelled before it got the queue never runs.
CancelledInQueueNeverRuns ==
  [][\A k \in Calls : k \in cancelled /\ ~Running(k) => ~Running(k)']_rvars

\* Every call that passed the duplicate check is refused, comes to its end or
\* dies of its own panic, unless a task of its own session (itself, or one it
\* waits for) runs for ever.  Nobody waits behind a task that ended, panicked or
\* was cancelled in the queue, nor behind one of another session.
EveryDispatchEnds ==
  \A k \in Calls :
    (pc[k] = "checked") ~> \/ pc[k] \in {"rejected", "ended", "panicked"}
                           \/ \E j \in Calls : [](sess[j] = sess[k] /\ Running(j))

\* "Tasks on the same thread share it and run serially through the session
\* queue": two tasks of one thread do not run at once.
SerialPerThread ==
  \A k, j \in Calls : Running(k) /\ Running(j) /\ ThreadOf[k] = ThreadOf[j] => k = j

-----------------------------------------------------------------------------
(* The inductive invariants of the proofs *)

\* Stages of a call that has its session, and of one that has its queue.
Bound == {"bound", "pushed", "finished", "ended"} \cup Unfinished
Holding == {"holding", "running", "unrun", "finished"}

RegistryInv ==
  /\ \A k \in Calls : sess[k] # 0 <=> pc[k] \in Bound
  /\ created <= Cardinality({k \in Calls : sess[k] # 0})
  /\ \A k \in Calls : pc[k] \in Holding => queue[sess[k]] = k
  /\ \A k \in old : pc[k] = "ended"
  /\ \A i \in Ids : tasks[i] # NoCall =>
       IdOf[tasks[i]] = i /\ pc[tasks[i]] \in Unfinished \cup {"finished", "ended"}
  \* While an expired task is in the map no handler that asks for its id is past
  \* the duplicate check, so what the collector removes is what it collected.
  /\ \A i \in Ids : tasks[i] \in old => \A k \in Calls : IdOf[k] = i => pc[k] \notin InHandler
  /\ \A i \in expired : tasks[i] \in old

\* A task that has entered its id is listed by its session until it finishes,
\* and the map leads to it.  Inductive only while no two calls share an id.
Enrolled ==
  \A k \in Calls :
    /\ pc[k] \in Unfinished \cup {"pushed"} => IdOf[k] \in task_ids[sess[k]]
    /\ pc[k] \in Unfinished => tasks[IdOf[k]] = k

\* Tasks that share a session object do not run at once: its queue is a lock.
SerialPerSession ==
  \A k, j \in Calls : Running(k) /\ Running(j) /\ sess[k] = sess[j] => k = j

-----------------------------------------------------------------------------
(* Known not to hold (README) *)

\* "Failures surface as `error` + `done{failed}` events": a task that runs
\* finishes, and so does not count against the ceiling for ever.
EveryRunFinishes ==
  \A k \in Calls : (pc[k] = "running") ~> (pc[k] = "finished")

\* "Idempotent re-dispatch": two calls with one id do not both become tasks
\* that are unfinished at the same time.
OneTaskPerId ==
  \A k, j \in Calls : pc[k] \in Unfinished /\ pc[j] \in Unfinished /\ IdOf[k] = IdOf[j] => k = j

\* "Ceiling on live (unfinished) tasks this worker will hold at once".
LiveWithinCeiling == Cardinality(live) <= MAX_ACTIVE_TASKS
=============================================================================
