# A TLA+ verification of the Fiducia AI agent manager

The agent manager is a worker process (Rust, tokio, axum). It accepts tasks over
HTTP, runs a coding agent in a git checkout, streams what happens to clients,
and under governance does all of it only while it holds a fenced claim on a
work item. This directory holds TLA+ models of the parts of the worker that
keep state, the TLC runs that check them on small instances, and TLAPS proofs
for every value of the constants. `PROJECT.json` lists components, runs, the
map from definitions to source lines, hazards, findings and theorems.

## Inventory

| Part | State | Operations | What is hard | What makes it correct |
| --- | --- | --- | --- | --- |
| Task lifecycle (`src/orchestrator.rs`) | task flags, stage, claim, child process | `run_task`, `run_task_inner`, `run_task_lifecycle`, `run_claimed_lifecycle` | renewal and lifecycle share one `select!`; the lifecycle is not polled during a renewal; lost answers; crashes | no child that was not killed runs without a live lease; a fresh lease at push; completion is persisted; every task ends, unless it waits for the output of a dead child |
| Control-plane client (`src/control_plane.rs`) | agent id, claim | `register`, `claim_work`, `transition`, `renew_claim` | deadlines, requests that arrive after their sender gave up | only the current token changes an item |
| NATS outbox (`src/nats.rs`) | files, attempts, gate, cached client, gauges | `publish_event`, `start`, `drain_locked`, `finalize_delivery`, `move_to_dead_letter` | death between two file operations; a stored message whose ack is lost; gauges kept by hand | no accepted event is lost; quarantine is final; every event settles |
| Event bus and SSE (`src/event_bus.rs`, `src/state.rs`, `src/http.rs`) | sequence counter, replay history, receivers | `emit`, `subscribe`, `gc_task`, `stream` | emitters race between taking a number and pushing; lagging and resuming clients; readers that outlive their child | replay meets live; a stream that ends saw `done`; every stream of a finished task ends |
| Ingest side channel (`src/event_bus.rs`) | circuit breaker, senders | `circuit_allows`, `record_*`, `spawn_ingest` | senders outlive the circuit state that let them start | opens exactly on a streak, always recovers |
| Task registry (`src/http.rs`, `src/state.rs`, `src/orchestrator.rs`) | task and session maps, session queue | `dispatch_task`, `cancel_task`, `get_or_create_session`, `gc_finished` | several locks per handler; a collector that runs between them | the collector spares what is in use; a cancelled queued task never runs; nobody waits for ever but behind a task that runs for ever |
| Checkout (`src/orchestrator.rs`, `src/git.rs`, `src/thread_ops.rs`) | branch, tree, index, local and remote branches, `ready` | workspace preparation, add/commit/push, manual commit and merge | one checkout for all sessions; stages that fail half-way; manual operations outside the queue; restarts over what a dead process left; another worker of the thread | branches hold their own work; nothing uncommitted is lost; completed work stays on the remote; no edit reaches the parent branch |
| Reference fleet (`tools/reference-fleet/src/lib.rs`) | leases, slots, windows, heartbeats, store | `claim`, `renew`, `commit_if_current`, `fire_cron_once`, `cas`, `acquire_slot`, `consume_quota`, `heartbeat`, ... | old leases used after expiry and re-claim; failover | one authority, nothing stale revives, commits follow grants |
| Child processes (`src/git.rs`, `src/agents.rs`) | child, helpers, two pipes and their readers, deadline, token | `sh_capture_with_cancel`, `terminate_and_reap`, `CliRunner::run` | a kill reaches the direct child only; helpers keep pipes open; readers are awaited without a deadline, or not at all | a git command leaves nobody behind; an agent's output is complete before the commit; a stop ends the child |
| Startup and configuration (`src/main.rs`, `src/config.rs`, `src/control_plane.rs`) | environment, governance mode, control-plane handle, agent id | `run`, `from_env`, `resolve_governance_mode`, `ControlPlane::new`, `register` | blank and contradictory settings, a step that fails, restarts | a worker serves under authority or on loopback only |
| Not modelled: storage, prompt, redaction, log sink, tracing, build tooling | | | | see *What is not modelled* |

How the parts interact: `dispatch_task` creates a session and a task and spawns
`run_task`; that waits for the session's queue, prepares the checkout, claims
the work item and drives the lifecycle while renewing the claim. Every step
emits events; `AppState::emit` takes a number from the task and gives the event
to the bus, which keeps it for replay, fans it out to SSE clients and hands it
to the ingest channel, the log sink and the outbox. The collector loop reclaims
finished tasks, idle sessions and replay buffers. Cancellation is a token that
the lifecycle, the agent's child and every git child watch.

## Modules

| Module | Models | State and actions in terms of the code |
| --- | --- | --- |
| `GovernedTask` | one work item and several workers that run a task for it | `pc` is the await at which the task stands; `req` is the request the lifecycle awaits, `ren` the renewal of the `select!` loop, `since` its interval; `op` is the mutation of a stage: alive, exited or killed and still awaited, over, or `left` (the lifecycle returned and what it did not wait for may still be at work: a helper of the agent, the blocking write of a dropped publication). A cancellation kills a child (`Kill`), drops a publication and leaves an edit's write to its end. `Polled` says when the lifecycle future can move. `lease`, `item`, `net` are the services and the network (external) |
| `FencedWork` | the promise: abstract fenced work on one item | grants, starts, mutations that are waited for, and outcomes; `GovernedTask` implements it |
| `Outbox` | `src/nats.rs` | `phase` is where the holder of `outbox_gate` is, one action per file operation or publish; `Crash` and `Start` |
| `Delivery` | the promise of the outbox | an accepted event is held, stored, released or given up; `Outbox` implements it with `held <- pending` |
| `EventStream` | bus and SSE handler for one task | emitters take a number (`TakeSeq`) and push (`Push`) in two steps; run_task waits for the readers of an agent that exited (`drain`), not for those of one that was killed, and may panic (`dead`); clients subscribe, replay, receive, lag, resume |
| `IngestCircuit` | the breaker and its senders | time is the age of the last failure |
| `TaskRegistry` | the maps and the session queue | one action per critical section of `dispatch_task`, `run_task`, `cancel_task` and `gc_finished`; `PanicTask` unwinds `run_task` |
| `ChildProcess` | one child from spawn to return | `pc` is the await of the caller, `child` and `helper` are processes, `reader` the two reader tasks; the kinds differ as the code does (git with and without a token, agent) |
| `Startup` | a process coming up | `boot` is the step of `run()` that is next; environments distinguish absent, blank and set variables |
| `Checkout` | all sessions over one checkout | a work `<<s, n>>` is the edits of the n-th task of session s (n any number: the bound is in the guard of the tasks); tree, index and branches are sets of works; one action per git command |
| `Worker` | `Startup` and `Checkout` composed | only a serving process acts on the checkout, manual routes only ungoverned; a restart loses the sessions and keeps checkout and remote |
| `FleetAuthority` | leases, cron, store and side effects of `Coordinator` | one action per method; callers keep old leases |
| `Fleet` | the whole `Coordinator` | adds slots, quota and heartbeats on the same clock; the history `granted[t]` is the units granted before time t, `noticed[w]` the heartbeats of w that somebody found run out |
| `MC*` | instances for TLC (symmetry, constant functions, environments) | |
| `GovernedTaskProofs`, `OutboxProofs`, `EventStreamProofs`, `TaskRegistryProofs`, `WorkerProofs`, `ChildProcessProofs`, `IngestCircuitProofs`, `FleetProofs` | theorems about the modules they extend | `WorkerProofs` covers `Startup`, `Checkout` and `Worker`; `FleetProofs` covers `FleetAuthority` and `Fleet` |

Definitions named *Faulty variant* are plausible mistakes in the definition
after them. They are used only to confirm that a property notices the mistake.

## Runs

| Run | Shows | Bounds and why they are enough |
| --- | --- | --- |
| `governed` | the agents and git commands that were not killed run under the live lease, fresh pushes, persisted completion, refinement of `FencedWork` | 2 workers, 2 grants, TTL 4, interval and deadlines 1: a second worker can take over while the first is alive, and the lease just exceeds the slack condition below. Requests that arrive after their sender gave up are in `governed_live`; the proofs cover any number of both |
| `governed_live` | every task that came to its claim ends, no item stays running under a live lease, but for the wait for the output of a dead child | 1 worker, 2 grants, 1 late request, TTL 5, interval 2: a renewal can fail at every stage |
| `governed_margin` | **violation**, finding | the code's own ratio 30 : 10 : 10 |
| `outbox` | nothing lost, quarantine final, gauges exact, refinement of `Delivery` with its liveness: every event settles and stays settled | 2 events, 2 attempts, 2 deaths: a record behind a failing one, a death during recovery. The safety part is proved for all bounds |
| `stream` | replay meets live, an ended stream saw `done`, every stream of a task that is marked finished ends | 2 readers, 1 client, history and ring of 2, 4 events: both overflow, and `done` itself can be lost by lag |
| `stream_resume` | **violation**, finding | 2 readers, nothing trimmed |
| `ingest` | the breaker opens exactly on a streak, recovers | 3 senders, threshold 3, 2 attempts; no bound on time or events |
| `registry` | the collector spares unfinished tasks and busy sessions, a cancelled queued task never runs, every dispatch ends unless a task of its session runs for ever | 3 dispatches, 2 threads, ceiling 2: one thread has two tasks, and the third call may be refused. The second of the two on one thread may be cancelled; any task may panic, or run for ever. Each call has its own id; `CollectorSparesUnfinished` also covers calls that share one |
| `registry_serial` | **violation**, finding | 3 dispatches on one thread |
| `worker` | serves only under authority; branches apart, edits kept, completed work stays pushed, no edit on the parent | 13 environments (a complete governed one, a complete local one, and each with one thing missing, blank or too much); 1 restart at any step; 2 feature sessions (symmetric) and one named for the base branch, one open at a time, 2 tasks, another worker's push per thread, 1 manual operation |
| `child` | a git command leaves nobody behind, agent output complete, a stop ends the child, only helpers delay | all three kinds, 2 helpers that inherit any of the pipes, 1 unread line per pipe |
| `fleet` | one authority, no revival, commits in grant order, watch replays the store, capacity and quota kept, every lapse that is noticed counted, once | 2 holders, 2 resources, 3 grants, 3 seconds, 2 writes; 3 workers, 2 slots, quota of 2 per 2 seconds, 2 heartbeats each. The five families of methods share nothing but the clock, so the constraint `OneFamily` explores them one at a time |

Runs that say `CHECK_DEADLOCK FALSE` bound the number of claims, calls, tasks
or seconds, and stop when the bound is reached and all work is done.

### Fairness

- `GovernedTask`: the runtime polls ready futures, the deadlines of children and
  of HTTP and node calls fire, a file write ends, a SIGKILL ends an agent, time
  passes (weak fairness). The lifecycle is not polled during a renewal and
  `select!` picks at random among ready branches, so it needs strong fairness.
  Nothing is assumed about the services, the preparation of the workspace, the
  exit of a child, or the END OF ITS OUTPUT: an agent that exited and a git
  command that was killed or exited are waited for until both pipes are closed,
  with neither token nor deadline. `EveryTaskEnds` and `RunningIsResolved` name
  that wait (`AwaitsOutput`) as the one thing that can last for ever; during it
  the worker goes on renewing the lease. `ChildProcess` shows what the wait
  depends on (`OnlyHelpersDelay`).
- `ChildProcess`: the runtime polls the caller and the readers, a signal is
  delivered, the clock runs. Neither the child nor a helper has to exit.
- `Outbox`: the retry task keeps draining, the clock runs and a dead process is
  restarted; reads, connects, moves and writes that are tried for ever succeed
  at some time (strong fairness). Publishing is NOT assumed to succeed.
  From this follows the weak fairness of `Settle` in `Delivery`.
- `EventStream`: once `run_task` has marked the task finished its `done` follows,
  an emitter that took a number pushes, the collector runs, clients read. That
  `run_task` comes so far is not assumed: after a panic, or while a helper of an
  agent that exited keeps a pipe open, there is no `done` and no collection, and
  a stream stays open. Clients that disconnect are not forced to return.
- `TaskRegistry`: a handler that began goes on, the tokio mutex is fair, a task
  cancelled in the queue finishes and a finished one drops its guard. A task that
  runs need not finish, and a panic is never forced; it releases the queue.
- `IngestCircuit`: requests and backoffs end, the clock runs, and events keep
  coming: the breaker closes only when the next event asks.

## Proofs

All theorems are checked by TLAPS to the last leaf; no fact is assumed beyond
the named `ASSUME`s, which TLC evaluates in the runs of their modules.

`GovernedTaskProofs` holds for any set of workers, any number of grants and
late requests and any timing with `Timeout <= Interval` and
`Interval + Timeout < TTL` (`TimingAssumption`):

- `Typing`: `Spec => []TypeOK`, action by action.
- `AuthorityInvariant`, `ChildAuthority` (`ChildUnderLease`) and
  `PushFreshness` (`PushIsFresh`) under the extra hypothesis
  `LeaseCoversFirstRenewal` (`2 * Timeout + Interval < TTL`). The property is
  not inductive: a child is safe because of how much of the lease is LEFT at
  each point of the loop. `Authority` says this per agent: `ShapeOf` (locals are
  fresh outside the loop, a mutation belongs to a stage), `CoveredOf` (lease
  left against time since the last tick, age of an outstanding renewal, and of
  the answer to `running`) and `FreshOf` (what the answer to the exact renewal
  is worth). The hypothesis is needed: `governed_margin` shows the failure when
  it holds with equality only, which is the code's own configuration.
- `CompletedPersisted` (`CompletedIsPersisted`), with no timing condition, from
  `Persisted`: what an Ok answer to a terminal transition has left behind.
- `FencingInvariant` (`Fencing`), with no timing condition: what each agent
  awaits belongs to the stage it is in, each claim token has one holder, the
  item is running while its holder works, and a late terminal request in the
  network is from a holder that has stopped working.
- `GovernedImplementsFencedWork` (`ImplementsFencedWork`), under
  `LeaseCoversFirstRenewal`: the step simulation, one lemma per action, from
  `Authority` (a child that was not killed is one of the current grant, so a new
  grant finds none) and `Fencing` (an outcome is decided once, by whom the item
  was granted to, when nothing of the task is waited for any more). What a task
  leaves behind without waiting for it is outside the refinement; see
  `NothingStaleMutates` below.

`OutboxProofs` holds for any finite set of events, any attempt limit and any
number of crashes: `OutboxInvariant` proves
`OutboxInv == OutboxTypeOK /\ GateInv /\ GaugeInv /\ QuarantineIsFinal /\ NoEventLost`.
`GateInv` says what the gate holder has in hand in each phase, `GaugeInv` that
the gauges count at every step (so they never wrap below zero). From it follow
`OutboxTyping`, `AcceptedIsNeverLost`, `QuarantineFinal` and `GaugesCount`.
`OutboxImplementsDelivery` proves that every step maps to a step of `Delivery`
or a stutter; it needs `OriginInv` besides, which says that what is pending or
in the stream was accepted, so an event is accepted only once.

`EventStreamProofs` holds for any readers and clients, any capacity and any
number of events: `StreamTyping`, `SnapshotAndLiveMeet` (`SnapshotMeetsLive`)
and `EndMeansDone` (`EndedStreamSawDone`), with `StreamInvariant` for the parts
they rest on. `NumbersInv`: a number is taken once and `done` is run_task's last.
`ChannelInv`: an open channel holds the newest `Cap` of what it was sent, none of
it twice, and has `done` once run_task has pushed it. `ConnectionOf`: what a client
holds was pushed before, and a connection whose end is decided, by its snapshot
or by the collector, still has `done` before it. The two properties are
conjuncts of the induction: the collector may close a receiver because
`SnapshotMeetsLive` says that `done` is in it. That a pushed number is new to
the channel (`PushNumbers`) is why the dedup of `emit` never drops an event. The
filter of `subscribe` is the recursive function `After`; what it returns is
proved once (`AfterAll`), from the smallest counterexample (`Least`).

`TaskRegistryProofs` holds for any finite set of calls, any threads, ids and
ceiling. `RegistryInv` relates every call to its session, its queue and the
task map; its last two conjuncts are the reason why `gc_finished`, which collects
ids under one lock and removes them under another, removes what it collected: a
handler that asks for the id of a listed task has not passed the duplicate check.
From it follow `RegistryTyping`, `SessionQueueIsALock` (tasks with the same session
object never run at once, even when the map forgot the object: the finding
`registry_serial` needs two objects), `CollectorSparesUnfinished` and
`CancelledNeverRuns`. `SweepSparesBusySessions` proves `SweptSessionIsIdle` for
every behaviour in which no two unfinished tasks share an id (`OneTaskPerId`).
The condition is needed: the sweep looks a session's tasks up by id, so with a shared id (which
two concurrent dispatches can achieve, see *Findings*) it can miss one that
was overwritten in the map.

`WorkerProofs`: `ServingAuthority` for every environment and any failures and
restarts, from `StartupInv` (what each step of `run()` has established), and
`CheckoutTyping` for any number of open sessions. With one session open at a
time (`MaxOpen <= 1`: a worker bound to a thread, or callers who dispatch to one
thread at a time) and for any sessions, tasks, restarts, manual
operations and other workers: `OwnWorkOnly`, `ParentUntouched` and
`UncommittedKept` from `CheckoutInv` (`Checked`: which branch is checked out while
a session prepares, works or is warm; `InPlace`: work is on its own branch, or
uncommitted while that branch is checked out), and `CompletedPushed` from
`WorkInv` and `PushedInv` besides: tasks are numbered in order, and the edits of
a task move with its stages from the tree to the remote branch.
With more sessions over one checkout these do not hold in general; see
`OneAgentPerCheckout` below.

`ChildProcessProofs` holds for any helpers and any amount of output:
`ChildTyping`, `GitReturnsAlone` (`GitLeavesNobody`) and `AgentOutputComplete`
(`AgentOutputIsComplete`), from `ChildInv`: which of the two readers has been
ended at each await of the caller, and that nobody holds a pipe whose reader saw
its end.

`IngestCircuitProofs`: `BreakerOpensOnStreak` for any senders, attempts,
threshold and window; the counter of the breaker is the streak.

`FleetProofs` holds for any holders, resources, keys, values, number of grants and
lengths of lease, and any finite set of workers. `AuthorityInv` (tokens count
grants, no lease or commit is ahead of them, the watch log) gives
`FleetOneAuthority`, `FleetWatchComplete` and the action properties
`FleetStaleStaysStale` and `FleetCommitsInOrder`; `CapacityInv` gives
`FleetCapacityBounded` and `FleetLapsesCountedOnce` (from `LapsesInv`: a worker is
recorded as expired exactly when the lapse of its last heartbeat was noticed). Its
part `QuotaInv`
says how much was granted since the start of the open window and how much the window
before can have granted within one window's length of it: two quotas is
the most a span as long as a window can get.

The library's induction theorems take an operator as a parameter, which the
provers here cannot instantiate. Where a fact about all sequences was needed,
it is proved from its smallest counterexample, with the least-element
principle derived from `WellFoundedInduction`.

Only model-checked: all liveness (`EveryTaskEnds`, `RunningIsResolved`,
`StreamsEnd`, `CircuitRecovers`, `EveryDispatchEnds`, `StopEndsChild`,
`OnlyHelpersDelay` and the fairness part of `ImplementsDelivery`), because the prover
does not reason about fairness and `ENABLED`. Every invariant and every action
property of the passing runs is proved, the ones of `Worker` and
`SweptSessionIsIdle` under the conditions above.

## Findings

Each of these runs ends in a counterexample; `PROJECT.json` quotes the line of
the repository that says otherwise.

1. `governed_margin`: lease 30 s, interval 10 s, deadlines 10 s leave no slack
   before the first periodic renewal; a child may be alive when the lease ends.
2. `stream_resume`: numbers are taken and pushed in two steps, so a client that
   resumes from a higher id misses a lower one.
3. `registry_serial`: the collector may forget a session between its lookup and
   the push of the task id; the thread then has two queues.

The modules also state formulas that are known not to hold. They are not runs;
naming one in the configuration of its module shows the counterexample.

- `RunningExitIsReported` (`GovernedTask`): a lost answer to the `running`
  transition ends the task without a terminal transition; the README speaks of
  a terminal status on every normal exit.
- `NothingStaleMutates` (`GovernedTask`): "no child process can keep mutating under
  stale authority", of everything that can mutate. An edit's write is awaited
  through a cancellation, a killed child may be slow to die, and a helper of the
  agent or the write of a dropped publication may live on after the terminal
  status. `ChildUnderLease` is the part of the sentence that the code keeps.
- `EveryRunFinishes` (`TaskRegistry`): a task that panics (the error text of a
  failed command is cut at byte 1000, perhaps inside a character) is never
  marked finished: it counts as live and is never collected.
- `TimeoutEndsCall`, `AgentLeavesNobody` (`ChildProcess`): a helper that keeps a
  pipe open holds a timed-out git command for ever, and the helpers of a killed
  agent live on.
- `TerminalIsLast` (`EventStream`): events follow `done` after a kill, whose
  readers nobody awaits, or after a cancellation that found the task unfinished.
- `ReclaimedStaysReclaimed` (`EventStream`): a reader that outlives its killed
  child recreates a collected channel, which nothing collects again.
- `OneTaskPerId` (`TaskRegistry`, with `IdOf <- SameId`): two concurrent
  dispatches of one id both pass the duplicate check.
- `LiveWithinCeiling` (`TaskRegistry`): two concurrent dispatches both count the
  live tasks before either inserts.
- `OneAgentPerCheckout` and `UncommittedIsKept` (`Checkout`, with `MaxOpen = 2`): a
  worker that is not bound to a thread has one checkout and one queue per
  session; an agent of one session can write between the other's look at the
  tree and its `switch --discard-changes`.

## What is not modelled

- Artifact storage and `open_pr`: file copies and an external command that
  change no state of the worker or its checkout. Prompt text, redaction, log
  lines, metrics text, paths and names from the configuration: data.
- `skip_boot_git_sync`: the branch of workspace preparation without a switch;
  the operator vouches for the checkout.
- What an agent does with git itself: in `Checkout` it only edits files. Nothing in
  the code makes it keep to that, and the difference matters: an agent that
  commits by itself leaves a clean tree, so the task goes on to publication and
  completes without a push. `CompletedWorkIsPushed` is about edits an agent left
  in the tree.
- What the helpers of a killed agent go on writing to the checkout. The processes
  of a killed worker die with it, as in a container.
- A corrupt outbox file, which stops every drain and every start until it is
  removed; a read that fails for a while is modelled.
- The saturation of the reference fleet's 64-bit clock and tokens.
- Authentication and the binding of a worker to a thread, repository and base
  branch: they refuse a request before any state is read.

## Plan

Done, in order of importance: `GovernedTask` with `FencedWork` and its proofs,
`Outbox` with `Delivery` and its proofs, `EventStream`, `TaskRegistry`,
`ChildProcess`, `Startup`, `Checkout` and their composition `Worker`,
`IngestCircuit`, `FleetAuthority` and `Fleet`, each with its proofs.

Left to model: `skip_boot_git_sync` with what an operator guarantees; the
dropped session of `registry_serial` composed with one checkout.

Left to prove:

1. `Checkout` with several sessions open: which of its properties survive when
   `MaxOpen > 1`, and the weaker statement for the others.
2. The safety part of `OnlyHelpersDelay`: a caller that waits for a reader waits
   for somebody who holds its pipe.
3. `ResumeIsComplete` under the condition that events were pushed in the order
   of their numbers, which is what the finding `stream_resume` lacks.
