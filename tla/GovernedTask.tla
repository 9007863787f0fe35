------------------------------ MODULE GovernedTask ------------------------------
(***************************************************************************)
(* The governed life of a task: run_task_inner, run_task_lifecycle and     *)
(* run_claimed_lifecycle of src/orchestrator.rs, the client calls          *)
(* claim_work, transition and renew_claim of src/control_plane.rs, and the *)
(* two services they talk to (control plane and fiducia-node, external).   *)
(*                                                                         *)
(* Several agents (worker processes) run a task for the SAME work item, as *)
(* happens when a lease runs out and the item is handed to another worker. *)
(* The lease is a countdown and so is every timer, so no clock is bounded. *)
(* Requests may be refused, their answers lost, and a request whose sender *)
(* gave up may still be processed later.                                   *)
(***************************************************************************)
EXTENDS Integers, FiniteSets

CONSTANTS
  Agents,     \* worker processes registered with the control plane
  TTL,        \* CLAIM_LEASE_TTL_MS, in units of time
  Interval,   \* CLAIM_RENEW_INTERVAL
  Timeout,    \* CONTROL_PLANE_REQUEST_TIMEOUT = NODE_FENCING_REQUEST_TIMEOUT
  MaxToken,   \* bound: how many claims are ever granted
  MaxLate     \* bound: how many abandoned requests are on their way at once

\* Both deadlines are 10 seconds and so is the interval; a lease outlives one
\* interval and one deadline (30 seconds against 20).
ASSUME TimingAssumption ==
  /\ TTL \in Nat /\ Interval \in Nat /\ Timeout \in Nat /\ MaxToken \in Nat /\ MaxLate \in Nat
  /\ 0 < Timeout /\ Timeout <= Interval /\ Interval + Timeout < TTL

\* Slack of the FIRST periodic renewal: the answer to the `running` transition
\* may take Timeout, the tick comes Interval later, the renewal may take Timeout.
LeaseCoversFirstRenewal == 2 * Timeout + Interval < TTL

VARIABLES
  lease,   \* external: [token, left] of the election ai-work:<id>
  item,    \* external: status the item had last under each fencing token
  net,     \* requests [op, tok] whose sender gave up and that may still arrive
  pc,      \* where the task of each agent is
  token,   \* WorkClaim.fencing_token (0: no claim)
  cancel,  \* TaskState.cancel.is_cancelled()
  byUser,  \* TaskState.cancelled
  req,     \* request the lifecycle future awaits: [op, st, age, got]
  ren,     \* periodic renewal the select loop awaits: [st, age]
  since,   \* time since the last tick of the renewal interval
  op,      \* the mutation in progress (OpStates), or what the task left behind
  ok,      \* did run_task_lifecycle return Ok?
  lost,    \* a periodic renewal failed: the loop only drains the lifecycle
  exit     \* exitReason of the done event

svc == <<lease, item, net>>
agent == <<pc, token, cancel, byUser, req, ren, since, op, ok, lost, exit>>
vars == <<svc, agent>>

-----------------------------------------------------------------------------
(* States *)

\* Stages of run_task_lifecycle that mutate the checkout or the outside.
Mutating == {"edit", "agent", "add", "commit", "push", "publish"}
\* Those that spawn a child process, by CliRunner::run or a git command; the
\* other two write files.
Spawning == Mutating \ {"edit", "publish"}
\* Stages during which run_claimed_lifecycle keeps the lease alive.
Claimed == Mutating \cup {"renew", "report", "recover"}
Stages == Claimed \cup {"idle", "prepare", "claim", "withdraw", "start", "done"}
Terminal == {"awaiting_review", "failed", "cancelled"}
Ops == Terminal \cup {"claim", "running", "renew"}
Tokens == 0..MaxToken

\* A mutation is alive (a child nobody killed, a file write in progress), then,
\* for a child, exited by itself or killed with its reaping and its output
\* still awaited, then over, ok or failed.  "left": the lifecycle has returned
\* and something that nobody waited for may still be at work, a helper of a
\* child (killed agent, or output given up) or the blocking write of a dropped
\* publication.
Awaited == {"alive", "exited", "killed"}
OpStates == Awaited \cup {"none", "ok", "failed", "left"}

\* An outstanding call: unsent, on its way, or answered Ok or Err; for how long;
\* and the token a claim was granted.
CallStates == {"none", "sent", "ok", "err"}
Requests == [op : Ops, st : CallStates, age : 0..Timeout, got : Tokens]
Renewals == [st : CallStates, age : 0..Timeout]

NoReq == [op |-> "claim", st |-> "none", age |-> 0, got |-> 0]
NoRen == [st |-> "none", age |-> 0]

TypeOK ==
  /\ lease \in [token : Tokens, left : 0..TTL]
  /\ item \in [Tokens -> Terminal \cup {"open", "claimed", "running"}]
  /\ net \subseteq [op : Ops, tok : Tokens]
  /\ pc \in [Agents -> Stages]
  /\ token \in [Agents -> Tokens]
  /\ cancel \in [Agents -> BOOLEAN] /\ byUser \in [Agents -> BOOLEAN]
  /\ req \in [Agents -> Requests] /\ ren \in [Agents -> Renewals]
  /\ since \in [Agents -> 0..Interval]
  /\ op \in [Agents -> OpStates]
  /\ ok \in [Agents -> BOOLEAN] /\ lost \in [Agents -> BOOLEAN]
  /\ exit \in [Agents -> {"none", "completed", "cancelled", "failed"}]

Init ==
  /\ lease = [token |-> 0, left |-> 0]
  /\ item = [t \in Tokens |-> "open"]
  /\ net = {}
  /\ pc = [a \in Agents |-> "idle"]
  /\ token = [a \in Agents |-> 0]
  /\ cancel = [a \in Agents |-> FALSE] /\ byUser = [a \in Agents |-> FALSE]
  /\ req = [a \in Agents |-> NoReq]
  /\ ren = [a \in Agents |-> NoRen]
  /\ since = [a \in Agents |-> 0]
  /\ op = [a \in Agents |-> "none"]
  /\ ok = [a \in Agents |-> FALSE] /\ lost = [a \in Agents |-> FALSE]
  /\ exit = [a \in Agents |-> "none"]

-----------------------------------------------------------------------------
(* The lifecycle future.  While the select loop awaits a renewal inside its *)
(* tick branch the future is not polled; children and writes go on meanwhile. *)

Polled(a) == ren[a].st = "none"
Answered(a) == Polled(a) /\ req[a].st \in {"ok", "err"}

Request(o) == [op |-> o, st |-> "sent", age |-> 0, got |-> 0]

\* run_task: the exit reason of the done event.
Finish(a, success) ==
  /\ pc' = [pc EXCEPT ![a] = "done"]
  /\ exit' = [exit EXCEPT ![a] = IF success THEN "completed"
                                 ELSE IF byUser[a] THEN "cancelled" ELSE "failed"]
  /\ req' = [req EXCEPT ![a] = NoReq]
  /\ since' = [since EXCEPT ![a] = 0]
  /\ ok' = [ok EXCEPT ![a] = FALSE]
  /\ lost' = [lost EXCEPT ![a] = FALSE]
  /\ UNCHANGED <<token, cancel, byUser, ren, op>>

\* Await an answer in stage s after sending o.
Send(a, s, o) ==
  /\ pc' = [pc EXCEPT ![a] = s]
  /\ req' = [req EXCEPT ![a] = Request(o)]

\* Begin the mutation of stage s.
Enter(a, s) ==
  /\ pc' = [pc EXCEPT ![a] = s]
  /\ op' = [op EXCEPT ![a] = "alive"]
  /\ req' = [req EXCEPT ![a] = NoReq]
  /\ UNCHANGED <<token, cancel, byUser, ren, since, ok, lost, exit>>

\* Faulty variant: success is reported under a status that is not of the item.
status_completed(cancelled_by_request, execution_succeeded) ==
  IF cancelled_by_request THEN "cancelled"
  ELSE IF execution_succeeded THEN "completed" ELSE "failed"

claimed_terminal_status(cancelled_by_request, execution_succeeded) ==
  IF cancelled_by_request THEN "cancelled"
  ELSE IF execution_succeeded THEN "awaiting_review" ELSE "failed"

\* run_task_lifecycle returned: report the terminal status.
Conclude(a, success) ==
  /\ Send(a, "report", claimed_terminal_status(byUser[a], success))
  /\ op' = [op EXCEPT ![a] = IF pc[a] \in {"start", "edit"} THEN "none" ELSE "left"]
  /\ ok' = [ok EXCEPT ![a] = success]
  /\ UNCHANGED <<token, cancel, byUser, ren, since, lost, exit>>

\* The locals of a task that starts, or of none, in stage s.
Reset(a, s) ==
  /\ pc' = [pc EXCEPT ![a] = s]
  /\ token' = [token EXCEPT ![a] = 0]
  /\ cancel' = [cancel EXCEPT ![a] = FALSE]
  /\ byUser' = [byUser EXCEPT ![a] = FALSE]
  /\ since' = [since EXCEPT ![a] = 0]
  /\ ok' = [ok EXCEPT ![a] = FALSE]
  /\ lost' = [lost EXCEPT ![a] = FALSE]
  /\ exit' = [exit EXCEPT ![a] = "none"]

\* A task for the item is accepted and takes the session queue.  (What the
\* agent's last task left behind is not followed any further.)
Dispatch(a) ==
  /\ pc[a] \in {"idle", "done"} /\ lease.token < MaxToken
  /\ Reset(a, "prepare")
  /\ op' = [op EXCEPT ![a] = "none"]
  /\ UNCHANGED <<svc, req, ren>>

\* Workspace prepared, or not: it may fail, and cancellation is checked after.
PrepareSucceeds(a) ==
  /\ pc[a] = "prepare" /\ ~cancel[a]
  /\ Send(a, "claim", "claim")
  /\ UNCHANGED <<svc, token, cancel, byUser, ren, since, op, ok, lost, exit>>

PrepareFails(a) ==
  /\ pc[a] = "prepare"
  /\ Finish(a, FALSE)
  /\ UNCHANGED svc

\* claim_work returned; a cancellation seen now withdraws the claim.
ClaimReply(a) ==
  /\ pc[a] = "claim" /\ Answered(a)
  /\ \/ req[a].st = "err" /\ Finish(a, FALSE)
     \/ /\ req[a].st = "ok"
        /\ token' = [token EXCEPT ![a] = req[a].got]
        /\ IF cancel[a]
             THEN Send(a, "withdraw", "cancelled")
             ELSE Send(a, "start", "running")
        /\ UNCHANGED <<cancel, byUser, ren, since, op, ok, lost, exit>>
  /\ UNCHANGED svc

WithdrawReply(a) ==
  /\ pc[a] = "withdraw" /\ Answered(a)
  /\ Finish(a, FALSE)
  /\ UNCHANGED svc

\* The transition to `running` returned: run_claimed_lifecycle starts, its
\* interval's immediate tick is consumed and the lifecycle is polled.
StartReply(a) ==
  /\ pc[a] = "start" /\ Answered(a)
  /\ \/ req[a].st = "err" /\ Finish(a, FALSE)
     \/ req[a].st = "ok" /\ cancel[a] /\ Conclude(a, FALSE)
     \/ req[a].st = "ok" /\ ~cancel[a] /\ \E s \in {"edit", "agent"} : Enter(a, s)
  /\ UNCHANGED svc

\* What follows a stage that returned Ok; `add` also reads the status and goes
\* on to the commit only when the tree is dirty.
Follows(s) ==
  CASE s = "edit" -> {"agent"}
    [] s = "agent" -> {"add"}
    [] s = "add" -> {"commit", "publish"}
    [] s = "push" -> {"publish"}
    [] OTHER -> {}

\* The mutation of the stage is over; cancellation is checked next.  A failed
\* edit only emits stderr; publication errors too, and no check follows the
\* last artifact.
Advance(a) ==
  /\ pc[a] \in Mutating /\ Polled(a) /\ op[a] \in {"ok", "failed"}
  /\ \/ pc[a] = "publish" /\ Conclude(a, TRUE)
     \/ /\ pc[a] # "publish"
        /\ cancel[a] \/ (op[a] = "failed" /\ pc[a] # "edit")
        /\ Conclude(a, FALSE)
     \/ /\ ~cancel[a] /\ (op[a] = "ok" \/ pc[a] = "edit")
        /\ \E s \in Follows(pc[a]) : Enter(a, s)
     \/ /\ ~cancel[a] /\ op[a] = "ok" /\ pc[a] = "commit"
        /\ Send(a, "renew", "renew")
        /\ op' = [op EXCEPT ![a] = "none"]
        /\ UNCHANGED <<token, cancel, byUser, ren, since, ok, lost, exit>>
  /\ UNCHANGED svc

\* Faulty variant: a killed child is neither reaped nor its output awaited.
KillWithoutWaiting(a) ==
  /\ pc[a] \in Spawning /\ Polled(a) /\ op[a] = "alive" /\ cancel[a]
  /\ Send(a, "report", claimed_terminal_status(byUser[a], FALSE))
  /\ op' = [op EXCEPT ![a] = "killed"]
  /\ UNCHANGED <<svc, token, cancel, byUser, ren, since, ok, lost, exit>>

\* Cancellation sends a child SIGKILL; it is then waited for.  (The edit heeds no
\* token: its write is awaited to the end.)
Kill(a) ==
  /\ pc[a] \in Spawning /\ Polled(a) /\ op[a] = "alive" /\ cancel[a]
  /\ op' = [op EXCEPT ![a] = "killed"]
  /\ UNCHANGED <<svc, pc, token, cancel, byUser, req, ren, since, ok, lost, exit>>

\* Cancellation drops the publication and the lifecycle returns, whatever
\* becomes of the write.
DropPublication(a) ==
  /\ pc[a] = "publish" /\ Polled(a) /\ op[a] = "alive" /\ cancel[a]
  /\ Conclude(a, FALSE)
  /\ UNCHANGED svc

\* The deadline of a child (or an error of wait) has it killed as well.
TimesOut(a) ==
  /\ pc[a] \in Spawning /\ Polled(a) /\ op[a] = "alive"
  /\ op' = [op EXCEPT ![a] = "killed"]
  /\ UNCHANGED <<svc, pc, token, cancel, byUser, req, ren, since, ok, lost, exit>>

\* Faulty variant: the outcome of the exact renewal is ignored.
RenewReplyIgnored(a) ==
  /\ pc[a] = "renew" /\ Answered(a)
  /\ IF ~cancel[a] THEN Enter(a, "push") ELSE Conclude(a, FALSE)
  /\ UNCHANGED svc

\* The exact renewal before the push returned.
RenewReply(a) ==
  /\ pc[a] = "renew" /\ Answered(a)
  /\ IF req[a].st = "ok" /\ ~cancel[a] THEN Enter(a, "push") ELSE Conclude(a, FALSE)
  /\ UNCHANGED svc

\* Faulty variant: the outcome of the terminal transition is ignored.
ReportReplyIgnored(a) ==
  /\ pc[a] = "report" /\ Answered(a)
  /\ Finish(a, ok[a] /\ ~lost[a])
  /\ UNCHANGED svc

\* Faulty variant: the terminal transition is retried until it is accepted.
ReportReplyRetried(a) ==
  /\ pc[a] = "report" /\ Answered(a)
  /\ IF req[a].st = "err"
       THEN /\ Send(a, "report", req[a].op)
            /\ UNCHANGED <<token, cancel, byUser, ren, since, op, ok, lost, exit>>
       ELSE Finish(a, ok[a] /\ ~lost[a])
  /\ UNCHANGED svc

\* The terminal transition returned; a failed success report is retried as
\* `failed`.  A task that lost its authority never completes.
ReportReply(a) ==
  /\ pc[a] = "report" /\ Answered(a)
  /\ IF req[a].st = "err" /\ ok[a]
       THEN /\ Send(a, "recover", "failed")
            /\ UNCHANGED <<token, cancel, byUser, ren, since, op, ok, lost, exit>>
       ELSE Finish(a, ok[a] /\ ~lost[a])
  /\ UNCHANGED svc

RecoverReply(a) ==
  /\ pc[a] = "recover" /\ Answered(a)
  /\ Finish(a, FALSE)
  /\ UNCHANGED svc

-----------------------------------------------------------------------------
(* The renewal branch of the select loop in run_claimed_lifecycle *)

InLoop(a) == pc[a] \in Claimed /\ ~lost[a]

RenewTick(a) ==
  /\ InLoop(a) /\ ren[a].st = "none" /\ since[a] >= Interval
  /\ ren' = [ren EXCEPT ![a] = [st |-> "sent", age |-> 0]]
  /\ since' = [since EXCEPT ![a] = 0]
  /\ UNCHANGED <<svc, pc, token, cancel, byUser, req, op, ok, lost, exit>>

\* Faulty variant: a failed renewal is left to the next tick.
RenewTickReplyTolerant(a) ==
  /\ ren[a].st \in {"ok", "err"}
  /\ ren' = [ren EXCEPT ![a] = NoRen]
  /\ UNCHANGED <<svc, pc, token, cancel, lost, byUser, req, since, op, ok, exit>>

RenewTickReply(a) ==
  /\ ren[a].st \in {"ok", "err"}
  /\ ren' = [ren EXCEPT ![a] = NoRen]
  /\ IF ren[a].st = "ok"
       THEN UNCHANGED <<cancel, lost>>
       ELSE /\ cancel' = [cancel EXCEPT ![a] = TRUE]
            /\ lost' = [lost EXCEPT ![a] = TRUE]
  /\ UNCHANGED <<svc, pc, token, byUser, req, since, op, ok, exit>>

-----------------------------------------------------------------------------
(* The environment of an agent *)

\* A child exits by itself, with success or not.
ChildExits(a) ==
  /\ pc[a] \in Spawning /\ op[a] = "alive"
  /\ op' = [op EXCEPT ![a] = "exited"]
  /\ UNCHANGED <<svc, pc, token, cancel, byUser, req, ren, since, ok, lost, exit>>

\* A child has been reaped and both its pipes are closed: the wait for its
\* output, which heeds neither the token nor a deadline, is over.  A killed
\* agent is only reaped, its readers are not awaited.
ChildDone(a) ==
  /\ \/ op[a] = "killed" /\ op' = [op EXCEPT ![a] = "failed"]
     \/ op[a] = "exited" /\ \E r \in {"ok", "failed"} : op' = [op EXCEPT ![a] = r]
  /\ UNCHANGED <<svc, pc, token, cancel, byUser, req, ren, since, ok, lost, exit>>

\* The file write of an edit or of a publication ends, well or not.
WriteEnds(a) ==
  /\ pc[a] \in {"edit", "publish"} /\ op[a] = "alive"
  /\ \E r \in {"ok", "failed"} : op' = [op EXCEPT ![a] = r]
  /\ UNCHANGED <<svc, pc, token, cancel, byUser, req, ren, since, ok, lost, exit>>

Mutation(a) == ChildExits(a) \/ ChildDone(a) \/ WriteEnds(a)

\* cancel_task: POST /tasks/{taskId}/cancel on an unfinished task.
UserCancel(a) ==
  /\ pc[a] \notin {"idle", "done"} /\ ~byUser[a]
  /\ byUser' = [byUser EXCEPT ![a] = TRUE]
  /\ cancel' = [cancel EXCEPT ![a] = TRUE]
  /\ UNCHANGED <<svc, pc, token, req, ren, since, op, ok, lost, exit>>

\* Requests of a that no service has handled yet.
Call(a) == IF req[a].st = "sent" THEN {[op |-> req[a].op, tok |-> token[a]]} ELSE {}
Renewal(a) == IF ren[a].st = "sent" THEN {[op |-> "renew", tok |-> token[a]]} ELSE {}

\* The sender of these requests is gone, they are not.
Abandon(late) ==
  /\ net' = net \cup late
  /\ late = {} \/ Cardinality(net \cup late) <= MaxLate

\* The worker's container dies with every process in it; its requests may still
\* arrive.  A panic of run_task (git.rs slices a message inside a character) ends
\* a task in the same way: no report, no renewal, the item left to its lease.
Crash(a) ==
  /\ pc[a] \notin {"idle", "done"}
  /\ \E late \in SUBSET (Call(a) \cup Renewal(a)) : Abandon(late)
  /\ Reset(a, "idle")
  /\ req' = [req EXCEPT ![a] = NoReq]
  /\ ren' = [ren EXCEPT ![a] = NoRen]
  /\ op' = [op EXCEPT ![a] = "none"]
  /\ UNCHANGED <<lease, item>>

-----------------------------------------------------------------------------
(* The services (external) and the network *)

Live(t) == t = lease.token /\ lease.left > 0

\* Does the service accept operation o presented with token t?
Accepts(o, t) ==
  IF o = "claim" THEN lease.left = 0 /\ lease.token < MaxToken
  ELSE /\ Live(t)
       /\ o = "running" => item[t] = "claimed"
       /\ o \in Terminal => item[t] \in {"claimed", "running"}

\* Effect of an accepted operation: a claim mints the next token; a claim, a
\* renewal and the transition to `running` restart the lease; a transition
\* records its status.
Accept(o, t) ==
  /\ lease' = [token |-> IF o = "claim" THEN lease.token + 1 ELSE lease.token,
               left |-> IF o \in Terminal THEN lease.left ELSE TTL]
  /\ item' = IF o = "claim" THEN [item EXCEPT ![lease.token + 1] = "claimed"]
             ELSE IF o = "renew" THEN item ELSE [item EXCEPT ![t] = o]

\* The outcome of a call: Ok with the current token, or Err.
Answer(r, s, t) == [op |-> r.op, st |-> s, age |-> r.age, got |-> t]

\* The service handles the request the lifecycle awaits.
Serve(a) ==
  /\ req[a].st = "sent"
  /\ IF Accepts(req[a].op, token[a])
       THEN /\ Accept(req[a].op, token[a])
            /\ req' = [req EXCEPT ![a] = Answer(req[a], "ok", lease'.token)]
       ELSE /\ UNCHANGED <<lease, item>>
            /\ req' = [req EXCEPT ![a] = Answer(req[a], "err", 0)]
  /\ UNCHANGED <<net, pc, token, cancel, byUser, ren, since, op, ok, lost, exit>>

\* The node handles the periodic renewal.
ServeRenewal(a) ==
  /\ ren[a].st = "sent"
  /\ IF Accepts("renew", token[a])
       THEN Accept("renew", token[a]) /\ ren' = [ren EXCEPT ![a] = [st |-> "ok", age |-> ren[a].age]]
       ELSE UNCHANGED <<lease, item>> /\ ren' = [ren EXCEPT ![a] = [st |-> "err", age |-> ren[a].age]]
  /\ UNCHANGED <<net, pc, token, cancel, byUser, req, since, op, ok, lost, exit>>

\* A request whose sender gave up arrives after all.
ServeLate(m) ==
  /\ m \in net
  /\ net' = net \ {m}
  /\ IF Accepts(m.op, m.tok) THEN Accept(m.op, m.tok) ELSE UNCHANGED <<lease, item>>
  /\ UNCHANGED agent

\* Refusal, transport error or deadline: the caller sees Err.  An answer may be
\* lost, and an unserved request may stay on its way.
CallFails(a) ==
  /\ req[a].st \in {"sent", "ok"}
  /\ req' = [req EXCEPT ![a] = Answer(req[a], "err", 0)]
  /\ \E late \in SUBSET Call(a) : Abandon(late)
  /\ UNCHANGED <<lease, item, pc, token, cancel, byUser, ren, since, op, ok, lost, exit>>

RenewalFails(a) ==
  /\ ren[a].st \in {"sent", "ok"}
  /\ ren' = [ren EXCEPT ![a] = [st |-> "err", age |-> ren[a].age]]
  /\ \E late \in SUBSET Renewal(a) : Abandon(late)
  /\ UNCHANGED <<lease, item, pc, token, cancel, byUser, req, since, op, ok, lost, exit>>

-----------------------------------------------------------------------------
(* Time.  A unit passes only when nothing is overdue: a request at its      *)
(* deadline, a due renewal tick, a cancelled child that was sent no signal. *)
(* How long a killed child takes to die, its output to end or a write to    *)
(* finish is not bounded.                                                   *)

Prompt(a) ==
  /\ req[a].st # "none" /\ (req[a].st = "sent" \/ Polled(a)) => req[a].age < Timeout
  /\ ren[a].st # "none" => ren[a].age < Timeout
  /\ InLoop(a) /\ Polled(a) => since[a] < Interval
  /\ Polled(a) /\ op[a] = "alive" /\ cancel[a] => pc[a] = "edit"

Older(r) == IF r.st # "none" /\ r.age < Timeout THEN [r EXCEPT !.age = @ + 1] ELSE r

Tick ==
  /\ \A a \in Agents : Prompt(a)
  /\ lease' = [lease EXCEPT !.left = IF @ > 0 THEN @ - 1 ELSE 0]
  /\ req' = [a \in Agents |-> Older(req[a])]
  /\ ren' = [a \in Agents |-> Older(ren[a])]
  /\ since' = [a \in Agents |-> IF InLoop(a) /\ since[a] < Interval
                                THEN since[a] + 1 ELSE since[a]]
  /\ UNCHANGED <<item, net, pc, token, cancel, byUser, op, ok, lost, exit>>

-----------------------------------------------------------------------------
\* Prepared: the steps that follow the preparation of the workspace.
Prepared(a) ==
  \/ ClaimReply(a) \/ WithdrawReply(a) \/ StartReply(a) \/ Advance(a) \/ Kill(a)
  \/ DropPublication(a) \/ TimesOut(a) \/ RenewReply(a) \/ ReportReply(a) \/ RecoverReply(a)

Lifecycle(a) == PrepareSucceeds(a) \/ PrepareFails(a) \/ Prepared(a)

RenewLoop(a) == RenewTick(a) \/ RenewTickReply(a)

Calls(a) == Serve(a) \/ ServeRenewal(a) \/ CallFails(a) \/ RenewalFails(a)

Next ==
  \/ \E a \in Agents : Dispatch(a) \/ Lifecycle(a) \/ RenewLoop(a) \/ Mutation(a)
                       \/ UserCancel(a) \/ Crash(a) \/ Calls(a)
  \/ \E m \in net : ServeLate(m)
  \/ Tick

Spec == Init /\ [][Next]_vars

\* Overdue requests fail: the deadlines of the HTTP and node clients.
Deadline(a) ==
  \/ req[a].age = Timeout /\ CallFails(a)
  \/ ren[a].age = Timeout /\ RenewalFails(a)

\* The runtime polls every ready future, the deadlines of calls and of children
\* fire, a file write ends, SIGKILL ends an agent, and time passes.  The
\* lifecycle is not polled during a renewal, but select! picks at random among
\* its ready branches, so it is not passed over for ever: strong fairness.
\* Nothing obliges the preparation to end, a child to exit by itself, or the
\* output of a child that is dead to be given up by its helpers.
Fairness ==
  /\ \A a \in Agents : /\ SF_vars(Prepared(a)) /\ WF_vars(RenewLoop(a))
                        /\ WF_vars(WriteEnds(a)) /\ WF_vars(pc[a] = "agent" /\ op[a] = "killed" /\ ChildDone(a))
                        /\ WF_vars(Deadline(a))
  /\ WF_vars(Tick)

FairSpec == Spec /\ Fairness

-----------------------------------------------------------------------------
(* Properties *)

\* A child process that runs and was sent no SIGKILL.
Child(a) == pc[a] \in Spawning /\ op[a] = "alive"

\* "No child process can keep mutating under stale authority"
\* (run_claimed_lifecycle), as far as the children the worker itself spawned go:
\* as long as an agent or a git command has not been killed, the token of its
\* claim is the current one and the lease has not run out.  A file write, the
\* helpers of a child and a child that is slow to die are not covered
\* (NothingStaleMutates below).
ChildUnderLease ==
  \A a \in Agents : Child(a) => Live(token[a])

\* The exact renewal closes the gap before `git push`: when a push is spawned
\* the lease was renewed at most one request deadline ago, whatever the
\* periodic renewal was doing meanwhile.
PushIsFresh ==
  [][\A a \in Agents :
       pc'[a] = "push" /\ pc[a] # "push" => lease.left >= TTL - Timeout]_vars

\* A task that reports `completed` has its outcome persisted under its own
\* token: awaiting_review, or cancelled when the user cancelled it too late to
\* stop it.  No loss of answers or of authority can make it report otherwise.
CompletedIsPersisted ==
  \A a \in Agents : exit[a] = "completed" =>
     \/ item[token[a]] = "awaiting_review"
     \/ byUser[a] /\ item[token[a]] = "cancelled"

\* The wait for the output of a child that exited, or of a git command that was
\* killed: it lasts as long as some helper keeps a pipe open.
AwaitsOutput(a) == op[a] = "exited" \/ (op[a] = "killed" /\ pc[a] # "agent")

\* Every task that came to its claim ends, whatever the services answer and
\* however long its children would run, on a worker that stays up; the one
\* thing that can hold it for ever is the output of a child that is dead.
EveryTaskEnds ==
  \A a \in Agents :
    (pc[a] = "claim") ~> (pc[a] \in {"done", "idle"} \/ []AwaitsOutput(a))

\* An item does not stay `running` under a lease that nobody will end: it gets
\* a terminal status, or its lease runs out and it can be claimed again, or a
\* worker that renews the lease waits for ever for the output of a dead child.
RunningIsResolved ==
  \A t \in Tokens :
    (item[t] = "running") ~> \/ item[t] \in Terminal \/ ~Live(t)
                             \/ [](\E a \in Agents : token[a] = t /\ AwaitsOutput(a))

\* Agents with a child that was not killed, and agents that wait for a child,
\* its output or a write, each with its token.
Children == {<<a, token[a]>> : a \in {b \in Agents : Child(b)}}
Waiting == {<<a, token[a]>> : a \in {b \in Agents : op[b] \in Awaited}}

Fenced == INSTANCE FencedWork
            WITH current <- lease.token, outcome <- item,
                 children <- Children, awaited <- Waiting

\* The governed worker implements FencedWork: grants are sequential and find no
\* child of an earlier claim running, mutations begin one at a time and under
\* the current claim of a running item, and no terminal status is recorded
\* while the worker still waits for a child, its output or a write of the task.
ImplementsFencedWork == Fenced!FWSpec

-----------------------------------------------------------------------------
(* Known not to hold (README) *)

\* "Once a work item reaches `running`, every normal exit is persisted" as a
\* terminal status.  Here: a worker whose own item is `running` does not
\* exit without having tried to persist one.
RunningExitIsReported ==
  [][\A a \in Agents :
       /\ pc'[a] = "done" /\ pc[a] \notin {"done", "withdraw", "report", "recover"}
       /\ token[a] # 0
       => item[token[a]] # "running"]_vars

\* "No child process can keep mutating under stale authority", of everything
\* that can mutate.  It fails in three ways: the write of an edit is awaited
\* through a cancellation while the lease runs out, so is a child that is slow
\* to die or whose helpers go on, and what a task left behind may live on after
\* the terminal status of its item.
NothingStaleMutates ==
  \A a \in Agents : op[a] \in Awaited \cup {"left"} =>
                      Live(token[a]) /\ item[token[a]] \notin Terminal

-----------------------------------------------------------------------------
(* Inductive invariants, agent by agent (GovernedTaskProofs) *)

\* Locals of the loop are fresh outside of it, a mutation belongs to a stage,
\* and a stage awaits its own request.
ShapeOf(a) ==
  /\ pc[a] \notin Claimed => ren[a].st = "none" /\ ~lost[a] /\ since[a] = 0
  /\ op[a] \in Awaited => pc[a] \in Mutating
  /\ lost[a] => ren[a].st = "none" /\ cancel[a]
  /\ pc[a] = "start" => req[a].op = "running"
  /\ pc[a] = "renew" => req[a].op = "renew"

\* How much of the lease is left: after the answer to `running`, between two
\* ticks, while a periodic renewal is outstanding, and while a task that lost
\* its authority has not yet sent its child a SIGKILL.
CoveredOf(a) ==
  /\ pc[a] = "start" /\ req[a].st = "ok" =>
       token[a] = lease.token /\ lease.left + req[a].age >= TTL
  /\ InLoop(a) =>
       /\ token[a] = lease.token
       /\ ren[a].st = "none" => lease.left + since[a] >= TTL - Timeout
       /\ ren[a].st # "none" => lease.left + ren[a].age >= TTL - Timeout - Interval
       /\ ren[a].st = "ok" => lease.left + ren[a].age >= TTL
  /\ lost[a] /\ Child(a) => Live(token[a])

\* What the answer to the exact renewal is worth when the push is spawned.
FreshOf(a) ==
  pc[a] = "renew" /\ req[a].st = "ok" /\ ~cancel[a] =>
    /\ req[a].age < Timeout => lease.left + req[a].age >= TTL
    /\ req[a].age = Timeout /\ ren[a].st = "none" => lease.left >= TTL - Timeout

AuthorityOf(a) == ShapeOf(a) /\ CoveredOf(a) /\ FreshOf(a)

Authority == \A a \in Agents : AuthorityOf(a)

\* What a terminal transition that was answered Ok has left at the service.
PersistedOf(a) ==
  /\ token[a] <= lease.token
  /\ req[a].st = "ok" => req[a].got <= lease.token
  /\ pc[a] = "report" =>
       /\ req[a].op \in Terminal
       /\ req[a].st = "ok" => item[token[a]] = req[a].op
       /\ ok[a] => \/ req[a].op = "awaiting_review"
                   \/ req[a].op = "cancelled" /\ byUser[a]
  /\ exit[a] = "completed" =>
       /\ pc[a] = "done"
       /\ \/ item[token[a]] = "awaiting_review"
          \/ byUser[a] /\ item[token[a]] = "cancelled"

Persisted == \A a \in Agents : PersistedOf(a)

\* The claim an agent holds, from the answer of the control plane on.
Holds(a) == IF pc[a] = "claim" /\ req[a].st = "ok" THEN req[a].got ELSE token[a]

\* Stages that report how a claim ended.
Ending == {"withdraw", "report", "recover"}

\* Works(a): the control plane said `running` and the lifecycle goes on.
Works(a) == pc[a] \in Mutating \cup {"renew"} \/ (pc[a] = "start" /\ req[a].st = "ok")

\* Each stage awaits its own request, if any, and has a claim or has none.
AwaitsOf(a) ==
  /\ pc[a] \in Mutating \cup {"idle", "prepare", "done"} => req[a].st = "none"
  /\ pc[a] = "claim" => req[a].op = "claim" /\ (req[a].st = "ok" => req[a].got # 0)
  /\ pc[a] = "start" => req[a].op = "running"
  /\ pc[a] = "renew" => req[a].op = "renew"
  /\ pc[a] \in Ending => req[a].op \in Terminal
  /\ pc[a] \in {"idle", "prepare", "claim"} <=> token[a] = 0 /\ pc[a] # "done"
  /\ op[a] \in Awaited => pc[a] \in Mutating

\* No claim is held twice, and the item of a task that works is running.
HolderOf(a) ==
  /\ Holds(a) <= lease.token
  /\ Holds(a) # 0 => \A b \in Agents : Holds(b) = Holds(a) => b = a
  /\ Works(a) => item[token[a]] = "running"

\* A terminal status that is still on its way finds nobody at work.
LateOf(m) ==
  m.op \in Terminal =>
    /\ m.tok # 0 /\ m.tok <= lease.token
    /\ \A a \in Agents : Holds(a) = m.tok => pc[a] \in Ending \cup {"done"}

Fencing ==
  /\ \A a \in Agents : AwaitsOf(a) /\ HolderOf(a)
  /\ \A m \in net : LateOf(m)

=============================================================================
