-------------------------------- MODULE Worker --------------------------------
(***************************************************************************)
(* A worker: Startup decides whether it serves and under which authority,  *)
(* Checkout is what it then does to its workspace.  The checkout and the   *)
(* remote outlive the process, its sessions do not; the processes it       *)
(* started die with it, as they do when a container is restarted.          *)
(***************************************************************************)
EXTENDS Startup, Checkout

wvars == <<bootvars, cvars>>

WorkerInit == StartupInit /\ CheckoutInit

\* The manual routes are refused under governance.
manual_external_mutation_allowed == ~governed

Serve ==
  /\ boot = "serving"
  /\ \/ \E s \in Sessions : OpenSession(s) \/ DropSession(s) \/ Task(s)
     \/ manual_external_mutation_allowed /\ Manual
  /\ UNCHANGED bootvars

\* Faulty variant: a new process takes the workspace for prepared.
RestartWarm ==
  /\ Restart
  /\ pc' = [s \in Sessions |-> "idle"] /\ src' = [s \in Sessions |-> Base]
  /\ op' = [st |-> "idle", branch |-> Base]
  /\ open' = Sessions \cap {head} /\ ready' = open'
  /\ UNCHANGED <<n, git, manuals, hist>>

RestartWorker ==
  /\ Restart /\ NoSession
  /\ UNCHANGED <<n, git, manuals, hist>>

Elsewhere == (\E s \in Sessions : OtherWorkerPushes(s)) /\ UNCHANGED bootvars

WorkerNext ==
  \/ StartupStep /\ UNCHANGED cvars
  \/ Serve \/ RestartWorker \/ Elsewhere

WorkerSpec == WorkerInit /\ [][WorkerNext]_wvars

-----------------------------------------------------------------------------
(* Properties *)

\* Whatever the environment and however often the process failed to come up, a
\* worker that serves is governed, with a node to fence with and the id the
\* control plane gave it, or it was told to be local and binds only loopback.
ServesUnderAuthority ==
  boot = "serving" =>
    IF governed THEN base /\ node /\ agent_id
    ELSE ungoverned_local_only /\ host_is_loopback /\ ~base

\* Under governance a task that completes has its edits on the remote branch,
\* and there they stay: neither what an earlier task or process left behind nor
\* a push of this worker from a stale branch undoes another one's.
CompletedWorkIsPushed ==
  governed => \A w \in completed \cap edited : w \in remote[w[1]]

-----------------------------------------------------------------------------
(* Inductive invariant (WorkerProofs) *)

\* A worker that will be governed whenever it serves does nothing by hand, and
\* the edits of a task move with its stages from the tree to the remote branch.
PushedInv ==
  resolve_governance_mode = "governed" =>
    /\ op.st = "idle"
    /\ \A s \in Sessions : Work(s) \in edited =>
         /\ pc[s] \in {"agent", "add"} => Work(s) \in tree
         /\ pc[s] \in {"status", "commit"} => Work(s) \in staged
         /\ pc[s] = "push" => Work(s) \in local[s]
    /\ \A w \in completed \cap edited : w \in remote[w[1]]
=============================================================================
