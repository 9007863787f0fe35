------------------------------- MODULE Checkout -------------------------------
(***************************************************************************)
(* The checkout of a worker: prepare_session_workspace_inner and the git   *)
(* stages of run_task_lifecycle (src/orchestrator.rs), the git operations  *)
(* they use (src/git.rs) and the manual thread operations                  *)
(* (src/thread_ops.rs, src/http.rs).                                       *)
(*                                                                         *)
(* Every session of the worker has the SAME workspace_path, a branch of    *)
(* its own and a queue of its own.  A piece of work is <<s, n>>, the edits *)
(* of the n-th task of session s; branches, the working tree and the index *)
(* are sets of works; <<s, 0>> is what another worker of the thread pushed *)
(* to its branch.  A git command is one step and any step may fail.  The   *)
(* checkout is synchronised at boot (skip_boot_git_sync is off).           *)
(* Worker composes this module with the startup that decides who may act.  *)
(***************************************************************************)
EXTENDS Naturals, FiniteSets, FiniteSetsExt

CONSTANTS
  Sessions,   \* session objects, each named for its branch
  Base,       \* base_branch; a branch hint may name it, so it may be a session
  MaxOpen,    \* sessions in the map at once: 1 when a thread id binds the worker
  MaxTasks,   \* bound: tasks started by all sessions
  MaxManual,  \* bound: manual operations begun
  Conflict    \* what a merge that fails leaves in the tree

ASSUME CheckoutAssumption ==
  /\ MaxOpen \in Nat /\ MaxTasks \in Nat /\ MaxManual \in Nat
  /\ Conflict \notin Sessions \X Nat

VARIABLES
  open,          \* sessions in the map
  ready,         \* ThreadSession.ready
  pc,            \* stage of the task that holds the session's queue
  src,           \* switch_source of that task
  n,             \* how many tasks the session has started
  head, tree, staged,   \* branch, uncommitted work and index of the checkout
  local, heads,  \* work on local branches, and which there are
  remote, exists, \* the same of the remote
  origin, known, \* remote-tracking branches: their work, and which there are
  op, manuals,   \* the manual operation: [st, branch], and how many began
  edited, completed \* history: works that were edited, tasks that completed

git == <<head, tree, staged, local, heads, remote, exists, origin, known>>
sess == <<open, ready, pc, src, n>>
hist == <<edited, completed>>
manual == <<op, manuals>>
cvars == <<sess, git, manual, hist>>

Branches == Sessions \cup {Base}
Works == Sessions \X Nat
Content == [Branches -> SUBSET (Works \cup {Conflict})]
Stages == {"idle", "fetch", "lookup", "fetch_own", "branch", "clean", "switch", "parent",
           "identity", "agent", "add", "status", "commit", "push"}
Operations == {"idle", "fetch", "merge", "add", "status", "commit", "push"}
\* Stages in which a task changes the checkout.
Mutating == {"switch", "agent", "add", "commit"}

CheckoutTypeOK ==
  /\ open \subseteq Sessions /\ ready \subseteq open
  /\ pc \in [Sessions -> Stages] /\ src \in [Sessions -> Branches]
  /\ n \in [Sessions -> Nat]
  /\ tree \subseteq Works \cup {Conflict} /\ staged \subseteq tree
  /\ {local, remote, origin} \subseteq Content
  /\ heads \subseteq Branches /\ head \in heads
  /\ exists \subseteq Branches /\ known \subseteq exists
  /\ op \in [st : Operations, branch : Branches] /\ manuals \in 0..MaxManual
  /\ edited \subseteq Works /\ completed \subseteq Works

\* A new process: no session, nobody in the checkout.
NoSession ==
  /\ open' = {} /\ ready' = {}
  /\ pc' = [s \in Sessions |-> "idle"] /\ src' = [s \in Sessions |-> Base]
  /\ op' = [st |-> "idle", branch |-> Base]

CheckoutInit ==
  /\ open = {} /\ ready = {}
  /\ pc = [s \in Sessions |-> "idle"] /\ src = [s \in Sessions |-> Base]
  /\ n = [s \in Sessions |-> 0]
  /\ head = Base /\ tree = {} /\ staged = {}
  /\ local = [b \in Branches |-> {}] /\ remote = [b \in Branches |-> {}]
  /\ heads = {Base} /\ exists = {Base} /\ origin = [b \in Branches |-> {}] /\ known = {Base}
  /\ op = [st |-> "idle", branch |-> Base] /\ manuals = 0
  /\ edited = {} /\ completed = {}

Goto(s, stage) == pc' = [pc EXCEPT ![s] = stage]
SetSource(s, b) == src' = [src EXCEPT ![s] = b]
Work(s) == <<s, n[s]>>
Started == MapThenSumSet(LAMBDA s : n[s], Sessions)

-----------------------------------------------------------------------------
(* Git, as the operations of src/git.rs use it *)

\* add_workspace_changes
GitAdd ==
  /\ staged' = tree
  /\ UNCHANGED <<head, tree, local, heads, remote, exists, origin, known>>

\* commit fails when the index holds nothing new.
GitCommit ==
  /\ staged # {}
  /\ local' = [local EXCEPT ![head] = @ \cup staged]
  /\ tree' = tree \ staged /\ staged' = {}
  /\ UNCHANGED <<head, heads, remote, exists, origin, known>>

\* symbolic-ref: the branch that is checked out.
CurrentBranch == head

\* status --porcelain, of index and tree.
WorkspaceStatus == tree

\* ls-remote also finds a branch whose name only ends in b.
RemoteBranchExists(b) == {"yes", "error"} \cup IF b \in exists THEN {} ELSE {"no"}

\* fetch_remote_branch brings refs/remotes/origin/b up to date.
GitFetch(b) ==
  /\ b \in exists
  /\ origin' = [origin EXCEPT ![b] = remote[b]] /\ known' = known \cup {b}
  /\ UNCHANGED <<head, tree, staged, local, heads, remote, exists>>

\* Faulty variant: the push is forced.
GitPushForced(b) ==
  /\ b \in heads
  /\ remote' = [remote EXCEPT ![b] = local[b]]
  /\ exists' = exists \cup {b}
  /\ origin' = [origin EXCEPT ![b] = local[b]] /\ known' = known \cup {b}
  /\ UNCHANGED <<head, tree, staged, local, heads>>

\* push_branch pushes the local branch of that name, forward only.
GitPush(b) ==
  /\ b \in heads /\ remote[b] \subseteq local[b]
  /\ remote' = [remote EXCEPT ![b] = local[b]]
  /\ exists' = exists \cup {b}
  /\ origin' = [origin EXCEPT ![b] = local[b]] /\ known' = known \cup {b}
  /\ UNCHANGED <<head, tree, staged, local, heads>>

\* git switch --discard-changes -C b origin/from
GitSwitch(b, from) ==
  /\ from \in known
  /\ head' = b /\ heads' = heads \cup {b}
  /\ local' = [local EXCEPT ![b] = origin[from]]
  /\ tree' = {} /\ staged' = {}
  /\ UNCHANGED <<remote, exists, origin, known>>

-----------------------------------------------------------------------------
(* Sessions and tasks *)

OpenSession(s) ==
  /\ s \notin open /\ Cardinality(open) < MaxOpen
  /\ open' = open \cup {s}
  /\ UNCHANGED <<ready, pc, src, n, git, manual, hist>>

\* Faulty variant: the warm flag outlives the session.
DropSessionWarm(s) ==
  /\ s \in open /\ pc[s] = "idle"
  /\ open' = open \ {s}
  /\ UNCHANGED <<ready, pc, src, n, git, manual, hist>>

\* The collector drops an idle session, and `ready` with it.
DropSession(s) ==
  /\ s \in open /\ pc[s] = "idle"
  /\ open' = open \ {s} /\ ready' = ready \ {s}
  /\ UNCHANGED <<pc, src, n, git, manual, hist>>

\* A warm workspace is not prepared again.
StartTask(s) ==
  /\ s \in open /\ pc[s] = "idle" /\ Started < MaxTasks
  /\ n' = [n EXCEPT ![s] = @ + 1]
  /\ Goto(s, IF s \in ready THEN "agent" ELSE "fetch")
  /\ UNCHANGED <<open, ready, src, git, manual, hist>>

FetchBase(s) ==
  /\ pc[s] = "fetch"
  /\ GitFetch(Base) /\ Goto(s, "lookup")
  /\ UNCHANGED <<open, ready, src, n, manual, hist>>

\* unwrap_or(false): an error counts as no such branch.
FindRemote(s) ==
  /\ pc[s] = "lookup"
  /\ \E found \in RemoteBranchExists(s) :
       IF found = "yes" THEN SetSource(s, s) /\ Goto(s, "fetch_own")
       ELSE SetSource(s, Base) /\ Goto(s, "branch")
  /\ UNCHANGED <<open, ready, n, git, manual, hist>>

\* A failure is only logged: the source is then what was fetched before.
FetchOwn(s) ==
  /\ pc[s] = "fetch_own"
  /\ GitFetch(s) \/ UNCHANGED git
  /\ Goto(s, "branch")
  /\ UNCHANGED <<open, ready, src, n, manual, hist>>

ReadBranch(s) ==
  /\ pc[s] = "branch"
  /\ IF CurrentBranch = s THEN Goto(s, "parent") /\ SetSource(s, Base)
     ELSE Goto(s, "clean") /\ UNCHANGED src
  /\ UNCHANGED <<open, ready, n, git, manual, hist>>

\* Faulty variant: uncommitted changes do not stop the switch.
ReadTreeUnchecked(s) ==
  /\ pc[s] = "clean"
  /\ Goto(s, "switch")
  /\ UNCHANGED <<open, ready, src, n, git, manual, hist>>

\* Uncommitted changes of another branch end the task.
ReadTree(s) ==
  /\ pc[s] = "clean"
  /\ IF WorkspaceStatus = {} THEN Goto(s, "switch") /\ UNCHANGED src
     ELSE Goto(s, "idle") /\ SetSource(s, Base)
  /\ UNCHANGED <<open, ready, n, git, manual, hist>>

SwitchBranch(s) ==
  /\ pc[s] = "switch"
  /\ GitSwitch(s, src[s])
  /\ Goto(s, "parent") /\ SetSource(s, Base)
  /\ UNCHANGED <<open, ready, n, manual, hist>>

\* Faulty variant: the parent branch is not refused.
AcceptParent(s) ==
  /\ pc[s] = "parent"
  /\ Goto(s, "identity")
  /\ UNCHANGED <<open, ready, src, n, git, manual, hist>>

\* assertSessionOnFeatureBranch
RefuseParent(s) ==
  /\ pc[s] = "parent"
  /\ Goto(s, IF s = Base THEN "idle" ELSE "identity")
  /\ UNCHANGED <<open, ready, src, n, git, manual, hist>>

\* Only the last step of the preparation makes the workspace warm.
ConfigureIdentity(s) ==
  /\ pc[s] = "identity"
  /\ ready' = ready \cup {s} /\ Goto(s, "agent")
  /\ UNCHANGED <<open, src, n, git, manual, hist>>

\* The deterministic edit or the agent changes files.
Edit(s) ==
  /\ pc[s] = "agent" /\ Work(s) \notin edited
  /\ tree' = tree \cup {Work(s)} /\ edited' = edited \cup {Work(s)}
  /\ UNCHANGED <<sess, head, staged, local, heads, remote, exists, origin, known, manual, completed>>

AgentEnds(s) ==
  /\ pc[s] = "agent"
  /\ Goto(s, "add")
  /\ UNCHANGED <<open, ready, src, n, git, manual, hist>>

AddChanges(s) ==
  /\ pc[s] = "add"
  /\ GitAdd /\ Goto(s, "status")
  /\ UNCHANGED <<open, ready, src, n, manual, hist>>

\* A clean tree completes the task without a commit.
ReadStatus(s) ==
  /\ pc[s] = "status"
  /\ IF WorkspaceStatus = {} THEN Goto(s, "idle") /\ completed' = completed \cup {Work(s)}
     ELSE Goto(s, "commit") /\ UNCHANGED completed
  /\ UNCHANGED <<open, ready, src, n, git, manual, edited>>

CommitChanges(s) ==
  /\ pc[s] = "commit"
  /\ GitCommit /\ Goto(s, "push")
  /\ UNCHANGED <<open, ready, src, n, manual, hist>>

PushBranch(s) ==
  /\ pc[s] = "push"
  /\ GitPush(s)
  /\ Goto(s, "idle") /\ completed' = completed \cup {Work(s)}
  /\ UNCHANGED <<open, ready, src, n, manual, edited>>

\* Any stage may fail or be cancelled: the checkout stays as it is.
TaskFails(s) ==
  /\ pc[s] # "idle"
  /\ Goto(s, "idle") /\ SetSource(s, Base)
  /\ UNCHANGED <<open, ready, n, git, manual, hist>>

\* Another worker of the thread, before or after this one, pushes a task.
OtherWorkerPushes(s) ==
  /\ s # Base /\ <<s, 0>> \notin edited
  /\ remote' = [remote EXCEPT ![s] = @ \cup {<<s, 0>>}] /\ exists' = exists \cup {s}
  /\ edited' = edited \cup {<<s, 0>>} /\ completed' = completed \cup {<<s, 0>>}
  /\ UNCHANGED <<sess, head, tree, staged, local, heads, origin, known, manual>>

-----------------------------------------------------------------------------
(* Manual operations: outside every queue *)

\* Both name a branch, and act on whatever is checked out.
BeginManual(st, b) ==
  /\ op.st = "idle" /\ manuals < MaxManual
  /\ op' = [st |-> st, branch |-> b] /\ manuals' = manuals + 1
  /\ UNCHANGED <<sess, git, hist>>

\* merge_upstream merges the base into the checked-out branch; a merge that
\* fails is not aborted.
MergeUpstream ==
  /\ \/ op.st = "fetch" /\ GitFetch(Base) /\ op' = [op EXCEPT !.st = "merge"]
     \/ /\ op.st = "merge" /\ op' = [op EXCEPT !.st = "idle"]
        /\ \/ local' = [local EXCEPT ![head] = @ \cup origin[Base]] /\ UNCHANGED tree
           \/ tree' = tree \cup {Conflict} /\ UNCHANGED local
        /\ UNCHANGED <<head, staged, heads, remote, exists, origin, known>>
  /\ UNCHANGED <<sess, manuals, hist>>

MakeCommit ==
  /\ \/ op.st = "add" /\ GitAdd /\ op' = [op EXCEPT !.st = "status"]
     \/ /\ op.st = "status" /\ UNCHANGED git
        /\ op' = [op EXCEPT !.st = IF WorkspaceStatus = {} THEN "push" ELSE "commit"]
     \/ op.st = "commit" /\ GitCommit /\ op' = [op EXCEPT !.st = "push"]
     \/ op.st = "push" /\ GitPush(op.branch) /\ op' = [op EXCEPT !.st = "idle"]
  /\ UNCHANGED <<sess, manuals, hist>>

ManualFails ==
  /\ op.st # "idle" /\ op' = [op EXCEPT !.st = "idle"]
  /\ UNCHANGED <<sess, git, manuals, hist>>

-----------------------------------------------------------------------------
Prepare(s) ==
  \/ FetchBase(s) \/ FindRemote(s) \/ FetchOwn(s) \/ ReadBranch(s) \/ ReadTree(s)
  \/ SwitchBranch(s) \/ RefuseParent(s) \/ ConfigureIdentity(s)

Task(s) ==
  \/ StartTask(s) \/ Prepare(s) \/ Edit(s) \/ AgentEnds(s) \/ AddChanges(s)
  \/ ReadStatus(s) \/ CommitChanges(s) \/ PushBranch(s) \/ TaskFails(s)

Manual ==
  \/ \E b \in Branches : BeginManual("fetch", b) \/ BeginManual("add", b)
  \/ MergeUpstream \/ MakeCommit \/ ManualFails

-----------------------------------------------------------------------------
(* Properties *)

\* A worker bound to one thread never puts the work of one session on the
\* branch of another, however tasks fail, the process restarts over what an
\* earlier one left, sessions come and go over the shared checkout, and manual
\* commits and merges run beside a task.
BranchHoldsOwnWork ==
  \A b \in Branches : \A w \in (local[b] \cup remote[b]) \ {Conflict} : w[1] = b

\* Edits that are not committed are not thrown away: the switch of a later
\* session, or of a later process, waits until they are.
UncommittedIsKept ==
  [][\A w \in tree \ {Conflict} : w \in tree' \cup local'[head]]_cvars

\* No edit of a task reaches the parent branch, locally or remotely, even when
\* the branch hint of a session names it.  What a
\* manual merge that failed left in the tree (Conflict) is no edit of a task, and
\* a manual commit may put it there.
ParentIsUntouched == local[Base] \cup remote[Base] \subseteq {Conflict}

-----------------------------------------------------------------------------
(* Known not to hold with MaxOpen > 1 (README) *)

\* "The `queue` async-mutex serialises task execution so only one agent mutates
\* the checkout at a time".
OneAgentPerCheckout == Cardinality({s \in Sessions : pc[s] \in Mutating}) <= 1

-----------------------------------------------------------------------------
(* Inductive invariants (WorkerProofs) *)

\* Stages in which the session's branch is checked out, and before which it is
\* prepared.
Preparing == {"fetch", "lookup", "fetch_own", "branch", "clean", "switch"}
OnBranch == {"parent", "identity", "agent", "add", "status", "commit", "push"}

\* A task that runs belongs to a session of the map.
TasksAreOpen == \A s \in Sessions : pc[s] # "idle" => s \in open

\* One session at a time, and only its task is in the checkout.
OneSession ==
  /\ open = {} \/ \E s \in Sessions : open = {s}
  /\ TasksAreOpen

\* Where the checkout stands while a session prepares it, works or is warm.
CheckedOf(s) ==
  /\ src[s] \in {s, Base}
  /\ pc[s] \in Preparing \cup {"parent", "identity"} => s \notin ready
  /\ pc[s] \in OnBranch \/ s \in ready => head = s
  /\ pc[s] \in OnBranch \ {"parent"} \/ s \in ready => s # Base
  /\ pc[s] = "switch" => tree \subseteq {Conflict}

Checked == \A s \in Sessions : CheckedOf(s)

\* Work is where it belongs: on its own branch, or uncommitted while that branch
\* is checked out; the parent has none.
InPlace ==
  /\ \A w \in tree \ {Conflict} : w[1] = head /\ w[1] # Base
  /\ \A b \in Branches : \A w \in (local[b] \cup remote[b] \cup origin[b]) \ {Conflict} :
       w[1] = b /\ w[1] # Base

CheckoutInv == OneSession /\ Checked /\ InPlace

\* The edits of the task in progress, and the tasks that are numbered so far.
WorkInv ==
  /\ \A w \in edited \cup completed : w[2] <= n[w[1]]
  /\ \A s \in Sessions : pc[s] # "idle" => n[s] > 0 /\ Work(s) \notin completed
  /\ \A s \in Sessions : pc[s] \in Preparing \cup {"parent", "identity"} => Work(s) \notin edited
=============================================================================
