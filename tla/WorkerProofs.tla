----------------------------- MODULE WorkerProofs -----------------------------
(* Machine-checked proofs about Worker, for every set of environments and of  *)
(* sessions and any number of tasks, manual operations and restarts.          *)
EXTENDS Worker, FiniteSetTheorems, TLAPS

-----------------------------------------------------------------------------
(* A worker serves only under authority *)

\* Each step of run() establishes what the next one relies on, and a restart
\* starts over.
LEMMA StartupKept ==
  ASSUME StartupInv, StartupStep \/ Restart
  PROVE  StartupInv'
<1> USE DEF StartupInv, Boots
<1>0. UNCHANGED env /\ (resolve_governance_mode' = resolve_governance_mode)
  BY DEF StartupStep, ResolveMode, StartNats, NewControlPlane, Register, Listen, Restart,
     resolve_governance_mode, env_opt, ungoverned_local_only, host_is_loopback
<1>1. CASE ResolveMode
  <2>1. resolve_governance_mode \in {"governed", "ungoverned", "error"}
    BY DEF resolve_governance_mode
  <2> QED
    BY <1>0, <1>1, <2>1 DEF ResolveMode, Fail
<1>2. CASE StartNats \/ Listen
  BY <1>0, <1>2 DEF StartNats, Listen, Fail
<1>3. CASE NewControlPlane
  BY <1>0, <1>3 DEF NewControlPlane, Fail, env_opt, fiducia_node_internal_secret
<1>4. CASE Register
  BY <1>0, <1>4 DEF Register, Fail
<1>5. CASE Restart
  BY <1>0, <1>5 DEF Restart
<1> QED
  BY <1>1, <1>2, <1>3, <1>4, <1>5 DEF StartupStep

\* Every step of the worker keeps what run() has established.
LEMMA StartupKeptByWorker == StartupInv /\ [WorkerNext]_wvars => StartupInv'
<1> SUFFICES ASSUME StartupInv, [WorkerNext]_wvars PROVE StartupInv'
  OBVIOUS
<1>1. CASE StartupStep \/ RestartWorker
  BY <1>1, StartupKept DEF RestartWorker
<1>2. CASE Serve \/ Elsewhere \/ UNCHANGED wvars
  <2>1. UNCHANGED bootvars
    BY <1>2 DEF Serve, Elsewhere, wvars
  <2> QED
    BY <2>1 DEF bootvars, StartupInv, resolve_governance_mode, env_opt, ungoverned_local_only,
       host_is_loopback
<1> QED
  BY <1>1, <1>2 DEF WorkerNext

\* A process that has not started has established nothing.
LEMMA StartupInitially == WorkerInit => StartupInv
BY DEF WorkerInit, StartupInit, StartupInv, Boots

\* What every step of run() established holds whenever the next one is taken.
THEOREM StartupInvariant == WorkerSpec => []StartupInv
BY StartupInitially, StartupKeptByWorker, PTL DEF WorkerSpec

\* In every environment, and however often the process failed to come up, a
\* worker that serves is governed and can be fenced, or it was told to be local
\* and binds only loopback.
THEOREM ServingAuthority == WorkerSpec => []ServesUnderAuthority
<1>1. StartupInv => ServesUnderAuthority
  BY DEF StartupInv, ServesUnderAuthority, resolve_governance_mode
<1> QED
  BY <1>1, StartupInvariant, PTL

-----------------------------------------------------------------------------
(* Types of the checkout, for any number of sessions at once *)

\* The part of the type invariant that git commands change.
GitTypeOK ==
  /\ tree \subseteq Works \cup {Conflict} /\ staged \subseteq tree
  /\ {local, remote, origin} \subseteq Content
  /\ heads \subseteq Branches /\ head \in heads
  /\ exists \subseteq Branches /\ known \subseteq exists

\* The part that sessions and manual operations change.
SessTypeOK ==
  /\ open \subseteq Sessions /\ ready \subseteq open
  /\ pc \in [Sessions -> Stages] /\ src \in [Sessions -> Branches]
  /\ n \in [Sessions -> Nat]
  /\ op \in [st : Operations, branch : Branches] /\ manuals \in 0..MaxManual
  /\ edited \subseteq Works /\ completed \subseteq Works

\* Every git command keeps the types.
LEMMA GitTypes ==
  ASSUME GitTypeOK, NEW b \in Branches, NEW from \in Branches,
         GitAdd \/ GitCommit \/ GitFetch(b) \/ GitPush(b) \/ GitSwitch(b, from) \/ UNCHANGED git
  PROVE  GitTypeOK'
<1> USE DEF GitTypeOK, Content
<1>1. CASE GitAdd \/ UNCHANGED git
  BY <1>1 DEF GitAdd, git
<1>2. CASE GitCommit
  <2>1. local' \in Content
    BY <1>2 DEF GitCommit
  <2> QED
    BY <1>2, <2>1 DEF GitCommit
<1>3. CASE GitFetch(b)
  <2>1. origin' \in Content
    BY <1>3 DEF GitFetch
  <2> QED
    BY <1>3, <2>1 DEF GitFetch
<1>4. CASE GitPush(b)
  <2>1. origin' \in Content /\ remote' \in Content
    BY <1>4 DEF GitPush
  <2> QED
    BY <1>4, <2>1 DEF GitPush
<1>5. CASE GitSwitch(b, from)
  <2>1. local' \in Content
    BY <1>5 DEF GitSwitch
  <2> QED
    BY <1>5, <2>1 DEF GitSwitch
<1> QED
  BY <1>1, <1>2, <1>3, <1>4, <1>5

\* The stages of a task keep the types.
LEMMA TaskTypes ==
  ASSUME GitTypeOK, SessTypeOK, TasksAreOpen, NEW s \in Sessions,
         OpenSession(s) \/ DropSession(s) \/ Task(s)
  PROVE  GitTypeOK' /\ SessTypeOK'
<1>0. s \in Branches /\ Base \in Branches /\ src[s] \in Branches /\ Work(s) \in Works
  BY DEF SessTypeOK, Branches, Work, Works
<1>1. CASE OpenSession(s) \/ DropSession(s)
  <2>1. UNCHANGED <<git, pc, src, n, op, manuals, edited, completed>>
    BY <1>1 DEF OpenSession, DropSession, manual, hist
  <2>2. GitTypeOK'
    BY <1>0, <2>1, GitTypes
  <2> QED
    BY <1>1, <2>1, <2>2 DEF SessTypeOK, OpenSession, DropSession
<1>2. ASSUME NEW stage \in Stages, Goto(s, stage) PROVE pc' \in [Sessions -> Stages]
  BY <1>2 DEF SessTypeOK, Goto
<1>3. ASSUME NEW b \in Branches, SetSource(s, b) PROVE src' \in [Sessions -> Branches]
  BY <1>3 DEF SessTypeOK, SetSource
<1>4. CASE StartTask(s)
  <2>1. UNCHANGED <<git, open, ready, src, op, manuals, edited, completed>>
    BY <1>4 DEF StartTask, manual, hist
  <2>2. n' \in [Sessions -> Nat] /\ pc' \in [Sessions -> Stages]
    BY <1>2, <1>4 DEF StartTask, SessTypeOK, Stages
  <2>3. GitTypeOK'
    BY <1>0, <2>1, GitTypes
  <2> QED
    BY <2>1, <2>2, <2>3 DEF SessTypeOK
<1>5. CASE FetchBase(s) \/ FetchOwn(s) \/ AddChanges(s) \/ CommitChanges(s)
  <2>1. UNCHANGED <<open, ready, src, n, op, manuals, edited, completed>>
    BY <1>5 DEF FetchBase, FetchOwn, AddChanges, CommitChanges, manual, hist
  <2>2. pc' \in [Sessions -> Stages]
    BY <1>2, <1>5 DEF FetchBase, FetchOwn, AddChanges, CommitChanges, Stages
  <2>3. GitTypeOK'
    BY <1>0, <1>5, GitTypes DEF FetchBase, FetchOwn, AddChanges, CommitChanges
  <2> QED
    BY <2>1, <2>2, <2>3 DEF SessTypeOK
<1>6. CASE FindRemote(s) \/ ReadBranch(s) \/ ReadTree(s) \/ TaskFails(s) \/ RefuseParent(s) \/ AgentEnds(s)
  <2>1. UNCHANGED <<git, open, ready, n, op, manuals, edited, completed>>
    BY <1>6 DEF FindRemote, ReadBranch, ReadTree, TaskFails, RefuseParent, AgentEnds, manual, hist
  <2>2. pc' \in [Sessions -> Stages]
    BY <1>2, <1>6 DEF FindRemote, ReadBranch, ReadTree, TaskFails, RefuseParent, AgentEnds, Stages
  <2>3. src' \in [Sessions -> Branches]
    BY <1>0, <1>3, <1>6 DEF FindRemote, ReadBranch, ReadTree, TaskFails, RefuseParent, AgentEnds,
       SessTypeOK
  <2>4. GitTypeOK'
    BY <1>0, <2>1, GitTypes
  <2> QED
    BY <2>1, <2>2, <2>3, <2>4 DEF SessTypeOK
<1>7. CASE SwitchBranch(s)
  <2>1. UNCHANGED <<open, ready, n, op, manuals, edited, completed>>
    BY <1>7 DEF SwitchBranch, manual, hist
  <2>2. pc' \in [Sessions -> Stages] /\ src' \in [Sessions -> Branches]
    BY <1>0, <1>2, <1>3, <1>7 DEF SwitchBranch, Stages
  <2>3. GitTypeOK'
    BY <1>0, <1>7, GitTypes DEF SwitchBranch
  <2> QED
    BY <2>1, <2>2, <2>3 DEF SessTypeOK
<1>8. CASE ConfigureIdentity(s)
  <2>1. UNCHANGED <<git, open, src, n, op, manuals, edited, completed>>
    BY <1>8 DEF ConfigureIdentity, manual, hist
  <2>2. pc' \in [Sessions -> Stages]
    BY <1>2, <1>8 DEF ConfigureIdentity, Stages
  <2>3. GitTypeOK'
    BY <1>0, <2>1, GitTypes
  <2> QED
    BY <1>8, <2>1, <2>2, <2>3 DEF SessTypeOK, ConfigureIdentity, TasksAreOpen
<1>9. CASE Edit(s)
  <2>1. UNCHANGED <<open, ready, pc, src, n, op, manuals, completed>>
    BY <1>9 DEF Edit, sess, manual
  <2>2. GitTypeOK' /\ edited' \subseteq Works
    BY <1>0, <1>9 DEF Edit, GitTypeOK, SessTypeOK
  <2> QED
    BY <2>1, <2>2 DEF SessTypeOK
<1>10. CASE ReadStatus(s) \/ PushBranch(s)
  <2>1. UNCHANGED <<open, ready, src, n, op, manuals, edited>>
    BY <1>10 DEF ReadStatus, PushBranch, manual
  <2>2. pc' \in [Sessions -> Stages] /\ completed' \subseteq Works
    BY <1>0, <1>2, <1>10 DEF ReadStatus, PushBranch, Stages, SessTypeOK
  <2>3. GitTypeOK'
    BY <1>0, <1>10, GitTypes DEF ReadStatus, PushBranch
  <2> QED
    BY <2>1, <2>2, <2>3 DEF SessTypeOK
<1> QED
  BY <1>1, <1>4, <1>5, <1>6, <1>7, <1>8, <1>9, <1>10 DEF Task, Prepare

\* A task of session s leaves the stages of the others alone, starts only in an
\* open session, and a session that is dropped has none.
LEMMA TaskFrame ==
  ASSUME SessTypeOK, NEW s \in Sessions, OpenSession(s) \/ DropSession(s) \/ Task(s)
  PROVE  /\ \A t \in Sessions \ {s} : pc'[t] = pc[t] /\ src'[t] = src[t] /\ n'[t] = n[t]
         /\ pc'[s] # "idle" => pc[s] # "idle" \/ s \in open
         /\ \/ UNCHANGED open
            \/ open' = open \ {s} /\ pc'[s] = "idle"
            \/ open' = open \cup {s} /\ Cardinality(open) < MaxOpen
<1> USE DEF SessTypeOK, Goto, SetSource
<1>1. CASE OpenSession(s) \/ DropSession(s)
  BY <1>1 DEF OpenSession, DropSession
<1>2. CASE StartTask(s) \/ FetchBase(s) \/ FindRemote(s) \/ FetchOwn(s) \/ ReadBranch(s) \/ ReadTree(s)
  BY <1>2 DEF StartTask, FetchBase, FindRemote, FetchOwn, ReadBranch, ReadTree
<1>3. CASE SwitchBranch(s) \/ RefuseParent(s) \/ ConfigureIdentity(s) \/ Edit(s) \/ AgentEnds(s)
  BY <1>3 DEF SwitchBranch, RefuseParent, ConfigureIdentity, Edit, AgentEnds, sess
<1>4. CASE AddChanges(s) \/ ReadStatus(s) \/ CommitChanges(s) \/ PushBranch(s) \/ TaskFails(s)
  BY <1>4 DEF AddChanges, ReadStatus, CommitChanges, PushBranch, TaskFails
<1> QED
  BY <1>1, <1>2, <1>3, <1>4 DEF Task, Prepare

\* Manual operations keep the types.
LEMMA ManualTypes ==
  ASSUME GitTypeOK, SessTypeOK, Manual
  PROVE  GitTypeOK' /\ SessTypeOK' /\ UNCHANGED <<sess, hist>>
<1>0. /\ Base \in Branches /\ op.branch \in Branches /\ op.st \in Operations
      /\ manuals \in Nat /\ manuals <= MaxManual
  BY DEF SessTypeOK, Branches
<1>1. ASSUME NEW st \in Operations, op' = [op EXCEPT !.st = st]
      PROVE  op' \in [st : Operations, branch : Branches]
  BY <1>1 DEF SessTypeOK
<1>2. ASSUME NEW b \in Branches, BeginManual("fetch", b) \/ BeginManual("add", b)
      PROVE  GitTypeOK' /\ SessTypeOK' /\ UNCHANGED <<sess, hist>>
  <2>1. UNCHANGED <<sess, git, hist>>
    BY <1>2 DEF BeginManual
  <2>2. op' \in [st : Operations, branch : Branches]
    BY <1>2 DEF BeginManual, Operations
  <2>3. manuals' \in 0..MaxManual
    BY <1>0, <1>2, CheckoutAssumption DEF BeginManual
  <2>4. GitTypeOK'
    BY <1>0, <2>1, GitTypes
  <2> QED
    BY <2>1, <2>2, <2>3, <2>4 DEF SessTypeOK, sess, hist
<1>3. CASE MergeUpstream
  <2>1. UNCHANGED <<sess, hist, manuals>>
    BY <1>3 DEF MergeUpstream
  <2>2. op' \in [st : Operations, branch : Branches]
    BY <1>1, <1>3 DEF MergeUpstream, Operations
  <2>3. GitTypeOK'
    <3>1. CASE GitFetch(Base)
      BY <1>0, <3>1, GitTypes
    <3>2. CASE /\ local' = [local EXCEPT ![head] = @ \cup origin[Base]] /\ UNCHANGED tree
               /\ UNCHANGED <<head, staged, heads, remote, exists, origin, known>>
      <4>1. local' \in Content
        BY <1>0, <3>2 DEF GitTypeOK, Content
      <4> QED
        BY <3>2, <4>1 DEF GitTypeOK
    <3>3. CASE /\ tree' = tree \cup {Conflict} /\ UNCHANGED local
               /\ UNCHANGED <<head, staged, heads, remote, exists, origin, known>>
      BY <3>3 DEF GitTypeOK
    <3> QED
      BY <1>3, <3>1, <3>2, <3>3 DEF MergeUpstream
  <2> QED
    BY <2>1, <2>2, <2>3 DEF SessTypeOK, sess, hist
<1>4. CASE MakeCommit \/ ManualFails
  <2>1. UNCHANGED <<sess, hist, manuals>>
    BY <1>4 DEF MakeCommit, ManualFails
  <2>2. op' \in [st : Operations, branch : Branches]
    BY <1>1, <1>4 DEF MakeCommit, ManualFails, Operations
  <2>3. GitTypeOK'
    BY <1>0, <1>4, GitTypes DEF MakeCommit, ManualFails
  <2> QED
    BY <2>1, <2>2, <2>3 DEF SessTypeOK, sess, hist
<1> QED
  BY <1>2, <1>3, <1>4 DEF Manual

\* Another worker that pushes keeps the types.
LEMMA OtherTypes ==
  ASSUME GitTypeOK, SessTypeOK, NEW s \in Sessions, OtherWorkerPushes(s)
  PROVE  GitTypeOK' /\ SessTypeOK' /\ UNCHANGED sess
<1>1. s \in Branches /\ <<s, 0>> \in Works
  BY DEF Branches, Works
<1>2. remote' \in Content
  BY <1>1 DEF OtherWorkerPushes, GitTypeOK, Content
<1>3. GitTypeOK'
  BY <1>1, <1>2 DEF OtherWorkerPushes, GitTypeOK
<1>4. UNCHANGED sess /\ UNCHANGED manual /\ edited' \subseteq Works /\ completed' \subseteq Works
  BY <1>1 DEF OtherWorkerPushes, SessTypeOK
<1> QED
  BY <1>3, <1>4 DEF SessTypeOK, sess, manual

\* A new process has no session and no task.
LEMMA RestartTypes ==
  ASSUME GitTypeOK, SessTypeOK, RestartWorker
  PROVE  GitTypeOK' /\ SessTypeOK' /\ TasksAreOpen'
<1>1. UNCHANGED <<n, git, manuals, hist>> /\ NoSession
  BY DEF RestartWorker
<1>2. GitTypeOK'
  BY <1>1 DEF GitTypeOK, git
<1>3. SessTypeOK'
  BY <1>1 DEF NoSession, SessTypeOK, Stages, Operations, Branches, hist
<1>4. TasksAreOpen'
  BY <1>1 DEF NoSession, TasksAreOpen
<1> QED
  BY <1>2, <1>3, <1>4

\* Every step keeps the types.
LEMMA CheckoutTypeStep ==
  ASSUME GitTypeOK, SessTypeOK, TasksAreOpen, [WorkerNext]_wvars
  PROVE  GitTypeOK' /\ SessTypeOK' /\ TasksAreOpen'
<1>1. ASSUME NEW s \in Sessions, OpenSession(s) \/ DropSession(s) \/ Task(s)
      PROVE  GitTypeOK' /\ SessTypeOK' /\ TasksAreOpen'
  <2>1. TasksAreOpen'
    BY <1>1, TaskFrame DEF TasksAreOpen
  <2> QED
    BY <1>1, <2>1, TaskTypes
<1>2. CASE Manual
  BY <1>2, ManualTypes DEF TasksAreOpen, sess
<1>3. ASSUME NEW s \in Sessions, OtherWorkerPushes(s)
      PROVE  GitTypeOK' /\ SessTypeOK' /\ TasksAreOpen'
  BY <1>3, OtherTypes DEF TasksAreOpen, sess
<1>4. CASE RestartWorker
  BY <1>4, RestartTypes
<1>5. CASE UNCHANGED cvars
  BY <1>5 DEF cvars, sess, git, manual, hist, GitTypeOK, SessTypeOK, TasksAreOpen
<1> QED
  BY <1>1, <1>2, <1>3, <1>4, <1>5 DEF WorkerNext, Serve, Elsewhere, wvars

\* An untouched checkout and no session have the types.
LEMMA CheckoutTypeInit == WorkerInit => GitTypeOK /\ SessTypeOK /\ TasksAreOpen
BY CheckoutAssumption DEF WorkerInit, CheckoutInit, GitTypeOK, SessTypeOK, TasksAreOpen, Content,
   Branches, Stages, Operations

\* The two parts are the type invariant.
THEOREM CheckoutTyping == WorkerSpec => []CheckoutTypeOK
<1>1. GitTypeOK /\ SessTypeOK /\ TasksAreOpen /\ [WorkerNext]_wvars =>
        GitTypeOK' /\ SessTypeOK' /\ TasksAreOpen'
  BY CheckoutTypeStep
<1>2. GitTypeOK /\ SessTypeOK => CheckoutTypeOK
  BY DEF GitTypeOK, SessTypeOK, CheckoutTypeOK
<1> QED
  BY <1>1, <1>2, CheckoutTypeInit, PTL DEF WorkerSpec

-----------------------------------------------------------------------------
(* One session at a time: work stays where it belongs *)

\* With one session at a time, the session that acts is the only one.
LEMMA Alone ==
  ASSUME CheckoutTypeOK, OneSession, NEW s \in open
  PROVE  open = {s} /\ \A t \in Sessions \ {s} : pc[t] = "idle" /\ t \notin ready
BY DEF CheckoutTypeOK, OneSession, TasksAreOpen

\* A session is opened only when there is none, so there is never a second.
LEMMA OneSessionKept ==
  ASSUME MaxOpen <= 1, CheckoutTypeOK, OneSession, NEW s \in Sessions,
         OpenSession(s) \/ DropSession(s) \/ Task(s)
  PROVE  OneSession'
<1>1. SessTypeOK
  BY DEF CheckoutTypeOK, SessTypeOK
<1>2. Cardinality(open) < MaxOpen => open = {}
  <2>1. \A t \in Sessions : Cardinality({t}) = 1
    BY FS_Singleton
  <2> QED
    BY <2>1, CheckoutAssumption DEF OneSession
<1>3. TasksAreOpen'
  BY <1>1, TaskFrame DEF OneSession, TasksAreOpen
<1>4. (open = {} \/ \E t \in Sessions : open = {t})'
  BY <1>1, <1>2, TaskFrame DEF OneSession
<1> QED
  BY <1>3, <1>4 DEF OneSession

\* Git commands move work along its own branch; the switch of a clean tree to a
\* session's branch takes only the work of that branch or nothing.
LEMMA GitInPlace ==
  ASSUME CheckoutTypeOK, InPlace, NEW b \in Branches,
         \/ GitAdd \/ GitCommit \/ GitFetch(b) \/ GitPush(b) \/ UNCHANGED git
         \/ tree \subseteq {Conflict} /\ \E from \in {b, Base} : GitSwitch(b, from)
  PROVE  InPlace'
<1>0. /\ Base \in Branches /\ head \in Branches /\ staged \subseteq tree
      /\ local \in Content /\ remote \in Content /\ origin \in Content
  BY DEF CheckoutTypeOK, Branches
<1>1. CASE GitAdd \/ UNCHANGED git
  BY <1>1 DEF GitAdd, git, InPlace
<1>2. CASE GitCommit
  <2>1. \A c \in Branches : local'[c] \subseteq local[c] \cup (IF c = head THEN staged ELSE {})
    BY <1>0, <1>2 DEF GitCommit, Content
  <2> QED
    BY <1>0, <1>2, <2>1 DEF GitCommit, InPlace
<1>3. CASE GitFetch(b)
  <2>1. \A c \in Branches : origin'[c] \subseteq origin[c] \cup remote[c]
    BY <1>0, <1>3 DEF GitFetch, Content
  <2> QED
    BY <1>3, <2>1 DEF GitFetch, InPlace
<1>4. CASE GitPush(b)
  <2>1. \A c \in Branches : /\ origin'[c] \subseteq origin[c] \cup local[c]
                           /\ remote'[c] \subseteq remote[c] \cup local[c]
    BY <1>0, <1>4 DEF GitPush, Content
  <2> QED
    BY <1>4, <2>1 DEF GitPush, InPlace
<1>5. ASSUME tree \subseteq {Conflict}, NEW from \in {b, Base}, GitSwitch(b, from)
      PROVE  InPlace'
  <2>1. origin[Base] \subseteq {Conflict}
    BY <1>0 DEF InPlace
  <2>2. \A c \in Branches : local'[c] \subseteq local[c] \cup origin[c] \cup {Conflict}
    BY <1>0, <1>5, <2>1 DEF GitSwitch, Content
  <2> QED
    BY <1>5, <2>2 DEF GitSwitch, InPlace
<1> QED
  BY <1>1, <1>2, <1>3, <1>4, <1>5

\* The task of the only session keeps the checkout on that session's branch from
\* the switch on, and brings work nowhere else.
LEMMA TaskInPlace ==
  ASSUME CheckoutTypeOK, CheckoutInv, NEW s \in Sessions, Task(s)
  PROVE  CheckedOf(s)' /\ InPlace'
<1>0. /\ s \in Branches /\ Base \in Branches /\ pc[s] \in Stages /\ CheckedOf(s) /\ InPlace
      /\ pc \in [Sessions -> Stages] /\ src \in [Sessions -> Branches] /\ Conflict \notin Works
  BY CheckoutAssumption DEF CheckoutTypeOK, Branches, CheckoutInv, Checked, Works
<1>1. CASE StartTask(s)
  <2>1. /\ pc'[s] = IF s \in ready THEN "agent" ELSE "fetch"
        /\ UNCHANGED <<src, ready, head, tree, git>>
    BY <1>0, <1>1 DEF StartTask, Goto, git
  <2>2. InPlace'
    BY <1>0, <2>1, GitInPlace
  <2> QED
    BY <1>0, <2>1, <2>2 DEF CheckedOf, Preparing, OnBranch
<1>2. CASE FetchBase(s) \/ FetchOwn(s)
  <2>1. InPlace' /\ UNCHANGED <<src, ready, head, tree>>
    BY <1>0, <1>2, GitInPlace DEF FetchBase, FetchOwn, GitFetch, git
  <2>2. pc[s] \in {"fetch", "fetch_own"} /\ pc'[s] \in {"lookup", "branch"}
    BY <1>0, <1>2 DEF FetchBase, FetchOwn, Goto
  <2> QED
    BY <1>0, <2>1, <2>2 DEF CheckedOf, Preparing, OnBranch
<1>3. CASE FindRemote(s)
  <2>1. UNCHANGED <<ready, head, tree, git>>
    BY <1>3 DEF FindRemote, git
  <2>2. pc[s] = "lookup" /\ pc'[s] \in {"fetch_own", "branch"} /\ src'[s] \in {s, Base}
    BY <1>0, <1>3 DEF FindRemote, Goto, SetSource
  <2>3. InPlace'
    BY <1>0, <2>1, GitInPlace
  <2> QED
    BY <1>0, <2>1, <2>2, <2>3 DEF CheckedOf, Preparing, OnBranch
<1>4. CASE ReadBranch(s) \/ ReadTree(s)
  <2>1. UNCHANGED <<ready, head, tree, git>>
    BY <1>4 DEF ReadBranch, ReadTree, git
  <2>2. /\ pc[s] \in {"branch", "clean"} /\ src'[s] \in {src[s], Base}
        /\ pc'[s] \in {"parent", "clean", "switch", "idle"}
        /\ pc'[s] = "parent" => head = s
        /\ pc'[s] = "switch" => tree = {}
    BY <1>0, <1>4 DEF ReadBranch, ReadTree, Goto, SetSource, CurrentBranch, WorkspaceStatus
  <2>3. InPlace'
    BY <1>0, <2>1, GitInPlace
  <2> QED
    BY <1>0, <2>1, <2>2, <2>3 DEF CheckedOf, Preparing, OnBranch
<1>5. CASE SwitchBranch(s)
  <2>1. /\ pc[s] = "switch" /\ pc'[s] = "parent" /\ src'[s] = Base /\ GitSwitch(s, src[s])
        /\ head' = s /\ UNCHANGED ready
    BY <1>0, <1>5 DEF SwitchBranch, Goto, SetSource, GitSwitch
  <2>2. InPlace'
    BY <1>0, <2>1, GitInPlace DEF CheckedOf
  <2> QED
    BY <1>0, <2>1, <2>2 DEF CheckedOf, Preparing, OnBranch
<1>6. CASE RefuseParent(s) \/ ConfigureIdentity(s) \/ AgentEnds(s)
  <2>1. UNCHANGED <<src, head, tree, git>>
    BY <1>6 DEF RefuseParent, ConfigureIdentity, AgentEnds, git
  <2>2. InPlace'
    BY <1>0, <2>1, GitInPlace
  <2>3. \/ pc[s] = "parent" /\ pc'[s] = (IF s = Base THEN "idle" ELSE "identity") /\ ready' = ready
        \/ pc[s] = "identity" /\ pc'[s] = "agent" /\ ready' = ready \cup {s}
        \/ pc[s] = "agent" /\ pc'[s] = "add" /\ ready' = ready
    BY <1>0, <1>6 DEF RefuseParent, ConfigureIdentity, AgentEnds, Goto
  <2> QED
    BY <1>0, <2>1, <2>2, <2>3 DEF CheckedOf, Preparing, OnBranch
<1>7. CASE Edit(s)
  <2>1. /\ pc[s] = "agent" /\ tree' = tree \cup {<<s, n[s]>>}
        /\ UNCHANGED <<pc, src, ready, head, local, remote, origin>>
    BY <1>7 DEF Edit, sess, Work
  <2>2. head = s /\ s # Base
    BY <1>0, <2>1 DEF CheckedOf, OnBranch
  <2>3. InPlace'
    BY <1>0, <2>1, <2>2 DEF InPlace
  <2> QED
    BY <1>0, <2>1, <2>2, <2>3 DEF CheckedOf, Preparing, OnBranch
<1>8. CASE AddChanges(s) \/ ReadStatus(s) \/ CommitChanges(s) \/ PushBranch(s)
  <2>1. UNCHANGED <<src, ready, head>>
    BY <1>8 DEF AddChanges, ReadStatus, CommitChanges, PushBranch, GitAdd, GitCommit, GitPush, git
  <2>2. InPlace'
    BY <1>0, <1>8, GitInPlace DEF AddChanges, ReadStatus, CommitChanges, PushBranch
  <2>3. pc[s] \in {"add", "status", "commit", "push"} /\ pc'[s] \in {"status", "commit", "push", "idle"}
    BY <1>0, <1>8 DEF AddChanges, ReadStatus, CommitChanges, PushBranch, Goto
  <2> QED
    BY <1>0, <2>1, <2>2, <2>3 DEF CheckedOf, Preparing, OnBranch
<1>9. CASE TaskFails(s)
  <2>1. pc'[s] = "idle" /\ src'[s] = Base /\ UNCHANGED <<ready, head, tree, git>>
    BY <1>0, <1>9 DEF TaskFails, Goto, SetSource, git
  <2>2. InPlace'
    BY <1>0, <2>1, GitInPlace
  <2> QED
    BY <1>0, <2>1, <2>2 DEF CheckedOf, Preparing, OnBranch
<1> QED
  BY <1>1, <1>2, <1>3, <1>4, <1>5, <1>6, <1>7, <1>8, <1>9 DEF Task, Prepare

\* A manual operation acts on whatever is checked out, so what it commits, merges
\* or pushes is where it belongs too.
LEMMA ManualInPlace ==
  ASSUME CheckoutTypeOK, CheckoutInv, Manual
  PROVE  CheckoutInv'
<1>0. /\ Base \in Branches /\ head \in Branches /\ op.branch \in Branches /\ InPlace
      /\ local \in Content /\ UNCHANGED sess
  BY ManualTypes DEF CheckoutTypeOK, GitTypeOK, SessTypeOK, Branches, CheckoutInv
<1>1. head' = head /\ tree' \subseteq tree \cup {Conflict}
  BY DEF Manual, BeginManual, MergeUpstream, MakeCommit, ManualFails, GitAdd, GitCommit, GitFetch,
     GitPush, git
<1>2. InPlace'
  <2>1. CASE \/ GitAdd \/ GitCommit \/ GitFetch(Base) \/ GitPush(op.branch) \/ UNCHANGED git
    BY <1>0, <2>1, GitInPlace
  <2>2. CASE /\ local' = [local EXCEPT ![head] = @ \cup origin[Base]]
             /\ UNCHANGED <<head, tree, remote, origin>>
    <3>1. origin[Base] \subseteq {Conflict}
      BY <1>0 DEF InPlace
    <3>2. \A c \in Branches : local'[c] \subseteq local[c] \cup {Conflict}
      BY <1>0, <2>2, <3>1 DEF Content
    <3> QED
      BY <1>0, <2>2, <3>2 DEF InPlace
  <2>3. CASE tree' = tree \cup {Conflict} /\ UNCHANGED <<head, local, remote, origin>>
    BY <1>0, <2>3 DEF InPlace
  <2> QED
    BY <2>1, <2>2, <2>3 DEF Manual, BeginManual, MergeUpstream, MakeCommit, ManualFails
<1>3. OneSession' /\ Checked'
  BY <1>0, <1>1 DEF CheckoutInv, OneSession, TasksAreOpen, Checked, CheckedOf, sess
<1> QED
  BY <1>2, <1>3 DEF CheckoutInv

\* Every step keeps work in place, when one session is open at a time.
LEMMA CheckoutInvStep ==
  ASSUME MaxOpen <= 1, CheckoutTypeOK, CheckoutTypeOK', CheckoutInv, [WorkerNext]_wvars
  PROVE  CheckoutInv'
<1>0. OneSession /\ Checked /\ InPlace /\ SessTypeOK /\ GitTypeOK
  BY DEF CheckoutInv, CheckoutTypeOK, SessTypeOK, GitTypeOK
<1>1. ASSUME NEW s \in Sessions, OpenSession(s) \/ DropSession(s) \/ Task(s)
      PROVE  CheckoutInv'
  <2>1. OneSession'
    BY <1>0, <1>1, OneSessionKept
  <2>2. CASE OpenSession(s) \/ DropSession(s)
    <3>1. UNCHANGED <<pc, src, git, head, tree>> /\ ready' \subseteq ready
      BY <2>2 DEF OpenSession, DropSession, git
    <3>2. InPlace'
      BY <1>0, <3>1 DEF InPlace, git
    <3>3. Checked'
      BY <1>0, <3>1 DEF Checked, CheckedOf
    <3> QED
      BY <2>1, <3>2, <3>3 DEF CheckoutInv
  <2>3. CASE Task(s)
    <3>1. CheckedOf(s)' /\ InPlace'
      BY <2>3, TaskInPlace
    <3>2. s \in open
      BY <1>0, <2>3 DEF OneSession, TasksAreOpen, Task, Prepare, StartTask, FetchBase, FindRemote,
         FetchOwn, ReadBranch, ReadTree, SwitchBranch, RefuseParent, ConfigureIdentity, Edit,
         AgentEnds, AddChanges, ReadStatus, CommitChanges, PushBranch, TaskFails
    <3>3. ASSUME NEW t \in Sessions \ {s} PROVE CheckedOf(t)'
      <4>1. pc'[t] = "idle" /\ src'[t] = src[t] /\ open = {s}
        BY <1>0, <2>3, <3>2, Alone, TaskFrame
      <4>2. t \notin ready'
        <5>1. open' = open
          BY <2>3 DEF Task, Prepare, StartTask, FetchBase, FindRemote,
             FetchOwn, ReadBranch, ReadTree, SwitchBranch, RefuseParent, ConfigureIdentity, Edit,
             AgentEnds, AddChanges, ReadStatus, CommitChanges, PushBranch, TaskFails, sess
        <5> QED
          BY <4>1, <5>1 DEF CheckoutTypeOK
      <4> QED
        BY <1>0, <4>1, <4>2 DEF Checked, CheckedOf, Preparing, OnBranch
    <3> QED
      BY <2>1, <3>1, <3>3 DEF CheckoutInv, Checked
  <2> QED
    BY <1>1, <2>2, <2>3
<1>2. CASE Manual
  BY <1>2, ManualInPlace
<1>3. ASSUME NEW s \in Sessions, OtherWorkerPushes(s) PROVE CheckoutInv'
  <2>1. /\ UNCHANGED <<sess, head, tree, local, origin>> /\ s # Base
        /\ \A b \in Branches : remote'[b] \subseteq remote[b] \cup (IF b = s THEN {<<s, 0>>} ELSE {})
    BY <1>0, <1>3 DEF OtherWorkerPushes, GitTypeOK, Content
  <2>2. InPlace'
    BY <1>0, <2>1 DEF InPlace
  <2> QED
    BY <1>0, <2>1, <2>2 DEF CheckoutInv, OneSession, TasksAreOpen, Checked, CheckedOf, sess
<1>4. CASE RestartWorker
  <2>1. NoSession /\ UNCHANGED git
    BY <1>4 DEF RestartWorker
  <2> QED
    BY <1>0, <2>1 DEF NoSession, git, CheckoutInv, OneSession, TasksAreOpen, Checked, CheckedOf,
       InPlace, Preparing, OnBranch
<1>5. CASE UNCHANGED cvars
  BY <1>0, <1>5 DEF cvars, sess, git, CheckoutInv, OneSession, TasksAreOpen, Checked, CheckedOf, InPlace
<1> QED
  BY <1>1, <1>2, <1>3, <1>4, <1>5 DEF WorkerNext, Serve, Elsewhere, wvars

\* A checkout without work has none out of place.
LEMMA CheckoutInvInit == WorkerInit => CheckoutInv
BY DEF WorkerInit, CheckoutInit, CheckoutInv, OneSession, TasksAreOpen, Checked, CheckedOf, InPlace,
   Preparing, OnBranch

\* A worker bound to one thread keeps its checkout in order, whatever fails.
THEOREM CheckoutInvariant == MaxOpen <= 1 => (WorkerSpec => []CheckoutInv)
<1> SUFFICES ASSUME MaxOpen <= 1 PROVE WorkerSpec => []CheckoutInv
  OBVIOUS
<1>1. CheckoutTypeOK /\ CheckoutTypeOK' /\ CheckoutInv /\ [WorkerNext]_wvars => CheckoutInv'
  BY CheckoutInvStep
<1> QED
  BY <1>1, CheckoutInvInit, CheckoutTyping, PTL DEF WorkerSpec

\* A worker bound to one thread never puts the work of one session on the branch
\* of another.
THEOREM OwnWorkOnly == MaxOpen <= 1 => (WorkerSpec => []BranchHoldsOwnWork)
<1>1. CheckoutInv => BranchHoldsOwnWork
  BY DEF CheckoutInv, InPlace, BranchHoldsOwnWork
<1> QED
  BY <1>1, CheckoutInvariant, PTL

\* Nor does any edit of a task reach the parent branch, even when the branch hint
\* of a session names it.  (What a manual merge that failed left in the tree is
\* no edit of a task, and a manual commit may put it there.)
THEOREM ParentUntouched == MaxOpen <= 1 => (WorkerSpec => []ParentIsUntouched)
<1>1. CheckoutInv => ParentIsUntouched
  BY DEF CheckoutInv, InPlace, ParentIsUntouched, Branches
<1> QED
  BY <1>1, CheckoutInvariant, PTL

\* No step throws away an edit: a commit moves it to the branch, and a switch
\* finds a tree without edits.
LEMMA TreeKept ==
  ASSUME CheckoutTypeOK, CheckoutInv, [WorkerNext]_wvars
  PROVE  \A w \in tree \ {Conflict} : w \in tree' \cup local'[head]
<1>0. head \in Branches /\ local \in Content
  BY DEF CheckoutTypeOK
<1>1. CASE GitCommit
  BY <1>0, <1>1 DEF GitCommit, Content
<1>2. ASSUME NEW s \in Sessions, SwitchBranch(s)
      PROVE  \A w \in tree \ {Conflict} : w \in tree' \cup local'[head]
  BY <1>2 DEF SwitchBranch, CheckoutInv, Checked, CheckedOf
<1>3. CASE tree \subseteq tree'
  BY <1>3
<1>4. ASSUME NEW s \in Sessions, OpenSession(s) \/ DropSession(s) \/ Task(s)
      PROVE  GitCommit \/ SwitchBranch(s) \/ tree \subseteq tree'
  <2>1. CASE OpenSession(s) \/ DropSession(s) \/ StartTask(s) \/ FetchBase(s) \/ FindRemote(s) \/ FetchOwn(s)
    BY <2>1 DEF OpenSession, DropSession, StartTask, FetchBase, FindRemote, FetchOwn, GitFetch, git
  <2>2. CASE ReadBranch(s) \/ ReadTree(s) \/ RefuseParent(s) \/ ConfigureIdentity(s) \/ TaskFails(s)
    BY <2>2 DEF ReadBranch, ReadTree, RefuseParent, ConfigureIdentity, TaskFails, git
  <2>3. CASE Edit(s) \/ AgentEnds(s) \/ AddChanges(s) \/ ReadStatus(s) \/ CommitChanges(s) \/ PushBranch(s)
    BY <2>3 DEF Edit, AgentEnds, AddChanges, ReadStatus, CommitChanges, PushBranch, GitAdd, GitPush, git
  <2> QED
    BY <1>4, <2>1, <2>2, <2>3 DEF Task, Prepare
<1>5. Manual => GitCommit \/ tree \subseteq tree'
  BY DEF Manual, BeginManual, MergeUpstream, MakeCommit, ManualFails, GitAdd, GitFetch, GitPush, git
<1>6. CASE Elsewhere \/ RestartWorker \/ UNCHANGED cvars
  BY <1>6 DEF Elsewhere, OtherWorkerPushes, RestartWorker, cvars, git
<1> QED
  BY <1>1, <1>2, <1>3, <1>4, <1>5, <1>6 DEF WorkerNext, Serve, wvars

\* Edits that are not committed are not thrown away.
THEOREM UncommittedKept == MaxOpen <= 1 => (WorkerSpec => UncommittedIsKept)
<1> SUFFICES ASSUME MaxOpen <= 1 PROVE WorkerSpec => UncommittedIsKept
  OBVIOUS
<1>1. CheckoutTypeOK /\ CheckoutInv /\ [WorkerNext]_wvars =>
        [\A w \in tree \ {Conflict} : w \in tree' \cup local'[head]]_cvars
  BY TreeKept
<1> QED
  BY <1>1, CheckoutTyping, CheckoutInvariant, PTL DEF WorkerSpec, UncommittedIsKept

-----------------------------------------------------------------------------
(* Completed work is on the remote *)

\* What the task of session s does to the history: only the last task of the
\* session is edited or completed, and only while it runs.
LEMMA TaskHistory ==
  ASSUME SessTypeOK, NEW s \in Sessions, OpenSession(s) \/ DropSession(s) \/ Task(s)
  PROVE  \/ /\ pc[s] = "idle" /\ n' = [n EXCEPT ![s] = @ + 1]
            /\ UNCHANGED <<edited, completed>>
         \/ /\ UNCHANGED n /\ pc[s] = "agent" /\ pc'[s] = "agent"
            /\ edited' = edited \cup {Work(s)} /\ UNCHANGED completed
         \/ /\ UNCHANGED n /\ pc[s] # "idle" /\ pc'[s] = "idle"
            /\ completed' = completed \cup {Work(s)} /\ UNCHANGED edited
         \/ /\ UNCHANGED <<n, edited, completed>> /\ (pc'[s] # "idle" => pc[s] # "idle")
            /\ pc'[s] \in Preparing \cup {"parent", "identity"} =>
                 pc[s] \in Preparing \cup {"parent", "identity"}
<1> USE DEF SessTypeOK, Goto
<1>1. CASE OpenSession(s) \/ DropSession(s) \/ StartTask(s)
  BY <1>1 DEF OpenSession, DropSession, StartTask, hist
<1>2. CASE FetchBase(s) \/ FindRemote(s) \/ FetchOwn(s) \/ ReadBranch(s) \/ ReadTree(s)
  BY <1>2 DEF FetchBase, FindRemote, FetchOwn, ReadBranch, ReadTree, hist, Preparing
<1>3. CASE SwitchBranch(s) \/ RefuseParent(s) \/ ConfigureIdentity(s) \/ AgentEnds(s)
  BY <1>3 DEF SwitchBranch, RefuseParent, ConfigureIdentity, AgentEnds, hist, Preparing
<1>4. CASE AddChanges(s) \/ CommitChanges(s) \/ TaskFails(s)
  BY <1>4 DEF AddChanges, CommitChanges, TaskFails, hist, Preparing
<1>5. CASE Edit(s)
  BY <1>5 DEF Edit, sess
<1>6. CASE ReadStatus(s) \/ PushBranch(s)
  BY <1>6 DEF ReadStatus, PushBranch, Preparing
<1> QED
  BY <1>1, <1>2, <1>3, <1>4, <1>5, <1>6 DEF Task, Prepare

\* Every step keeps the numbering of the tasks.
LEMMA WorkStep ==
  ASSUME CheckoutTypeOK, CheckoutTypeOK', WorkInv, [WorkerNext]_wvars
  PROVE  WorkInv'
<1>0. /\ SessTypeOK /\ n \in [Sessions -> Nat] /\ n' \in [Sessions -> Nat]
      /\ edited \subseteq Sessions \X Nat /\ completed \subseteq Sessions \X Nat
  BY DEF CheckoutTypeOK, SessTypeOK, Works
<1>1. ASSUME NEW s \in Sessions, OpenSession(s) \/ DropSession(s) \/ Task(s)
      PROVE  WorkInv'
  <2>1. \A t \in Sessions \ {s} : pc'[t] = pc[t] /\ n'[t] = n[t]
    BY <1>0, <1>1, TaskFrame
  <2>2. CASE pc[s] = "idle" /\ n' = [n EXCEPT ![s] = @ + 1] /\ UNCHANGED <<edited, completed>>
    <3>1. <<s, n[s] + 1>> \notin edited \cup completed /\ n'[s] = n[s] + 1
      BY <1>0, <2>2 DEF WorkInv
    <3>2. \A w \in edited \cup completed : w[2] <= n'[w[1]]
      BY <1>0, <2>1, <3>1 DEF WorkInv
    <3> QED
      BY <1>0, <2>1, <2>2, <3>1, <3>2 DEF WorkInv, Work
  <2>3. CASE /\ UNCHANGED n /\ pc[s] = "agent" /\ pc'[s] = "agent"
             /\ edited' = edited \cup {Work(s)} /\ UNCHANGED completed
    <3>1. \A t \in Sessions : pc'[t] = pc[t] /\ Work(t)' = Work(t)
      BY <2>1, <2>3 DEF Work
    <3>2. \A t \in Sessions : Work(t) = Work(s) => t = s
      BY DEF Work
    <3> QED
      BY <1>0, <2>3, <3>1, <3>2 DEF WorkInv, Work, Preparing
  <2>4. CASE /\ UNCHANGED n /\ pc[s] # "idle" /\ pc'[s] = "idle"
             /\ completed' = completed \cup {Work(s)} /\ UNCHANGED edited
    <3>1. \A t \in Sessions : Work(t)' = Work(t)
      BY <2>4 DEF Work
    <3>2. \A t \in Sessions : Work(t) = Work(s) => t = s
      BY DEF Work
    <3> QED
      BY <1>0, <2>1, <2>4, <3>1, <3>2 DEF WorkInv, Work, Preparing
  <2>5. CASE /\ UNCHANGED <<n, edited, completed>> /\ (pc'[s] # "idle" => pc[s] # "idle")
             /\ pc'[s] \in Preparing \cup {"parent", "identity"} =>
                  pc[s] \in Preparing \cup {"parent", "identity"}
    BY <2>1, <2>5 DEF WorkInv, Work
  <2> QED
    BY <1>0, <1>1, <2>2, <2>3, <2>4, <2>5, TaskHistory
<1>2. CASE Manual
  <2>1. UNCHANGED <<pc, n, edited, completed>>
    BY <1>0, <1>2, ManualTypes DEF CheckoutTypeOK, GitTypeOK, sess, hist
  <2> QED
    BY <2>1 DEF WorkInv, Work
<1>3. ASSUME NEW s \in Sessions, OtherWorkerPushes(s) PROVE WorkInv'
  <2>1. /\ UNCHANGED <<pc, n>>
        /\ edited' = edited \cup {<<s, 0>>} /\ completed' = completed \cup {<<s, 0>>}
    BY <1>3 DEF OtherWorkerPushes, sess
  <2>2. ASSUME NEW t \in Sessions, pc[t] # "idle" PROVE Work(t) # <<s, 0>>
    <3>1. n[t] > 0 /\ n[t] \in Nat
      BY <1>0, <2>2 DEF WorkInv
    <3> QED
      BY <3>1 DEF Work
  <2> QED
    BY <1>0, <2>1, <2>2 DEF WorkInv, Work, Preparing
<1>4. CASE RestartWorker
  BY <1>4 DEF RestartWorker, NoSession, hist, WorkInv, Preparing
<1>5. CASE UNCHANGED cvars
  BY <1>5 DEF cvars, sess, hist, WorkInv, Work
<1> QED
  BY <1>1, <1>2, <1>3, <1>4, <1>5 DEF WorkerNext, Serve, Elsewhere, wvars

\* No task is numbered initially.
LEMMA WorkInit == WorkerInit => WorkInv
BY DEF WorkerInit, CheckoutInit, WorkInv, Preparing

\* Where the edits of the running task are, stage by stage, and where those of
\* the completed ones are.
InHand(s) ==
  Work(s) \in edited =>
    /\ pc[s] \in {"agent", "add"} => Work(s) \in tree
    /\ pc[s] \in {"status", "commit"} => Work(s) \in staged
    /\ pc[s] = "push" => Work(s) \in local[s]
Pushed == \A w \in completed \cap edited : w \in remote[w[1]]

\* The stages before the agent runs have nothing in hand and push nothing.
LEMMA PrepareKeepsPushed ==
  ASSUME CheckoutTypeOK, WorkInv, CheckoutInv, NEW s \in Sessions, InHand(s), Pushed,
         StartTask(s) \/ Prepare(s) \/ TaskFails(s)
  PROVE  InHand(s)' /\ Pushed'
<1>0. /\ pc \in [Sessions -> Stages] /\ n \in [Sessions -> Nat] /\ edited \subseteq Sessions \X Nat
  BY DEF CheckoutTypeOK, Works
<1>1. UNCHANGED <<remote, edited, completed>>
  BY DEF StartTask, Prepare, TaskFails, FetchBase, FindRemote, FetchOwn, ReadBranch, ReadTree,
     SwitchBranch, RefuseParent, ConfigureIdentity, GitFetch, GitSwitch, git, hist
<1>2. CASE StartTask(s)
  <2>1. Work(s)' = <<s, n[s] + 1>>
    BY <1>0, <1>2 DEF StartTask, Work
  <2>2. <<s, n[s] + 1>> \notin edited
    BY <1>0 DEF WorkInv
  <2> QED
    BY <1>1, <2>1, <2>2 DEF InHand, Pushed
<1>3. CASE Prepare(s)
  <2>1. pc[s] \in Preparing \cup {"parent", "identity"} /\ UNCHANGED n
    BY <1>3 DEF Prepare, FetchBase, FindRemote, FetchOwn, ReadBranch, ReadTree, SwitchBranch,
       RefuseParent, ConfigureIdentity, Preparing
  <2> QED
    BY <1>1, <2>1 DEF WorkInv, Work, InHand, Pushed
<1>4. CASE TaskFails(s)
  <2>1. pc'[s] = "idle"
    BY <1>0, <1>4 DEF TaskFails, Goto
  <2> QED
    BY <1>1, <2>1 DEF InHand, Pushed
<1> QED
  BY <1>2, <1>3, <1>4

\* From the agent on, edits go to the tree, the index, the branch and the remote;
\* a push never takes anything back.
LEMMA AgentKeepsPushed ==
  ASSUME CheckoutTypeOK, WorkInv, CheckoutInv, NEW s \in Sessions, InHand(s), Pushed,
         \/ Edit(s) \/ AgentEnds(s) \/ AddChanges(s) \/ ReadStatus(s) \/ CommitChanges(s)
         \/ PushBranch(s)
  PROVE  InHand(s)' /\ Pushed'
<1>0. /\ pc \in [Sessions -> Stages] /\ edited \subseteq Sessions \X Nat /\ s \in Branches
      /\ local \in Content /\ remote \in Content /\ staged \subseteq tree /\ head \in Branches
      /\ completed \subseteq Sessions \X Nat /\ Sessions \subseteq Branches
  BY DEF CheckoutTypeOK, Works, Branches
<1>1. /\ Work(s)' = Work(s) /\ pc[s] # "idle" /\ pc[s] \in OnBranch
  BY DEF Edit, AgentEnds, AddChanges, ReadStatus, CommitChanges, PushBranch, sess, Work, OnBranch
<1>2. head = s /\ Work(s) \notin completed
  BY <1>1 DEF CheckoutInv, Checked, CheckedOf, WorkInv
<1>3. CASE Edit(s)
  BY <1>1, <1>2, <1>3 DEF Edit, sess, InHand, Pushed
<1>4. CASE AgentEnds(s) \/ AddChanges(s)
  <2>1. /\ UNCHANGED <<edited, completed, remote, tree>>
        /\ \/ pc[s] = "agent" /\ pc'[s] = "add"
           \/ pc[s] = "add" /\ pc'[s] = "status" /\ staged' = tree
    BY <1>0, <1>4 DEF AgentEnds, AddChanges, GitAdd, Goto, git, hist
  <2> QED
    BY <1>1, <2>1 DEF InHand, Pushed
<1>5. CASE CommitChanges(s)
  <2>1. /\ UNCHANGED <<edited, completed, remote>> /\ pc[s] = "commit" /\ pc'[s] = "push"
        /\ local'[s] = local[s] \cup staged
    BY <1>0, <1>2, <1>5 DEF CommitChanges, GitCommit, Goto, hist, Content
  <2> QED
    BY <1>1, <2>1 DEF InHand, Pushed
<1>6. CASE ReadStatus(s)
  <2>1. UNCHANGED <<edited, remote, staged>> /\ pc[s] = "status"
    BY <1>6 DEF ReadStatus, git
  <2>2. CASE tree = {}
    <3>1. pc'[s] = "idle" /\ completed' = completed \cup {Work(s)} /\ Work(s) \notin edited
      BY <1>0, <1>6, <2>1, <2>2 DEF ReadStatus, WorkspaceStatus, Goto, InHand
    <3> QED
      BY <2>1, <3>1 DEF InHand, Pushed
  <2>3. CASE tree # {}
    <3>1. pc'[s] = "commit" /\ UNCHANGED completed
      BY <1>0, <1>6, <2>3 DEF ReadStatus, WorkspaceStatus, Goto
    <3> QED
      BY <1>1, <2>1, <3>1 DEF InHand, Pushed
  <2> QED
    BY <2>2, <2>3
<1>7. CASE PushBranch(s)
  <2>1. /\ pc[s] = "push" /\ pc'[s] = "idle" /\ UNCHANGED edited
        /\ completed' = completed \cup {Work(s)}
        /\ remote[s] \subseteq local[s] /\ remote' = [remote EXCEPT ![s] = local[s]]
    BY <1>0, <1>7 DEF PushBranch, GitPush, Goto
  <2>2. /\ \A b \in Branches : remote[b] \subseteq remote'[b]
        /\ Work(s) \in edited => Work(s) \in remote'[s]
    BY <1>0, <2>1 DEF InHand, Content
  <2>3. Work(s)[1] = s
    BY DEF Work
  <2>4. \A w \in completed : w[1] \in Branches
    BY <1>0
  <2> QED
    BY <2>1, <2>2, <2>3, <2>4 DEF InHand, Pushed
<1> QED
  BY <1>3, <1>4, <1>5, <1>6, <1>7

\* Every step of a worker that is to be governed keeps what it completed on the
\* remote.
LEMMA PushedStep ==
  ASSUME MaxOpen <= 1, CheckoutTypeOK, CheckoutInv, WorkInv, StartupInv, PushedInv,
         [WorkerNext]_wvars
  PROVE  PushedInv'
<1> SUFFICES ASSUME resolve_governance_mode' = "governed"
             PROVE  (op.st = "idle" /\ Pushed /\ \A s \in Sessions : InHand(s))'
  BY DEF PushedInv, InHand, Pushed
<1>1. UNCHANGED env
  BY DEF WorkerNext, StartupStep, ResolveMode, StartNats, NewControlPlane, Register, Listen, Serve,
     RestartWorker, Restart, Elsewhere, bootvars, wvars
<1>2. resolve_governance_mode = "governed"
  BY <1>1 DEF resolve_governance_mode, env_opt, ungoverned_local_only, host_is_loopback
<1>3. op.st = "idle" /\ Pushed /\ \A s \in Sessions : InHand(s)
  BY <1>2 DEF PushedInv, InHand, Pushed
<1>4. ~(Serve /\ manual_external_mutation_allowed)
  BY <1>2 DEF Serve, manual_external_mutation_allowed, StartupInv
<1>5. ASSUME NEW s \in Sessions, OpenSession(s) \/ DropSession(s)
      PROVE  (op.st = "idle" /\ Pushed /\ \A t \in Sessions : InHand(t))'
  <2>1. UNCHANGED <<op, n, pc, tree, staged, local, remote, edited, completed>>
    BY <1>5 DEF OpenSession, DropSession, git, manual, hist
  <2> QED
    BY <1>3, <2>1 DEF InHand, Pushed, Work
<1>6. ASSUME NEW s \in Sessions, Task(s)
      PROVE  (op.st = "idle" /\ Pushed /\ \A t \in Sessions : InHand(t))'
  <2>1. op' = op /\ s \in open
    BY <1>6 DEF manual, CheckoutInv, OneSession, TasksAreOpen, Task, Prepare, StartTask, FetchBase,
       FindRemote, FetchOwn, ReadBranch, ReadTree, SwitchBranch, RefuseParent, ConfigureIdentity,
       Edit, AgentEnds, AddChanges, ReadStatus, CommitChanges, PushBranch, TaskFails
  <2>2. InHand(s)' /\ Pushed'
    BY <1>3, <1>6, PrepareKeepsPushed, AgentKeepsPushed DEF Task
  <2>3. ASSUME NEW t \in Sessions \ {s} PROVE InHand(t)'
    <3>1. SessTypeOK /\ OneSession
      BY DEF CheckoutTypeOK, SessTypeOK, CheckoutInv
    <3>2. pc'[t] = "idle"
      BY <1>6, <2>1, <3>1, Alone, TaskFrame
    <3> QED
      BY <3>2 DEF InHand
  <2> QED
    BY <1>3, <2>1, <2>2, <2>3
<1>7. ASSUME NEW s \in Sessions, OtherWorkerPushes(s)
      PROVE  (op.st = "idle" /\ Pushed /\ \A t \in Sessions : InHand(t))'
  <2>1. /\ UNCHANGED <<op, n, pc, tree, staged, local>>
        /\ edited' = edited \cup {<<s, 0>>} /\ completed' = completed \cup {<<s, 0>>}
        /\ <<s, 0>> \notin edited
        /\ remote' = [remote EXCEPT ![s] = @ \cup {<<s, 0>>}]
    BY <1>7 DEF OtherWorkerPushes, sess, manual
  <2>2. \A b \in Branches : remote[b] \cup (IF b = s THEN {<<s, 0>>} ELSE {}) \subseteq remote'[b]
    BY <2>1 DEF CheckoutTypeOK, Content
  <2>3. \A w \in completed : w[1] \in Branches
    BY DEF CheckoutTypeOK, Works, Branches
  <2>4. Pushed'
    BY <1>3, <2>1, <2>2, <2>3 DEF Pushed, Branches
  <2>5. ASSUME NEW t \in Sessions PROVE InHand(t)'
    <3>1. CASE pc[t] = "idle"
      BY <2>1, <3>1 DEF InHand
    <3>2. CASE pc[t] # "idle"
      <4>1. n[t] > 0 /\ n[t] \in Nat
        BY <3>2 DEF WorkInv, CheckoutTypeOK
      <4>2. Work(t) # <<s, 0>> /\ Work(t)' = Work(t)
        BY <2>1, <4>1 DEF Work
      <4> QED
        BY <1>3, <2>1, <4>2 DEF InHand
    <3> QED
      BY <3>1, <3>2
  <2> QED
    BY <1>3, <2>1, <2>4, <2>5
<1>8. CASE RestartWorker
  <2>1. UNCHANGED <<remote, edited, completed>> /\ NoSession
    BY <1>8 DEF RestartWorker, git, hist
  <2> QED
    BY <1>3, <2>1 DEF NoSession, InHand, Pushed
<1>9. CASE UNCHANGED cvars
  <2>1. UNCHANGED <<op, n, pc, tree, staged, local, remote, edited, completed>>
    BY <1>9 DEF cvars, sess, git, manual, hist
  <2> QED
    BY <1>3, <2>1 DEF InHand, Pushed, Work
<1> QED
  BY <1>4, <1>5, <1>6, <1>7, <1>8, <1>9 DEF WorkerNext, Serve, Elsewhere, wvars

\* Nothing has been completed initially.
LEMMA PushedInit == WorkerInit => PushedInv
BY DEF WorkerInit, CheckoutInit, PushedInv, Work

\* Under governance a task that completed has its edits on its remote branch,
\* and there they stay.
THEOREM CompletedPushed == MaxOpen <= 1 => (WorkerSpec => []CompletedWorkIsPushed)
<1> SUFFICES ASSUME MaxOpen <= 1 PROVE WorkerSpec => []CompletedWorkIsPushed
  OBVIOUS
<1>1. CheckoutTypeOK /\ CheckoutTypeOK' /\ WorkInv /\ [WorkerNext]_wvars => WorkInv'
  BY WorkStep
<1>2. /\ CheckoutTypeOK /\ CheckoutInv /\ WorkInv /\ StartupInv /\ PushedInv
      /\ [WorkerNext]_wvars
      => PushedInv'
  BY PushedStep
<1>3. StartupInv /\ PushedInv => CompletedWorkIsPushed
  BY DEF StartupInv, PushedInv, CompletedWorkIsPushed
<1> QED
  BY <1>1, <1>2, <1>3, WorkInit, PushedInit, CheckoutTyping, CheckoutInvariant, StartupInvariant, PTL
     DEF WorkerSpec
=============================================================================
