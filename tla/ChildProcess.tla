----------------------------- MODULE ChildProcess -----------------------------
(***************************************************************************)
(* One child process from spawn to return: sh_capture_with_cancel and      *)
(* terminate_and_reap (src/git.rs), CliRunner::run (src/agents.rs).        *)
(*                                                                         *)
(* The child may start helpers (git starts its transports, an agent starts *)
(* tools) that inherit any of its pipes and outlive it.  A kill reaches    *)
(* the direct child only.  The caller, the two readers, the child and its  *)
(* helpers, the deadline and the cancellation token all move on their own; *)
(* `select!` takes any branch that is ready.                               *)
(***************************************************************************)
EXTENDS Naturals

CONSTANTS
  Helpers,    \* descendants the child may start
  MaxLines    \* bound: lines unread in a pipe

ASSUME ChildAssumption == MaxLines \in Nat

VARIABLES
  kind,       \* "git" with a token, "plain" (sh_capture: none), or "agent"
  pc,         \* the await at which the caller stands
  outcome,    \* why the wait ended
  child,      \* the direct child; "killed": signalled and not dead yet
  helper,     \* [st, holds] of each helper: what it inherited
  reader,     \* the two reader tasks
  unread,     \* lines in each pipe
  expired, cancelled   \* deadline and token

chvars == <<kind, pc, outcome, child, helper, reader, unread, expired, cancelled>>

Pipes == {"stdout", "stderr"}
Living == {"alive", "killed"}

ChildTypeOK ==
  /\ kind \in {"git", "plain", "agent"}
  /\ pc \in {"start", "wait", "reap", "stdout", "stderr", "returned", "dropped"}
  /\ outcome \in {"none", "exited", "timed_out", "cancelled", "wait_error", "lost"}
  /\ child \in {"none", "dead", "reaped"} \cup Living
  /\ helper \in [Helpers -> [st : {"none", "alive", "dead"}, holds : SUBSET Pipes]]
  /\ reader \in [Pipes -> {"none", "reading", "eof", "failed", "aborted"}]
  /\ unread \in [Pipes -> 0..MaxLines]
  /\ expired \in BOOLEAN /\ cancelled \in BOOLEAN
  \* A reader that reached the end of its pipe left nothing in it.
  /\ \A p \in Pipes : reader[p] = "eof" => unread[p] = 0

ChildInit ==
  /\ kind \in {"git", "plain", "agent"}
  /\ pc = "start" /\ outcome = "none" /\ child = "none"
  /\ helper = [h \in Helpers |-> [st |-> "none", holds |-> {}]]
  /\ reader = [p \in Pipes |-> "none"] /\ unread = [p \in Pipes |-> 0]
  /\ expired = FALSE /\ cancelled = FALSE

\* Somebody can still write to pipe p.
Held(p) == child \in Living \/ \E h \in Helpers : helper[h].st = "alive" /\ p \in helper[h].holds

-----------------------------------------------------------------------------
(* The caller *)

Spawn ==
  /\ pc = "start"
  /\ pc' = "wait" /\ child' = "alive"
  /\ reader' = [p \in Pipes |-> "reading"]
  /\ UNCHANGED <<kind, outcome, helper, unread, expired, cancelled>>

SpawnFails ==
  /\ pc = "start"
  /\ pc' = "returned"
  /\ UNCHANGED <<kind, outcome, child, helper, reader, unread, expired, cancelled>>

\* child.wait() is ready: on to the readers.
Exited ==
  /\ pc = "wait" /\ child = "dead"
  /\ child' = "reaped" /\ outcome' = "exited"
  /\ pc' = "stdout"
  /\ UNCHANGED <<kind, helper, reader, unread, expired, cancelled>>

\* Faulty variant: the child is awaited but not signalled.
NoKill == UNCHANGED child

\* start_kill: a child that has exited is not signalled.
StartKill == child' = IF child = "alive" THEN "killed" ELSE child

\* Faulty variant: the select without a token has no deadline either.
TimedOutWithToken ==
  /\ pc = "wait" /\ expired /\ kind # "plain" /\ (kind = "agent" => child # "dead")
  /\ StartKill /\ outcome' = "timed_out"
  /\ pc' = "reap"
  /\ UNCHANGED <<kind, helper, reader, unread, expired, cancelled>>

\* The deadline.  The agent's is a timeout around the wait, which looks at the
\* child first.
TimedOut ==
  /\ pc = "wait" /\ expired /\ (kind = "agent" => child # "dead")
  /\ StartKill /\ outcome' = "timed_out"
  /\ pc' = "reap"
  /\ UNCHANGED <<kind, helper, reader, unread, expired, cancelled>>

Cancelled ==
  /\ pc = "wait" /\ cancelled /\ kind # "plain"
  /\ StartKill /\ outcome' = "cancelled"
  /\ pc' = "reap"
  /\ UNCHANGED <<kind, helper, reader, unread, expired, cancelled>>

\* child.wait() fails: git kills and reaps all the same, the agent only kills.
WaitFails ==
  /\ pc = "wait"
  /\ StartKill /\ outcome' = "wait_error"
  /\ pc' = IF kind = "agent" THEN "returned" ELSE "reap"
  /\ UNCHANGED <<kind, helper, reader, unread, expired, cancelled>>

\* After the kill git collects the output, the agent returns at once.
AfterReap == IF kind = "agent" THEN "returned" ELSE "stdout"

\* Faulty variant: git returns from a killed child without its readers.
ReapedOnly ==
  /\ pc = "reap" /\ child = "dead"
  /\ child' = "reaped" /\ pc' = "returned"
  /\ UNCHANGED <<kind, outcome, helper, reader, unread, expired, cancelled>>

\* terminate_and_reap: the wait after the kill.
Reaped ==
  /\ pc = "reap" /\ child = "dead"
  /\ child' = "reaped" /\ pc' = AfterReap
  /\ UNCHANGED <<kind, outcome, helper, reader, unread, expired, cancelled>>

ReapFails ==
  /\ pc = "reap"
  /\ outcome' = "lost" /\ pc' = AfterReap
  /\ UNCHANGED <<kind, child, helper, reader, unread, expired, cancelled>>

\* Faulty variant: the agent's output is not awaited.
CollectStdoutEarly ==
  /\ pc = "stdout" /\ (kind = "agent" \/ reader["stdout"] \in {"eof", "failed"})
  /\ pc' = IF kind = "agent" THEN "returned" ELSE "stderr"
  /\ UNCHANGED <<kind, outcome, child, helper, reader, unread, expired, cancelled>>

\* The readers are awaited one after the other, with no deadline and no token.
\* git gives up at a failed stdout only when the child exited by itself.
CollectStdout ==
  /\ pc = "stdout" /\ reader["stdout"] \in {"eof", "failed"}
  /\ pc' = IF reader["stdout"] = "failed" /\ outcome = "exited" /\ kind # "agent"
           THEN "returned" ELSE "stderr"
  /\ UNCHANGED <<kind, outcome, child, helper, reader, unread, expired, cancelled>>

CollectStderr ==
  /\ pc = "stderr" /\ reader["stderr"] \in {"eof", "failed"}
  /\ pc' = "returned"
  /\ UNCHANGED <<kind, outcome, child, helper, reader, unread, expired, cancelled>>

\* The runtime shuts down: the future and the reader tasks are dropped, and
\* kill_on_drop, which only git's command sets, signals the child.
Drop ==
  /\ pc \in {"wait", "reap", "stdout", "stderr"}
  /\ pc' = "dropped"
  /\ IF kind = "agent" THEN UNCHANGED child ELSE StartKill
  /\ reader' = [p \in Pipes |-> IF reader[p] = "reading" THEN "aborted" ELSE reader[p]]
  /\ UNCHANGED <<kind, outcome, helper, unread, expired, cancelled>>

-----------------------------------------------------------------------------
(* Readers: read_all, and the line loops of CliRunner::run *)

Read(p) ==
  /\ reader[p] = "reading" /\ unread[p] > 0
  /\ unread' = [unread EXCEPT ![p] = @ - 1]
  /\ UNCHANGED <<kind, pc, outcome, child, helper, reader, expired, cancelled>>

\* Faulty variant: what is left in the pipe is not read.
ReaderEndsUnread(p) ==
  /\ reader[p] = "reading" /\ ~Held(p)
  /\ reader' = [reader EXCEPT ![p] = "eof"]
  /\ UNCHANGED <<kind, pc, outcome, child, helper, unread, expired, cancelled>>

\* End of file: the pipe is empty and nobody holds its other end.
ReaderEnds(p) ==
  /\ reader[p] = "reading" /\ unread[p] = 0 /\ ~Held(p)
  /\ reader' = [reader EXCEPT ![p] = "eof"]
  /\ UNCHANGED <<kind, pc, outcome, child, helper, unread, expired, cancelled>>

\* An error of the pipe, or for the agent a line that is not UTF-8, ends it.
ReaderFails(p) ==
  /\ reader[p] = "reading"
  /\ reader' = [reader EXCEPT ![p] = "failed"]
  /\ UNCHANGED <<kind, pc, outcome, child, helper, unread, expired, cancelled>>

-----------------------------------------------------------------------------
(* Child, helpers, clock and token (external) *)

Start(h) ==
  /\ child = "alive" /\ helper[h].st = "none"
  /\ \E ps \in SUBSET Pipes : helper' = [helper EXCEPT ![h] = [st |-> "alive", holds |-> ps]]
  /\ UNCHANGED <<kind, pc, outcome, child, reader, unread, expired, cancelled>>

WriteLine(p) ==
  /\ Held(p) /\ unread[p] < MaxLines /\ reader[p] = "reading"
  /\ unread' = [unread EXCEPT ![p] = @ + 1]
  /\ UNCHANGED <<kind, pc, outcome, child, helper, reader, expired, cancelled>>

HelperExits(h) ==
  /\ helper[h].st = "alive"
  /\ helper' = [helper EXCEPT ![h] = [st |-> "dead", holds |-> {}]]
  /\ UNCHANGED <<kind, pc, outcome, child, reader, unread, expired, cancelled>>

ChildExits ==
  /\ child = "alive"
  /\ child' = "dead"
  /\ UNCHANGED <<kind, pc, outcome, helper, reader, unread, expired, cancelled>>

Dies ==
  /\ child = "killed"
  /\ child' = "dead"
  /\ UNCHANGED <<kind, pc, outcome, helper, reader, unread, expired, cancelled>>

Expire ==
  /\ pc = "wait" /\ ~expired
  /\ expired' = TRUE
  /\ UNCHANGED <<kind, pc, outcome, child, helper, reader, unread, cancelled>>

Cancel ==
  /\ ~cancelled
  /\ cancelled' = TRUE
  /\ UNCHANGED <<kind, pc, outcome, child, helper, reader, unread, expired>>

-----------------------------------------------------------------------------
Caller ==
  \/ Spawn \/ Exited \/ TimedOut \/ Cancelled \/ Reaped \/ CollectStdout \/ CollectStderr

Reader(p) == Read(p) \/ ReaderEnds(p)

Fault == SpawnFails \/ WaitFails \/ ReapFails \/ Drop \/ \E p \in Pipes : ReaderFails(p)

ChildNext ==
  \/ Caller \/ Fault
  \/ \E p \in Pipes : Reader(p) \/ WriteLine(p)
  \/ \E h \in Helpers : Start(h) \/ HelperExits(h)
  \/ ChildExits \/ Dies \/ Expire \/ Cancel

\* The runtime polls the caller and the readers, a signal is delivered, the
\* clock runs.  Nothing makes the child or a token end the wait.
ChildSpec ==
  /\ ChildInit /\ [][ChildNext]_chvars
  /\ WF_chvars(Caller) /\ WF_chvars(Dies) /\ WF_chvars(Expire)
  /\ \A p \in Pipes : WF_chvars(Reader(p))

-----------------------------------------------------------------------------
(* Properties *)

\* A git command that returned leaves neither its child nor a helper that holds
\* one of its pipes: "a timed-out `git push` cannot outlive the lease-holding
\* task that launched it", on every path on which waiting and reading work.
GitLeavesNobody ==
  (/\ kind # "agent" /\ pc = "returned" /\ outcome # "lost"
   /\ \A p \in Pipes : reader[p] # "failed")
  => child \in {"none", "reaped"} /\ \A p \in Pipes : ~Held(p)

\* The output of an agent that exits by itself is complete when run returns:
\* whatever its tools wrote after its own exit has been emitted before the
\* task goes on to commit.
AgentOutputIsComplete ==
  kind = "agent" /\ pc = "returned" /\ outcome = "exited" =>
    \A p \in Pipes : reader[p] # "failed" => unread[p] = 0 /\ ~Held(p)

\* A deadline or a cancellation during the wait ends the child, whatever its
\* helpers do, unless the runtime itself goes away.
StopEndsChild ==
  (pc = "wait" /\ (expired \/ (cancelled /\ kind # "plain")))
    ~> (child \notin Living \/ pc = "dropped")

\* A call comes to its end, or some helper that never exits keeps open a pipe
\* that is still read: there is nothing else it waits for without a deadline.
OnlyHelpersDelay ==
  \/ <>(pc \in {"returned", "dropped"})
  \/ <>[](\E p \in Pipes : pc = p /\ reader[p] = "reading" /\ Held(p) /\ child \notin Living)

-----------------------------------------------------------------------------
(* Known not to hold (README) *)

\* "With a hard timeout after which the child is killed": the call itself has
\* no bound, a helper that keeps a pipe open holds it for ever.
TimeoutEndsCall == (pc = "wait" /\ expired) ~> (pc \in {"returned", "dropped"})

\* "So no child process can keep mutating under stale authority": the helpers
\* of a killed agent live on.
AgentLeavesNobody ==
  kind = "agent" /\ pc = "returned" => \A h \in Helpers : helper[h].st # "alive"

-----------------------------------------------------------------------------
(* Inductive invariant (ChildProcessProofs) *)

\* The reader of p has come to its end, by itself or by an error.
Ended(p) == reader[p] \in {"eof", "failed"}

\* Why the wait ended, by stage; helpers need a child that was spawned; behind a
\* reader at its end nobody writes; what was awaited before the call returned.
ChildInv ==
  /\ pc \in {"start", "wait"} => outcome = "none"
  /\ pc = "reap" => outcome \in {"timed_out", "cancelled", "wait_error"}
  /\ pc = "start" => child = "none"
  /\ child = "none" => \A h \in Helpers : helper[h].st # "alive"
  /\ pc \in {"stdout", "stderr"} \/ (pc = "returned" /\ kind # "agent") =>
       outcome = "lost" \/ child \in {"none", "reaped"}
  /\ \A p \in Pipes : reader[p] = "eof" => ~Held(p)
  /\ pc = "stderr" => Ended("stdout")
  /\ pc = "returned" /\ kind = "agent" /\ outcome = "exited" => Ended("stdout") /\ Ended("stderr")
  /\ pc = "returned" /\ kind # "agent" /\ child # "none" =>
       reader["stdout"] = "failed" \/ (Ended("stdout") /\ Ended("stderr"))
=============================================================================
