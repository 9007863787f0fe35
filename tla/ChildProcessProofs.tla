-------------------------- MODULE ChildProcessProofs --------------------------
(* Machine-checked proofs about ChildProcess, for any set of helpers and any  *)
(* number of lines in a pipe.  Fairness is not used.                          *)
EXTENDS ChildProcess, TLAPS

\* A step of the caller, the select included, keeps the types.
LEMMA CallerTypes ==
  ASSUME ChildTypeOK, Caller \/ SpawnFails \/ WaitFails \/ ReapFails \/ Drop
  PROVE  ChildTypeOK'
<1> USE DEF ChildTypeOK, StartKill, AfterReap, Living
<1>1. CASE Spawn \/ SpawnFails
  BY <1>1 DEF Spawn, SpawnFails
<1>2. CASE Exited \/ TimedOut \/ Cancelled \/ WaitFails
  BY <1>2 DEF Exited, TimedOut, Cancelled, WaitFails
<1>3. CASE Reaped \/ ReapFails \/ CollectStdout \/ CollectStderr
  BY <1>3 DEF Reaped, ReapFails, CollectStdout, CollectStderr
<1>4. CASE Drop
  <2>1. \A p \in Pipes : reader'[p] = "eof" => reader[p] = "eof"
    BY <1>4 DEF Drop
  <2>2. reader' \in [Pipes -> {"none", "reading", "eof", "failed", "aborted"}]
    BY <1>4 DEF Drop
  <2> QED
    BY <1>4, <2>1, <2>2 DEF Drop
<1> QED
  BY <1>1, <1>2, <1>3, <1>4 DEF Caller

\* A step of a reader, the child, a helper, the clock or the token keeps them.
LEMMA OtherTypes ==
  ASSUME ChildTypeOK,
         \/ \E p \in Pipes : Reader(p) \/ ReaderFails(p) \/ WriteLine(p)
         \/ \E h \in Helpers : Start(h) \/ HelperExits(h)
         \/ ChildExits \/ Dies \/ Expire \/ Cancel
  PROVE  ChildTypeOK'
<1>1. ASSUME NEW p \in Pipes, Read(p) \/ WriteLine(p) PROVE ChildTypeOK'
  <2>1. unread' \in [Pipes -> 0..MaxLines]
    BY <1>1, ChildAssumption DEF ChildTypeOK, Read, WriteLine
  <2>2. \A q \in Pipes : reader[q] = "eof" => unread'[q] = unread[q]
    BY <1>1 DEF ChildTypeOK, Read, WriteLine
  <2> QED
    BY <1>1, <2>1, <2>2 DEF ChildTypeOK, Read, WriteLine
<1>2. ASSUME NEW p \in Pipes, ReaderEnds(p) \/ ReaderFails(p) PROVE ChildTypeOK'
  <2>1. reader' \in [Pipes -> {"none", "reading", "eof", "failed", "aborted"}]
    BY <1>2 DEF ChildTypeOK, ReaderEnds, ReaderFails
  <2>2. \A q \in Pipes : reader'[q] = "eof" => unread[q] = 0
    BY <1>2 DEF ChildTypeOK, ReaderEnds, ReaderFails
  <2> QED
    BY <1>2, <2>1, <2>2 DEF ChildTypeOK, ReaderEnds, ReaderFails
<1>3. ASSUME NEW h \in Helpers, Start(h) \/ HelperExits(h) PROVE ChildTypeOK'
  <2>1. helper' \in [Helpers -> [st : {"none", "alive", "dead"}, holds : SUBSET Pipes]]
    BY <1>3 DEF ChildTypeOK, Start, HelperExits
  <2> QED
    BY <1>3, <2>1 DEF ChildTypeOK, Start, HelperExits
<1>4. CASE ChildExits \/ Dies
  BY <1>4 DEF ChildTypeOK, ChildExits, Dies, Living
<1>5. CASE Expire \/ Cancel
  BY <1>5 DEF ChildTypeOK, Expire, Cancel
<1> QED
  BY <1>1, <1>2, <1>3, <1>4, <1>5 DEF Reader

\* Every step keeps the types.
LEMMA ChildTypeStep == ChildTypeOK /\ [ChildNext]_chvars => ChildTypeOK'
<1> SUFFICES ASSUME ChildTypeOK, [ChildNext]_chvars PROVE ChildTypeOK'
  OBVIOUS
<1>1. CASE UNCHANGED chvars
  BY <1>1 DEF chvars, ChildTypeOK
<1> QED
  BY <1>1, CallerTypes, OtherTypes DEF ChildNext, Fault

\* Before the spawn the types hold.
LEMMA ChildTypeInit == ChildInit => ChildTypeOK
<1> SUFFICES ASSUME ChildInit PROVE ChildTypeOK
  OBVIOUS
<1>1. helper \in [Helpers -> [st : {"none", "alive", "dead"}, holds : SUBSET Pipes]]
  BY DEF ChildInit
<1>2. unread \in [Pipes -> 0..MaxLines]
  BY ChildAssumption DEF ChildInit
<1>3. reader \in [Pipes -> {"none", "reading", "eof", "failed", "aborted"}]
  BY DEF ChildInit
<1> QED
  BY <1>1, <1>2, <1>3 DEF ChildInit, ChildTypeOK

\* Type correctness; a reader at the end of its pipe left nothing in it.
THEOREM ChildTyping == ChildSpec => []ChildTypeOK
BY ChildTypeInit, ChildTypeStep, PTL DEF ChildSpec

-----------------------------------------------------------------------------
(* Who is left when the call returns *)

\* A step of the caller keeps the invariant.
LEMMA CallerKeeps ==
  ASSUME ChildTypeOK, ChildInv, Caller \/ SpawnFails \/ WaitFails \/ ReapFails \/ Drop
  PROVE  ChildInv'
<1>0. UNCHANGED <<kind, helper>> /\ "stdout" \in Pipes /\ "stderr" \in Pipes
  BY DEF Caller, Spawn, SpawnFails, Exited, TimedOut, Cancelled, WaitFails, Reaped, ReapFails,
     CollectStdout, CollectStderr, Drop, Pipes
<1>1. CASE Spawn
  <2>1. \A p \in Pipes : reader'[p] = "reading"
    BY <1>1 DEF Spawn
  <2> QED
    BY <1>0, <1>1, <2>1 DEF Spawn, ChildInv
<1>2. CASE SpawnFails
  BY <1>0, <1>2 DEF SpawnFails, ChildInv, Ended, Held
<1>3. ASSUME UNCHANGED reader, child' \in Living => child \in Living
      PROVE  \A p \in Pipes : reader'[p] = "eof" => ~Held(p)'
  BY <1>0, <1>3 DEF ChildInv, Held
<1>4. CASE Exited
  BY <1>0, <1>3, <1>4 DEF Exited, ChildInv, Living
<1>5. CASE TimedOut \/ Cancelled \/ WaitFails
  <2>1. /\ pc = "wait" /\ UNCHANGED reader /\ (child' \in Living => child \in Living)
        /\ pc' \in {"reap", "returned"} /\ (pc' = "returned" => kind = "agent")
        /\ outcome' \in {"timed_out", "cancelled", "wait_error"} /\ (child' = "none" <=> child = "none")
    BY <1>5 DEF TimedOut, Cancelled, WaitFails, StartKill, Living
  <2> QED
    BY <1>0, <1>3, <2>1 DEF ChildInv
<1>6. CASE Reaped \/ ReapFails
  <2>1. /\ pc = "reap" /\ UNCHANGED reader /\ pc' = AfterReap
        /\ \/ child' = "reaped" /\ outcome' = outcome
           \/ child' = child /\ outcome' = "lost"
    BY <1>6 DEF Reaped, ReapFails
  <2>2. \A p \in Pipes : reader'[p] = "eof" => ~Held(p)'
    BY <1>3, <2>1 DEF Living
  <2> QED
    BY <1>0, <2>1, <2>2 DEF ChildInv, AfterReap
<1>7. CASE CollectStdout
  <2>1. UNCHANGED <<child, reader, outcome>> /\ pc = "stdout" /\ Ended("stdout")
    BY <1>7 DEF CollectStdout, Ended
  <2>2. \/ pc' = "stderr"
        \/ pc' = "returned" /\ kind # "agent" /\ reader["stdout"] = "failed"
    BY <1>7 DEF CollectStdout
  <2>3. \A p \in Pipes : reader'[p] = "eof" => ~Held(p)'
    BY <1>3, <2>1
  <2> QED
    BY <1>0, <2>1, <2>2, <2>3 DEF ChildInv, Ended
<1>8. CASE CollectStderr
  <2>1. UNCHANGED <<child, reader, outcome>> /\ pc = "stderr" /\ Ended("stderr") /\ pc' = "returned"
    BY <1>8 DEF CollectStderr, Ended
  <2>2. \A p \in Pipes : reader'[p] = "eof" => ~Held(p)'
    BY <1>3, <2>1
  <2> QED
    BY <1>0, <2>1, <2>2 DEF ChildInv, Ended
<1>9. CASE Drop
  <2>1. /\ pc' = "dropped" /\ (child' \in Living => child \in Living)
        /\ (child' = "none" <=> child = "none")
        /\ \A p \in Pipes : reader'[p] = "eof" => reader[p] = "eof"
    BY <1>9 DEF Drop, StartKill, Living, ChildTypeOK
  <2> QED
    BY <1>0, <2>1 DEF ChildInv, Held
<1> QED
  BY <1>1, <1>2, <1>4, <1>5, <1>6, <1>7, <1>8, <1>9 DEF Caller

\* So does every other step.
LEMMA OtherKeeps ==
  ASSUME ChildTypeOK, ChildInv,
         \/ \E p \in Pipes : Reader(p) \/ ReaderFails(p) \/ WriteLine(p)
         \/ \E h \in Helpers : Start(h) \/ HelperExits(h)
         \/ ChildExits \/ Dies \/ Expire \/ Cancel
  PROVE  ChildInv'
<1>1. ASSUME NEW p \in Pipes, Read(p) \/ WriteLine(p) PROVE ChildInv'
  BY <1>1 DEF Read, WriteLine, ChildInv, Ended, Held
<1>2. ASSUME NEW p \in Pipes, ReaderEnds(p) \/ ReaderFails(p) PROVE ChildInv'
  <2>1. /\ UNCHANGED <<kind, pc, outcome, child, helper>>
        /\ \A q \in Pipes : /\ Ended(q) => reader'[q] = reader[q]
                            /\ reader'[q] = "eof" => ~Held(q)
    BY <1>2 DEF ReaderEnds, ReaderFails, ChildTypeOK, ChildInv, Ended
  <2>2. \A q \in Pipes : Ended(q) => Ended(q)'
    BY <2>1 DEF Ended
  <2>3. \A q \in Pipes : reader'[q] = "eof" => ~Held(q)'
    BY <2>1 DEF Held
  <2> QED
    BY <2>1, <2>2, <2>3 DEF ChildInv, Pipes, Ended
<1>3. ASSUME NEW h \in Helpers, Start(h) \/ HelperExits(h) PROVE ChildInv'
  <2>1. UNCHANGED <<kind, pc, outcome, child, reader>>
    BY <1>3 DEF Start, HelperExits
  <2>2. child = "none" => \A g \in Helpers : helper'[g].st # "alive"
    BY <1>3 DEF Start, HelperExits, ChildTypeOK, ChildInv
  <2>3. \A q \in Pipes : ~Held(q) => ~Held(q)'
    BY <1>3 DEF Start, HelperExits, ChildTypeOK, Held, Living
  <2> QED
    BY <2>1, <2>2, <2>3 DEF ChildInv, Ended
<1>4. CASE ChildExits \/ Dies
  <2>1. /\ UNCHANGED <<kind, pc, outcome, helper, reader>> /\ child \in Living /\ child' = "dead"
    BY <1>4 DEF ChildExits, Dies, Living
  <2>2. \A q \in Pipes : ~Held(q) => ~Held(q)'
    BY <2>1 DEF Held
  <2>3. child \notin {"none", "reaped"}
    BY <2>1 DEF Living
  <2> QED
    BY <2>1, <2>2, <2>3 DEF ChildInv, Ended
<1>5. CASE Expire \/ Cancel
  BY <1>5 DEF Expire, Cancel, ChildInv, Ended, Held
<1> QED
  BY <1>1, <1>2, <1>3, <1>4, <1>5 DEF Reader

\* Before the spawn nobody is there.
LEMMA ChildInvInit == ChildInit => ChildInv
BY DEF ChildInit, ChildInv, Ended

\* What the call has awaited when it returns, and who can still write.
THEOREM ChildInvariant == ChildSpec => []ChildInv
<1>1. ChildTypeOK /\ ChildInv /\ [ChildNext]_chvars => ChildInv'
  <2> SUFFICES ASSUME ChildTypeOK, ChildInv, [ChildNext]_chvars PROVE ChildInv'
    OBVIOUS
  <2>1. CASE UNCHANGED chvars
    BY <2>1 DEF chvars, ChildInv, Ended, Held
  <2> QED
    BY <2>1, CallerKeeps, OtherKeeps DEF ChildNext, Fault
<1> QED
  BY <1>1, ChildInvInit, ChildTyping, PTL DEF ChildSpec

\* A git command that returned, waiting and reading having worked, leaves neither
\* its child nor a helper that holds one of its pipes: for any helpers.
THEOREM GitReturnsAlone == ChildSpec => []GitLeavesNobody
<1>1. ChildTypeOK /\ ChildInv => GitLeavesNobody
  <2> SUFFICES ASSUME ChildTypeOK, ChildInv, kind # "agent", pc = "returned", outcome # "lost",
                      \A p \in Pipes : reader[p] # "failed"
               PROVE  child \in {"none", "reaped"} /\ \A p \in Pipes : ~Held(p)
    BY DEF GitLeavesNobody
  <2>1. CASE child = "none"
    BY <2>1 DEF ChildInv, Held, Living
  <2>2. CASE child # "none"
    <3>1. \A p \in Pipes : reader[p] = "eof"
      BY <2>2 DEF ChildInv, Ended, Pipes
    <3> QED
      BY <2>2, <3>1 DEF ChildInv
  <2> QED
    BY <2>1, <2>2
<1> QED
  BY <1>1, ChildTyping, ChildInvariant, PTL

\* The output of an agent that exits by itself is complete when run returns,
\* whatever its tools still wrote.
THEOREM AgentOutputComplete == ChildSpec => []AgentOutputIsComplete
<1>1. ChildTypeOK /\ ChildInv => AgentOutputIsComplete
  BY DEF ChildTypeOK, ChildInv, AgentOutputIsComplete, Ended, Pipes
<1> QED
  BY <1>1, ChildTyping, ChildInvariant, PTL
=============================================================================
