-------------------------- MODULE GovernedTaskProofs --------------------------
(* Machine-checked proofs about GovernedTask, for every set of agents, every  *)
(* number of claims and every timing that satisfies TimingAssumption.         *)
EXTENDS GovernedTask, TLAPS

\* The lease and the recorded statuses keep their types when an operation that
\* the service accepts is applied.
LEMMA AcceptType ==
  ASSUME TypeOK, NEW o \in Ops, NEW t \in Tokens, Accepts(o, t), Accept(o, t)
  PROVE  /\ lease' \in [token : Tokens, left : 0..TTL]
         /\ item' \in [Tokens -> Terminal \cup {"open", "claimed", "running"}]
<1>1. CASE o = "claim"
  BY <1>1, TimingAssumption DEF TypeOK, Accepts, Accept, Tokens, Terminal
<1>2. CASE o \in {"renew", "running"}
  BY <1>2, TimingAssumption DEF TypeOK, Accepts, Accept, Tokens, Terminal
<1>3. CASE o \in Terminal
  BY <1>3, TimingAssumption DEF TypeOK, Accepts, Accept, Tokens, Terminal
<1> QED
  BY <1>1, <1>2, <1>3 DEF Ops

\* The records that calls are made of.
LEMMA NoCallType == NoReq \in Requests /\ NoRen \in Renewals
BY TimingAssumption DEF NoReq, NoRen, Requests, Renewals, CallStates, Ops, Tokens

\* A call that was just sent is a well-formed request or renewal.
LEMMA SentType ==
  /\ [st |-> "sent", age |-> 0] \in Renewals
  /\ \A o \in Ops : Request(o) \in Requests
BY TimingAssumption DEF Request, Requests, Renewals, CallStates, Tokens

\* A request with its answer is still a request.
LEMMA RequestAnswerType ==
  ASSUME NEW r \in Requests, NEW s \in CallStates, NEW t \in Tokens
  PROVE  Answer(r, s, t) \in Requests
BY DEF Requests, Answer

\* A renewal with its answer is still a renewal.
LEMMA RenewalAnswerType ==
  ASSUME NEW r \in Renewals, NEW s \in CallStates
  PROVE  [st |-> s, age |-> r.age] \in Renewals
BY DEF Renewals

\* A call that is one tick older, up to its deadline, keeps its type.
LEMMA OlderType ==
  /\ \A r \in Requests : Older(r) \in Requests
  /\ \A r \in Renewals : Older(r) \in Renewals
BY TimingAssumption DEF Older, Requests, Renewals

\* The ways a lifecycle step ends keep the types.
LEMMA FinishType ==
  ASSUME TypeOK, NEW a \in Agents, NEW success \in BOOLEAN, Finish(a, success), UNCHANGED svc
  PROVE  TypeOK'
BY NoCallType, TimingAssumption DEF TypeOK, Finish, Stages, svc

\* Entering a mutating stage of run_task_lifecycle keeps the types.
LEMMA EnterType ==
  ASSUME TypeOK, NEW a \in Agents, NEW s \in Mutating, Enter(a, s), UNCHANGED svc
  PROVE  TypeOK'
BY NoCallType DEF TypeOK, Enter, Stages, Claimed, OpStates, Awaited, svc

\* Reaping the children and sending the terminal transition keeps the types.
LEMMA ConcludeType ==
  ASSUME TypeOK, NEW a \in Agents, NEW success \in BOOLEAN, Conclude(a, success), UNCHANGED svc
  PROVE  TypeOK'
<1>1. claimed_terminal_status(byUser[a], success) \in Ops
  BY DEF claimed_terminal_status, Ops, Terminal
<1>2. Request(claimed_terminal_status(byUser[a], success)) \in Requests
  BY <1>1, SentType
<1> QED
  BY <1>2 DEF TypeOK, Conclude, Send, Stages, Claimed, OpStates, svc

\* The fields that Dispatch and Crash reset have their types afterwards.
LEMMA ResetType ==
  ASSUME TypeOK, NEW a \in Agents, NEW s \in Stages, Reset(a, s)
  PROVE  /\ pc' \in [Agents -> Stages] /\ token' \in [Agents -> Tokens]
         /\ cancel' \in [Agents -> BOOLEAN] /\ byUser' \in [Agents -> BOOLEAN]
         /\ since' \in [Agents -> 0..Interval]
         /\ ok' \in [Agents -> BOOLEAN] /\ lost' \in [Agents -> BOOLEAN]
         /\ exit' \in [Agents -> {"none", "completed", "cancelled", "failed"}]
BY TimingAssumption DEF TypeOK, Reset, Tokens

\* Waiting for the answer to another call keeps the types.
LEMMA SendType ==
  ASSUME TypeOK, NEW a \in Agents, NEW s \in Stages, NEW o \in Ops, Send(a, s, o)
  PROVE  pc' \in [Agents -> Stages] /\ req' \in [Agents -> Requests]
BY SentType DEF TypeOK, Send

\* Abandoned requests are requests.
LEMMA AbandonType ==
  ASSUME TypeOK, NEW a \in Agents, NEW late \in SUBSET (Call(a) \cup Renewal(a)), Abandon(late)
  PROVE  net' \subseteq [op : Ops, tok : Tokens]
BY DEF TypeOK, Abandon, Call, Renewal, Requests, Ops

\* A mutation that goes on, ends or is killed moves op[a] on and nothing else.
Progress(a) ==
  /\ op[a] \in Awaited
  /\ op' \in {[op EXCEPT ![a] = r] : r \in {"exited", "killed", "ok", "failed"}}
  /\ op'[a] \in Awaited => pc[a] \in Spawning
  /\ UNCHANGED <<svc, pc, token, cancel, byUser, req, ren, since, ok, lost, exit>>

\* Progress is what children and writes make by themselves, and what deadlines
\* and cancellation make of a child.
LEMMA MutationProgress ==
  ASSUME TypeOK, NEW a \in Agents,
         Mutation(a) \/ TimesOut(a) \/ Kill(a)
  PROVE  Progress(a)
<1>1. CASE ChildExits(a) \/ TimesOut(a) \/ Kill(a)
  BY <1>1 DEF TypeOK, ChildExits, TimesOut, Kill, Progress, Awaited
<1>2. CASE WriteEnds(a) \/ ChildDone(a)
  <2>1. PICK r \in {"ok", "failed"} : op' = [op EXCEPT ![a] = r]
    BY <1>2 DEF WriteEnds, ChildDone
  <2>2. op'[a] = r /\ op[a] \in Awaited
    BY <1>2, <2>1 DEF TypeOK, WriteEnds, ChildDone, Awaited
  <2>3. UNCHANGED <<svc, pc, token, cancel, byUser, req, ren, since, ok, lost, exit>>
    BY <1>2 DEF WriteEnds, ChildDone
  <2> QED
    BY <2>1, <2>2, <2>3 DEF Progress, Awaited
<1> QED
  BY <1>1, <1>2 DEF Mutation

\* Progress keeps the types.
LEMMA ProgressType ==
  ASSUME TypeOK, NEW a \in Agents, Progress(a)
  PROVE  TypeOK'
<1>1. op' \in [Agents -> OpStates]
  BY DEF TypeOK, Progress, OpStates, Awaited
<1> QED
  BY <1>1 DEF TypeOK, Progress, svc

\* Every step keeps the types, one action at a time.
LEMMA TypeStep == TypeOK /\ [Next]_vars => TypeOK'
<1> SUFFICES ASSUME TypeOK, [Next]_vars PROVE TypeOK'
  OBVIOUS
<1> USE TimingAssumption
<1>1. ASSUME NEW a \in Agents, Dispatch(a) PROVE TypeOK'
  BY <1>1, ResetType DEF Dispatch, TypeOK, Stages, OpStates, svc
<1>2. ASSUME NEW a \in Agents, PrepareSucceeds(a) PROVE TypeOK'
  BY <1>2, SendType, SMT DEF PrepareSucceeds, Ops, TypeOK, Stages, Claimed, Mutating, svc
<1>3. ASSUME NEW a \in Agents, PrepareFails(a) PROVE TypeOK'
  BY <1>3, FinishType DEF PrepareFails
<1>4. ASSUME NEW a \in Agents, ClaimReply(a) PROVE TypeOK'
  <2>1. CASE req[a].st = "err"
    BY <1>4, <2>1, FinishType DEF ClaimReply
  <2>2. CASE req[a].st = "ok"
    <3>1. /\ token' \in [Agents -> Tokens]
          /\ UNCHANGED <<svc, cancel, byUser, ren, since, op, ok, lost, exit>>
      BY <1>4, <2>2 DEF ClaimReply, TypeOK, Requests
    <3>2. pc' \in [Agents -> Stages] /\ req' \in [Agents -> Requests]
      BY <1>4, <2>2, SendType DEF ClaimReply, Stages, Ops, Terminal
    <3> QED
      BY <3>1, <3>2 DEF TypeOK, svc
  <2> QED
    BY <1>4, <2>1, <2>2 DEF ClaimReply, Answered
<1>5. ASSUME NEW a \in Agents, WithdrawReply(a) PROVE TypeOK'
  BY <1>5, FinishType DEF WithdrawReply
<1>6. ASSUME NEW a \in Agents, StartReply(a) PROVE TypeOK'
  BY <1>6, FinishType, ConcludeType, EnterType DEF StartReply, Mutating
<1>7. ASSUME NEW a \in Agents, Advance(a) PROVE TypeOK'
  <2>1. CASE Conclude(a, TRUE) \/ Conclude(a, FALSE)
    BY <1>7, <2>1, ConcludeType DEF Advance
  <2>2. CASE \E s \in Follows(pc[a]) : Enter(a, s)
    BY <1>7, <2>2, EnterType DEF Advance, Follows, Mutating, Spawning
  <2>3. CASE /\ Send(a, "renew", "renew") /\ op' = [op EXCEPT ![a] = "none"]
             /\ UNCHANGED <<token, cancel, byUser, ren, since, ok, lost, exit>>
    BY <1>7, <2>3, SendType DEF Advance, TypeOK, Stages, Claimed, Ops, OpStates, svc
  <2> QED
    BY <1>7, <2>1, <2>2, <2>3 DEF Advance
<1>8. ASSUME NEW a \in Agents, DropPublication(a) PROVE TypeOK'
  BY <1>8, ConcludeType DEF DropPublication
<1>9. ASSUME NEW a \in Agents, RenewReply(a) PROVE TypeOK'
  BY <1>9, ConcludeType, EnterType DEF RenewReply, Mutating
<1>10. ASSUME NEW a \in Agents, ReportReply(a) PROVE TypeOK'
  <2>1. CASE Finish(a, ok[a] /\ ~lost[a])
    BY <1>10, <2>1, FinishType DEF ReportReply
  <2>2. CASE /\ Send(a, "recover", "failed")
             /\ UNCHANGED <<token, cancel, byUser, ren, since, op, ok, lost, exit>>
    BY <1>10, <2>2, SendType DEF ReportReply, TypeOK, Stages, Claimed, Ops, Terminal, svc
  <2> QED
    BY <1>10, <2>1, <2>2 DEF ReportReply
<1>11. ASSUME NEW a \in Agents, RecoverReply(a) PROVE TypeOK'
  BY <1>11, FinishType DEF RecoverReply
<1>12. ASSUME NEW a \in Agents, RenewTick(a) PROVE TypeOK'
  BY <1>12, SentType, SMT DEF RenewTick, TypeOK, Stages, Claimed, Mutating, svc
<1>13. ASSUME NEW a \in Agents, RenewTickReply(a) PROVE TypeOK'
  <2>1. cancel' \in [Agents -> BOOLEAN] /\ lost' \in [Agents -> BOOLEAN]
    BY <1>13 DEF RenewTickReply, TypeOK
  <2> QED
    BY <1>13, <2>1, NoCallType DEF RenewTickReply, TypeOK, svc
<1>14. ASSUME NEW a \in Agents, Mutation(a) PROVE TypeOK'
  BY <1>14, MutationProgress, ProgressType
<1>15. ASSUME NEW a \in Agents, UserCancel(a) PROVE TypeOK'
  BY <1>15, SMT DEF UserCancel, TypeOK, Stages, Claimed, Mutating, svc
<1>16. ASSUME NEW a \in Agents, Crash(a) PROVE TypeOK'
  <2>1. net' \subseteq [op : Ops, tok : Tokens]
    BY <1>16, AbandonType DEF Crash
  <2> QED
    BY <1>16, <2>1, ResetType, NoCallType DEF Crash, TypeOK, Stages, OpStates
<1>17. ASSUME NEW a \in Agents, Serve(a) PROVE TypeOK'
  <2>1. req[a] \in Requests /\ req[a].op \in Ops /\ token[a] \in Tokens
    BY DEF TypeOK, Requests
  <2>2. /\ lease' \in [token : Tokens, left : 0..TTL]
        /\ item' \in [Tokens -> Terminal \cup {"open", "claimed", "running"}]
    BY <1>17, <2>1, AcceptType DEF Serve, TypeOK
  <2>3. \E s \in CallStates, t \in Tokens : req' = [req EXCEPT ![a] = Answer(req[a], s, t)]
    BY <1>17, <2>2 DEF Serve, CallStates, Tokens
  <2>4. req' \in [Agents -> Requests]
    BY <2>1, <2>3, RequestAnswerType DEF TypeOK
  <2> QED
    BY <1>17, <2>2, <2>4 DEF Serve, TypeOK
<1>18. ASSUME NEW a \in Agents, ServeRenewal(a) PROVE TypeOK'
  <2>1. ren[a] \in Renewals /\ token[a] \in Tokens /\ "renew" \in Ops
    BY DEF TypeOK, Ops
  <2>2. /\ lease' \in [token : Tokens, left : 0..TTL]
        /\ item' \in [Tokens -> Terminal \cup {"open", "claimed", "running"}]
    BY <1>18, <2>1, AcceptType DEF ServeRenewal, TypeOK
  <2>3. \E s \in CallStates : ren' = [ren EXCEPT ![a] = [st |-> s, age |-> ren[a].age]]
    BY <1>18 DEF ServeRenewal, CallStates
  <2>4. ren' \in [Agents -> Renewals]
    BY <2>1, <2>3, RenewalAnswerType DEF TypeOK
  <2> QED
    BY <1>18, <2>2, <2>4 DEF ServeRenewal, TypeOK
<1>19. ASSUME NEW a \in Agents, CallFails(a) PROVE TypeOK'
  <2>1. net' \subseteq [op : Ops, tok : Tokens]
    BY <1>19, AbandonType DEF CallFails
  <2>2. Answer(req[a], "err", 0) \in Requests
    BY RequestAnswerType DEF TypeOK, CallStates, Tokens
  <2> QED
    BY <1>19, <2>1, <2>2 DEF CallFails, TypeOK
<1>20. ASSUME NEW a \in Agents, RenewalFails(a) PROVE TypeOK'
  <2>1. net' \subseteq [op : Ops, tok : Tokens]
    BY <1>20, AbandonType DEF RenewalFails
  <2>2. [st |-> "err", age |-> ren[a].age] \in Renewals
    BY RenewalAnswerType DEF TypeOK, CallStates
  <2> QED
    BY <1>20, <2>1, <2>2 DEF RenewalFails, TypeOK
<1>21. ASSUME NEW m \in net, ServeLate(m) PROVE TypeOK'
  <2>1. m.op \in Ops /\ m.tok \in Tokens
    BY <1>21 DEF TypeOK
  <2>2. /\ lease' \in [token : Tokens, left : 0..TTL]
        /\ item' \in [Tokens -> Terminal \cup {"open", "claimed", "running"}]
    BY <1>21, <2>1, AcceptType DEF ServeLate, TypeOK
  <2> QED
    BY <1>21, <2>2 DEF ServeLate, TypeOK, agent
<1>22. CASE Tick
  <2>2. req' \in [Agents -> Requests] /\ ren' \in [Agents -> Renewals]
    BY <1>22, OlderType DEF Tick, TypeOK
  <2>3. lease' \in [token : Tokens, left : 0..TTL] /\ since' \in [Agents -> 0..Interval]
    BY <1>22 DEF Tick, TypeOK
  <2> QED
    BY <1>22, <2>2, <2>3 DEF Tick, TypeOK
<1>23. CASE UNCHANGED vars
  BY <1>23 DEF TypeOK, vars, svc, agent
<1>24. ASSUME NEW a \in Agents, Kill(a) \/ TimesOut(a) PROVE TypeOK'
  BY <1>24, MutationProgress, ProgressType
<1> QED
  BY <1>24, <1>1, <1>2, <1>3, <1>4, <1>5, <1>6, <1>7, <1>8, <1>9, <1>10, <1>11, <1>12, <1>13, <1>14, <1>15, <1>16, <1>17, <1>18, <1>19, <1>20, <1>21, <1>22, <1>23 DEF Next, Lifecycle, Prepared, RenewLoop, Calls

\* The initial state has the types.
LEMMA TypeInit == Init => TypeOK
BY NoCallType, TimingAssumption DEF Init, TypeOK, Stages, Tokens, OpStates

\* Type correctness of the whole specification.
THEOREM Typing == Spec => []TypeOK
BY TypeInit, TypeStep, PTL DEF Spec

-----------------------------------------------------------------------------
(* A mutation never outlives the authority it runs under *)

\* A live lease keeps its token and never gets shorter by what a service does.
LEMMA AcceptKeepsLease ==
  ASSUME TypeOK, NEW o \in Ops, NEW t \in Tokens, Accepts(o, t), Accept(o, t)
  PROVE  /\ lease.left > 0 => lease'.token = lease.token /\ lease'.left >= lease.left
         /\ o \in {"renew", "running"} => lease'.token = t /\ lease'.left = TTL
BY TimingAssumption DEF TypeOK, Accepts, Accept, Live, Terminal

\* The locals of agent b.
Locals(b) == <<pc[b], token[b], cancel[b], byUser[b], req[b], ren[b], since[b],
               op[b], ok[b], lost[b], exit[b]>>

\* What others do does not hurt b: its locals and a live lease are kept.
LEMMA OthersKeepAuthority ==
  ASSUME TypeOK, LeaseCoversFirstRenewal, NEW b \in Agents, AuthorityOf(b),
         UNCHANGED Locals(b),
         lease.left > 0 => lease'.token = lease.token /\ lease'.left >= lease.left,
         lease'.left \in 0..TTL
  PROVE  AuthorityOf(b)'
<1>1. /\ lease.left \in 0..TTL /\ since[b] \in 0..Interval
      /\ ren[b].age \in 0..Timeout /\ req[b].age \in 0..Timeout
  BY DEF TypeOK, Requests, Renewals
<1>2. ShapeOf(b)'
  BY DEF AuthorityOf, ShapeOf, Locals
<1>3. CoveredOf(b)'
  BY <1>1, TimingAssumption DEF AuthorityOf, ShapeOf, CoveredOf, Child, InLoop, Live, Locals, LeaseCoversFirstRenewal
<1>4. FreshOf(b)'
  BY <1>1, TimingAssumption DEF AuthorityOf, FreshOf, Locals, LeaseCoversFirstRenewal
<1> QED
  BY <1>2, <1>3, <1>4 DEF AuthorityOf

\* What a polled lifecycle may rely on: unless authority was lost, the lease is
\* its own and at most Timeout older than the last tick.
Held(a) ==
  /\ ren[a].st = "none"
  /\ lost[a] => cancel[a]
  /\ ~lost[a] => token[a] = lease.token /\ lease.left + since[a] >= TTL - Timeout

\* A lifecycle that is polled in a mutating stage holds a claim.
LEMMA PolledIsHeld ==
  ASSUME TypeOK, NEW a \in Agents, AuthorityOf(a), Polled(a),
         pc[a] \in Claimed \/ (pc[a] = "start" /\ req[a].st = "ok")
  PROVE  Held(a)
<1>1. lease.left \in 0..TTL /\ since[a] \in 0..Interval /\ req[a].age \in 0..Timeout
  BY DEF TypeOK, Requests
<1>2. CASE pc[a] \in Claimed
  BY <1>2 DEF Held, Polled, AuthorityOf, ShapeOf, CoveredOf, Child, InLoop
<1>3. CASE pc[a] = "start" /\ req[a].st = "ok"
  BY <1>1, <1>3, TimingAssumption
     DEF Held, Polled, AuthorityOf, ShapeOf, CoveredOf, Child, Claimed, Mutating
<1> QED
  BY <1>2, <1>3

\* The ways a lifecycle step ends keep the agent's own authority.
LEMMA FinishAuthority ==
  ASSUME TypeOK, NEW a \in Agents, NEW success \in BOOLEAN, Finish(a, success), ren[a].st = "none",
         op[a] \notin Awaited
  PROVE  AuthorityOf(a)'
BY DEF TypeOK, Finish, AuthorityOf, ShapeOf, CoveredOf, Child, FreshOf, InLoop, Live, Claimed, Mutating

\* Entering a mutating stage keeps the authority invariant.
LEMMA EnterAuthority ==
  ASSUME TypeOK, NEW a \in Agents, NEW s \in Mutating, Enter(a, s), UNCHANGED svc,
         Held(a), ~cancel[a]
  PROVE  AuthorityOf(a)'
BY DEF TypeOK, Enter, Held, AuthorityOf, ShapeOf, CoveredOf, Child, FreshOf, InLoop, Claimed, Mutating, svc

\* Concluding a lifecycle keeps the authority invariant.
LEMMA ConcludeAuthority ==
  ASSUME TypeOK, NEW a \in Agents, NEW success \in BOOLEAN, Conclude(a, success), UNCHANGED svc,
         Held(a)
  PROVE  AuthorityOf(a)'
<1>1. /\ pc'[a] = "report" /\ op'[a] \notin Awaited
      /\ UNCHANGED <<lease, token, cancel, ren, since, lost>>
  BY DEF TypeOK, Conclude, Send, Awaited, svc
<1> QED
  BY <1>1 DEF Held, AuthorityOf, ShapeOf, CoveredOf, Child, FreshOf, InLoop, Claimed, Mutating, Spawning

\* A mutation that moves on keeps the authority invariant.
LEMMA ProgressAuthority ==
  ASSUME TypeOK, NEW a \in Agents, AuthorityOf(a), Progress(a)
  PROVE  AuthorityOf(a)'
<1>1. /\ UNCHANGED <<lease, pc, token, cancel, req, ren, since, lost>>
      /\ op'[a] # "alive" /\ (op'[a] \in Awaited => pc[a] \in Mutating)
  BY DEF Progress, Spawning, TypeOK, svc
<1> QED
  BY <1>1 DEF AuthorityOf, ShapeOf, CoveredOf, Child, FreshOf, InLoop, Live

\* A step of the lifecycle future keeps the agent's own authority.
LEMMA LifecycleAuthority ==
  ASSUME TypeOK, NEW a \in Agents, AuthorityOf(a), Lifecycle(a)
  PROVE  AuthorityOf(a)'
<1> USE TimingAssumption
<1>0. pc[a] \notin Mutating => op[a] \notin Awaited
  BY DEF AuthorityOf, ShapeOf
<1>1. CASE PrepareSucceeds(a)
  BY <1>1 DEF PrepareSucceeds, Send, Request, TypeOK, svc, AuthorityOf, ShapeOf,
              CoveredOf, Child, FreshOf, InLoop, Live, Claimed, Mutating
<1>2. CASE PrepareFails(a)
  BY <1>0, <1>2, FinishAuthority DEF PrepareFails, AuthorityOf, ShapeOf, Claimed, Mutating
<1>3. CASE ClaimReply(a)
  <2>1. CASE Finish(a, FALSE)
    BY <1>0, <1>3, <2>1, FinishAuthority DEF ClaimReply, Answered, Polled, Mutating
  <2>2. CASE \/ Send(a, "withdraw", "cancelled")
             \/ Send(a, "start", "running")
    <3>1. UNCHANGED <<svc, cancel, ren, since, op, lost>>
      BY <1>3, <2>2 DEF ClaimReply, Finish, Send, TypeOK, Stages
    <3> QED
      BY <1>3, <2>2, <3>1 DEF ClaimReply, Send, Request, TypeOK, svc, AuthorityOf, ShapeOf,
              CoveredOf, Child, FreshOf, InLoop, Live, Claimed, Mutating
  <2> QED
    BY <1>3, <2>1, <2>2 DEF ClaimReply
<1>4. CASE WithdrawReply(a)
  BY <1>0, <1>4, FinishAuthority DEF WithdrawReply, Answered, Polled, Mutating
<1>5. CASE StartReply(a)
  <2>1. CASE Finish(a, FALSE)
    BY <1>0, <1>5, <2>1, FinishAuthority DEF StartReply, Answered, Polled, Mutating
  <2>2. CASE req[a].st = "ok" /\ cancel[a] /\ Conclude(a, FALSE)
    BY <1>5, <2>2, PolledIsHeld, ConcludeAuthority DEF StartReply, Answered
  <2>3. CASE req[a].st = "ok" /\ ~cancel[a] /\ \E s \in {"edit", "agent"} : Enter(a, s)
    BY <1>5, <2>3, PolledIsHeld, EnterAuthority DEF StartReply, Answered, Mutating
  <2> QED
    BY <1>5, <2>1, <2>2, <2>3 DEF StartReply
<1>6. CASE Advance(a)
  <2>1. Held(a)
    BY <1>6, PolledIsHeld DEF Advance, Claimed
  <2>2. CASE Conclude(a, TRUE) \/ Conclude(a, FALSE)
    BY <1>6, <2>1, <2>2, ConcludeAuthority DEF Advance
  <2>3. CASE ~cancel[a] /\ \E s \in Follows(pc[a]) : Enter(a, s)
    BY <1>6, <2>1, <2>3, EnterAuthority DEF Advance, Follows, Mutating
  <2>4. CASE /\ ~cancel[a] /\ Send(a, "renew", "renew") /\ op' = [op EXCEPT ![a] = "none"]
             /\ UNCHANGED <<token, cancel, byUser, ren, since, ok, lost, exit>>
    BY <1>6, <2>1, <2>4 DEF Advance, Held, Send, Request, TypeOK, svc, AuthorityOf, ShapeOf,
            CoveredOf, Child, FreshOf, InLoop, Live, Claimed, Mutating, Awaited
  <2> QED
    BY <1>6, <2>2, <2>3, <2>4 DEF Advance
<1>7. CASE DropPublication(a)
  BY <1>7, PolledIsHeld, ConcludeAuthority DEF DropPublication, Claimed, Mutating
<1>8. CASE RenewReply(a)
  <2>1. Held(a)
    BY <1>8, PolledIsHeld DEF RenewReply, Answered, Claimed
  <2> QED
    BY <1>8, <2>1, EnterAuthority, ConcludeAuthority DEF RenewReply, Mutating
<1>9. CASE ReportReply(a)
  <2>1. Held(a)
    BY <1>9, PolledIsHeld DEF ReportReply, Answered, Claimed
  <2>2. CASE Finish(a, ok[a] /\ ~lost[a])
    BY <1>0, <1>9, <2>1, <2>2, FinishAuthority DEF ReportReply, Held, Mutating
  <2>3. CASE /\ Send(a, "recover", "failed")
             /\ UNCHANGED <<token, cancel, byUser, ren, since, op, ok, lost, exit>>
    <3>1. op[a] \notin Awaited
      BY <1>0, <1>9 DEF ReportReply, Mutating
    <3> QED
      BY <1>9, <2>1, <2>3, <3>1 DEF ReportReply, Held, Send, Request, TypeOK, svc, AuthorityOf,
            ShapeOf, CoveredOf, Child, FreshOf, InLoop, Live, Claimed, Mutating, Spawning
  <2> QED
    BY <1>9, <2>2, <2>3 DEF ReportReply
<1>10. CASE RecoverReply(a)
  BY <1>0, <1>10, FinishAuthority DEF RecoverReply, Answered, Polled, Mutating
<1>11. CASE Kill(a) \/ TimesOut(a)
  BY <1>11, MutationProgress, ProgressAuthority
<1> QED
  BY <1>1, <1>2, <1>3, <1>4, <1>5, <1>6, <1>7, <1>8, <1>9, <1>10, <1>11 DEF Lifecycle, Prepared

\* So do the renewal loop and what happens around the agent.
LEMMA LoopAuthority ==
  ASSUME TypeOK, LeaseCoversFirstRenewal, NEW a \in Agents, AuthorityOf(a),
         RenewLoop(a) \/ Mutation(a) \/ UserCancel(a) \/ Dispatch(a) \/ Crash(a)
  PROVE  AuthorityOf(a)'
<1> USE TimingAssumption
<1>0. /\ lease.left \in 0..TTL /\ since[a] \in 0..Interval /\ ren[a].age \in 0..Timeout
  BY DEF TypeOK, Renewals
<1>1. CASE RenewTick(a)
  BY <1>0, <1>1 DEF RenewTick, TypeOK, svc, AuthorityOf, ShapeOf, CoveredOf, Child, FreshOf, InLoop
<1>2. CASE RenewTickReply(a)
  <2>1. CASE ren[a].st = "ok"
    BY <1>0, <1>2, <2>1 DEF RenewTickReply, NoRen, TypeOK, svc, AuthorityOf, ShapeOf, CoveredOf, Child,
            FreshOf, InLoop, Live
  <2>2. CASE ren[a].st = "err"
    BY <1>0, <1>2, <2>2 DEF RenewTickReply, NoRen, TypeOK, svc, AuthorityOf, ShapeOf, CoveredOf, Child,
            FreshOf, InLoop, Live, LeaseCoversFirstRenewal
  <2> QED
    BY <1>2, <2>1, <2>2 DEF RenewTickReply
<1>3. CASE Mutation(a)
  BY <1>3, MutationProgress, ProgressAuthority
<1>4. CASE UserCancel(a)
  BY <1>4 DEF UserCancel, TypeOK, svc, AuthorityOf, ShapeOf, CoveredOf, Child, FreshOf, InLoop, Live
<1>5. CASE Dispatch(a)
  BY <1>5 DEF Dispatch, Reset, TypeOK, svc, AuthorityOf, ShapeOf, CoveredOf, Child, FreshOf, InLoop,
              Live, Claimed, Mutating, Awaited
<1>6. CASE Crash(a)
  BY <1>6 DEF Crash, Reset, NoReq, NoRen, TypeOK, AuthorityOf, ShapeOf, CoveredOf, Child, FreshOf,
              InLoop, Live, Claimed, Mutating, Awaited
<1> QED
  BY <1>1, <1>2, <1>3, <1>4, <1>5, <1>6 DEF RenewLoop

\* Handling or losing a call of the agent keeps its authority.
LEMMA CallsAuthority ==
  ASSUME TypeOK, TypeOK', LeaseCoversFirstRenewal, NEW a \in Agents, AuthorityOf(a), Calls(a)
  PROVE  AuthorityOf(a)'
<1> USE TimingAssumption
<1>0. /\ lease.left \in 0..TTL /\ since[a] \in 0..Interval /\ lease'.left \in 0..TTL
      /\ ren[a].age \in 0..Timeout /\ req[a].age \in 0..Timeout
      /\ req[a].op \in Ops /\ token[a] \in Tokens /\ "renew" \in Ops
  BY DEF TypeOK, Requests, Renewals, Ops
<1>1. CASE Serve(a)
  <2>0. /\ UNCHANGED <<pc, token, cancel, ren, since, op, lost>>
        /\ req[a].st = "sent"
        /\ req'[a].op = req[a].op /\ req'[a].age = req[a].age
    BY <1>1 DEF Serve, Answer, TypeOK
  <2>1. CASE Accepts(req[a].op, token[a])
    <3>1. /\ lease.left > 0 => lease'.token = lease.token /\ lease'.left >= lease.left
          /\ req[a].op \in {"renew", "running"} => lease'.token = token[a] /\ lease'.left = TTL
      BY <1>0, <1>1, <2>1, AcceptKeepsLease DEF Serve
    <3>2. ShapeOf(a)'
      BY <2>0 DEF AuthorityOf, ShapeOf
    <3>3. CoveredOf(a)'
      BY <1>0, <2>0, <3>1 DEF AuthorityOf, ShapeOf, CoveredOf, Child, InLoop, Live, LeaseCoversFirstRenewal
    <3>4. FreshOf(a)'
      BY <1>0, <2>0, <3>1 DEF AuthorityOf, ShapeOf, FreshOf
    <3> QED
      BY <3>2, <3>3, <3>4 DEF AuthorityOf
  <2>2. CASE ~Accepts(req[a].op, token[a])
    <3>1. UNCHANGED lease /\ req'[a].st = "err"
      BY <1>1, <2>2 DEF Serve, Answer, TypeOK
    <3> QED
      BY <2>0, <3>1 DEF AuthorityOf, ShapeOf, CoveredOf, Child, FreshOf, InLoop, Live
  <2> QED
    BY <2>1, <2>2
<1>2. CASE ServeRenewal(a)
  <2>0. /\ UNCHANGED <<pc, token, cancel, req, since, op, lost>>
        /\ ren[a].st = "sent" /\ ren'[a].age = ren[a].age
    BY <1>2 DEF ServeRenewal, TypeOK
  <2>1. CASE Accepts("renew", token[a])
    <3>1. /\ lease.left > 0 => lease'.token = lease.token /\ lease'.left >= lease.left
          /\ lease'.token = token[a] /\ lease'.left = TTL
      BY <1>0, <1>2, <2>1, AcceptKeepsLease DEF ServeRenewal
    <3>2. ren'[a].st = "ok"
      BY <1>2, <2>1 DEF ServeRenewal, TypeOK
    <3> QED
      BY <1>0, <2>0, <3>1, <3>2 DEF AuthorityOf, ShapeOf, CoveredOf, Child, FreshOf, InLoop, Live
  <2>2. CASE ~Accepts("renew", token[a])
    <3>1. UNCHANGED lease /\ ren'[a].st = "err"
      BY <1>2, <2>2 DEF ServeRenewal, TypeOK
    <3> QED
      BY <2>0, <3>1 DEF AuthorityOf, ShapeOf, CoveredOf, Child, FreshOf, InLoop, Live
  <2> QED
    BY <2>1, <2>2
<1>3. CASE CallFails(a)
  <2>1. /\ UNCHANGED <<lease, pc, token, cancel, ren, since, op, lost>>
        /\ req'[a].op = req[a].op /\ req'[a].st = "err"
    BY <1>3 DEF CallFails, Answer, TypeOK
  <2> QED
    BY <2>1 DEF AuthorityOf, ShapeOf, CoveredOf, Child, FreshOf, InLoop, Live
<1>4. CASE RenewalFails(a)
  <2>1. /\ UNCHANGED <<lease, pc, token, cancel, req, since, op, lost>>
        /\ ren[a].st # "none" /\ ren'[a].st = "err" /\ ren'[a].age = ren[a].age
    BY <1>4 DEF RenewalFails, TypeOK
  <2> QED
    BY <2>1 DEF AuthorityOf, ShapeOf, CoveredOf, Child, FreshOf, InLoop, Live
<1> QED
  BY <1>1, <1>2, <1>3, <1>4 DEF Calls

\* A unit of time passes: every timer that bounds the lease grows with it, and
\* a task that lost its authority has no child left.
LEMMA TickAuthority ==
  ASSUME TypeOK, LeaseCoversFirstRenewal, Tick, NEW a \in Agents, AuthorityOf(a)
  PROVE  AuthorityOf(a)'
<1> USE TimingAssumption
<1>0. /\ lease.left \in 0..TTL /\ since[a] \in 0..Interval
      /\ ren[a].age \in 0..Timeout /\ req[a].age \in 0..Timeout
      /\ req[a] \in Requests /\ ren[a] \in Renewals
  BY DEF TypeOK, Requests, Renewals
<1>1. /\ UNCHANGED <<pc, token, cancel, op, lost>>
      /\ lease'.token = lease.token
      /\ lease'.left = IF lease.left > 0 THEN lease.left - 1 ELSE 0
      /\ since'[a] = IF InLoop(a) /\ since[a] < Interval THEN since[a] + 1 ELSE since[a]
      /\ Prompt(a)
  BY DEF Tick, TypeOK
<1>2. /\ req'[a].op = req[a].op /\ req'[a].st = req[a].st
      /\ req'[a].age = IF req[a].st # "none" /\ req[a].age < Timeout
                       THEN req[a].age + 1 ELSE req[a].age
  BY <1>0 DEF Tick, Older, Requests
<1>3. /\ ren'[a].st = ren[a].st
      /\ ren'[a].age = IF ren[a].st # "none" /\ ren[a].age < Timeout
                       THEN ren[a].age + 1 ELSE ren[a].age
  BY <1>0 DEF Tick, Older, Renewals
<1>4. ShapeOf(a)'
  BY <1>1, <1>2, <1>3 DEF AuthorityOf, ShapeOf, InLoop
<1>5. CoveredOf(a)'
  BY <1>0, <1>1, <1>2, <1>3 DEF AuthorityOf, ShapeOf, CoveredOf, Child, InLoop, Live, Prompt, Polled,
     Claimed, Mutating, Spawning, LeaseCoversFirstRenewal
<1>6. FreshOf(a)'
  BY <1>0, <1>1, <1>2, <1>3 DEF AuthorityOf, ShapeOf, FreshOf, Prompt, Polled, LeaseCoversFirstRenewal
<1> QED
  BY <1>4, <1>5, <1>6 DEF AuthorityOf

\* A step of one agent leaves the locals of the others alone.
LEMMA LifecycleFrame ==
  ASSUME TypeOK, NEW a \in Agents, NEW b \in Agents, a # b,
         Lifecycle(a) \/ RenewLoop(a) \/ Mutation(a) \/ UserCancel(a)
         \/ Dispatch(a) \/ Crash(a)
  PROVE  UNCHANGED Locals(b)
<1>1. ASSUME NEW success, Finish(a, success) \/ Conclude(a, success)
      PROVE  UNCHANGED Locals(b)
  BY <1>1 DEF Locals, TypeOK, Finish, Conclude, Send
<1>2. ASSUME NEW s, Enter(a, s)
      PROVE  UNCHANGED Locals(b)
  BY <1>2 DEF Locals, TypeOK, Enter
<1>0. ASSUME Progress(a) PROVE UNCHANGED Locals(b)
  BY <1>0 DEF Locals, TypeOK, Progress
<1>3. CASE RenewLoop(a) \/ Mutation(a) \/ UserCancel(a)
  BY <1>0, <1>3, MutationProgress DEF Locals, TypeOK, RenewLoop, RenewTick, RenewTickReply, UserCancel
<1>4. CASE Dispatch(a) \/ Crash(a)
  BY <1>4 DEF Locals, TypeOK, Dispatch, Crash, Reset
<1>5. CASE PrepareSucceeds(a) \/ PrepareFails(a)
  BY <1>1, <1>5 DEF Locals, TypeOK, PrepareSucceeds, PrepareFails, Send
<1>6. CASE ClaimReply(a)
  BY <1>1, <1>6 DEF Locals, TypeOK, ClaimReply, Send
<1>7. CASE WithdrawReply(a) \/ Kill(a) \/ TimesOut(a) \/ DropPublication(a) \/ RecoverReply(a)
  BY <1>0, <1>1, <1>7, MutationProgress DEF WithdrawReply, DropPublication, RecoverReply
<1>8. CASE StartReply(a) \/ RenewReply(a)
  BY <1>1, <1>2, <1>8 DEF StartReply, RenewReply
<1>9. CASE Advance(a)
  BY <1>1, <1>2, <1>9 DEF Locals, TypeOK, Advance, Send
<1>10. CASE ReportReply(a)
  BY <1>1, <1>10 DEF Locals, TypeOK, ReportReply, Send
<1> QED
  BY <1>3, <1>4, <1>5, <1>6, <1>7, <1>8, <1>9, <1>10 DEF Lifecycle, Prepared

\* Every step keeps the authority of every agent.
LEMMA AuthorityStep ==
  ASSUME LeaseCoversFirstRenewal, TypeOK, TypeOK', Authority, [Next]_vars
  PROVE  Authority'
<1> SUFFICES ASSUME NEW b \in Agents PROVE AuthorityOf(b)'
  BY DEF Authority
<1>0. AuthorityOf(b) /\ lease.left \in 0..TTL /\ lease'.left \in 0..TTL
  BY DEF Authority, TypeOK
<1>1. ASSUME NEW a \in Agents,
             Lifecycle(a) \/ RenewLoop(a) \/ Mutation(a) \/ UserCancel(a)
             \/ Dispatch(a) \/ Crash(a)
      PROVE  AuthorityOf(b)'
  <2>1. CASE a = b
    BY <1>0, <1>1, <2>1, LifecycleAuthority, LoopAuthority
  <2>2. CASE a # b
    <3>1. UNCHANGED Locals(b)
      BY <1>1, <2>2, LifecycleFrame
    <3>2. UNCHANGED lease
      BY <1>1 DEF svc, Lifecycle, Prepared, RenewLoop, Mutation, ChildExits, ChildDone, WriteEnds, UserCancel, Dispatch, Crash,
         PrepareSucceeds, PrepareFails, ClaimReply, WithdrawReply, StartReply, Advance, Kill, TimesOut, DropPublication,
         RenewReply, ReportReply, RecoverReply, RenewTick, RenewTickReply
    <3> QED
      BY <1>0, <3>1, <3>2, OthersKeepAuthority
  <2> QED
    BY <2>1, <2>2
<1>2. ASSUME NEW a \in Agents, Calls(a) PROVE AuthorityOf(b)'
  <2>1. CASE a = b
    BY <1>0, <1>2, <2>1, CallsAuthority
  <2>2. CASE a # b
    <3>1. UNCHANGED Locals(b)
      BY <1>2, <2>2 DEF Locals, TypeOK, Calls, Serve, ServeRenewal, CallFails, RenewalFails
    <3>2. lease.left > 0 => lease'.token = lease.token /\ lease'.left >= lease.left
      <4>1. req[a].op \in Ops /\ token[a] \in Tokens /\ "renew" \in Ops
        BY DEF TypeOK, Requests, Ops
      <4>2. \/ UNCHANGED lease
            \/ \E o \in Ops : Accepts(o, token[a]) /\ Accept(o, token[a])
        BY <1>2, <4>1 DEF Calls, Serve, ServeRenewal, CallFails, RenewalFails
      <4> QED
        BY <1>0, <4>1, <4>2, AcceptKeepsLease
    <3> QED
      BY <1>0, <3>1, <3>2, OthersKeepAuthority
  <2> QED
    BY <2>1, <2>2
<1>3. ASSUME NEW m \in net, ServeLate(m) PROVE AuthorityOf(b)'
  <2>1. UNCHANGED Locals(b)
    BY <1>3 DEF ServeLate, agent, Locals
  <2>2. lease.left > 0 => lease'.token = lease.token /\ lease'.left >= lease.left
    <3>1. m.op \in Ops /\ m.tok \in Tokens
      BY <1>3 DEF TypeOK
    <3> QED
      BY <1>0, <1>3, <3>1, AcceptKeepsLease DEF ServeLate
  <2> QED
    BY <1>0, <2>1, <2>2, OthersKeepAuthority
<1>4. CASE Tick
  BY <1>0, <1>4, TickAuthority
<1>5. CASE UNCHANGED vars
  <2>1. UNCHANGED Locals(b) /\ UNCHANGED lease
    BY <1>5 DEF vars, svc, agent, Locals
  <2> QED
    BY <1>0, <2>1, OthersKeepAuthority
<1> QED
  BY <1>1, <1>2, <1>3, <1>4, <1>5 DEF Next

\* Authority holds initially: no agent has started.
LEMMA AuthorityInit == Init => Authority
BY DEF Init, Authority, AuthorityOf, ShapeOf, CoveredOf, Child, FreshOf, InLoop, Live, Claimed,
       Mutating, Awaited, NoReq, NoRen

\* When the lease outlives the first renewal, Authority is invariant.
THEOREM AuthorityInvariant == LeaseCoversFirstRenewal => (Spec => []Authority)
<1> SUFFICES ASSUME LeaseCoversFirstRenewal PROVE Spec => []Authority
  OBVIOUS
<1>1. TypeOK /\ TypeOK' /\ Authority /\ [Next]_vars => Authority'
  BY AuthorityStep
<1> QED
  BY <1>1, AuthorityInit, Typing, PTL DEF Spec

\* An agent with authority mutates under its own live lease.
LEMMA AuthorityCovers ==
  ASSUME LeaseCoversFirstRenewal, TypeOK, Authority
  PROVE  ChildUnderLease
<1> SUFFICES ASSUME NEW a \in Agents, Child(a) PROVE Live(token[a])
  BY DEF ChildUnderLease
<1>1. /\ lease.left \in 0..TTL /\ since[a] \in 0..Interval /\ ren[a].age \in 0..Timeout
  BY DEF TypeOK, Renewals
<1>2. AuthorityOf(a)
  BY DEF Authority
<1> QED
  BY <1>1, <1>2, TimingAssumption DEF AuthorityOf, ShapeOf, CoveredOf, Child, InLoop, Live, Claimed,
     Mutating, Spawning, LeaseCoversFirstRenewal

\* No agent and no git command of a claimed task runs on without having been
\* sent its SIGKILL once its lease has run out or has been granted to somebody
\* else, provided the lease outlives the first renewal.
THEOREM ChildAuthority == LeaseCoversFirstRenewal => (Spec => []ChildUnderLease)
<1> SUFFICES ASSUME LeaseCoversFirstRenewal PROVE Spec => []ChildUnderLease
  OBVIOUS
<1>1. TypeOK /\ Authority => ChildUnderLease
  BY AuthorityCovers
<1> QED
  BY <1>1, Typing, AuthorityInvariant, PTL

-----------------------------------------------------------------------------
(* The exact renewal before the push *)

\* Only the answer to the exact renewal spawns a push.
LEMMA PushStep ==
  ASSUME TypeOK, NEW a \in Agents, [Next]_vars, pc'[a] = "push", pc[a] # "push"
  PROVE  RenewReply(a) /\ req[a].st = "ok" /\ ~cancel[a]
<1>1. ASSUME NEW b \in Agents, NEW success, Finish(b, success) \/ Conclude(b, success)
      PROVE  FALSE
  BY <1>1 DEF TypeOK, Finish, Conclude, Send
<1>2. ASSUME NEW b \in Agents, NEW s \in Mutating \ {"push"}, Enter(b, s)
      PROVE  FALSE
  BY <1>2 DEF TypeOK, Enter
<1>3. ASSUME NEW b \in Agents,
             Dispatch(b) \/ RenewLoop(b) \/ Mutation(b) \/ UserCancel(b) \/ Crash(b) \/ Calls(b)
      PROVE  FALSE
  <2>1. CASE Dispatch(b)
    BY <2>1 DEF TypeOK, Dispatch, Reset
  <2>2. CASE Crash(b)
    BY <2>2 DEF TypeOK, Crash, Reset
  <2>3. CASE RenewLoop(b)
    BY <2>3 DEF RenewLoop, RenewTick, RenewTickReply
  <2>4. CASE Mutation(b) \/ UserCancel(b)
    BY <2>4 DEF Mutation, ChildExits, ChildDone, WriteEnds, UserCancel
  <2>5. CASE Calls(b)
    BY <2>5 DEF Calls, Serve, ServeRenewal, CallFails, RenewalFails
  <2> QED
    BY <1>3, <2>1, <2>2, <2>3, <2>4, <2>5
<1>4. ASSUME NEW b \in Agents, PrepareSucceeds(b) \/ PrepareFails(b) \/ ClaimReply(b) \/ ReportReply(b)
      PROVE  FALSE
  <2>0. ASSUME NEW s \in {"claim", "withdraw", "start", "recover"}, NEW o, Send(b, s, o)
        PROVE  FALSE
    BY <2>0 DEF TypeOK, Send
  <2>1. CASE PrepareSucceeds(b) \/ PrepareFails(b)
    BY <1>1, <2>0, <2>1 DEF PrepareSucceeds, PrepareFails
  <2>2. CASE ClaimReply(b) \/ ReportReply(b)
    BY <1>1, <2>0, <2>2 DEF ClaimReply, ReportReply
  <2> QED
    BY <1>4, <2>1, <2>2
<1>5. ASSUME NEW b \in Agents, WithdrawReply(b) \/ RecoverReply(b) \/ StartReply(b)
      PROVE  FALSE
  BY <1>1, <1>2, <1>5 DEF WithdrawReply, RecoverReply, StartReply, Mutating
<1>6. ASSUME NEW b \in Agents, Advance(b) PROVE FALSE
  <2>1. Follows(pc[b]) \subseteq Mutating \ {"push"}
    BY DEF Follows, Mutating
  <2> QED
    BY <1>1, <1>2, <1>6, <2>1 DEF TypeOK, Advance, Send
<1>7. ASSUME NEW b \in Agents, RenewReply(b)
      PROVE  b = a /\ req[a].st = "ok" /\ ~cancel[a]
  <2>1. req[b].st = "ok" /\ ~cancel[b] /\ Enter(b, "push")
    BY <1>1, <1>7 DEF RenewReply
  <2>2. b = a
    BY <2>1 DEF TypeOK, Enter
  <2> QED
    BY <2>1, <2>2
<1>8. ASSUME NEW m \in net, ServeLate(m) PROVE FALSE
  BY <1>8 DEF ServeLate, agent
<1>9. CASE Tick
  BY <1>9 DEF Tick
<1>10. CASE UNCHANGED vars
  BY <1>10 DEF vars, agent
<1>11. ASSUME NEW b \in Agents, Kill(b) \/ TimesOut(b) \/ DropPublication(b) PROVE FALSE
  BY <1>1, <1>11 DEF Kill, TimesOut, DropPublication
<1> QED
  BY <1>11, <1>3, <1>4, <1>5, <1>6, <1>7, <1>8, <1>9, <1>10 DEF Next, Lifecycle, Prepared

\* When a push is spawned the lease was renewed at most one request deadline
\* before, whatever else was in flight.
THEOREM PushFreshness == LeaseCoversFirstRenewal => (Spec => PushIsFresh)
<1> SUFFICES ASSUME LeaseCoversFirstRenewal PROVE Spec => PushIsFresh
  OBVIOUS
<1>1. ASSUME TypeOK, Authority, [Next]_vars
      PROVE  [\A a \in Agents :
                pc'[a] = "push" /\ pc[a] # "push" => lease.left >= TTL - Timeout]_vars
  <2> SUFFICES ASSUME NEW a \in Agents, pc'[a] = "push", pc[a] # "push"
               PROVE  lease.left >= TTL - Timeout
    OBVIOUS
  <2>1. RenewReply(a) /\ req[a].st = "ok" /\ ~cancel[a]
    BY <1>1, PushStep
  <2>2. pc[a] = "renew" /\ ren[a].st = "none"
    BY <2>1 DEF RenewReply, Answered, Polled
  <2>3. req[a].age \in 0..Timeout /\ lease.left \in 0..TTL
    BY <1>1 DEF TypeOK, Requests
  <2> QED
    BY <1>1, <2>1, <2>2, <2>3, TimingAssumption DEF Authority, AuthorityOf, FreshOf
<1> QED
  BY <1>1, Typing, AuthorityInvariant, PTL DEF Spec, PushIsFresh

-----------------------------------------------------------------------------
(* A completed task has its outcome persisted *)

\* A service never revises a terminal status and never takes a token back.
LEMMA AcceptKeepsOutcome ==
  ASSUME TypeOK, NEW o \in Ops, NEW t \in Tokens, Accepts(o, t), Accept(o, t)
  PROVE  /\ lease'.token >= lease.token
         /\ \A u \in Tokens : u <= lease.token /\ item[u] \in Terminal => item'[u] = item[u]
         /\ o \in Terminal => item'[t] = o
<1>0. lease.token \in Tokens /\ item \in [Tokens -> Terminal \cup {"open", "claimed", "running"}]
  BY DEF TypeOK
<1>1. CASE o = "claim"
  <2>1. lease'.token = lease.token + 1 /\ lease.token + 1 \in Tokens
    BY <1>0, <1>1, TimingAssumption DEF Accepts, Accept, Tokens
  <2>2. item' = [item EXCEPT ![lease.token + 1] = "claimed"]
    BY <1>1 DEF Accept
  <2> QED
    BY <1>0, <1>1, <2>1, <2>2, TimingAssumption DEF Tokens, Terminal
<1>2. CASE o # "claim"
  <2>1. /\ lease'.token = lease.token
        /\ item' = IF o = "renew" THEN item ELSE [item EXCEPT ![t] = o]
        /\ o = "running" => item[t] = "claimed"
        /\ o \in Terminal => item[t] \in {"claimed", "running"}
    BY <1>2 DEF Accepts, Accept
  <2> QED
    BY <1>0, <1>2, <2>1, TimingAssumption DEF Tokens, Terminal, Ops
<1> QED
  BY <1>1, <1>2

\* What others do does not hurt the outcome of b.
LEMMA OthersKeepPersisted ==
  ASSUME TypeOK, TypeOK', NEW b \in Agents, PersistedOf(b), UNCHANGED Locals(b),
         lease'.token >= lease.token,
         \A u \in Tokens : u <= lease.token /\ item[u] \in Terminal => item'[u] = item[u]
  PROVE  PersistedOf(b)'
<1>1. token[b] \in Tokens /\ lease.token \in Tokens /\ lease'.token \in Tokens /\ req[b].got \in Tokens
  BY DEF TypeOK, Requests
<1> QED
  BY <1>1, TimingAssumption DEF PersistedOf, Locals, Terminal, Tokens

\* The outcome a completed task must find recorded.
Recorded(a) == \/ item[token[a]] = "awaiting_review"
               \/ byUser[a] /\ item[token[a]] = "cancelled"

\* The ways a lifecycle step ends keep what is known of the outcome.
LEMMA FinishPersisted ==
  ASSUME TypeOK, NEW a \in Agents, NEW success \in BOOLEAN, PersistedOf(a),
         Finish(a, success), UNCHANGED svc, success => Recorded(a)
  PROVE  PersistedOf(a)'
BY DEF TypeOK, Finish, NoReq, PersistedOf, Recorded, svc

\* Entering a mutating stage keeps the persistence invariant.
LEMMA EnterPersisted ==
  ASSUME TypeOK, NEW a \in Agents, NEW s \in Mutating, PersistedOf(a), pc[a] # "done",
         Enter(a, s), UNCHANGED svc
  PROVE  PersistedOf(a)'
BY DEF TypeOK, Enter, NoReq, PersistedOf, Mutating, svc

\* Concluding a lifecycle keeps the persistence invariant.
LEMMA ConcludePersisted ==
  ASSUME TypeOK, NEW a \in Agents, NEW success \in BOOLEAN, PersistedOf(a), pc[a] # "done",
         Conclude(a, success), UNCHANGED svc
  PROVE  PersistedOf(a)'
BY DEF TypeOK, Conclude, Send, Request, claimed_terminal_status, Terminal, PersistedOf, svc

\* A mutation that moves on has no outcome yet.
LEMMA ProgressPersisted ==
  ASSUME NEW a \in Agents, PersistedOf(a), Progress(a)
  PROVE  PersistedOf(a)'
BY DEF Progress, PersistedOf, svc

\* Another call than the report: nothing is known of its answer.
LEMMA SendPersisted ==
  ASSUME TypeOK, NEW a \in Agents, NEW s \in Stages \ {"report", "done"}, NEW o \in Ops,
         PersistedOf(a), pc[a] # "done", Send(a, s, o), UNCHANGED <<svc, byUser, exit>>,
         token'[a] <= lease.token
  PROVE  PersistedOf(a)'
BY DEF TypeOK, Send, Request, PersistedOf, svc

\* A step of the lifecycle future keeps what is known of its own outcome.
LEMMA LifecyclePersisted ==
  ASSUME TypeOK, NEW a \in Agents, PersistedOf(a), Lifecycle(a)
  PROVE  PersistedOf(a)'
<1>1. CASE PrepareSucceeds(a)
  <2>1. token'[a] <= lease.token
    BY <1>1 DEF PrepareSucceeds, PersistedOf
  <2> QED
    BY <1>1, <2>1, SendPersisted DEF PrepareSucceeds, Stages, Ops
<1>2. CASE PrepareFails(a) \/ WithdrawReply(a) \/ RecoverReply(a)
  BY <1>2, FinishPersisted DEF PrepareFails, WithdrawReply, RecoverReply
<1>3. CASE ClaimReply(a)
  <2>1. CASE req[a].st = "err"
    BY <1>3, <2>1, FinishPersisted DEF ClaimReply
  <2>2. CASE req[a].st = "ok"
    <3>1. token'[a] <= lease.token
      BY <1>3, <2>2 DEF ClaimReply, PersistedOf, TypeOK
    <3> QED
      BY <1>3, <2>2, <3>1, SendPersisted DEF ClaimReply, Stages, Ops, Terminal
  <2> QED
    BY <1>3, <2>1, <2>2 DEF ClaimReply, Answered
<1>4. CASE StartReply(a)
  BY <1>4, FinishPersisted, ConcludePersisted, EnterPersisted DEF StartReply, Mutating
<1>5. CASE Advance(a)
  <2>1. pc[a] # "done"
    BY <1>5 DEF Advance, Mutating
  <2>2. CASE Conclude(a, TRUE) \/ Conclude(a, FALSE)
    BY <1>5, <2>1, <2>2, ConcludePersisted DEF Advance
  <2>3. CASE \E s \in Follows(pc[a]) : Enter(a, s)
    BY <1>5, <2>1, <2>3, EnterPersisted DEF Advance, Follows, Mutating
  <2>4. CASE /\ Send(a, "renew", "renew")
             /\ UNCHANGED <<token, cancel, byUser, ren, since, ok, lost, exit>>
    <3>1. token'[a] <= lease.token
      BY <2>4 DEF PersistedOf
    <3> QED
      BY <1>5, <2>1, <2>4, <3>1, SendPersisted DEF Advance, Stages, Claimed, Ops
  <2> QED
    BY <1>5, <2>2, <2>3, <2>4 DEF Advance
<1>6. CASE DropPublication(a)
  BY <1>6, ConcludePersisted DEF DropPublication
<1>7. CASE RenewReply(a)
  BY <1>7, ConcludePersisted, EnterPersisted DEF RenewReply, Mutating
<1>8. CASE ReportReply(a)
  <2>1. CASE req[a].st = "err" /\ ok[a]
    <3>1. token'[a] <= lease.token
      BY <1>8, <2>1 DEF ReportReply, PersistedOf
    <3> QED
      BY <1>8, <2>1, <3>1, SendPersisted DEF ReportReply, Stages, Claimed, Ops, Terminal
  <2>2. CASE ~(req[a].st = "err" /\ ok[a])
    <3>1. ok[a] => Recorded(a)
      BY <1>8, <2>2 DEF ReportReply, Answered, PersistedOf, Recorded
    <3>2. Finish(a, ok[a] /\ ~lost[a]) /\ UNCHANGED svc
      BY <1>8, <2>2 DEF ReportReply
    <3>3. (ok[a] /\ ~lost[a]) \in BOOLEAN
      OBVIOUS
    <3> QED
      BY <3>1, <3>2, <3>3, FinishPersisted
  <2> QED
    BY <2>1, <2>2
<1>9. CASE Kill(a) \/ TimesOut(a)
  BY <1>9, MutationProgress, ProgressPersisted
<1> QED
  BY <1>1, <1>2, <1>3, <1>4, <1>5, <1>6, <1>7, <1>8, <1>9 DEF Lifecycle, Prepared

\* So do the renewal loop, the environment and the agent's own calls.
LEMMA LoopPersisted ==
  ASSUME TypeOK, NEW a \in Agents, PersistedOf(a),
         RenewLoop(a) \/ Mutation(a) \/ UserCancel(a) \/ Dispatch(a) \/ Crash(a)
  PROVE  PersistedOf(a)'
<1>0. lease.token \in Nat
  BY TimingAssumption DEF TypeOK, Tokens
<1>1. CASE RenewLoop(a) \/ Mutation(a)
  BY <1>1, MutationProgress, ProgressPersisted DEF RenewLoop, RenewTick, RenewTickReply, PersistedOf, svc
<1>2. CASE UserCancel(a)
  BY <1>2 DEF UserCancel, PersistedOf, TypeOK, svc
<1>3. CASE Dispatch(a)
  BY <1>0, <1>3 DEF Dispatch, Reset, PersistedOf, TypeOK, svc
<1>4. CASE Crash(a)
  BY <1>0, <1>4 DEF Crash, Reset, NoReq, PersistedOf, TypeOK
<1> QED
  BY <1>1, <1>2, <1>3, <1>4

\* What happens to calls on the way keeps the persistence invariant.
LEMMA CallsPersisted ==
  ASSUME TypeOK, TypeOK', NEW a \in Agents, PersistedOf(a), Calls(a)
  PROVE  PersistedOf(a)'
<1> USE TimingAssumption
<1>0. /\ req[a].op \in Ops /\ token[a] \in Tokens /\ "renew" \in Ops
      /\ lease.token \in Nat /\ lease'.token \in Nat /\ token[a] \in Nat /\ req[a].got \in Nat
  BY DEF TypeOK, Requests, Ops, Tokens
<1>1. CASE Serve(a)
  <2>0. /\ UNCHANGED <<pc, token, byUser, ok, exit>> /\ req[a].st = "sent"
        /\ req'[a].op = req[a].op
    BY <1>1 DEF Serve, Answer, TypeOK
  <2>1. CASE Accepts(req[a].op, token[a])
    <3>1. /\ lease'.token >= lease.token
          /\ token[a] <= lease.token /\ item[token[a]] \in Terminal =>
               item'[token[a]] = item[token[a]]
          /\ req[a].op \in Terminal => item'[token[a]] = req[a].op
      BY <1>0, <1>1, <2>1, AcceptKeepsOutcome DEF Serve
    <3>2. req'[a].st = "ok" /\ req'[a].got = lease'.token
      BY <1>1, <2>1 DEF Serve, Answer, TypeOK
    <3> QED
      BY <1>0, <2>0, <3>1, <3>2 DEF PersistedOf, Terminal
  <2>2. CASE ~Accepts(req[a].op, token[a])
    <3>1. UNCHANGED <<lease, item>> /\ req'[a].st = "err"
      BY <1>1, <2>2 DEF Serve, Answer, TypeOK
    <3> QED
      BY <2>0, <3>1 DEF PersistedOf
  <2> QED
    BY <2>1, <2>2
<1>2. CASE ServeRenewal(a)
  <2>1. /\ lease'.token >= lease.token
        /\ token[a] <= lease.token /\ item[token[a]] \in Terminal =>
             item'[token[a]] = item[token[a]]
    BY <1>0, <1>2, AcceptKeepsOutcome DEF ServeRenewal
  <2> QED
    BY <1>0, <1>2, <2>1 DEF ServeRenewal, PersistedOf, Terminal
<1>3. CASE CallFails(a)
  <2>1. /\ UNCHANGED <<lease, item, pc, token, byUser, ok, exit>>
        /\ req'[a].op = req[a].op /\ req'[a].st = "err"
    BY <1>3 DEF CallFails, Answer, TypeOK
  <2> QED
    BY <2>1 DEF PersistedOf
<1>4. CASE RenewalFails(a)
  BY <1>4 DEF RenewalFails, PersistedOf
<1> QED
  BY <1>1, <1>2, <1>3, <1>4 DEF Calls

\* Every step keeps what is known of every outcome.
LEMMA PersistedStep ==
  ASSUME TypeOK, TypeOK', Persisted, [Next]_vars
  PROVE  Persisted'
<1> SUFFICES ASSUME NEW b \in Agents PROVE PersistedOf(b)'
  BY DEF Persisted
<1>0. PersistedOf(b) /\ lease.token \in Nat
  BY TimingAssumption DEF Persisted, TypeOK, Tokens
<1>1. ASSUME NEW a \in Agents,
             Lifecycle(a) \/ RenewLoop(a) \/ Mutation(a) \/ UserCancel(a)
             \/ Dispatch(a) \/ Crash(a)
      PROVE  PersistedOf(b)'
  <2>1. CASE a = b
    BY <1>0, <1>1, <2>1, LifecyclePersisted, LoopPersisted
  <2>2. CASE a # b
    <3>1. UNCHANGED Locals(b)
      BY <1>1, <2>2, LifecycleFrame
    <3>2. UNCHANGED <<lease, item>>
      BY <1>1 DEF svc, Lifecycle, Prepared, RenewLoop, Mutation, ChildExits, ChildDone, WriteEnds, UserCancel, Dispatch, Crash,
         PrepareSucceeds, PrepareFails, ClaimReply, WithdrawReply, StartReply, Advance, Kill, TimesOut, DropPublication,
         RenewReply, ReportReply, RecoverReply, RenewTick, RenewTickReply
    <3> QED
      BY <1>0, <3>1, <3>2, OthersKeepPersisted
  <2> QED
    BY <2>1, <2>2
<1>2. ASSUME NEW a \in Agents, Calls(a) PROVE PersistedOf(b)'
  <2>1. CASE a = b
    BY <1>0, <1>2, <2>1, CallsPersisted
  <2>2. CASE a # b
    <3>1. UNCHANGED Locals(b)
      BY <1>2, <2>2 DEF Locals, TypeOK, Calls, Serve, ServeRenewal, CallFails, RenewalFails
    <3>2. req[a].op \in Ops /\ token[a] \in Tokens /\ "renew" \in Ops
      BY DEF TypeOK, Requests, Ops
    <3>3. \/ UNCHANGED <<lease, item>>
          \/ \E o \in Ops : Accepts(o, token[a]) /\ Accept(o, token[a])
      BY <1>2, <3>2 DEF Calls, Serve, ServeRenewal, CallFails, RenewalFails
    <3>4. /\ lease'.token >= lease.token
          /\ \A u \in Tokens : u <= lease.token /\ item[u] \in Terminal => item'[u] = item[u]
      BY <1>0, <3>2, <3>3, AcceptKeepsOutcome
    <3> QED
      BY <1>0, <3>1, <3>4, OthersKeepPersisted
  <2> QED
    BY <2>1, <2>2
<1>3. ASSUME NEW m \in net, ServeLate(m) PROVE PersistedOf(b)'
  <2>1. UNCHANGED Locals(b)
    BY <1>3 DEF ServeLate, agent, Locals
  <2>2. m.op \in Ops /\ m.tok \in Tokens
    BY <1>3 DEF TypeOK
  <2>3. /\ lease'.token >= lease.token
        /\ \A u \in Tokens : u <= lease.token /\ item[u] \in Terminal => item'[u] = item[u]
    BY <1>0, <1>3, <2>2, AcceptKeepsOutcome DEF ServeLate
  <2> QED
    BY <1>0, <2>1, <2>3, OthersKeepPersisted
<1>4. CASE Tick
  <2>1. /\ UNCHANGED <<item, pc, token, byUser, ok, exit>> /\ lease'.token = lease.token
        /\ req'[b] = Older(req[b])
    BY <1>4 DEF Tick, TypeOK
  <2>2. req'[b].st = req[b].st /\ req'[b].op = req[b].op /\ req'[b].got = req[b].got
    BY <2>1 DEF Older, TypeOK, Requests
  <2> QED
    BY <1>0, <2>1, <2>2 DEF PersistedOf
<1>5. CASE UNCHANGED vars
  BY <1>0, <1>5, OthersKeepPersisted DEF vars, svc, agent, Locals
<1> QED
  BY <1>1, <1>2, <1>3, <1>4, <1>5 DEF Next

\* The initial state satisfies the persistence invariant.
LEMMA PersistedInit == Init => Persisted
BY DEF Init, Persisted, PersistedOf, NoReq

\* A task reports `completed` only when the control plane has its outcome on
\* record under the task's own token: whatever answers are lost, however late
\* requests arrive, and with no assumption on the timing of the lease.
THEOREM CompletedPersisted == Spec => []CompletedIsPersisted
<1>1. TypeOK /\ TypeOK' /\ Persisted /\ [Next]_vars => Persisted'
  BY PersistedStep
<1>2. Persisted => CompletedIsPersisted
  BY DEF Persisted, PersistedOf, CompletedIsPersisted
<1> QED
  BY <1>1, <1>2, PersistedInit, Typing, PTL DEF Spec

-----------------------------------------------------------------------------
(* The governed worker implements FencedWork: claims are held by one agent    *)
(* each (Fencing, with no assumption on timing), and together with Authority  *)
(* every step of the worker is a step of FencedWork or changes nothing there. *)


\* What a step of the agent itself does to its claim: it keeps it or drops it,
\* a task that is ending does not come back to life under it, and work goes on
\* only where there was work.
Moves(a) ==
  /\ AwaitsOf(a)'
  /\ Holds(a)' \in {Holds(a), 0}
  /\ Holds(a)' # 0 /\ pc[a] \in Ending \cup {"done"} => pc'[a] \in Ending \cup {"done"}
  /\ Works(a)' => Works(a) /\ token'[a] = token[a]

\* The ways a lifecycle step ends are such moves.
LEMMA FinishMoves ==
  ASSUME TypeOK, NEW a \in Agents, NEW success \in BOOLEAN, AwaitsOf(a),
         Finish(a, success), pc[a] = "claim" => req[a].st # "ok", pc[a] \notin Mutating
  PROVE  Moves(a)
<1>1. /\ pc'[a] = "done" /\ token'[a] = token[a] /\ req'[a] = NoReq /\ op'[a] = op[a]
  BY DEF TypeOK, Finish
<1> QED
  BY <1>1 DEF Moves, AwaitsOf, Holds, Works, Ending, Mutating, NoReq

\* Entering a mutating stage needs a task that works.
LEMMA EnterMoves ==
  ASSUME TypeOK, NEW a \in Agents, NEW s \in Mutating, AwaitsOf(a), Works(a), Enter(a, s)
  PROVE  Moves(a)
<1>1. pc'[a] = s /\ token'[a] = token[a] /\ req'[a] = NoReq
  BY DEF TypeOK, Enter
<1>2. pc[a] \notin Ending \cup {"done", "idle", "prepare", "claim"}
  BY DEF Works, Mutating, Ending
<1> QED
  BY <1>1, <1>2 DEF Moves, AwaitsOf, Holds, Works, Ending, Mutating, NoReq

\* A task that concludes keeps its claim and reports a terminal status.
LEMMA ConcludeMoves ==
  ASSUME TypeOK, NEW a \in Agents, NEW success \in BOOLEAN, AwaitsOf(a),
         Works(a), Conclude(a, success)
  PROVE  Moves(a)
<1>1. /\ pc'[a] = "report" /\ token'[a] = token[a] /\ op'[a] \notin Awaited
      /\ req'[a].op = claimed_terminal_status(byUser[a], success) /\ req'[a].st = "sent"
  BY DEF TypeOK, Conclude, Send, Request, Awaited
<1>2. req'[a].op \in Terminal
  BY <1>1 DEF claimed_terminal_status, Terminal
<1>3. pc[a] \notin {"done", "idle", "prepare", "claim"}
  BY DEF Works, Mutating
<1> QED
  BY <1>1, <1>2, <1>3 DEF Moves, AwaitsOf, Holds, Works, Ending, Mutating

\* A mutation that moves on leaves the claim alone.
LEMMA ProgressMoves ==
  ASSUME TypeOK, NEW a \in Agents, AwaitsOf(a), Progress(a)
  PROVE  Moves(a)
<1>1. /\ pc'[a] = pc[a] /\ token'[a] = token[a] /\ req'[a] = req[a]
      /\ op'[a] \in Awaited => pc[a] \in Mutating
  BY DEF TypeOK, Progress, Spawning
<1> QED
  BY <1>1 DEF Moves, AwaitsOf, Holds, Works

\* Every step of the lifecycle future is such a move.
LEMMA LifecycleMoves ==
  ASSUME TypeOK, NEW a \in Agents, AwaitsOf(a), Lifecycle(a)
  PROVE  Moves(a)
<1>1. CASE PrepareSucceeds(a)
  <2>1. /\ pc[a] = "prepare" /\ pc'[a] = "claim" /\ token'[a] = token[a] /\ op'[a] = op[a]
        /\ req'[a] = Request("claim")
    BY <1>1 DEF TypeOK, PrepareSucceeds, Send
  <2> QED
    BY <2>1 DEF Moves, AwaitsOf, Holds, Works, Ending, Mutating, Request
<1>2. CASE PrepareFails(a) \/ WithdrawReply(a) \/ RecoverReply(a)
  BY <1>2, FinishMoves DEF PrepareFails, WithdrawReply, RecoverReply, Mutating
<1>3. CASE ClaimReply(a)
  <2>1. CASE req[a].st = "err"
    BY <1>3, <2>1, FinishMoves DEF ClaimReply, Mutating
  <2>2. CASE req[a].st = "ok"
    <3>1. /\ pc[a] = "claim" /\ token'[a] = req[a].got /\ op'[a] = op[a]
          /\ \/ pc'[a] = "withdraw" /\ req'[a] = Request("cancelled")
             \/ pc'[a] = "start" /\ req'[a] = Request("running")
      BY <1>3, <2>2 DEF TypeOK, ClaimReply, Send
    <3> QED
      BY <2>2, <3>1 DEF Moves, AwaitsOf, Holds, Works, Ending, Mutating, Request, Terminal
  <2> QED
    BY <1>3, <2>1, <2>2 DEF ClaimReply, Answered
<1>4. CASE StartReply(a)
  <2>1. CASE req[a].st = "err"
    BY <1>4, <2>1, FinishMoves DEF StartReply, Mutating
  <2>2. CASE req[a].st = "ok"
    <3>1. Works(a)
      BY <1>4, <2>2 DEF StartReply, Works
    <3> QED
      BY <1>4, <2>2, <3>1, ConcludeMoves, EnterMoves DEF StartReply, Mutating
  <2> QED
    BY <1>4, <2>1, <2>2 DEF StartReply, Answered
<1>5. CASE Advance(a)
  <2>1. Works(a) /\ pc[a] \in Mutating /\ op[a] # "alive"
    BY <1>5 DEF Advance, Works
  <2>2. CASE Conclude(a, TRUE) \/ Conclude(a, FALSE)
    BY <2>1, <2>2, ConcludeMoves
  <2>3. CASE \E s \in Follows(pc[a]) : Enter(a, s)
    BY <2>1, <2>3, EnterMoves DEF Follows, Mutating
  <2>4. CASE /\ Send(a, "renew", "renew") /\ op' = [op EXCEPT ![a] = "none"]
             /\ UNCHANGED <<token, cancel, byUser, ren, since, ok, lost, exit>>
    <3>1. /\ pc'[a] = "renew" /\ token'[a] = token[a] /\ op'[a] = "none"
          /\ req'[a] = Request("renew")
      BY <2>4 DEF TypeOK, Send
    <3> QED
      BY <2>1, <3>1 DEF Moves, AwaitsOf, Holds, Works, Ending, Mutating, Request, Awaited
  <2> QED
    BY <1>5, <2>2, <2>3, <2>4 DEF Advance
<1>6. CASE RenewReply(a)
  <2>1. Works(a)
    BY <1>6 DEF RenewReply, Works
  <2> QED
    BY <1>6, <2>1, ConcludeMoves, EnterMoves DEF RenewReply, Mutating
<1>7. CASE ReportReply(a)
  <2>1. CASE req[a].st = "err" /\ ok[a]
    <3>1. /\ pc[a] = "report" /\ pc'[a] = "recover" /\ token'[a] = token[a] /\ op'[a] = op[a]
          /\ req'[a] = Request("failed")
      BY <1>7, <2>1 DEF TypeOK, ReportReply, Send
    <3> QED
      BY <3>1 DEF Moves, AwaitsOf, Holds, Works, Ending, Mutating, Request, Terminal
  <2>2. CASE ~(req[a].st = "err" /\ ok[a])
    <3>1. Finish(a, ok[a] /\ ~lost[a]) /\ pc[a] = "report"
      BY <1>7, <2>2 DEF ReportReply
    <3>2. (ok[a] /\ ~lost[a]) \in BOOLEAN
      OBVIOUS
    <3> QED
      BY <3>1, <3>2, FinishMoves DEF Mutating
  <2> QED
    BY <2>1, <2>2
<1>8. CASE Kill(a) \/ TimesOut(a)
  BY <1>8, MutationProgress, ProgressMoves
<1>9. CASE DropPublication(a)
  BY <1>9, ConcludeMoves DEF DropPublication, Works, Mutating
<1> QED
  BY <1>1, <1>2, <1>3, <1>4, <1>5, <1>6, <1>7, <1>8, <1>9 DEF Lifecycle, Prepared

\* So is every step of the renewal loop and of the agent's environment.
LEMMA LoopMoves ==
  ASSUME TypeOK, NEW a \in Agents, AwaitsOf(a),
         RenewLoop(a) \/ Mutation(a) \/ UserCancel(a) \/ Dispatch(a) \/ Crash(a)
  PROVE  Moves(a)
<1>0. CASE Mutation(a)
  BY <1>0, MutationProgress, ProgressMoves
<1>1. CASE RenewLoop(a) \/ UserCancel(a)
  <2>1. /\ pc'[a] = pc[a] /\ token'[a] = token[a] /\ req'[a] = req[a] /\ op'[a] = op[a]
    BY <1>1 DEF TypeOK, RenewLoop, RenewTick, RenewTickReply, UserCancel
  <2> QED
    BY <2>1 DEF Moves, AwaitsOf, Holds, Works
<1>2. CASE Dispatch(a)
  <2>1. /\ pc[a] \in {"idle", "done"} /\ pc'[a] = "prepare" /\ token'[a] = 0
        /\ req'[a] = req[a] /\ op'[a] = "none"
    BY <1>2 DEF TypeOK, Dispatch, Reset
  <2> QED
    BY <2>1 DEF Moves, AwaitsOf, Holds, Works, Ending, Mutating, Awaited
<1>3. CASE Crash(a)
  <2>1. pc'[a] = "idle" /\ token'[a] = 0 /\ req'[a] = NoReq /\ op'[a] = "none"
    BY <1>3 DEF TypeOK, Crash, Reset
  <2> QED
    BY <2>1 DEF Moves, AwaitsOf, Holds, Works, Ending, Mutating, NoReq, Awaited
<1> QED
  BY <1>0, <1>1, <1>2, <1>3

\* A service takes `running` back only for a terminal status under that token.
LEMMA AcceptKeepsRunning ==
  ASSUME TypeOK, NEW o \in Ops, NEW t \in Tokens, Accepts(o, t), Accept(o, t),
         NEW u \in Tokens, u <= lease.token, item[u] = "running", o \in Terminal => u # t
  PROVE  item'[u] = "running"
<1>0. lease.token \in Nat /\ u \in Nat /\ item \in [Tokens -> Terminal \cup {"open", "claimed", "running"}]
  BY TimingAssumption DEF TypeOK, Tokens
<1>1. CASE o = "claim"
  BY <1>0, <1>1 DEF Accept
<1>2. CASE o \in {"renew", "running"}
  BY <1>0, <1>2 DEF Accept
<1>3. CASE o \in Terminal
  BY <1>0, <1>3 DEF Accept, Terminal
<1> QED
  BY <1>1, <1>2, <1>3 DEF Ops

\* A request that reports a terminal status is on its way only from a task that
\* is ending, and no other call of an agent is one.
LEMMA TerminalIsEnding ==
  ASSUME TypeOK, NEW a \in Agents, AwaitsOf(a)
  PROVE  \A m \in Call(a) \cup Renewal(a) :
            m.tok = token[a] /\ (m.op \in Terminal => pc[a] \in Ending /\ token[a] # 0)
<1>1. pc[a] \in Stages
  BY DEF TypeOK
<1>2. ASSUME req[a].st = "sent", req[a].op \in Terminal PROVE pc[a] \in Ending /\ token[a] # 0
  BY <1>1, <1>2 DEF AwaitsOf, Stages, Claimed, Ending, Terminal, Mutating
<1> QED
  BY <1>2 DEF Call, Renewal, Terminal

\* A call that a service answered: the claim it mints is a new one, and what is
\* told to run is running.
LEMMA ServeMoves ==
  ASSUME TypeOK, TypeOK', NEW a \in Agents, AwaitsOf(a), Serve(a),
         Accepts(req[a].op, token[a])
  PROVE  /\ AwaitsOf(a)' /\ pc'[a] = pc[a] /\ token'[a] = token[a]
         /\ \/ Holds(a)' = Holds(a)
            \/ Holds(a)' = lease'.token /\ lease'.token = lease.token + 1
         /\ Works(a)' => Works(a) \/ item'[token[a]] = "running"
<1>0. /\ req[a] \in Requests /\ pc[a] \in Stages /\ lease.token \in Nat
      /\ token[a] \in Tokens /\ item \in [Tokens -> Terminal \cup {"open", "claimed", "running"}]
  BY TimingAssumption DEF TypeOK, Tokens
<1>1. /\ pc'[a] = pc[a] /\ token'[a] = token[a] /\ op'[a] = op[a] /\ req[a].st = "sent"
      /\ req'[a].op = req[a].op /\ req'[a].st = "ok" /\ req'[a].got = lease'.token
  BY DEF TypeOK, Serve, Answer
<1>2. pc[a] \in {"claim", "start", "renew"} \cup Ending
  BY <1>0, <1>1 DEF AwaitsOf, Stages, Claimed, Ending, Mutating
<1>3. CASE pc[a] = "claim"
  <2>1. lease'.token = lease.token + 1
    BY <1>3 DEF AwaitsOf, Serve, Accept
  <2> QED
    BY <1>0, <1>1, <1>3, <2>1 DEF AwaitsOf, Holds, Works, Mutating, Ending
<1>4. CASE pc[a] = "start"
  <2>1. item'[token[a]] = "running"
    BY <1>0, <1>4 DEF AwaitsOf, Serve, Accept
  <2> QED
    BY <1>1, <1>4, <2>1 DEF AwaitsOf, Holds, Works, Mutating, Ending
<1>5. CASE pc[a] = "renew" \/ pc[a] \in Ending
  BY <1>1, <1>5 DEF AwaitsOf, Holds, Works, Mutating, Ending
<1> QED
  BY <1>2, <1>3, <1>4, <1>5

\* Any other thing that happens to a call is a move of the agent.
LEMMA CallMoves ==
  ASSUME TypeOK, NEW a \in Agents, AwaitsOf(a),
         \/ Serve(a) /\ ~Accepts(req[a].op, token[a])
         \/ ServeRenewal(a) \/ CallFails(a) \/ RenewalFails(a)
  PROVE  Moves(a) /\ pc'[a] = pc[a]
<1>1. CASE ServeRenewal(a) \/ RenewalFails(a)
  <2>1. pc'[a] = pc[a] /\ token'[a] = token[a] /\ req'[a] = req[a] /\ op'[a] = op[a]
    BY <1>1 DEF TypeOK, ServeRenewal, RenewalFails
  <2> QED
    BY <2>1 DEF Moves, AwaitsOf, Holds, Works
<1>2. CASE (Serve(a) /\ ~Accepts(req[a].op, token[a])) \/ CallFails(a)
  <2>1. /\ pc'[a] = pc[a] /\ token'[a] = token[a] /\ op'[a] = op[a]
        /\ req'[a].op = req[a].op /\ req'[a].st = "err" /\ req[a].st # "none"
    BY <1>2 DEF TypeOK, Serve, CallFails, Answer
  <2> QED
    BY <2>1 DEF Moves, AwaitsOf, Holds, Works
<1> QED
  BY <1>1, <1>2

\* What any step does to the claim of agent b: it is kept, dropped, or the one
\* that was just minted for a.
Keeps(a, b) ==
  /\ AwaitsOf(b)'
  /\ \/ Holds(b)' \in {Holds(b), 0}
     \/ b = a /\ Holds(b)' = lease'.token /\ lease'.token = lease.token + 1
  /\ Holds(b)' # 0 /\ Holds(b)' = Holds(b) /\ pc[b] \in Ending \cup {"done"} =>
       pc'[b] \in Ending \cup {"done"}
  /\ Works(b)' => item'[token'[b]] = "running"

\* Such a step keeps every claim with one holder, and what is on its way
\* harmless.
LEMMA FencingKept ==
  ASSUME TypeOK, TypeOK', Fencing, NEW a, \A b \in Agents : Keeps(a, b),
         lease'.token >= lease.token, \A m \in net' : LateOf(m)
  PROVE  Fencing'
<1>0. lease.token \in Nat /\ lease'.token \in Nat
  BY TimingAssumption DEF TypeOK, Tokens
<1>1. \A b \in Agents : Holds(b) \in Nat /\ Holds(b) <= lease.token
  BY TimingAssumption DEF TypeOK, Tokens, Requests, Fencing, HolderOf, Holds
<1>2. \A b \in Agents : Holds(b)' <= lease'.token
  BY <1>0, <1>1 DEF Keeps
<1>3. ASSUME NEW b \in Agents, NEW c \in Agents, Holds(b)' # 0, Holds(c)' = Holds(b)'
      PROVE  c = b
  <2>1. CASE Holds(b)' = Holds(b) /\ Holds(c)' = Holds(c)
    BY <1>3, <2>1 DEF Fencing, HolderOf
  <2>2. CASE Holds(b)' # Holds(b)
    BY <1>0, <1>1, <1>3, <2>2 DEF Keeps
  <2>3. CASE Holds(c)' # Holds(c)
    BY <1>0, <1>1, <1>3, <2>3 DEF Keeps
  <2> QED
    BY <2>1, <2>2, <2>3
<1>4. \A b \in Agents : AwaitsOf(b)' /\ HolderOf(b)'
  BY <1>2, <1>3 DEF Keeps, HolderOf
<1>5. ASSUME NEW m \in net' PROVE LateOf(m)'
  <2> SUFFICES ASSUME m.op \in Terminal
               PROVE  /\ m.tok # 0 /\ m.tok <= lease'.token
                      /\ \A b \in Agents : Holds(b)' = m.tok => pc'[b] \in Ending \cup {"done"}
    BY DEF LateOf
  <2>1. /\ m.tok # 0 /\ m.tok <= lease.token /\ m.tok \in Nat
        /\ \A b \in Agents : Holds(b) = m.tok => pc[b] \in Ending \cup {"done"}
    BY <1>5, TimingAssumption DEF LateOf, TypeOK, Tokens
  <2>2. ASSUME NEW b \in Agents, Holds(b)' = m.tok PROVE pc'[b] \in Ending \cup {"done"}
    <3>1. Holds(b)' = Holds(b)
      BY <1>0, <2>1, <2>2 DEF Keeps
    <3> QED
      BY <2>1, <2>2, <3>1 DEF Keeps
  <2> QED
    BY <1>0, <2>1, <2>2
<1> QED
  BY <1>4, <1>5 DEF Fencing

\* Agents that do not move keep their claims.
LEMMA OthersKeep ==
  ASSUME Fencing, NEW a, NEW b \in Agents, UNCHANGED Locals(b),
         item[token[b]] = "running" /\ Works(b) => item'[token[b]] = "running"
  PROVE  Keeps(a, b)
<1>1. UNCHANGED <<pc[b], token[b], req[b], op[b]>>
  BY DEF Locals
<1>2. AwaitsOf(b) /\ HolderOf(b)
  BY DEF Fencing
<1>3. AwaitsOf(b)' /\ Holds(b)' = Holds(b) /\ (Works(b)' <=> Works(b))
  BY <1>1, <1>2 DEF AwaitsOf, Holds, Works
<1> QED
  BY <1>1, <1>2, <1>3 DEF Keeps, HolderOf

\* Requests that an agent leaves behind find nobody at work.
LEMMA AbandonLate ==
  ASSUME TypeOK, Fencing, NEW a \in Agents,
         NEW late \in SUBSET (Call(a) \cup Renewal(a)), Abandon(late)
  PROVE  \A m \in net' : LateOf(m)
<1>1. AwaitsOf(a) /\ HolderOf(a)
  BY DEF Fencing
<1>2. ASSUME NEW m \in late PROVE LateOf(m)
  <2> SUFFICES ASSUME m.op \in Terminal
               PROVE  /\ m.tok # 0 /\ m.tok <= lease.token
                      /\ \A b \in Agents : Holds(b) = m.tok => pc[b] \in Ending \cup {"done"}
    BY DEF LateOf
  <2>1. m.tok = token[a] /\ pc[a] \in Ending /\ token[a] # 0
    BY <1>1, TerminalIsEnding
  <2>2. Holds(a) = token[a]
    BY <2>1 DEF Holds, Ending
  <2> QED
    BY <1>1, <2>1, <2>2 DEF HolderOf
<1> QED
  BY <1>2 DEF Abandon, Fencing

\* An operation the service accepts does not disturb the item of a task that
\* works, unless it is a terminal status of that very claim.
LEMMA AcceptKeepsWork ==
  ASSUME TypeOK, Fencing, NEW o \in Ops, NEW t \in Tokens, Accepts(o, t), Accept(o, t),
         NEW b \in Agents, Works(b), o \in Terminal => token[b] # t
  PROVE  item'[token[b]] = "running"
<1>1. HolderOf(b) /\ AwaitsOf(b) /\ token[b] \in Tokens
  BY DEF Fencing, TypeOK
<1>2. Holds(b) = token[b]
  BY DEF Holds, Works, Mutating
<1> QED
  BY <1>1, <1>2, AcceptKeepsRunning DEF HolderOf

\* A move of agent a that leaves lease and items alone keeps Fencing.
LEMMA MovesKeep ==
  ASSUME TypeOK, TypeOK', Fencing, NEW a \in Agents, Moves(a),
         \A b \in Agents \ {a} : UNCHANGED Locals(b),
         lease'.token = lease.token, UNCHANGED item, \A m \in net' : LateOf(m)
  PROVE  Fencing'
<1>0. lease.token \in Nat
  BY TimingAssumption DEF TypeOK, Tokens
<1>1. Keeps(a, a)
  <2>1. HolderOf(a)
    BY DEF Fencing
  <2> QED
    BY <2>1 DEF Moves, Keeps, HolderOf
<1>2. \A b \in Agents \ {a} : Keeps(a, b)
  BY OthersKeep
<1> QED
  BY <1>0, <1>1, <1>2, FencingKept

\* Serving the call of an agent keeps Fencing.
LEMMA ServeFencing ==
  ASSUME TypeOK, TypeOK', Fencing, NEW a \in Agents, Serve(a),
         Accepts(req[a].op, token[a])
  PROVE  Fencing'
<1>0. /\ req[a].op \in Ops /\ token[a] \in Tokens /\ AwaitsOf(a) /\ HolderOf(a)
      /\ req[a].st = "sent" /\ Accept(req[a].op, token[a]) /\ UNCHANGED net
  BY DEF TypeOK, Requests, Fencing, Serve
<1>1. \A b \in Agents \ {a} : UNCHANGED Locals(b)
  BY DEF Serve, Locals, TypeOK
<1>2. req[a].op \in Terminal => pc[a] \in Ending /\ token[a] # 0
  <2> DEFINE m == [op |-> req[a].op, tok |-> token[a]]
  <2>1. m \in Call(a) \cup Renewal(a) /\ m.op = req[a].op
    BY <1>0 DEF Call
  <2> QED
    BY <1>0, <2>1, TerminalIsEnding
<1>3. ASSUME NEW b \in Agents \ {a} PROVE Keeps(a, b)
  <2>1. ASSUME Works(b), req[a].op \in Terminal PROVE token[b] # token[a]
    <3>1. Holds(b) = token[b]
      BY <2>1 DEF Holds, Works, Mutating
    <3>2. Holds(a) = token[a]
      BY <1>2, <2>1 DEF Holds, Ending
    <3> QED
      BY <1>0, <1>2, <2>1, <3>1, <3>2 DEF HolderOf
  <2> QED
    BY <1>0, <1>1, <2>1, AcceptKeepsWork, OthersKeep
<1>4. Keeps(a, a)
  <2>1. Works(a) => pc[a] = "renew"
    BY <1>0 DEF Works, AwaitsOf
  <2>2. Works(a) => item'[token[a]] = "running"
    BY <1>0, <2>1, AcceptKeepsWork DEF AwaitsOf, Terminal
  <2> QED
    BY <1>0, <2>2, ServeMoves DEF Keeps
<1>5. lease'.token >= lease.token
  BY <1>0, AcceptKeepsOutcome
<1>6. \A m \in net' : LateOf(m)
  BY <1>0 DEF Fencing
<1> QED
  BY <1>3, <1>4, <1>5, <1>6, FencingKept

\* A request that arrives late keeps Fencing.
LEMMA LateFencing ==
  ASSUME TypeOK, TypeOK', Fencing, NEW m \in net, ServeLate(m)
  PROVE  Fencing'
<1>0. m.op \in Ops /\ m.tok \in Tokens /\ LateOf(m) /\ lease.token \in Nat
  BY TimingAssumption DEF TypeOK, Fencing, Tokens
<1>1. /\ \A b \in Agents : UNCHANGED Locals(b)
      /\ \A k \in net' : LateOf(k)
  BY DEF ServeLate, agent, Locals, Fencing
<1>2. \/ UNCHANGED <<lease, item>>
      \/ Accepts(m.op, m.tok) /\ Accept(m.op, m.tok)
  BY DEF ServeLate
<1>3. ASSUME NEW b \in Agents PROVE Keeps(m, b)
  <2>1. ASSUME Works(b), m.op \in Terminal PROVE token[b] # m.tok
    BY <1>0, <2>1 DEF LateOf, Works, Holds, Mutating, Ending
  <2>2. Works(b) /\ item[token[b]] = "running" => item'[token[b]] = "running"
    BY <1>0, <1>2, <2>1, AcceptKeepsWork
  <2> QED
    BY <1>1, <2>2, OthersKeep
<1>4. lease'.token >= lease.token
  BY <1>0, <1>2, AcceptKeepsOutcome
<1> QED
  BY <1>1, <1>3, <1>4, FencingKept

\* Time takes no claim away.
LEMMA TickFencing ==
  ASSUME TypeOK, TypeOK', Fencing, Tick
  PROVE  Fencing'
<1>0. /\ UNCHANGED <<item, net, pc, token, op>> /\ lease'.token = lease.token
      /\ lease.token \in Nat
  BY TimingAssumption DEF Tick, TypeOK, Tokens
<1>1. ASSUME NEW b \in Agents PROVE Keeps(0, b)
  <2>1. req'[b].st = req[b].st /\ req'[b].op = req[b].op /\ req'[b].got = req[b].got
    BY DEF Tick, Older, TypeOK, Requests
  <2>2. AwaitsOf(b) /\ HolderOf(b)
    BY DEF Fencing
  <2>3. AwaitsOf(b)' /\ Holds(b)' = Holds(b) /\ (Works(b)' <=> Works(b))
    BY <1>0, <2>1, <2>2 DEF AwaitsOf, Holds, Works
  <2> QED
    BY <1>0, <2>2, <2>3 DEF Keeps, HolderOf
<1> QED
  BY <1>0, <1>1, FencingKept DEF Fencing

\* Every step keeps Fencing.
LEMMA FencingStep ==
  ASSUME TypeOK, TypeOK', Fencing, [Next]_vars
  PROVE  Fencing'
<1>0. \A b \in Agents : AwaitsOf(b)
  BY DEF Fencing
<1>1. ASSUME NEW a \in Agents,
             Lifecycle(a) \/ RenewLoop(a) \/ Mutation(a) \/ UserCancel(a)
             \/ Dispatch(a) \/ Crash(a)
      PROVE  Fencing'
  <2>1. \A b \in Agents \ {a} : UNCHANGED Locals(b)
    BY <1>1, LifecycleFrame
  <2>2. UNCHANGED <<lease, item>>
    BY <1>1 DEF svc, Lifecycle, Prepared, RenewLoop, Mutation, ChildExits, ChildDone, WriteEnds, UserCancel, Dispatch, Crash,
       PrepareSucceeds, PrepareFails, ClaimReply, WithdrawReply, StartReply, Advance, Kill, TimesOut, DropPublication,
       RenewReply, ReportReply, RecoverReply, RenewTick, RenewTickReply
  <2>3. Moves(a)
    BY <1>0, <1>1, LifecycleMoves, LoopMoves
  <2>4. \A m \in net' : LateOf(m)
    <3>1. CASE Crash(a)
      BY <3>1, AbandonLate DEF Crash
    <3>2. CASE ~Crash(a)
      <4>1. UNCHANGED net
        BY <1>1, <3>2 DEF svc, Lifecycle, Prepared, RenewLoop, Mutation, ChildExits, ChildDone, WriteEnds, UserCancel, Dispatch,
           PrepareSucceeds, PrepareFails, ClaimReply, WithdrawReply, StartReply, Advance, Kill, TimesOut, DropPublication,
           RenewReply, ReportReply, RecoverReply, RenewTick, RenewTickReply
      <4> QED
        BY <4>1 DEF Fencing
    <3> QED
      BY <3>1, <3>2
  <2> QED
    BY <2>1, <2>2, <2>3, <2>4, MovesKeep
<1>2. ASSUME NEW a \in Agents, Calls(a) PROVE Fencing'
  <2>1. CASE Serve(a) /\ Accepts(req[a].op, token[a])
    BY <2>1, ServeFencing
  <2>2. CASE \/ Serve(a) /\ ~Accepts(req[a].op, token[a])
             \/ ServeRenewal(a) \/ CallFails(a) \/ RenewalFails(a)
    <3>1. \A b \in Agents \ {a} : UNCHANGED Locals(b)
      BY <1>2 DEF Locals, TypeOK, Calls, Serve, ServeRenewal, CallFails, RenewalFails
    <3>2. Moves(a)
      BY <1>0, <2>2, CallMoves
    <3>3. lease'.token = lease.token /\ UNCHANGED item
      BY <2>2 DEF Serve, ServeRenewal, CallFails, RenewalFails, Accept, Terminal
    <3>4. \A m \in net' : LateOf(m)
      BY <2>2, AbandonLate DEF Serve, ServeRenewal, CallFails, RenewalFails, Fencing
    <3> QED
      BY <3>1, <3>2, <3>3, <3>4, MovesKeep
  <2> QED
    BY <1>2, <2>1, <2>2 DEF Calls
<1>3. ASSUME NEW m \in net, ServeLate(m) PROVE Fencing'
  BY <1>3, LateFencing
<1>4. CASE Tick
  BY <1>4, TickFencing
<1>5. CASE UNCHANGED vars
  <2>1. UNCHANGED <<lease, item, net, pc, token, req, op>>
    BY <1>5 DEF vars, svc, agent
  <2> QED
    BY <2>1 DEF Fencing, AwaitsOf, HolderOf, LateOf, Holds, Works
<1> QED
  BY <1>1, <1>2, <1>3, <1>4, <1>5 DEF Next

\* No claim has been granted initially.
LEMMA FencingInit == Init => Fencing
BY TimingAssumption DEF Init, Fencing, AwaitsOf, HolderOf, Holds, Works, Mutating, Ending, NoReq, Awaited

\* Each claim of the item has one holder, the item of a task that works stays
\* `running` under its token, and a terminal status still on its way belongs to
\* nobody at work: with no assumption on the timing of the lease.
THEOREM FencingInvariant == Spec => []Fencing
<1>1. TypeOK /\ TypeOK' /\ Fencing /\ [Next]_vars => Fencing'
  BY FencingStep
<1> QED
  BY <1>1, FencingInit, Typing, PTL DEF Spec

-----------------------------------------------------------------------------
(* Every step is a step of FencedWork, or changes nothing it knows of *)

\* Whose children run and who waits, element by element.
LEMMA Members ==
  /\ \A x : x \in Children <=> \E b \in Agents : Child(b) /\ x = <<b, token[b]>>
  /\ \A x : x \in Waiting <=> \E b \in Agents : op[b] \in Awaited /\ x = <<b, token[b]>>
BY DEF Children, Waiting

\* The same after the step.
LEMMA MembersNext ==
  /\ \A x : x \in Children' <=> \E b \in Agents : Child(b)' /\ x = <<b, token'[b]>>
  /\ \A x : x \in Waiting' <=> \E b \in Agents : op'[b] \in Awaited /\ x = <<b, token'[b]>>
BY DEF Children, Waiting, Awaited

\* A step of agent a that begins nothing ends a wait of its own or changes nothing.
LEMMA QuietStep ==
  ASSUME TypeOK, NEW a \in Agents,
         \A b \in Agents \ {a} : UNCHANGED Locals(b),
         op'[a] \in Awaited => op[a] \in Awaited /\ token'[a] = token[a],
         Child(a)' => Child(a),
         lease'.token = lease.token, UNCHANGED item
  PROVE  [Fenced!FWNext]_<<lease.token, item, Children, Waiting>>
<1>1. \A b \in Agents \ {a} : op'[b] = op[b] /\ token'[b] = token[b] /\ (Child(b)' <=> Child(b))
  BY DEF Locals, Child
<1>2. Child(a) => op[a] \in Awaited
  BY DEF Child, Awaited
<1>3. Child(a)' => op'[a] \in Awaited
  BY DEF Child, Awaited
<1>4. CASE op[a] \notin Awaited
  <2>1. Children' = Children
    BY <1>1, <1>2, <1>4, Members, MembersNext
  <2>2. Waiting' = Waiting
    <3>1. \A b \in Agents : op'[b] \in Awaited <=> op[b] \in Awaited
      BY <1>1, <1>4
    <3>2. \A b \in Agents : op[b] \in Awaited => token'[b] = token[b]
      BY <1>1, <1>4
    <3>3. \A x : x \in Waiting' => x \in Waiting
      BY <3>1, <3>2, Members, MembersNext
    <3>4. \A x : x \in Waiting => x \in Waiting'
      BY <3>1, <3>2, Members, MembersNext
    <3> QED
      BY <3>3, <3>4
  <2>3. UNCHANGED <<lease.token, item, Children, Waiting>>
    BY <2>1, <2>2
  <2> QED
    BY <2>3
<1>5. CASE op[a] \in Awaited
  <2> DEFINE w == <<a, token[a]>>
  <2>1. w \in Waiting
    BY <1>5, Members
  <2>2. \A b \in Agents \ {a} : <<b, token[b]>> # w
    OBVIOUS
  <2>3. Waiting' \in {Waiting, Waiting \ {w}}
    <3>1. CASE op'[a] \in Awaited
      <4>1. \A b \in Agents : (op'[b] \in Awaited <=> op[b] \in Awaited) /\ token'[b] = token[b]
        BY <1>1, <1>5, <3>1
      <4>2. Waiting' = Waiting
        BY <4>1, Members, MembersNext
      <4> QED
        BY <4>2
    <3>2. CASE op'[a] \notin Awaited
      <4>1. Waiting' = Waiting \ {w}
        BY <1>1, <1>5, <2>2, <3>2, Members, MembersNext
      <4> QED
        BY <4>1
    <3> QED
      BY <3>1, <3>2
  <2>4. CASE Child(a)'
    <3>0. \A b \in Agents : /\ (op'[b] \in Awaited <=> op[b] \in Awaited)
                            /\ (Child(b)' <=> Child(b)) /\ token'[b] = token[b]
      BY <1>1, <1>3, <1>5, <2>4
    <3>1. Children' = Children
      BY <3>0, Members, MembersNext
    <3>2. Waiting' = Waiting
      BY <3>0, Members, MembersNext
    <3>3. UNCHANGED <<lease.token, item, Children, Waiting>>
      BY <3>1, <3>2
    <3> QED
      BY <3>3
  <2>5. CASE ~Child(a)'
    <3>1. Children' = Children \ {w}
      BY <1>1, <2>2, <2>5, Members, MembersNext
    <3>2. Fenced!End(w)
      BY <2>1, <2>3, <3>1 DEF Fenced!End
    <3> QED
      BY <2>1, <3>2 DEF Fenced!FWNext
  <2> QED
    BY <2>4, <2>5
<1> QED
  BY <1>4, <1>5

\* A task that works and enters a stage begins a mutation, alone.
LEMMA EnterStep ==
  ASSUME TypeOK, Fencing, ChildUnderLease, NEW a \in Agents, NEW s \in Mutating,
         Works(a), op[a] \notin Awaited, Held(a), ~cancel[a], Enter(a, s), UNCHANGED svc
  PROVE  [Fenced!FWNext]_<<lease.token, item, Children, Waiting>>
<1>0. AwaitsOf(a) /\ HolderOf(a)
  BY DEF Fencing
<1>1. token[a] = lease.token /\ Holds(a) = token[a] /\ token[a] # 0 /\ item[token[a]] = "running"
  BY <1>0 DEF Held, HolderOf, AwaitsOf, Holds, Works, Mutating
<1>2. \A b \in Agents : op[b] \in Awaited => token[b] # lease.token
  <2> SUFFICES ASSUME NEW b \in Agents, op[b] \in Awaited, token[b] = lease.token PROVE FALSE
    OBVIOUS
  <2>1. AwaitsOf(b)
    BY DEF Fencing
  <2>2. Holds(b) = token[b]
    BY <2>1 DEF AwaitsOf, Holds, Mutating
  <2>3. b = a
    BY <1>0, <1>1, <2>2 DEF HolderOf
  <2> QED
    BY <2>3
<1>3. \A b \in Agents : ~Child(b)
  BY <1>2 DEF ChildUnderLease, Live, Child, Awaited
<1>4. /\ op' = [op EXCEPT ![a] = "alive"] /\ pc' = [pc EXCEPT ![a] = s]
      /\ UNCHANGED <<token, lease, item>>
  BY DEF Enter, svc
<1>5. /\ \A b \in Agents \ {a} : op'[b] = op[b] /\ (Child(b)' <=> Child(b))
      /\ op'[a] \in Awaited
  BY <1>4 DEF TypeOK, Child, Awaited
<1>6. Waiting' = Waiting \cup {<<a, lease.token>>}
  BY <1>1, <1>4, <1>5, Members, MembersNext
<1>7. Children = {}
  BY <1>3, Members
<1>8. Children' \in {{}, {<<a, lease.token>>}}
  <2>1. CASE Child(a)'
    <3>1. Children' = {<<a, lease.token>>}
      BY <1>1, <1>3, <1>4, <1>5, <2>1, MembersNext
    <3> QED
      BY <3>1
  <2>2. CASE ~Child(a)'
    <3>1. Children' = {}
      BY <1>3, <1>5, <2>2, MembersNext
    <3> QED
      BY <3>1
  <2> QED
    BY <2>1, <2>2
<1>9. \A w \in Waiting : w[2] # lease.token
  BY <1>2, Members
<1>10. Fenced!Begin(a)
  BY <1>1, <1>4, <1>6, <1>7, <1>8, <1>9 DEF Fenced!Begin, Fenced!AtRest
<1> QED
  BY <1>10 DEF Fenced!FWNext

\* What a service accepts is a grant, the start of the work, its resolution, or
\* a renewal that FencedWork does not see.
LEMMA AcceptStep ==
  ASSUME TypeOK, Fencing, ChildUnderLease, NEW o \in Ops, NEW t \in Tokens,
         Accepts(o, t), Accept(o, t), UNCHANGED <<pc, op, token>>,
         o \in Terminal => \A b \in Agents : op[b] \in Awaited => token[b] # t
  PROVE  [Fenced!FWNext]_<<lease.token, item, Children, Waiting>>
<1>0. Children' = Children /\ Waiting' = Waiting
  BY DEF Children, Waiting, Child, Awaited
<1>1. CASE o = "claim"
  <2>1. \A b \in Agents : ~Child(b)
    BY <1>1 DEF Accepts, ChildUnderLease, Live, TypeOK
  <2>3. Children = {}
    BY <2>1, Members
  <2>2. /\ lease.token < MaxToken /\ lease'.token = lease.token + 1
        /\ item' = [item EXCEPT ![lease.token + 1] = "claimed"]
    BY <1>1 DEF Accepts, Accept
  <2> QED
    BY <1>0, <2>2, <2>3 DEF Fenced!FWNext, Fenced!Grant
<1>2. CASE o = "renew"
  BY <1>0, <1>2 DEF Accept
<1>3. CASE o = "running"
  <2>1. /\ t = lease.token /\ item[t] = "claimed" /\ lease'.token = lease.token
        /\ item' = [item EXCEPT ![t] = "running"]
    BY <1>3 DEF Accepts, Accept, Live
  <2> QED
    BY <1>0, <2>1 DEF Fenced!FWNext, Fenced!Run
<1>4. CASE o \in Terminal
  <2>1. /\ t = lease.token /\ item[t] \in {"claimed", "running"} /\ lease'.token = lease.token
        /\ item' = [item EXCEPT ![t] = o]
    BY <1>4 DEF Accepts, Accept, Live, Terminal
  <2>2. \A w \in Waiting : w[2] # lease.token
    BY <1>4, <2>1, Members
  <2> QED
    BY <1>0, <1>4, <2>1, <2>2 DEF Fenced!FWNext, Fenced!Resolve, Fenced!AtRest, Terminal
<1> QED
  BY <1>1, <1>2, <1>3, <1>4 DEF Ops

\* A step of the lifecycle future is a step of FencedWork or a stutter.
LEMMA LifecycleRefines ==
  ASSUME TypeOK, Fencing, Authority, ChildUnderLease, NEW a \in Agents, Lifecycle(a)
  PROVE  [Fenced!FWNext]_<<lease.token, item, Children, Waiting>>
<1>0. AwaitsOf(a) /\ AuthorityOf(a)
  BY DEF Fencing, Authority
<1>1. \A b \in Agents \ {a} : UNCHANGED Locals(b)
  BY LifecycleFrame
<1>2. UNCHANGED svc
  BY DEF Lifecycle, Prepared, PrepareSucceeds, PrepareFails, ClaimReply, WithdrawReply, StartReply, Advance,
     Kill, TimesOut, DropPublication, RenewReply, ReportReply, RecoverReply
<1>3. ASSUME op'[a] \notin Awaited PROVE [Fenced!FWNext]_<<lease.token, item, Children, Waiting>>
  BY <1>1, <1>2, <1>3, QuietStep DEF svc, Child, Awaited
<1>4. ASSUME NEW success,
             Conclude(a, success) \/ (Finish(a, success) /\ pc[a] \notin Mutating)
      PROVE  op'[a] \notin Awaited
  BY <1>0, <1>4 DEF TypeOK, Finish, Conclude, AwaitsOf, Awaited
<1>p. ASSUME Progress(a) PROVE [Fenced!FWNext]_<<lease.token, item, Children, Waiting>>
  <2>1. /\ op[a] \in Awaited /\ token'[a] = token[a] /\ op'[a] # "alive"
    BY <1>p DEF Progress, TypeOK
  <2> QED
    BY <1>1, <1>2, <2>1, QuietStep DEF svc, Child
<1>5. CASE PrepareSucceeds(a) \/ ClaimReply(a) \/ ReportReply(a)
  <2>1. op[a] \notin Awaited /\ pc[a] \notin Mutating
    BY <1>0, <1>5 DEF PrepareSucceeds, ClaimReply, ReportReply, AwaitsOf, Mutating
  <2>2. op'[a] \notin Awaited
    BY <1>4, <1>5, <2>1 DEF PrepareSucceeds, ClaimReply, ReportReply
  <2> QED
    BY <1>3, <2>2
<1>6. CASE PrepareFails(a) \/ WithdrawReply(a) \/ RecoverReply(a)
  BY <1>3, <1>4, <1>6 DEF PrepareFails, WithdrawReply, RecoverReply, Mutating
<1>11. CASE Kill(a) \/ TimesOut(a) \/ DropPublication(a)
  BY <1>3, <1>4, <1>p, <1>11, MutationProgress DEF DropPublication
<1>7. ASSUME NEW s \in Mutating, Enter(a, s), Works(a), op[a] \notin Awaited, Polled(a), ~cancel[a]
      PROVE  [Fenced!FWNext]_<<lease.token, item, Children, Waiting>>
  <2>1. Held(a)
    BY <1>0, <1>7, PolledIsHeld DEF Works, Claimed
  <2> QED
    BY <1>2, <1>7, <2>1, EnterStep
<1>8. CASE StartReply(a)
  <2>1. op[a] \notin Awaited /\ Polled(a) /\ (req[a].st = "ok" => Works(a))
    BY <1>0, <1>8 DEF StartReply, Answered, AwaitsOf, Works, Mutating
  <2> QED
    BY <1>3, <1>4, <1>7, <1>8, <2>1 DEF StartReply, Mutating
<1>9. CASE RenewReply(a)
  <2>1. op[a] \notin Awaited /\ Polled(a) /\ Works(a)
    BY <1>0, <1>9 DEF RenewReply, Answered, AwaitsOf, Works, Mutating
  <2> QED
    BY <1>3, <1>4, <1>7, <1>9, <2>1 DEF RenewReply, Mutating
<1>10. CASE Advance(a)
  <2>1. op[a] \notin Awaited /\ Polled(a) /\ Works(a)
    BY <1>10 DEF Advance, Works, Awaited
  <2>2. CASE Conclude(a, TRUE) \/ Conclude(a, FALSE)
    BY <1>3, <1>4, <2>2
  <2>3. CASE ~cancel[a] /\ \E s \in Follows(pc[a]) : Enter(a, s)
    BY <1>7, <2>1, <2>3 DEF Follows, Mutating
  <2>4. CASE op' = [op EXCEPT ![a] = "none"]
    BY <1>3, <2>4 DEF TypeOK, Awaited
  <2> QED
    BY <1>10, <2>2, <2>3, <2>4 DEF Advance
<1> QED
  BY <1>5, <1>6, <1>8, <1>9, <1>10, <1>11 DEF Lifecycle, Prepared

\* So is every other step.
LEMMA FencedStep ==
  ASSUME TypeOK, Fencing, Authority, ChildUnderLease, [Next]_vars
  PROVE  [Fenced!FWNext]_<<lease.token, item, Children, Waiting>>
<1>1. ASSUME NEW a \in Agents, Lifecycle(a)
      PROVE  [Fenced!FWNext]_<<lease.token, item, Children, Waiting>>
  BY <1>1, LifecycleRefines
<1>2. ASSUME NEW a \in Agents,
             RenewLoop(a) \/ Mutation(a) \/ UserCancel(a) \/ Dispatch(a) \/ Crash(a)
      PROVE  [Fenced!FWNext]_<<lease.token, item, Children, Waiting>>
  <2>1. \A b \in Agents \ {a} : UNCHANGED Locals(b)
    BY <1>2, LifecycleFrame
  <2>2. UNCHANGED <<lease, item>>
    BY <1>2 DEF svc, RenewLoop, Mutation, ChildExits, ChildDone, WriteEnds, UserCancel, Dispatch, Crash, RenewTick, RenewTickReply
  <2>3. /\ op'[a] \in Awaited => op[a] \in Awaited /\ token'[a] = token[a]
        /\ Child(a)' => Child(a)
    <3>1. CASE RenewLoop(a) \/ UserCancel(a)
      BY <3>1 DEF TypeOK, RenewLoop, RenewTick, RenewTickReply, UserCancel, Child
    <3>2. CASE Dispatch(a) \/ Crash(a)
      BY <3>2 DEF TypeOK, Dispatch, Crash, Child, Awaited
    <3>3. CASE Mutation(a)
      <4>1. Progress(a)
        BY <3>3, MutationProgress
      <4> QED
        BY <4>1 DEF TypeOK, Progress, Child
    <3> QED
      BY <1>2, <3>1, <3>2, <3>3
  <2> QED
    BY <2>1, <2>2, <2>3, QuietStep
<1>3. ASSUME NEW a \in Agents, Calls(a)
      PROVE  [Fenced!FWNext]_<<lease.token, item, Children, Waiting>>
  <2>0. /\ AwaitsOf(a) /\ UNCHANGED <<pc, op, token>> /\ "renew" \in Ops \ Terminal
        /\ req[a].op \in Ops /\ token[a] \in Tokens
    BY <1>3 DEF Fencing, Calls, Serve, ServeRenewal, CallFails, RenewalFails, TypeOK, Requests,
       Ops, Terminal
  <2>1. CASE UNCHANGED <<lease, item>>
    BY <2>0, <2>1 DEF Children, Waiting, Child, Awaited
  <2>2. CASE Accepts("renew", token[a]) /\ Accept("renew", token[a])
    BY <2>0, <2>2, AcceptStep
  <2>3. CASE Serve(a) /\ Accepts(req[a].op, token[a])
    <3>1. Accept(req[a].op, token[a]) /\ req[a].st = "sent"
      BY <2>3 DEF Serve
    <3>2. ASSUME req[a].op \in Terminal, NEW b \in Agents, op[b] \in Awaited
          PROVE  token[b] # token[a]
      <4>1. AwaitsOf(b) /\ HolderOf(a)
        BY DEF Fencing
      <4>2. pc[a] \in Ending /\ pc[b] \in Mutating
        BY <2>0, <3>1, <3>2, <4>1 DEF AwaitsOf, TypeOK, Stages, Claimed, Terminal, Ending
      <4>3. Holds(a) = token[a] /\ token[a] # 0 /\ Holds(b) = token[b] /\ a # b
        BY <2>0, <4>2 DEF AwaitsOf, Holds, Ending, Mutating
      <4> QED
        BY <4>1, <4>3 DEF HolderOf
    <3> QED
      BY <2>0, <2>3, <3>1, <3>2, AcceptStep
  <2> QED
    BY <1>3, <2>1, <2>2, <2>3 DEF Calls, Serve, ServeRenewal, CallFails, RenewalFails
<1>4. ASSUME NEW m \in net, ServeLate(m)
      PROVE  [Fenced!FWNext]_<<lease.token, item, Children, Waiting>>
  <2>0. /\ LateOf(m) /\ UNCHANGED <<pc, op, token>> /\ m.op \in Ops /\ m.tok \in Tokens
    BY <1>4 DEF Fencing, ServeLate, TypeOK, agent
  <2>1. CASE UNCHANGED <<lease, item>>
    BY <2>0, <2>1 DEF Children, Waiting, Child, Awaited
  <2>2. CASE Accepts(m.op, m.tok) /\ Accept(m.op, m.tok)
    <3>1. ASSUME m.op \in Terminal, NEW b \in Agents, op[b] \in Awaited
          PROVE  token[b] # m.tok
      <4>1. AwaitsOf(b)
        BY DEF Fencing
      <4> QED
        BY <2>0, <3>1, <4>1 DEF LateOf, AwaitsOf, Holds, Mutating, Ending
    <3> QED
      BY <2>0, <2>2, <3>1, AcceptStep
  <2> QED
    BY <1>4, <2>1, <2>2 DEF ServeLate
<1>5. CASE Tick
  BY <1>5 DEF Tick, TypeOK, Children, Waiting, Child, Awaited
<1>6. CASE UNCHANGED vars
  BY <1>6 DEF vars, svc, agent, Children, Waiting, Child, Awaited
<1> QED
  BY <1>1, <1>2, <1>3, <1>4, <1>5, <1>6 DEF Next

\* The initial states of the worker are initial states of FencedWork.
LEMMA FencedInit == Init => Fenced!FWInit
BY DEF Init, Fenced!FWInit, Children, Waiting, Child, Awaited, Mutating, Spawning, Tokens

\* The governed worker implements FencedWork, when the lease outlives the first
\* renewal: claims are granted one after the other and only when every child of
\* an earlier one has exited or been killed, mutations begin one at a time, under
\* the current claim and while the item is running, and a terminal status is
\* recorded once, when its worker waits for no child, output or write any more.
THEOREM GovernedImplementsFencedWork ==
  LeaseCoversFirstRenewal => (Spec => ImplementsFencedWork)
<1> SUFFICES ASSUME LeaseCoversFirstRenewal PROVE Spec => ImplementsFencedWork
  OBVIOUS
<1>1. TypeOK /\ Fencing /\ Authority /\ ChildUnderLease /\ [Next]_vars =>
        [Fenced!FWNext]_<<lease.token, item, Children, Waiting>>
  BY FencedStep
<1> QED
  BY <1>1, FencedInit, Typing, FencingInvariant, AuthorityInvariant, ChildAuthority, PTL
     DEF Spec, ImplementsFencedWork, Fenced!FWSpec, Fenced!fwvars
=============================================================================
