----------------------------- MODULE EventStream -----------------------------
(***************************************************************************)
(* The event stream of one task: AppState::emit and TaskState::next_seq    *)
(* (src/state.rs), EventBus::emit, subscribe and gc_task                   *)
(* (src/event_bus.rs), the SSE handler `stream` (src/http.rs), and the     *)
(* parts of the program that emit: run_task, the readers of the agent's    *)
(* stdout and stderr (CliRunner::run) and cancel_task.                     *)
(*                                                                         *)
(* A sequence number is taken first and the event is pushed later under    *)
(* the lock of the bus, so two emitters may overtake each other.  An event *)
(* is its sequence number; `done` is the event numbered doneSeq.           *)
(***************************************************************************)
EXTENDS Integers, Sequences, SequencesExt

CONSTANTS
  Readers,   \* tasks that read the agent's output
  Clients,   \* SSE clients of the task
  Cap,       \* REPLAY_CAP, also the capacity of the broadcast channel
  MaxSeq     \* bound: how many events are emitted

ASSUME StreamAssumption ==
  Cap \in Nat \ {0} /\ MaxSeq \in Nat /\ Readers \cap {"main", "cancel"} = {}

VARIABLES
  seq,       \* TaskState.seq
  held,      \* number each emitter has taken and not pushed (None: nothing)
  doneSeq,   \* number of the `done` event (None: not taken)
  stage,     \* where run_task is
  reading,   \* readers that have not seen the end of their pipe
  canceller, \* where a cancel_task call is
  gced,      \* gc_finished has removed the task
  chan,      \* TaskChannel: [open, history, seqs, done]
  cl,        \* each client's connection
  seen,      \* what each client has received, over all its connections
  pushed     \* history: what the present channel was sent, in order

task == <<seq, held, doneSeq, stage, reading, canceller>>
svars == <<task, gced, chan, cl, seen, pushed>>

None == -1
Emitters == Readers \cup {"main", "cancel"}
Active == {"replay", "live"}
Numbers == None..MaxSeq

\* A connection: what is left of the snapshot, the broadcast receiver (closed
\* when its sender is dropped), whether the task was done when it subscribed,
\* the id it resumed from, what it got, and whether the snapshot was trimmed or
\* the receiver lagged.
NoConnection ==
  [st |-> "off", replay |-> <<>>, q |-> <<>>, closed |-> FALSE, ends |-> FALSE,
   after |-> None, last |-> None, got |-> <<>>, partial |-> FALSE]

NoChannel == [open |-> FALSE, history |-> <<>>, seqs |-> {}, done |-> FALSE]

StreamTypeOK ==
  /\ seq \in 0..MaxSeq /\ held \in [Emitters -> Numbers] /\ doneSeq \in Numbers
  /\ stage \in {"prepare", "agent", "drain", "after", "finishing", "done", "dead"}
  /\ reading \subseteq Readers
  /\ canceller \in {"idle", "checked", "end"}
  /\ gced \in BOOLEAN
  /\ chan.open \in BOOLEAN /\ chan.done \in BOOLEAN /\ chan.seqs \subseteq 0..MaxSeq
  /\ Len(chan.history) <= Cap /\ ToSet(chan.history) \subseteq chan.seqs
  /\ \A c \in Clients :
       /\ cl[c].st \in Active \cup {"off", "ended"}
       /\ Len(cl[c].replay) <= Cap /\ Len(cl[c].q) <= Cap
       /\ ToSet(cl[c].got) \subseteq seen[c]
  /\ seen \in [Clients -> SUBSET (0..MaxSeq)]

StreamInit ==
  /\ seq = 0 /\ held = [e \in Emitters |-> None] /\ doneSeq = None
  /\ stage = "prepare" /\ reading = {} /\ canceller = "idle"
  /\ gced = FALSE /\ chan = NoChannel
  /\ cl = [c \in Clients |-> NoConnection] /\ seen = [c \in Clients |-> {}]
  /\ pushed = <<>>

-----------------------------------------------------------------------------
(* The task *)

\* run_agent: the readers are spawned with the child.
AgentStarts ==
  /\ stage = "prepare" /\ held["main"] = None
  /\ stage' = "agent" /\ reading' = Readers
  /\ UNCHANGED <<seq, held, doneSeq, canceller, gced, chan, cl, seen, pushed>>

\* A reader sees the end of its pipe.
ReaderEnds(r) ==
  /\ r \in reading /\ held[r] = None
  /\ reading' = reading \ {r}
  /\ UNCHANGED <<seq, held, doneSeq, stage, canceller, gced, chan, cl, seen, pushed>>

\* The child exits by itself: from now on run_task only waits for its readers,
\* and heeds neither the token nor the deadline.
AgentExits ==
  /\ stage = "agent"
  /\ stage' = "drain"
  /\ UNCHANGED <<seq, held, doneSeq, reading, canceller, gced, chan, cl, seen, pushed>>

\* Both readers have ended; a helper of the agent that keeps a pipe open can put
\* this off for ever.
OutputEnds ==
  /\ stage = "drain" /\ reading = {}
  /\ stage' = "after"
  /\ UNCHANGED <<seq, held, doneSeq, reading, canceller, gced, chan, cl, seen, pushed>>

\* The child is killed, for a cancellation or its deadline, and its readers are
\* left to themselves.
AgentKilled ==
  /\ stage = "agent"
  /\ stage' = "after"
  /\ UNCHANGED <<seq, held, doneSeq, reading, canceller, gced, chan, cl, seen, pushed>>

\* A git command of the preparation or after the agent fails and its message is
\* cut inside a character: run_task panics, never marks its task finished and
\* never emits `done`.
Panics ==
  /\ stage \in {"prepare", "after"} /\ held["main"] = None
  /\ stage' = "dead"
  /\ UNCHANGED <<seq, held, doneSeq, reading, canceller, gced, chan, cl, seen, pushed>>

\* run_task: the task is marked finished, then `done` takes its number.
FinishTask ==
  /\ stage \in {"prepare", "after"} /\ held["main"] = None
  /\ stage' = "finishing"
  /\ UNCHANGED <<seq, held, doneSeq, reading, canceller, gced, chan, cl, seen, pushed>>

TakeDone ==
  /\ stage = "finishing" /\ seq < MaxSeq
  /\ stage' = "done" /\ doneSeq' = seq
  /\ held' = [held EXCEPT !["main"] = seq] /\ seq' = seq + 1
  /\ UNCHANGED <<reading, canceller, gced, chan, cl, seen, pushed>>

\* cancel_task finds the task unfinished, and emits later.
CheckCancel ==
  /\ canceller = "idle" /\ stage \notin {"finishing", "done"}
  /\ canceller' = "checked"
  /\ UNCHANGED <<seq, held, doneSeq, stage, reading, gced, chan, cl, seen, pushed>>

\* AppState::emit, first half: next_seq.  The last number is left for `done`.
TakeSeq(e) ==
  /\ held[e] = None
  /\ seq < IF doneSeq = None THEN MaxSeq - 1 ELSE MaxSeq
  /\ \/ e \in reading /\ UNCHANGED canceller
     \/ e = "main" /\ stage \in {"prepare", "after"} /\ UNCHANGED canceller
     \/ e = "cancel" /\ canceller = "checked" /\ canceller' = "end"
  /\ held' = [held EXCEPT ![e] = seq] /\ seq' = seq + 1
  /\ UNCHANGED <<doneSeq, stage, reading, gced, chan, cl, seen, pushed>>

-----------------------------------------------------------------------------
(* The bus *)

\* Faulty variant: the history is not trimmed.
Untrimmed(s) == s

\* The newest Cap elements: the replay history, and a receiver's ring.
Newest(s) == IF Len(s) > Cap THEN SubSeq(s, Len(s) - Cap + 1, Len(s)) ELSE s

\* A receiver that lags loses its oldest events (RecvError::Lagged: continue).
Received(k, n) ==
  IF k.st \in Active /\ ~k.closed
    THEN [k EXCEPT !.q = Newest(Append(@, n)), !.partial = @ \/ Len(k.q) = Cap]
    ELSE k

\* EventBus::emit: entry, dedup, history, fan-out and done flag under the lock.
Push(e) ==
  /\ held[e] # None
  /\ held' = [held EXCEPT ![e] = None]
  /\ LET n  == held[e]
         ch == IF chan.open THEN chan ELSE [NoChannel EXCEPT !.open = TRUE]
     IN  IF n \in ch.seqs
           THEN chan' = ch /\ UNCHANGED <<cl, pushed>>
           ELSE /\ chan' = [ch EXCEPT !.seqs = @ \cup {n},
                                      !.history = Newest(Append(@, n)),
                                      !.done = @ \/ n = doneSeq]
                /\ cl' = [c \in Clients |-> Received(cl[c], n)]
                /\ pushed' = Append(IF chan.open THEN pushed ELSE <<>>, n)
  /\ UNCHANGED <<seq, doneSeq, stage, reading, canceller, gced, seen>>

\* Faulty variant: the buffer goes and the sender stays.
GcTaskKeepsSender ==
  /\ stage = "done" /\ held["main"] = None /\ ~gced
  /\ gced' = TRUE
  /\ chan' = NoChannel
  /\ UNCHANGED <<task, cl, seen, pushed>>

\* gc_finished, long after the task finished: gc_task drops the channel, and
\* with the sender the receivers close once they are drained.
GcTask ==
  /\ stage = "done" /\ held["main"] = None /\ ~gced
  /\ gced' = TRUE
  /\ chan' = NoChannel
  /\ cl' = [c \in Clients |-> IF cl[c].st \in Active THEN [cl[c] EXCEPT !.closed = TRUE]
                              ELSE cl[c]]
  /\ UNCHANGED <<task, seen, pushed>>

-----------------------------------------------------------------------------
(* The SSE handler *)

\* The events of s after number n, in the order of s.  (SelectSeq with its
\* recursion spelled out, for the proofs.)
After(s, n) ==
  LET F[i \in 0..Len(s)] ==
        IF i = 0 THEN <<>> ELSE IF s[i] > n THEN Append(F[i - 1], s[i]) ELSE F[i - 1]
  IN  F[Len(s)]

\* Faulty variant: the event the client resumes from is replayed again.
SubscribeInclusive(c) ==
  /\ cl[c].st \notin Active /\ chan.open
  /\ cl' = [cl EXCEPT ![c] =
       [NoConnection EXCEPT !.st = "replay", !.replay = After(chan.history, cl[c].last - 1),
                            !.ends = chan.done, !.after = cl[c].last, !.last = cl[c].last,
                            !.partial = Len(pushed) > Len(chan.history)]]
  /\ UNCHANGED <<task, gced, chan, seen, pushed>>

\* subscribe: snapshot and receiver under one lock.  A client resumes from the
\* id of the last event it received.
Subscribe(c) ==
  /\ cl[c].st \notin Active /\ chan.open
  /\ cl' = [cl EXCEPT ![c] =
       [NoConnection EXCEPT !.st = "replay", !.replay = After(chan.history, cl[c].last),
                            !.ends = chan.done, !.after = cl[c].last, !.last = cl[c].last,
                            !.partial = Len(pushed) > Len(chan.history)]]
  /\ UNCHANGED <<task, gced, chan, seen, pushed>>

\* yield: the client receives event n and is then in k.
Yield(c, n, k) ==
  /\ cl' = [cl EXCEPT ![c] = [k EXCEPT !.got = Append(@, n), !.last = n]]
  /\ seen' = [seen EXCEPT ![c] = @ \cup {n}]

Replay(c) ==
  /\ cl[c].st = "replay" /\ cl[c].replay # <<>>
  /\ Yield(c, Head(cl[c].replay), [cl[c] EXCEPT !.replay = Tail(@)])
  /\ UNCHANGED <<task, gced, chan, pushed>>

ReplayEnds(c) ==
  /\ cl[c].st = "replay" /\ cl[c].replay = <<>>
  /\ cl' = [cl EXCEPT ![c].st = IF cl[c].ends THEN "ended" ELSE "live"]
  /\ UNCHANGED <<task, gced, chan, seen, pushed>>

\* Faulty variant: the stream breaks before it yields `done`.
RecvBreaksFirst(c) ==
  /\ cl[c].st = "live" /\ cl[c].q # <<>>
  /\ LET n == Head(cl[c].q)
     IN IF n = doneSeq
          THEN cl' = [cl EXCEPT ![c].st = "ended"] /\ UNCHANGED seen
          ELSE Yield(c, n, [cl[c] EXCEPT !.q = Tail(@)])
  /\ UNCHANGED <<task, gced, chan, pushed>>

Recv(c) ==
  /\ cl[c].st = "live" /\ cl[c].q # <<>>
  /\ LET n == Head(cl[c].q)
     IN Yield(c, n, [cl[c] EXCEPT !.q = Tail(@), !.st = IF n = doneSeq THEN "ended" ELSE @])
  /\ UNCHANGED <<task, gced, chan, pushed>>

RecvClosed(c) ==
  /\ cl[c].st = "live" /\ cl[c].q = <<>> /\ cl[c].closed
  /\ cl' = [cl EXCEPT ![c].st = "ended"]
  /\ UNCHANGED <<task, gced, chan, seen, pushed>>

Disconnect(c) ==
  /\ cl[c].st \in Active
  /\ cl' = [cl EXCEPT ![c].st = "off"]
  /\ UNCHANGED <<task, gced, chan, seen, pushed>>

-----------------------------------------------------------------------------
RunTask ==
  AgentStarts \/ AgentExits \/ OutputEnds \/ AgentKilled \/ Panics \/ FinishTask \/ TakeDone
Stream(c) == Replay(c) \/ ReplayEnds(c) \/ Recv(c) \/ RecvClosed(c)

StreamNext ==
  \/ RunTask \/ CheckCancel \/ GcTask
  \/ \E r \in Readers : ReaderEnds(r)
  \/ \E e \in Emitters : TakeSeq(e) \/ Push(e)
  \/ \E c \in Clients : Subscribe(c) \/ Stream(c) \/ Disconnect(c)

StreamSpec == StreamInit /\ [][StreamNext]_svars

\* Nothing obliges run_task to come to its end.  Once the task is marked finished
\* its `done` follows, an emitter that took a number pushes it, the collector
\* runs and clients read.
StreamFairness ==
  /\ WF_svars(TakeDone) /\ WF_svars(GcTask)
  /\ \A e \in Emitters : WF_svars(Push(e))
  /\ \A c \in Clients : WF_svars(Stream(c))

StreamFairSpec == StreamSpec /\ StreamFairness

-----------------------------------------------------------------------------
(* Properties *)

\* The snapshot and the live receiver meet: over one connection that was not
\* trimmed and has not lagged, what the client got, what is left of the replay
\* and what is in its receiver hold no event twice, not again the one the client
\* resumed from, and every event after it, in the order of the bus, whatever
\* was emitted meanwhile.
SnapshotMeetsLive ==
  \A c \in Clients :
    LET k == cl[c]
        all == k.got \o k.replay \o k.q
    IN  k.st \in Active /\ ~k.closed /\ ~k.partial =>
          IsInjective(all) /\ k.after \notin ToSet(all) /\ After(all, k.after) = After(pushed, k.after)

\* A stream from the start that ends by itself has delivered `done`, also when
\* the task was collected while it was connected.
EndedStreamSawDone ==
  \A c \in Clients :
    cl[c].st = "ended" /\ cl[c].after = None /\ ~cl[c].partial =>
      doneSeq # None /\ doneSeq \in ToSet(cl[c].got)

\* Every stream of a task that is marked finished and is not collected yet ends,
\* even when lagging made its receiver lose `done`.  (A task that panicked, or
\* waits for the output of an agent that is gone, is never marked finished: its
\* streams stay open.)
StreamsEnd ==
  \A c \in Clients :
    (cl[c].st \in Active /\ stage \in {"finishing", "done"} /\ ~gced) ~> (cl[c].st \notin Active)

\* "Server-Sent Events of agent activity (resumable)": a client that resumes
\* has received, or is replayed, everything the untrimmed channel holds.
ResumeIsComplete ==
  [][\A c \in Clients :
       cl[c].st \notin Active /\ cl'[c].st = "replay" /\ ~cl'[c].partial =>
         ToSet(pushed) \subseteq seen[c] \cup ToSet(cl'[c].replay)]_svars

-----------------------------------------------------------------------------
(* The inductive invariant of the proofs *)

\* Numbers that were taken and pushed.
Spent == {n \in 0..(seq - 1) : \A e \in Emitters : held[e] # n}

\* Each number is taken once, `done` by run_task, after its last other event.
NumbersInv ==
  /\ \A e \in Emitters : held[e] < seq
  /\ \A d, e \in Emitters : held[d] = held[e] /\ held[d] # None => d = e
  /\ doneSeq < seq /\ (doneSeq = None <=> stage # "done")
  /\ stage = "finishing" => held["main"] = None
  /\ stage = "done" => held["main"] \in {None, doneSeq}
  /\ \A e \in Emitters : held[e] = doneSeq /\ doneSeq # None => e = "main"
  /\ gced => stage = "done" /\ held["main"] = None

\* An open channel holds what it was sent, and has `done` once it was sent.
ChannelInv ==
  /\ chan \in [open : BOOLEAN, history : Seq(Nat), seqs : SUBSET Nat, done : BOOLEAN]
  /\ pushed \in Seq(Nat)
  /\ ~chan.open => chan = NoChannel
  /\ chan.open => IsInjective(pushed) /\ ToSet(pushed) = chan.seqs /\ chan.history = Newest(pushed)
  /\ chan.seqs \subseteq Spent
  /\ chan.done => doneSeq \in chan.seqs
  /\ stage = "done" /\ held["main"] = None /\ ~gced => chan.open /\ doneSeq \in chan.seqs

Connection ==
  [st : Active \cup {"off", "ended"}, replay : Seq(Nat), q : Seq(Nat), closed : BOOLEAN, ends : BOOLEAN,
   after : Int, last : Int, got : Seq(Nat), partial : BOOLEAN]

\* What a client has or will get was pushed; a connection whose end is decided
\* has `done` where it will still come to it.
ConnectionOf(c) ==
  LET k == cl[c]
  IN  /\ Len(k.replay) <= Cap /\ Len(k.q) <= Cap
      /\ ToSet(k.replay) \cup ToSet(k.q) \cup seen[c] \subseteq Spent /\ ToSet(k.got) \subseteq seen[c]
      /\ {k.last, k.after} \subseteq Spent \cup {None}
      /\ k.st = "live" => k.replay = <<>>
      /\ k.st \in Active /\ ~k.closed => chan.open
      /\ k.st \in Active /\ k.after = None /\ ~k.partial =>
           /\ k.ends => doneSeq \in ToSet(k.got) \cup ToSet(k.replay)
           /\ k.closed => doneSeq \in ToSet(k.got) \cup ToSet(k.replay) \cup ToSet(k.q)

ConnectionsInv == cl \in [Clients -> Connection] /\ \A c \in Clients : ConnectionOf(c)

-----------------------------------------------------------------------------
(* Known not to hold (README) *)

\* "Terminal (`done`) events complete a task's stream": nothing follows it.
TerminalIsLast ==
  chan.done => Last(pushed) = doneSeq

\* "gc_task reclaims a finished task's buffer": it does not come back.
ReclaimedStaysReclaimed == gced => ~chan.open
=============================================================================
