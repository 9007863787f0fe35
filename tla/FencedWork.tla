------------------------------ MODULE FencedWork ------------------------------
(***************************************************************************)
(* What governance promises of one work item: claims are granted one after *)
(* the other, each with the next fencing token, when no child of an        *)
(* earlier one is running; work begins only under the current claim, only  *)
(* while the item is running, and one piece at a time; a terminal status   *)
(* comes when its worker waits for nothing any more.  Work of an earlier   *)
(* claim may still be awaited (a child being killed, a write, output), but *)
(* none of it is a child that goes on.                                     *)
(***************************************************************************)
EXTENDS Naturals

CONSTANTS
  Agents,    \* workers
  MaxToken   \* bound: claims granted

VARIABLES
  current,   \* the last fencing token granted
  outcome,   \* status of the item under each token
  children,  \* pairs <<agent, token>> with a child process that was not killed
  awaited    \* pairs <<agent, token>> whose worker waits for a mutation to end

fwvars == <<current, outcome, children, awaited>>

FWInit ==
  /\ current = 0
  /\ outcome = [t \in 0..MaxToken |-> "open"]
  /\ children = {} /\ awaited = {}

\* The worker of the current claim waits for nothing.
AtRest == \A w \in awaited : w[2] # current

Grant ==
  /\ children = {} /\ current < MaxToken
  /\ current' = current + 1
  /\ outcome' = [outcome EXCEPT ![current + 1] = "claimed"]
  /\ UNCHANGED <<children, awaited>>

Run ==
  /\ outcome[current] = "claimed"
  /\ outcome' = [outcome EXCEPT ![current] = "running"]
  /\ UNCHANGED <<current, children, awaited>>

\* A write begins, or a child.
Begin(a) ==
  /\ AtRest /\ children = {} /\ outcome[current] = "running"
  /\ children' \in {{}, {<<a, current>>}}
  /\ awaited' = awaited \cup {<<a, current>>}
  /\ UNCHANGED <<current, outcome>>

\* A child is killed or exits, or the wait for a mutation is over.
End(w) ==
  /\ w \in awaited
  /\ children' = children \ {w}
  /\ awaited' \in {awaited, awaited \ {w}}
  /\ UNCHANGED <<current, outcome>>

Resolve(s) ==
  /\ AtRest /\ outcome[current] \in {"claimed", "running"}
  /\ outcome' = [outcome EXCEPT ![current] = s]
  /\ UNCHANGED <<current, children, awaited>>

FWNext ==
  \/ Grant \/ Run
  \/ \E a \in Agents : Begin(a)
  \/ \E w \in awaited : End(w)
  \/ \E s \in {"awaiting_review", "failed", "cancelled"} : Resolve(s)

FWSpec == FWInit /\ [][FWNext]_fwvars
=============================================================================
