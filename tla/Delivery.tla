------------------------------- MODULE Delivery -------------------------------
(***************************************************************************)
(* What the outbox promises the emitter of an event, whatever happens to   *)
(* files, broker and process: an accepted event is held until the stream   *)
(* has it or it is given up into the dead letters, it is in one of the two *)
(* places on disk at a time, it never comes back, and it is not held for   *)
(* ever.  The stream may have an event that is still held, or given up:    *)
(* delivery is at least once and an acknowledgement may be lost.           *)
(***************************************************************************)
CONSTANT Events

VARIABLES held, dead, stored

dvars == <<held, dead, stored>>

DeliveryInit == held = {} /\ dead = {} /\ stored = {}

Accept(e) ==
  /\ e \notin held \cup dead \cup stored
  /\ held' = held \cup {e}
  /\ UNCHANGED <<dead, stored>>

Store(e) ==
  /\ e \in held
  /\ stored' = stored \cup {e}
  /\ UNCHANGED <<held, dead>>

Release(e) ==
  /\ e \in held \cap stored
  /\ held' = held \ {e}
  /\ UNCHANGED <<dead, stored>>

GiveUp(e) ==
  /\ e \in held
  /\ held' = held \ {e} /\ dead' = dead \cup {e}
  /\ UNCHANGED stored

Settle(e) == Release(e) \/ GiveUp(e)

DeliveryNext == \E e \in Events : Accept(e) \/ Store(e) \/ Settle(e)

DeliverySpec ==
  DeliveryInit /\ [][DeliveryNext]_dvars /\ \A e \in Events : WF_dvars(Settle(e))
=============================================================================
