-------------------------------- MODULE Fleet --------------------------------
(***************************************************************************)
(* The whole Coordinator of the reference fleet: FleetAuthority and, on    *)
(* the same clock, the slots of a pool, a quota and the heartbeats of the  *)
(* workers (tools/reference-fleet/src/lib.rs).  Capacities and the window  *)
(* of a quota are stable, as the code asserts; pools and quotas do not     *)
(* touch each other, so there is one of each.                              *)
(***************************************************************************)
EXTENDS FleetAuthority

CONSTANTS
  Workers,        \* callers of acquire_slot and heartbeat
  SlotCapacity, QuotaCapacity, Window,
  MaxBeats        \* bound: heartbeats of a worker

ASSUME FleetAssumption ==
  /\ SlotCapacity \in Nat \ {0} /\ QuotaCapacity \in Nat \ {0} /\ Window \in Nat \ {0}
  /\ MaxBeats \in Nat /\ IsFiniteSet(Workers)

VARIABLES
  holders,      \* expiry of each slot holder; 0: not in the map
  quota,        \* RateWindow, once there is one
  heartbeats,   \* expiry of each worker's last heartbeat; 0: not in the map
  expired_heartbeats_recorded,
  heartbeat_expired,  \* metric, by worker
  granted,      \* history: units granted before each time
  beats,        \* how often a worker beat
  noticed       \* history: which of its heartbeats somebody found run out

capvars == <<holders, quota, heartbeats, expired_heartbeats_recorded, heartbeat_expired,
             granted, beats, noticed>>
fvars == <<avars, capvars>>

Times == 0..(MaxTime + Window)

CapacityInit ==
  /\ holders = [w \in Workers |-> 0] /\ heartbeats = [w \in Workers |-> 0]
  /\ quota = [open |-> FALSE, starts_at |-> 0, used |-> 0]
  /\ expired_heartbeats_recorded = {}
  /\ heartbeat_expired = [w \in Workers |-> 0]
  /\ granted = [t \in Times |-> 0]
  /\ beats = [w \in Workers |-> 0] /\ noticed = [w \in Workers |-> {}]

FleetInit == AuthorityInit /\ CapacityInit

AdvanceClock == Advance /\ UNCHANGED capvars

-----------------------------------------------------------------------------
(* Slots *)

\* holders.retain: the slots that have not expired.
Retained == [w \in Workers |-> IF holders[w] > now THEN holders[w] ELSE 0]
Occupied(hs) == Cardinality({w \in Workers : hs[w] > 0})

SetHolders(hs) ==
  /\ holders' = hs
  /\ UNCHANGED <<avars, quota, heartbeats, expired_heartbeats_recorded, heartbeat_expired,
                 granted, beats, noticed>>

\* Expired slots go first; a holder extends its own, also in a full pool.
AcquireSlot(w, ttl) ==
  SetHolders(IF Retained[w] = 0 /\ Occupied(Retained) >= SlotCapacity THEN Retained
             ELSE [Retained EXCEPT ![w] = now + ttl])

-----------------------------------------------------------------------------
(* Quota *)

\* Take units from the window, or refuse them.
Consume(window, units) ==
  /\ IF units > QuotaCapacity - window.used
       THEN quota' = window /\ UNCHANGED granted
       ELSE /\ quota' = [window EXCEPT !.used = @ + units]
            /\ granted' = [t \in Times |-> granted[t] + IF t > now THEN units ELSE 0]
  /\ UNCHANGED <<avars, holders, heartbeats, expired_heartbeats_recorded, heartbeat_expired,
                 beats, noticed>>

\* Faulty variant: a new window is not given its start.
ConsumeQuotaSameStart(units) ==
  Consume(IF quota.open /\ now < quota.starts_at + Window THEN quota
          ELSE [open |-> TRUE, starts_at |-> quota.starts_at, used |-> 0], units)

\* The window starts with the first call, and again with the first call after
\* its end, refused or not.
ConsumeQuota(units) ==
  Consume(IF quota.open /\ now < quota.starts_at + Window THEN quota
          ELSE [open |-> TRUE, starts_at |-> now, used |-> 0], units)

-----------------------------------------------------------------------------
(* Heartbeats *)

Beat(w, ttl) ==
  /\ beats[w] < MaxBeats /\ beats' = [beats EXCEPT ![w] = @ + 1]
  /\ heartbeats' = [heartbeats EXCEPT ![w] = now + ttl]
  /\ UNCHANGED <<avars, holders, quota, heartbeat_expired, granted, noticed>>

\* Faulty variant: a worker that came back is still recorded as expired.
HeartbeatStaysRecorded(w, ttl) == Beat(w, ttl) /\ UNCHANGED expired_heartbeats_recorded

Heartbeat(w, ttl) ==
  Beat(w, ttl) /\ expired_heartbeats_recorded' = expired_heartbeats_recorded \ {w}

\* A question about a worker whose heartbeat has run out (other questions change
\* nothing): the first one since the heartbeat counts it.
WorkerIsAlive(w) ==
  /\ heartbeats[w] # 0 /\ heartbeats[w] <= now
  /\ noticed' = [noticed EXCEPT ![w] = @ \cup {beats[w]}]
  /\ expired_heartbeats_recorded' = expired_heartbeats_recorded \cup {w}
  /\ heartbeat_expired' = IF w \in expired_heartbeats_recorded THEN heartbeat_expired
                          ELSE [heartbeat_expired EXCEPT ![w] = @ + 1]
  /\ UNCHANGED <<avars, holders, quota, heartbeats, granted, beats>>

-----------------------------------------------------------------------------
CapacityNext ==
  \/ \E w \in Workers, ttl \in Ttls : AcquireSlot(w, ttl) \/ Heartbeat(w, ttl)
  \/ \E w \in Workers : WorkerIsAlive(w)
  \/ \E units \in 1..(QuotaCapacity + 1) : ConsumeQuota(units)

FleetNext ==
  \/ AdvanceClock
  \/ AuthorityNext /\ UNCHANGED capvars
  \/ CapacityNext

FleetSpec == FleetInit /\ [][FleetNext]_fvars

-----------------------------------------------------------------------------
(* Properties *)

SlotsWithinCapacity == Cardinality({w \in Workers : holders[w] > now}) <= SlotCapacity

\* Of a pool no more slots than its capacity are held at a time, whoever renews
\* and whatever expires unseen between two calls; and over any span as long as
\* the quota's window no more than twice its capacity is granted, the most that
\* windows which start with a call allow.
CapacityIsBounded ==
  /\ SlotsWithinCapacity
  /\ \A t \in 0..MaxTime : granted[t + Window] <= granted[t] + 2 * QuotaCapacity

\* The metric counts every lapse of a worker that somebody noticed, and counts it
\* once: however often a silent worker is asked about it counts one, and when it
\* came back and went silent again the next question counts again.
LapsesCountedOnce == \A w \in Workers : heartbeat_expired[w] = Cardinality(noticed[w])

-----------------------------------------------------------------------------
(* The inductive invariant of the proofs *)

CapacityTypeOK ==
  /\ now <= MaxTime
  /\ holders \in [Workers -> Nat] /\ heartbeats \in [Workers -> Nat]
  /\ quota \in [open : BOOLEAN, starts_at : Nat, used : 0..QuotaCapacity]
  /\ granted \in [Times -> Nat] /\ \A s, t \in Times : s <= t => granted[s] <= granted[t]
  /\ heartbeat_expired \in [Workers -> Nat] /\ beats \in [Workers -> Nat]
  /\ noticed \in [Workers -> SUBSET Nat]

\* Everything granted so far.
Total == granted[now + 1]

\* The open window has granted `used` units since its start, and nothing was
\* granted since its end; what its predecessor granted within one window's
\* length of that start is no more than the capacity.
QuotaInv ==
  IF quota.open
  THEN LET start == quota.starts_at
       IN  /\ start <= now /\ granted[start] + quota.used = Total
           /\ \A t \in Times : t > now \/ t >= start + Window => granted[t] = Total
           /\ \A t \in Times : t <= start /\ t + Window > start => granted[start] <= granted[t] + QuotaCapacity
  ELSE \A t \in Times : granted[t] = 0

\* A worker is recorded as expired exactly when the lapse of its LAST heartbeat
\* was noticed, and no lapse is noticed before its heartbeat.
LapsesInv ==
  \A w \in Workers :
    /\ IsFiniteSet(noticed[w]) /\ heartbeat_expired[w] = Cardinality(noticed[w])
    /\ \A n \in noticed[w] : n <= beats[w]
    /\ w \in expired_heartbeats_recorded <=> beats[w] \in noticed[w]

CapacityInv == CapacityTypeOK /\ QuotaInv /\ LapsesInv
=============================================================================
