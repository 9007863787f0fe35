----------------------------- MODULE FleetProofs -----------------------------
(* Machine-checked proofs about FleetAuthority and Fleet, for any resources,  *)
(* holders, lease times, capacities and bounds.                               *)
EXTENDS Fleet, FiniteSetTheorems, TLAPS

-----------------------------------------------------------------------------
(* Authority *)

\* What a grant does: the new copy is numbered after all the others.
LEMMA GrantIsNew ==
  ASSUME AuthorityTypeOK, TokensCountGrants,
         NEW r \in Resources, NEW h \in Holders, NEW ttl \in Ttls, Claim(r, h, ttl)
  PROVE  LET n == next_fencing_token + 1
             c == [resource |-> r, holder |-> h, fencing_token |-> n, grant |-> n]
         IN  /\ c \in Copy /\ c \notin copies /\ copies' = copies \cup {c}
             /\ IsFiniteSet(copies') /\ Cardinality(copies') = n
             /\ next_fencing_token' = n
             /\ leases' = [leases EXCEPT ![r] = [holder |-> h, fencing_token |-> n, expires_at |-> now + ttl]]
             /\ leases' \in [Resources -> Lease]
             /\ UNCHANGED <<now, cron_fires, store, committed>>
<1> DEFINE n == next_fencing_token + 1
           c == [resource |-> r, holder |-> h, fencing_token |-> n, grant |-> n]
           l == [holder |-> h, fencing_token |-> n, expires_at |-> now + ttl]
<1>1. n \in Nat /\ Cardinality(copies) = next_fencing_token /\ now + ttl \in Nat
  BY FleetAuthorityAssumption DEF AuthorityTypeOK, TokensCountGrants
<1>2. c \in Copy /\ l \in Lease
  BY <1>1 DEF Copy, Lease
<1>3. c \notin copies
  BY <1>1 DEF TokensCountGrants, AuthorityTypeOK
<1>4. /\ copies' = copies \cup {c} /\ next_fencing_token' = n
      /\ leases' = [leases EXCEPT ![r] = l] /\ UNCHANGED <<now, cron_fires, store, committed>>
  BY <1>1 DEF Claim, Grant
<1>5. IsFiniteSet(copies \cup {c}) /\ Cardinality(copies \cup {c}) = Cardinality(copies) + 1
  BY <1>3, FS_AddElement DEF AuthorityTypeOK
<1>6. leases' \in [Resources -> Lease]
  BY <1>2, <1>4 DEF AuthorityTypeOK
<1> QED
  BY <1>1, <1>2, <1>3, <1>4, <1>5, <1>6

\* A renewal moves only the expiry of one lease.
LEMMA RenewExtends ==
  ASSUME AuthorityTypeOK, NEW c \in copies, NEW ttl \in Ttls, Renew(c, ttl)
  PROVE  /\ leases' \in [Resources -> Lease]
         /\ \A r \in Resources : /\ leases'[r].holder = leases[r].holder
                                 /\ leases'[r].fencing_token = leases[r].fencing_token
                                 /\ r # c.resource => leases'[r].expires_at = leases[r].expires_at
<1>1. c.resource \in Resources /\ now + ttl \in Nat
  BY FleetAuthorityAssumption DEF AuthorityTypeOK, Copy
<1>2. leases' = [leases EXCEPT ![c.resource] = [leases[c.resource] EXCEPT !.expires_at = now + ttl]]
  BY DEF Renew, Extend
<1>3. [leases[c.resource] EXCEPT !.expires_at = now + ttl] \in Lease
  BY <1>1 DEF AuthorityTypeOK, Lease
<1> QED
  BY <1>1, <1>2, <1>3 DEF AuthorityTypeOK, Lease

\* A write appends the next revision of its key.
LEMMA CasAppends ==
  ASSUME AuthorityTypeOK, NEW k \in Keys, NEW expected \in 0..MaxWrites, NEW v \in Values,
         Cas(k, expected, v)
  PROVE  LET n == kv[k].revision + 1
             e == [key |-> k, revision |-> n, value |-> v]
         IN  /\ e \in Event /\ n \in Nat
             /\ kv' = [kv EXCEPT ![k] = [revision |-> n, value |-> v]]
             /\ kv' \in [Keys -> [revision : Nat, value : Values]]
             /\ watch_events' = Append(watch_events, e) /\ watch_events' \in Seq(Event)
<1>1. kv[k].revision \in Nat
  BY DEF AuthorityTypeOK
<1> QED
  BY <1>1 DEF Cas, Write, Event, AuthorityTypeOK

\* Every step of the authority keeps its types.
LEMMA AuthorityTypeStep ==
  ASSUME AuthorityTypeOK, TokensCountGrants, AuthorityNext \/ Advance
  PROVE  AuthorityTypeOK'
<1>1. ASSUME NEW r \in Resources, NEW h \in Holders, NEW ttl \in Ttls, Claim(r, h, ttl)
      PROVE  AuthorityTypeOK'
  <2> DEFINE n == next_fencing_token + 1
             g == [resource |-> r, holder |-> h, fencing_token |-> n, grant |-> n]
  <2>1. /\ g \in Copy /\ copies' = copies \cup {g} /\ IsFiniteSet(copies') /\ next_fencing_token' = n
        /\ leases' \in [Resources -> Lease] /\ UNCHANGED <<now, store, committed>>
    BY <1>1, GrantIsNew
  <2>2. copies' \subseteq Copy /\ n \in Nat
    BY <2>1 DEF AuthorityTypeOK
  <2> QED
    BY <2>1, <2>2 DEF AuthorityTypeOK, store
<1>2. ASSUME NEW c \in copies, NEW ttl \in Ttls, Renew(c, ttl) PROVE AuthorityTypeOK'
  BY <1>2, RenewExtends DEF AuthorityTypeOK, Renew, Extend, store
<1>3. ASSUME NEW c \in copies, CommitIfCurrent(c) \/ \E j \in Jobs : FireCronOnce(c, j)
      PROVE  AuthorityTypeOK'
  <2>1. c.resource \in Resources /\ c.grant \in Nat
    BY DEF AuthorityTypeOK, Copy
  <2> QED
    BY <1>3, <2>1 DEF AuthorityTypeOK, CommitIfCurrent, FireCronOnce, store
<1>4. ASSUME NEW k \in Keys, NEW expected \in 0..MaxWrites, NEW v \in Values, Cas(k, expected, v)
      PROVE  AuthorityTypeOK'
  BY <1>4, CasAppends DEF AuthorityTypeOK, Cas, Write
<1>5. ASSUME NEW e \in EffectKeys, PerformSideEffectOnce(e) PROVE AuthorityTypeOK'
  BY <1>5 DEF AuthorityTypeOK, PerformSideEffectOnce
<1>6. CASE Advance
  BY <1>6 DEF AuthorityTypeOK, Advance, store
<1> QED
  BY <1>1, <1>2, <1>3, <1>4, <1>5, <1>6 DEF AuthorityNext

\* Every step keeps the tokens in the order of the grants.
LEMMA TokensStep ==
  ASSUME AuthorityTypeOK, TokensCountGrants, AuthorityNext \/ Advance
  PROVE  TokensCountGrants'
<1>1. ASSUME NEW r \in Resources, NEW h \in Holders, NEW ttl \in Ttls, Claim(r, h, ttl)
      PROVE  TokensCountGrants'
  <2> DEFINE n == next_fencing_token + 1
             g == [resource |-> r, holder |-> h, fencing_token |-> n, grant |-> n]
             l == [holder |-> h, fencing_token |-> n, expires_at |-> now + ttl]
  <2>0. /\ copies' = copies \cup {g} /\ next_fencing_token' = n /\ Cardinality(copies') = n
        /\ leases' = [leases EXCEPT ![r] = l] /\ UNCHANGED committed
    BY <1>1, GrantIsNew
  <2>1. /\ copies' = copies \cup {g} /\ next_fencing_token' = n /\ Cardinality(copies') = n
        /\ n \in Nat /\ g.grant = n /\ g.fencing_token = n /\ UNCHANGED committed
    BY <2>0 DEF AuthorityTypeOK
  <2>2. \A q \in Resources : /\ q = r => leases'[q].fencing_token = n
                             /\ q # r => leases'[q].fencing_token = leases[q].fencing_token
    BY <2>0 DEF AuthorityTypeOK
  <2>3. \A c \in copies : c.grant \in Nat /\ c.grant < n
    BY DEF AuthorityTypeOK, TokensCountGrants, Copy
  <2>4. \A c \in copies' : c.grant = c.fencing_token /\ c.grant <= next_fencing_token'
    BY <2>1, <2>3 DEF TokensCountGrants
  <2>5. \A c, d \in copies' : c.grant = d.grant => c = d
    BY <2>1, <2>3 DEF TokensCountGrants
  <2>6. \A q \in Resources : /\ leases[q].fencing_token \in Nat /\ committed[q] \in Nat
                             /\ leases[q].fencing_token < n /\ committed[q] <= leases[q].fencing_token
    BY DEF AuthorityTypeOK, TokensCountGrants, Lease
  <2>7. \A q \in Resources : /\ leases'[q].fencing_token <= next_fencing_token'
                             /\ committed'[q] <= leases'[q].fencing_token
    BY <2>1, <2>2, <2>6
  <2> HIDE DEF n, g, l
  <2> QED
    BY <2>1, <2>4, <2>5, <2>7 DEF TokensCountGrants
<1>2. ASSUME NEW c \in copies, NEW ttl \in Ttls, Renew(c, ttl) PROVE TokensCountGrants'
  BY <1>2, RenewExtends DEF TokensCountGrants, Renew, Extend
<1>3. ASSUME NEW c \in copies, CommitIfCurrent(c) \/ \E j \in Jobs : FireCronOnce(c, j)
      PROVE  TokensCountGrants'
  <2>1. c.resource \in Resources /\ c.grant = leases[c.resource].fencing_token
    BY <1>3 DEF AuthorityTypeOK, Copy, TokensCountGrants, CommitIfCurrent, FireCronOnce, Current, Matches
  <2>2. /\ committed' = [committed EXCEPT ![c.resource] = c.grant]
        /\ UNCHANGED <<next_fencing_token, leases, copies>>
    BY <1>3 DEF CommitIfCurrent, FireCronOnce
  <2>3. \A q \in Resources : committed'[q] <= leases[q].fencing_token
    BY <2>1, <2>2 DEF AuthorityTypeOK, TokensCountGrants, Lease
  <2> QED
    BY <2>2, <2>3 DEF TokensCountGrants
<1>4. CASE UNCHANGED <<next_fencing_token, leases, copies, committed>>
  BY <1>4 DEF TokensCountGrants
<1> QED
  BY <1>1, <1>2, <1>3, <1>4 DEF AuthorityNext, Cas, Write, PerformSideEffectOnce, Advance

\* Every step keeps the watch events in step with the store.
LEMMA WatchStep ==
  ASSUME AuthorityTypeOK, WatchMatchesStore, AuthorityNext \/ Advance
  PROVE  WatchMatchesStore'
<1>1. ASSUME NEW k \in Keys, NEW expected \in 0..MaxWrites, NEW v \in Values, Cas(k, expected, v)
      PROVE  WatchMatchesStore'
  <2> DEFINE n == kv[k].revision + 1
             e == [key |-> k, revision |-> n, value |-> v]
             last == Len(watch_events) + 1
  <2>1. /\ n \in Nat /\ kv[k].revision \in Nat /\ watch_events' = Append(watch_events, e)
        /\ kv' = [kv EXCEPT ![k] = [revision |-> n, value |-> v]]
        /\ watch_events \in Seq(Event)
    BY <1>1, CasAppends DEF AuthorityTypeOK
  <2>2. /\ last \in Nat /\ DOMAIN watch_events = 1..(last - 1) /\ DOMAIN watch_events' = 1..last
        /\ watch_events'[last] = e /\ last \in 1..last
        /\ \A i \in DOMAIN watch_events : watch_events'[i] = watch_events[i]
    BY <2>1
  <2>3. \A q \in Keys : /\ q = k => kv'[q].revision = n /\ kv'[q].value = v
                        /\ q # k => kv'[q] = kv[q]
    BY <2>1 DEF AuthorityTypeOK
  <2>4. \A i \in DOMAIN watch_events : /\ watch_events[i].key \in Keys /\ watch_events[i].revision \in Nat
                                       /\ watch_events[i].key = k => watch_events[i].revision < n
                                       /\ watch_events[i].revision <= kv[watch_events[i].key].revision
    <3>1. \A i \in DOMAIN watch_events : watch_events[i] \in Event
      BY <2>1
    <3>2. \A i \in DOMAIN watch_events : watch_events[i].key \in Keys /\ watch_events[i].revision \in Nat
      BY <3>1 DEF Event
    <3> QED
      BY <2>1, <3>2 DEF WatchMatchesStore
  <2>5. e.key = k /\ e.revision = n /\ e.value = v
    OBVIOUS
  <2> HIDE DEF n, e, last
  <2>6. ASSUME NEW i \in DOMAIN watch_events'
        PROVE  watch_events'[i].revision <= kv'[watch_events'[i].key].revision
    <3>1. CASE i = last
      BY <2>1, <2>2, <2>3, <2>5, <3>1
    <3>2. CASE i \in DOMAIN watch_events
      BY <2>1, <2>2, <2>3, <2>4, <3>2
    <3> QED
      BY <2>2, <3>1, <3>2
  <2>7. ASSUME NEW i \in DOMAIN watch_events', NEW j \in DOMAIN watch_events',
               i < j, watch_events'[i].key = watch_events'[j].key
        PROVE  watch_events'[i].revision < watch_events'[j].revision
    <3>1. i \in DOMAIN watch_events
      BY <2>2, <2>7
    <3>2. CASE j = last
      BY <2>2, <2>4, <2>5, <2>7, <3>1, <3>2
    <3>3. CASE j \in DOMAIN watch_events
      BY <2>2, <2>7, <3>1, <3>3 DEF WatchMatchesStore
    <3> QED
      BY <2>2, <3>2, <3>3
  <2>8. ASSUME NEW q \in Keys, NEW m \in 1..kv'[q].revision
        PROVE  \E i \in DOMAIN watch_events' :
                 /\ watch_events'[i].key = q /\ watch_events'[i].revision = m
                 /\ m = kv'[q].revision => watch_events'[i].value = kv'[q].value
    <3>1. CASE q = k /\ m = n
      BY <2>2, <2>3, <2>5, <3>1
    <3>2. CASE ~(q = k /\ m = n)
      <4>1. m \in 1..kv[q].revision
        BY <2>1, <2>3, <3>2 DEF n, AuthorityTypeOK
      <4>2. PICK i \in DOMAIN watch_events :
                 /\ watch_events[i].key = q /\ watch_events[i].revision = m
                 /\ m = kv[q].revision => watch_events[i].value = kv[q].value
        BY <4>1 DEF WatchMatchesStore
      <4>3. i \in DOMAIN watch_events' /\ watch_events'[i] = watch_events[i]
        BY <2>2
      <4> QED
        BY <2>3, <3>2, <4>2, <4>3
    <3> QED
      BY <3>1, <3>2
  <2> QED
    BY <2>6, <2>7, <2>8 DEF WatchMatchesStore
<1>2. CASE UNCHANGED <<kv, watch_events>>
  BY <1>2 DEF WatchMatchesStore
<1> QED
  BY <1>1, <1>2 DEF AuthorityNext, Claim, Grant, Renew, Extend, CommitIfCurrent, FireCronOnce,
     PerformSideEffectOnce, Advance, store

\* The invariant of the authority holds at the start and is kept.
LEMMA AuthorityStart == AuthorityInit => AuthorityInv
<1> SUFFICES ASSUME AuthorityInit PROVE AuthorityInv
  OBVIOUS
<1> DEFINE v0 == CHOOSE v \in Values : TRUE
<1>1. v0 \in Values /\ Cardinality({}) = 0 /\ IsFiniteSet({})
  BY FleetAuthorityAssumption, FS_EmptySet
<1>2. leases \in [Resources -> Lease] /\ \A r \in Resources : leases[r].fencing_token = 0
  BY DEF AuthorityInit, Lease
<1>3. kv \in [Keys -> [revision : Nat, value : Values]] /\ \A k \in Keys : kv[k].revision = 0
  BY <1>1 DEF AuthorityInit
<1>4. AuthorityTypeOK
  BY <1>1, <1>2, <1>3 DEF AuthorityInit, AuthorityTypeOK
<1>5. TokensCountGrants
  BY <1>1, <1>2 DEF AuthorityInit, TokensCountGrants
<1>6. WatchMatchesStore
  BY <1>3 DEF AuthorityInit, WatchMatchesStore
<1> QED
  BY <1>4, <1>5, <1>6 DEF AuthorityInv

\* A step of the whole coordinator is a step of the authority, a tick, or
\* leaves the authority alone.
LEMMA AuthorityPart ==
  ASSUME [FleetNext]_fvars
  PROVE  AuthorityNext \/ Advance \/ UNCHANGED avars
BY DEF FleetNext, AdvanceClock, CapacityNext, AcquireSlot, SetHolders, Heartbeat, Beat, WorkerIsAlive,
   ConsumeQuota, Consume, fvars

\* Every step keeps the invariant of the authority.
LEMMA AuthorityStep == AuthorityInv /\ [FleetNext]_fvars => AuthorityInv'
<1> SUFFICES ASSUME AuthorityInv, [FleetNext]_fvars PROVE AuthorityInv'
  OBVIOUS
<1>1. CASE AuthorityNext \/ Advance
  BY <1>1, AuthorityTypeStep, TokensStep, WatchStep DEF AuthorityInv
<1>2. CASE UNCHANGED avars
  BY <1>2 DEF avars, store, AuthorityInv, AuthorityTypeOK, TokensCountGrants, WatchMatchesStore
<1> QED
  BY <1>1, <1>2, AuthorityPart

\* Tokens count grants, and the watch events are the history of the store.
THEOREM AuthorityInvariant == FleetSpec => []AuthorityInv
<1>1. FleetInit => AuthorityInv
  BY AuthorityStart DEF FleetInit
<1> QED
  BY <1>1, AuthorityStep, PTL DEF FleetSpec

\* At most one of the leases ever returned for a resource is accepted.
THEOREM FleetOneAuthority == FleetSpec => []OneAuthority
<1>1. AuthorityInv => OneAuthority
  BY DEF AuthorityInv, TokensCountGrants, OneAuthority, Current, Matches
<1> QED
  BY <1>1, AuthorityInvariant, PTL

\* The watch events of a key are its revisions in order, none lost.
THEOREM FleetWatchComplete == FleetSpec => []WatchMatchesStore
<1>1. AuthorityInv => WatchMatchesStore
  BY DEF AuthorityInv
<1> QED
  BY <1>1, AuthorityInvariant, PTL

\* A step revives no lease that is refused: a claim gives a token that no copy
\* has, a renewal extends only what is current.
LEMMA NoRevival ==
  ASSUME AuthorityTypeOK, TokensCountGrants, AuthorityNext \/ Advance, NEW c \in copies, Current(c)'
  PROVE  Current(c)
<1>0. /\ c.resource \in Resources /\ c.fencing_token \in Nat /\ c.fencing_token <= next_fencing_token
      /\ leases[c.resource].expires_at \in Nat /\ now \in Nat /\ next_fencing_token \in Nat
  BY DEF AuthorityTypeOK, TokensCountGrants, Copy, Lease
<1>1. ASSUME NEW r \in Resources, NEW h \in Holders, NEW ttl \in Ttls, Claim(r, h, ttl) PROVE Current(c)
  <2>1. /\ UNCHANGED now
        /\ leases' = [leases EXCEPT ![r] = [holder |-> h, fencing_token |-> next_fencing_token + 1,
                                            expires_at |-> now + ttl]]
    BY <1>1, GrantIsNew
  <2>2. c.resource # r
    BY <1>0, <2>1 DEF Current, Matches, AuthorityTypeOK
  <2>3. leases'[c.resource] = leases[c.resource]
    BY <1>0, <2>1, <2>2 DEF AuthorityTypeOK
  <2> QED
    BY <2>1, <2>3 DEF Current, Matches
<1>2. ASSUME NEW d \in copies, NEW ttl \in Ttls, Renew(d, ttl) PROVE Current(c)
  <2>1. UNCHANGED now /\ leases[d.resource].expires_at > now
    BY <1>2 DEF Renew, Extend, Current
  <2>2. /\ leases'[c.resource].holder = leases[c.resource].holder
        /\ leases'[c.resource].fencing_token = leases[c.resource].fencing_token
        /\ c.resource # d.resource => leases'[c.resource].expires_at = leases[c.resource].expires_at
    BY <1>0, <1>2, RenewExtends
  <2> QED
    BY <2>1, <2>2 DEF Current, Matches
<1>3. CASE Advance
  BY <1>0, <1>3 DEF Advance, Current, Matches
<1>4. CASE UNCHANGED <<leases, now>>
  BY <1>4 DEF Current, Matches
<1> QED
  BY <1>1, <1>2, <1>3, <1>4 DEF AuthorityNext, CommitIfCurrent, FireCronOnce, Cas, Write,
     PerformSideEffectOnce

\* A lease that is refused once is refused for ever.
THEOREM FleetStaleStaysStale == FleetSpec => StaleStaysStale
<1> DEFINE Stays == \A c \in copies : ~Current(c) => ~Current(c)'
<1>1. AuthorityInv /\ [FleetNext]_fvars => [Stays]_avars
  BY AuthorityPart, NoRevival DEF AuthorityInv
<1> QED
  BY <1>1, AuthorityInvariant, PTL DEF FleetSpec, StaleStaysStale

\* Commits and fires on a resource come in the order of their grants.
THEOREM FleetCommitsInOrder == FleetSpec => CommitsInOrder
<1> DEFINE Ordered == \A r \in Resources : committed[r] <= committed'[r]
<1>1. AuthorityInv /\ [FleetNext]_fvars => [Ordered]_avars
  <2> SUFFICES ASSUME AuthorityInv, AuthorityNext \/ Advance PROVE Ordered
    BY AuthorityPart
  <2>0. \A r \in Resources : /\ committed[r] \in Nat /\ leases[r].fencing_token \in Nat
                             /\ committed[r] <= leases[r].fencing_token
    BY DEF AuthorityInv, AuthorityTypeOK, TokensCountGrants, Lease
  <2>1. ASSUME NEW c \in copies, CommitIfCurrent(c) \/ \E j \in Jobs : FireCronOnce(c, j) PROVE Ordered
    <3>1. /\ c.resource \in Resources /\ c.grant = leases[c.resource].fencing_token
          /\ committed' = [committed EXCEPT ![c.resource] = c.grant]
          /\ committed \in [Resources -> Nat]
      BY <2>1 DEF AuthorityInv, AuthorityTypeOK, Copy, TokensCountGrants, CommitIfCurrent, FireCronOnce,
         Current, Matches
    <3> QED
      BY <2>0, <3>1
  <2>2. CASE UNCHANGED committed
    BY <2>0, <2>2
  <2> QED
    BY <2>1, <2>2 DEF AuthorityNext, Claim, Grant, Renew, Extend, Cas, Write, PerformSideEffectOnce, Advance
<1> QED
  BY <1>1, AuthorityInvariant, PTL DEF FleetSpec, CommitsInOrder

-----------------------------------------------------------------------------
(* Capacity *)

\* What the actions do to the clock and to each of the counted things.
LEMMA CapacityPart ==
  ASSUME [FleetNext]_fvars
  PROVE  \/ AdvanceClock
         \/ \E w \in Workers, ttl \in Ttls : AcquireSlot(w, ttl) /\ UNCHANGED now
         \/ \E w \in Workers, ttl \in Ttls : Heartbeat(w, ttl) /\ UNCHANGED now
         \/ \E w \in Workers : WorkerIsAlive(w) /\ UNCHANGED now
         \/ \E units \in 1..(QuotaCapacity + 1) : ConsumeQuota(units) /\ UNCHANGED now
         \/ UNCHANGED <<now, capvars>>
BY DEF FleetNext, CapacityNext, AuthorityNext, Claim, Grant, Renew, Extend, CommitIfCurrent, FireCronOnce,
   Cas, Write, PerformSideEffectOnce, AcquireSlot, SetHolders, Heartbeat, Beat, WorkerIsAlive, ConsumeQuota,
   Consume, fvars, avars

\* The window a call sees, as ConsumeQuota finds or opens it.
Seen == IF quota.open /\ now < quota.starts_at + Window THEN quota
        ELSE [open |-> TRUE, starts_at |-> now, used |-> 0]

\* The facts about time that the quota needs.
LEMMA Clock ==
  ASSUME now \in Nat, now <= MaxTime
  PROVE  now + 1 \in Times /\ now \in Times /\ Window \in Nat \ {0} /\ Times \subseteq Nat /\ QuotaCapacity \in Nat
         /\ \A t \in 0..MaxTime : t \in Times /\ t + Window \in Times
BY FleetAuthorityAssumption, FleetAssumption DEF Times

\* A time before another one.
LEMMA Earlier ==
  ASSUME NEW t \in Times, NEW s \in Nat, s <= t
  PROVE  s \in Times
BY FleetAuthorityAssumption, FleetAssumption DEF Times

\* Opening a window, or going on in it, keeps what is known about the grants:
\* nothing was granted since the end of the last one.
LEMMA SeenWindow ==
  ASSUME now \in Nat, CapacityTypeOK, QuotaInv
  PROVE  /\ Seen \in [open : BOOLEAN, starts_at : Nat, used : 0..QuotaCapacity]
         /\ Seen.open /\ Seen.starts_at <= now /\ now < Seen.starts_at + Window
         /\ granted[Seen.starts_at] + Seen.used = Total
         /\ \A t \in Times : t > now => granted[t] = Total
         /\ \A t \in Times : t <= Seen.starts_at /\ t + Window > Seen.starts_at
              => granted[Seen.starts_at] <= granted[t] + QuotaCapacity
<1>0. /\ now + 1 \in Times /\ now \in Times /\ Window \in Nat \ {0} /\ Times \subseteq Nat
      /\ QuotaCapacity \in Nat /\ \A t \in Times : granted[t] \in Nat
  BY Clock DEF CapacityTypeOK
<1>1. CASE quota.open /\ now < quota.starts_at + Window
  BY <1>0, <1>1 DEF Seen, QuotaInv, CapacityTypeOK
<1>2. CASE ~(quota.open /\ now < quota.starts_at + Window)
  <2> DEFINE w == [open |-> TRUE, starts_at |-> now, used |-> 0]
  <2>1. Seen = w /\ w.open /\ w.starts_at = now /\ w.used = 0
    BY <1>2 DEF Seen
  <2>2. w \in [open : BOOLEAN, starts_at : Nat, used : 0..QuotaCapacity] /\ now < now + Window
    BY <1>0
  <2>3. granted[now] = Total /\ \A t \in Times : t > now => granted[t] = Total
    <3>1. CASE quota.open
      BY <1>0, <1>2, <3>1 DEF QuotaInv, CapacityTypeOK
    <3>2. CASE ~quota.open
      BY <1>0, <3>2 DEF QuotaInv, Total
    <3> QED
      BY <3>1, <3>2
  <2>4. ASSUME NEW t \in Times, t <= now, t + Window > now PROVE granted[now] <= granted[t] + QuotaCapacity
    <3>1. CASE quota.open
      <4>1. /\ quota.starts_at \in Nat /\ quota.used \in Nat /\ quota.used <= QuotaCapacity
            /\ quota.starts_at <= now /\ granted[quota.starts_at] + quota.used = Total
        BY <1>0, <3>1 DEF QuotaInv, CapacityTypeOK
      <4>2. t \in Nat /\ quota.starts_at <= t
        BY <1>0, <1>2, <2>4, <3>1, <4>1
      <4>3. quota.starts_at \in Times
        BY <1>0, <4>1, Earlier
      <4>4. granted[quota.starts_at] <= granted[t]
        BY <4>2, <4>3 DEF CapacityTypeOK
      <4> QED
        BY <1>0, <2>3, <4>1, <4>3, <4>4
    <3>2. CASE ~quota.open
      BY <1>0, <3>2 DEF QuotaInv
    <3> QED
      BY <3>1, <3>2
  <2> QED
    BY <1>0, <2>1, <2>2, <2>3, <2>4
<1> QED
  BY <1>1, <1>2

\* The part of CapacityIsBounded that is about the quota.
SpansBounded == \A t \in 0..MaxTime : granted[t + Window] <= granted[t] + 2 * QuotaCapacity

\* A call on the quota keeps the invariant and the bound: a span that ends now
\* reaches back into the window before at most, which granted no more than the
\* capacity within that distance.
LEMMA QuotaStep ==
  ASSUME now \in Nat, CapacityTypeOK, QuotaInv, SpansBounded, UNCHANGED now,
         NEW units \in 1..(QuotaCapacity + 1), ConsumeQuota(units)
  PROVE  CapacityTypeOK' /\ QuotaInv' /\ SpansBounded'
<1> DEFINE w == Seen
           start == w.starts_at
<1>0. /\ now + 1 \in Times /\ now \in Times /\ Window \in Nat \ {0} /\ Times \subseteq Nat
      /\ QuotaCapacity \in Nat /\ \A t \in Times : granted[t] \in Nat
      /\ \A t \in 0..MaxTime : t \in Times /\ t + Window \in Times
  BY Clock DEF CapacityTypeOK
<1>1. /\ w \in [open : BOOLEAN, starts_at : Nat, used : 0..QuotaCapacity]
      /\ w.open /\ start <= now /\ now < start + Window
      /\ granted[start] + w.used = Total
      /\ \A t \in Times : t > now => granted[t] = Total
      /\ \A t \in Times : t <= start /\ t + Window > start => granted[start] <= granted[t] + QuotaCapacity
  BY SeenWindow
<1>2. start \in Nat /\ w.used \in Nat /\ w.used <= QuotaCapacity /\ units \in Nat /\ Total \in Nat
  BY <1>0, <1>1 DEF Total
<1>3. start \in Times /\ granted[start] \in Nat
  BY <1>0, <1>1, <1>2, Earlier
<1>4. Consume(w, units)
  BY DEF ConsumeQuota, Seen
<1>5. UNCHANGED <<holders, heartbeats, heartbeat_expired, beats, noticed>>
  BY <1>4 DEF Consume
<1> HIDE DEF w
<1>6. CASE units > QuotaCapacity - w.used
  <2>1. quota' = w /\ UNCHANGED granted
    BY <1>4, <1>6 DEF Consume
  <2>2. CapacityTypeOK'
    BY <1>1, <1>5, <2>1 DEF CapacityTypeOK
  <2>3. Total' = Total
    BY <2>1 DEF Total
  <2>4. \A t \in Times : t > now \/ t >= start + Window => granted[t] = Total
    BY <1>0, <1>1, <1>2
  <2>5. QuotaInv'
    BY <1>1, <2>1, <2>3, <2>4 DEF QuotaInv
  <2> QED
    BY <2>1, <2>2, <2>5 DEF SpansBounded
<1>7. CASE ~(units > QuotaCapacity - w.used)
  <2>1. /\ quota' = [w EXCEPT !.used = @ + units]
        /\ granted' = [t \in Times |-> granted[t] + IF t > now THEN units ELSE 0]
    BY <1>4, <1>7 DEF Consume
  <2>2. w.used + units \in 0..QuotaCapacity
    BY <1>0, <1>2, <1>7
  <2>3. /\ quota' \in [open : BOOLEAN, starts_at : Nat, used : 0..QuotaCapacity]
        /\ quota'.open /\ quota'.starts_at = start /\ quota'.used = w.used + units
    BY <1>1, <2>1, <2>2
  <2>4. \A t \in Times : /\ t > now => granted'[t] = granted[t] + units
                         /\ t <= now => granted'[t] = granted[t]
    BY <1>0, <1>2, <2>1
  <2>5. granted' \in [Times -> Nat] /\ \A s, t \in Times : s <= t => granted'[s] <= granted'[t]
    <3>1. granted' \in [Times -> Nat]
      BY <1>0, <1>2, <2>1
    <3>2. ASSUME NEW s \in Times, NEW t \in Times, s <= t PROVE granted'[s] <= granted'[t]
      <4>1. granted[s] <= granted[t] /\ s \in Nat /\ t \in Nat /\ granted[s] \in Nat /\ granted[t] \in Nat
        BY <1>0, <3>2 DEF CapacityTypeOK
      <4> QED
        BY <1>2, <2>4, <3>2, <4>1
    <3> QED
      BY <3>1, <3>2
  <2>6. CapacityTypeOK'
    BY <1>5, <2>3, <2>5 DEF CapacityTypeOK
  <2>7. Total' = Total + units
    BY <1>0, <2>4 DEF Total
  <2>8. granted'[start] = granted[start]
    BY <1>1, <1>3, <2>4
  <2>9. QuotaInv'
    <3>1. start <= now' /\ granted'[start] + quota'.used = Total'
      BY <1>1, <1>2, <1>3, <2>3, <2>7, <2>8
    <3>2. \A t \in Times : t > now' \/ t >= start + Window => granted'[t] = Total'
      BY <1>0, <1>1, <1>2, <2>4, <2>7
    <3>3. \A t \in Times : t <= start /\ t + Window > start => granted'[start] <= granted'[t] + QuotaCapacity
      BY <1>0, <1>1, <1>2, <2>4, <2>8
    <3> QED
      BY <2>3, <3>1, <3>2, <3>3 DEF QuotaInv
  <2>10. ASSUME NEW t \in 0..MaxTime PROVE granted'[t + Window] <= granted'[t] + 2 * QuotaCapacity
    <3>0. /\ t \in Nat /\ t \in Times /\ t + Window \in Times
          /\ granted[t] \in Nat /\ granted[t + Window] \in Nat
          /\ granted[t + Window] <= granted[t] + 2 * QuotaCapacity
      BY <1>0 DEF SpansBounded
    <3>1. CASE t > now
      BY <1>0, <1>2, <2>4, <3>0, <3>1
    <3>2. CASE t + Window <= now
      BY <1>0, <1>2, <2>4, <3>0, <3>2
    <3>3. CASE t <= now /\ now < t + Window
      <4>1. granted'[t] = granted[t] /\ granted'[t + Window] = granted[start] + (w.used + units)
        BY <1>0, <1>1, <1>2, <1>3, <2>4, <3>0, <3>3
      <4>2. CASE start <= t
        <5>1. granted[start] <= granted[t]
          BY <1>3, <3>0, <4>2 DEF CapacityTypeOK
        <5> QED
          BY <1>0, <1>2, <1>3, <2>2, <3>0, <4>1, <5>1
      <4>3. CASE t < start
        <5>1. granted[start] <= granted[t] + QuotaCapacity
          BY <1>0, <1>1, <1>2, <3>0, <3>3, <4>3
        <5> QED
          BY <1>0, <1>2, <1>3, <2>2, <3>0, <4>1, <5>1
      <4> QED
        BY <1>2, <3>0, <4>2, <4>3
    <3> QED
      BY <1>0, <3>0, <3>1, <3>2, <3>3
  <2> QED
    BY <2>6, <2>9, <2>10 DEF SpansBounded
<1> QED
  BY <1>6, <1>7

\* The other steps keep the types, the window and the bound.
LEMMA QuotaOtherStep ==
  ASSUME now \in Nat, CapacityTypeOK, QuotaInv, SpansBounded,
         \/ AdvanceClock
         \/ \E w \in Workers, ttl \in Ttls : AcquireSlot(w, ttl) /\ UNCHANGED now
         \/ \E w \in Workers, ttl \in Ttls : Heartbeat(w, ttl) /\ UNCHANGED now
         \/ \E w \in Workers : WorkerIsAlive(w) /\ UNCHANGED now
         \/ UNCHANGED <<now, capvars>>
  PROVE  CapacityTypeOK' /\ QuotaInv' /\ SpansBounded'
<1>0. UNCHANGED <<quota, granted>>
  BY DEF AdvanceClock, AcquireSlot, SetHolders, Heartbeat, Beat, WorkerIsAlive, capvars
<1>1. CASE AdvanceClock
  <2>1. now' = now + 1 /\ now' \in Nat /\ now' <= MaxTime
    BY <1>1, FleetAuthorityAssumption DEF AdvanceClock, Advance
  <2>3. CapacityTypeOK'
    BY <1>0, <1>1, <2>1 DEF AdvanceClock, capvars, CapacityTypeOK
  <2>4. now + 1 \in Times /\ now + 1 + 1 \in Times /\ Times \subseteq Nat
    BY <2>1, FleetAuthorityAssumption, FleetAssumption DEF Times
  <2>5. Total' = Total
    <3>1. CASE quota.open
      BY <1>0, <2>1, <2>4, <3>1 DEF QuotaInv, Total
    <3>2. CASE ~quota.open
      BY <1>0, <2>1, <2>4, <3>2 DEF QuotaInv, Total
    <3> QED
      BY <3>1, <3>2
  <2>6. QuotaInv'
    <3>1. CASE quota.open
      <4>1. quota.starts_at \in Nat
        BY DEF CapacityTypeOK
      <4>2. quota.starts_at <= now' /\ \A t \in Times : t > now' => t > now
        BY <2>1, <2>4, <3>1, <4>1 DEF QuotaInv
      <4> QED
        BY <1>0, <2>5, <3>1, <4>2 DEF QuotaInv
    <3>2. CASE ~quota.open
      BY <1>0, <3>2 DEF QuotaInv
    <3> QED
      BY <3>1, <3>2
  <2> QED
    BY <1>0, <2>3, <2>6 DEF SpansBounded
<1>2. CASE UNCHANGED now /\ CapacityTypeOK'
  BY <1>0, <1>2 DEF QuotaInv, SpansBounded, Total
<1>3. ASSUME NEW w \in Workers, NEW ttl \in Ttls, AcquireSlot(w, ttl) \/ Heartbeat(w, ttl), UNCHANGED now
      PROVE  CapacityTypeOK'
  <2>1. now + ttl \in Nat
    BY FleetAuthorityAssumption
  <2>2. Retained \in [Workers -> Nat]
    BY DEF Retained, CapacityTypeOK
  <2> QED
    BY <1>0, <1>3, <2>1, <2>2 DEF CapacityTypeOK, AcquireSlot, SetHolders, Heartbeat, Beat
<1>4. ASSUME NEW w \in Workers, WorkerIsAlive(w), UNCHANGED now PROVE CapacityTypeOK'
  BY <1>0, <1>4 DEF CapacityTypeOK, WorkerIsAlive
<1>5. ASSUME UNCHANGED <<now, capvars>> PROVE CapacityTypeOK'
  BY <1>5 DEF CapacityTypeOK, capvars
<1> QED
  BY <1>1, <1>2, <1>3, <1>4, <1>5

\* Every step keeps the pool within its capacity: the clock only frees slots,
\* a holder that extends takes none, and another one takes a slot that is free
\* once the expired ones are gone.
LEMMA SlotsStep ==
  ASSUME now \in Nat, CapacityTypeOK, SlotsWithinCapacity, [FleetNext]_fvars
  PROVE  SlotsWithinCapacity'
<1> DEFINE Held == {w \in Workers : holders[w] > now}
<1>0. IsFiniteSet(Held) /\ Cardinality(Held) \in Nat /\ Cardinality(Held) <= SlotCapacity /\ SlotCapacity \in Nat
  BY FS_Subset, FS_CardinalityType, FleetAssumption DEF SlotsWithinCapacity
<1>1. ASSUME NEW S, S \subseteq Held, S = {w \in Workers : holders'[w] > now'} PROVE SlotsWithinCapacity'
  <2>1. Cardinality(S) \in Nat /\ Cardinality(S) <= Cardinality(Held)
    BY <1>0, <1>1, FS_Subset, FS_CardinalityType
  <2>2. Cardinality(S) <= SlotCapacity
    BY <1>0, <2>1
  <2> QED
    BY <1>1, <2>2 DEF SlotsWithinCapacity
<1>2. ASSUME NEW w \in Workers, NEW ttl \in Ttls, AcquireSlot(w, ttl), UNCHANGED now
      PROVE  SlotsWithinCapacity'
  <2> DEFINE S == {v \in Workers : holders'[v] > now'}
  <2>1. \A v \in Workers : /\ Retained[v] = IF holders[v] > now THEN holders[v] ELSE 0
                           /\ Retained[v] > 0 <=> v \in Held
                           /\ Retained[v] > now <=> v \in Held
    BY DEF Retained, CapacityTypeOK
  <2>2. Occupied(Retained) = Cardinality(Held)
    <3>1. {v \in Workers : Retained[v] > 0} = Held
      BY <2>1
    <3> QED
      BY <3>1 DEF Occupied
  <2>3. CASE Retained[w] = 0 /\ Occupied(Retained) >= SlotCapacity
    <3>1. holders' = Retained
      BY <1>2, <2>3 DEF AcquireSlot, SetHolders
    <3>2. S \subseteq Held
      BY <1>2, <2>1, <3>1
    <3> QED
      BY <1>1, <3>2
  <2>4. CASE ~(Retained[w] = 0 /\ Occupied(Retained) >= SlotCapacity)
    <3>1. holders' = [Retained EXCEPT ![w] = now + ttl] /\ DOMAIN Retained = Workers
      BY <1>2, <2>4 DEF AcquireSlot, SetHolders, Retained
    <3>2. \A v \in Workers : v # w => holders'[v] = Retained[v]
      BY <3>1
    <3>3. S \subseteq Held \cup {w}
      BY <1>2, <2>1, <3>2
    <3>4. CASE w \in Held
      BY <1>1, <3>3, <3>4
    <3>5. CASE w \notin Held
      <4>1. Cardinality(Held) < SlotCapacity
        <5>1. Retained[w] = 0
          BY <2>1, <3>5
        <5> QED
          BY <1>0, <2>2, <2>4, <5>1
      <4>2. IsFiniteSet(Held \cup {w}) /\ Cardinality(Held \cup {w}) = Cardinality(Held) + 1
        BY <1>0, <3>5, FS_AddElement
      <4>3. Cardinality(S) \in Nat /\ Cardinality(S) <= Cardinality(Held \cup {w})
        BY <3>3, <4>2, FS_Subset, FS_CardinalityType
      <4>4. Cardinality(S) <= SlotCapacity
        BY <1>0, <4>1, <4>2, <4>3
      <4> QED
        BY <4>4 DEF SlotsWithinCapacity
    <3> QED
      BY <3>4, <3>5
  <2> QED
    BY <2>3, <2>4
<1>3. CASE AdvanceClock
  <2>1. {w \in Workers : holders'[w] > now'} \subseteq Held
    BY <1>3 DEF AdvanceClock, Advance, capvars, CapacityTypeOK
  <2> QED
    BY <1>1, <2>1
<1>4. CASE UNCHANGED <<now, holders>>
  BY <1>4 DEF SlotsWithinCapacity
<1> QED
  BY CapacityPart, <1>2, <1>3, <1>4 DEF Heartbeat, Beat, WorkerIsAlive, ConsumeQuota, Consume, capvars

\* Every step keeps the count and the record in step with what was noticed.
LEMMA LapsesStep ==
  ASSUME now \in Nat, CapacityTypeOK, LapsesInv, [FleetNext]_fvars
  PROVE  LapsesInv'
<1> DEFINE Counted(v) == /\ IsFiniteSet(noticed[v]) /\ heartbeat_expired[v] = Cardinality(noticed[v])
                         /\ \A n \in noticed[v] : n <= beats[v]
                         /\ v \in expired_heartbeats_recorded <=> beats[v] \in noticed[v]
<1> SUFFICES ASSUME NEW v \in Workers PROVE Counted(v)'
  BY DEF LapsesInv
<1>0. /\ heartbeat_expired[v] \in Nat /\ beats[v] \in Nat /\ noticed[v] \in SUBSET Nat
      /\ Counted(v)
  BY DEF CapacityTypeOK, LapsesInv
<1>1. ASSUME NEW w \in Workers, NEW ttl \in Ttls, Heartbeat(w, ttl) PROVE Counted(v)'
  <2>1. UNCHANGED <<heartbeat_expired, noticed>>
    BY <1>1 DEF Heartbeat, Beat
  <2>2. CASE v = w
    <3>1. beats'[v] = beats[v] + 1 /\ v \notin expired_heartbeats_recorded'
      BY <1>1, <2>2 DEF Heartbeat, Beat, CapacityTypeOK
    <3> QED
      BY <1>0, <2>1, <3>1
  <2>3. CASE v # w
    <3>1. /\ beats'[v] = beats[v]
          /\ v \in expired_heartbeats_recorded' <=> v \in expired_heartbeats_recorded
      BY <1>1, <2>3 DEF Heartbeat, Beat, CapacityTypeOK
    <3> QED
      BY <1>0, <2>1, <3>1
  <2> QED
    BY <2>2, <2>3
<1>2. ASSUME NEW w \in Workers, WorkerIsAlive(w) PROVE Counted(v)'
  <2>1. UNCHANGED beats
    BY <1>2 DEF WorkerIsAlive
  <2>2. CASE v = w
    <3>1. noticed'[v] = noticed[v] \cup {beats[v]} /\ v \in expired_heartbeats_recorded'
      BY <1>2, <2>2 DEF WorkerIsAlive, CapacityTypeOK
    <3>2. /\ IsFiniteSet(noticed[v] \cup {beats[v]})
          /\ Cardinality(noticed[v] \cup {beats[v]}) =
               IF beats[v] \in noticed[v] THEN Cardinality(noticed[v]) ELSE Cardinality(noticed[v]) + 1
      BY <1>0, FS_AddElement
    <3>3. heartbeat_expired'[v] = IF beats[v] \in noticed[v] THEN heartbeat_expired[v] ELSE heartbeat_expired[v] + 1
      BY <1>0, <1>2, <2>2 DEF WorkerIsAlive, CapacityTypeOK
    <3>4. heartbeat_expired'[v] = Cardinality(noticed'[v]) /\ IsFiniteSet(noticed'[v])
      BY <1>0, <3>1, <3>2, <3>3
    <3>5. (\A n \in noticed'[v] : n <= beats'[v]) /\ beats'[v] \in noticed'[v]
      BY <1>0, <2>1, <3>1
    <3> QED
      BY <3>1, <3>4, <3>5
  <2>3. CASE v # w
    <3>1. /\ noticed'[v] = noticed[v] /\ heartbeat_expired'[v] = heartbeat_expired[v]
          /\ v \in expired_heartbeats_recorded' <=> v \in expired_heartbeats_recorded
      BY <1>2, <2>3 DEF WorkerIsAlive, CapacityTypeOK
    <3> QED
      BY <1>0, <2>1, <3>1
  <2> QED
    BY <2>2, <2>3
<1>3. CASE UNCHANGED <<beats, noticed, expired_heartbeats_recorded, heartbeat_expired>>
  BY <1>0, <1>3
<1> QED
  BY CapacityPart, <1>1, <1>2, <1>3 DEF AdvanceClock, AcquireSlot, SetHolders, ConsumeQuota, Consume, capvars

\* What the capacities keep, together.
CapacityAll == CapacityInv /\ SpansBounded /\ SlotsWithinCapacity

\* It holds at the start.
LEMMA CapacityStart == FleetInit => CapacityAll
<1> SUFFICES ASSUME FleetInit PROVE CapacityAll
  OBVIOUS
<1>0. now = 0 /\ MaxTime \in Nat /\ QuotaCapacity \in Nat /\ SlotCapacity \in Nat /\ Window \in Nat
  BY FleetAuthorityAssumption, FleetAssumption DEF FleetInit, AuthorityInit
<1>1. CapacityTypeOK
  BY <1>0 DEF FleetInit, CapacityInit, CapacityTypeOK
<1>2. QuotaInv
  BY DEF FleetInit, CapacityInit, QuotaInv
<1>3. LapsesInv
  <2>1. IsFiniteSet({}) /\ Cardinality({}) = 0
    BY FS_EmptySet, Zenon
  <2> QED
    BY <2>1 DEF FleetInit, CapacityInit, LapsesInv
<1>4. SpansBounded
  <2>1. \A t \in 0..MaxTime : granted[t] = 0 /\ granted[t + Window] = 0
    BY <1>0 DEF FleetInit, CapacityInit, Times
  <2> QED
    BY <1>0, <2>1 DEF SpansBounded
<1>5. SlotsWithinCapacity
  <2>1. {w \in Workers : holders[w] > now} = {}
    BY <1>0 DEF FleetInit, CapacityInit
  <2>2. Cardinality({}) = 0
    BY FS_EmptySet, Zenon
  <2> QED
    BY <1>0, <2>1, <2>2 DEF SlotsWithinCapacity
<1> QED
  BY <1>1, <1>2, <1>3, <1>4, <1>5 DEF CapacityAll, CapacityInv

\* Every step keeps it.
LEMMA CapacityStep == AuthorityInv /\ CapacityAll /\ [FleetNext]_fvars => CapacityAll'
<1> SUFFICES ASSUME AuthorityInv, CapacityAll, [FleetNext]_fvars PROVE CapacityAll'
  OBVIOUS
<1>0. now \in Nat /\ CapacityTypeOK /\ QuotaInv /\ LapsesInv /\ SpansBounded /\ SlotsWithinCapacity
  BY DEF AuthorityInv, AuthorityTypeOK, CapacityAll, CapacityInv
<1>1. CapacityTypeOK' /\ QuotaInv' /\ SpansBounded'
  BY <1>0, CapacityPart, QuotaStep, QuotaOtherStep
<1> QED
  BY <1>0, <1>1, LapsesStep, SlotsStep DEF CapacityAll, CapacityInv

\* The invariant of slots, quota and heartbeats.
THEOREM CapacityInvariant == FleetSpec => []CapacityAll
BY CapacityStart, CapacityStep, AuthorityInvariant, PTL DEF FleetSpec

\* The pool is never over its capacity, and a span as long as the quota's window
\* grants at most twice its capacity.
THEOREM FleetCapacityBounded == FleetSpec => []CapacityIsBounded
<1>1. CapacityAll => CapacityIsBounded
  BY DEF CapacityAll, SpansBounded, CapacityIsBounded
<1> QED
  BY <1>1, CapacityInvariant, PTL

\* Every lapse of a worker that somebody noticed is counted, once.
THEOREM FleetLapsesCountedOnce == FleetSpec => []LapsesCountedOnce
<1>1. CapacityAll => LapsesCountedOnce
  BY DEF CapacityAll, CapacityInv, LapsesInv, LapsesCountedOnce
<1> QED
  BY <1>1, CapacityInvariant, PTL
=============================================================================
