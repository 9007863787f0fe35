---------------------------- MODULE FleetAuthority ----------------------------
(***************************************************************************)
(* The decisions about authority of the reference fleet's Coordinator      *)
(* (tools/reference-fleet/src/lib.rs): leases with fencing tokens, cron    *)
(* fires under a leader's lease, compare-and-swap with watch events, and   *)
(* side effects under an idempotency key.                                  *)
(*                                                                         *)
(* Every method takes &mut self, so one call is one step.  Callers keep    *)
(* the leases they were given (copies) and may use an old one at any time. *)
(* The clock and the tokens are u64 and stay far below saturation.  The    *)
(* metrics are counters that nothing reads and are left out, and so are    *)
(* calls that only count a refusal.                                        *)
(***************************************************************************)
EXTENDS Naturals, Sequences, FiniteSets

CONSTANTS Resources, Holders, NoHolder, Ttls, Jobs, Keys, Values, EffectKeys,
  MaxTime,    \* bound: logical seconds
  MaxClaims,  \* bound: leases granted
  MaxWrites   \* bound: successful writes

ASSUME FleetAuthorityAssumption ==
  /\ NoHolder \notin Holders /\ Ttls \subseteq Nat \ {0} /\ Values # {}
  /\ MaxTime \in Nat /\ MaxClaims \in Nat /\ MaxWrites \in Nat

VARIABLES
  now, next_fencing_token, leases, cron_fires, kv, watch_events, side_effects,
  copies,     \* history: the leases that claim returned, numbered by grant
  committed   \* history: grant of the last accepted commit or fire, by resource

store == <<kv, watch_events, side_effects>>
avars == <<now, next_fencing_token, leases, cron_fires, store, copies, committed>>

\* An absent lease behaves like one that has expired, an absent key like one
\* of revision 0.
AuthorityInit ==
  /\ now = 0 /\ next_fencing_token = 0
  /\ leases = [r \in Resources |-> [holder |-> NoHolder, fencing_token |-> 0, expires_at |-> 0]]
  /\ cron_fires = {} /\ side_effects = {}
  /\ kv = [k \in Keys |-> [revision |-> 0, value |-> CHOOSE v \in Values : TRUE]] /\ watch_events = <<>>
  /\ copies = {} /\ committed = [r \in Resources |-> 0]

Advance ==
  /\ now < MaxTime /\ now' = now + 1
  /\ UNCHANGED <<next_fencing_token, leases, cron_fires, store, copies, committed>>

Grant(r, h, ttl, token) ==
  /\ Cardinality(copies) < MaxClaims
  /\ next_fencing_token' = token
  /\ leases' = [leases EXCEPT ![r] = [holder |-> h, fencing_token |-> token, expires_at |-> now + ttl]]
  /\ copies' = copies \cup
       {[resource |-> r, holder |-> h, fencing_token |-> token, grant |-> Cardinality(copies) + 1]}
  /\ UNCHANGED <<now, cron_fires, store, committed>>

\* Faulty variant: the last winner gets its old token again.
ClaimSameHolder(r, h, ttl) ==
  /\ leases[r].expires_at <= now
  /\ LET again == leases[r].holder = h /\ leases[r].fencing_token = next_fencing_token
     IN  Grant(r, h, ttl, IF again THEN next_fencing_token ELSE next_fencing_token + 1)

\* claim is refused while the lease is live, also to its holder.
Claim(r, h, ttl) == leases[r].expires_at <= now /\ Grant(r, h, ttl, next_fencing_token + 1)

Matches(c) ==
  leases[c.resource].holder = c.holder /\ leases[c.resource].fencing_token = c.fencing_token

\* The condition of commit_if_current.
Current(c) == leases[c.resource].expires_at > now /\ Matches(c)

Extend(c, ttl) ==
  /\ leases' = [leases EXCEPT ![c.resource].expires_at = now + ttl]
  /\ UNCHANGED <<now, next_fencing_token, cron_fires, store, copies, committed>>

\* Faulty variant: an expired lease is renewed.
RenewExpired(c, ttl) == Matches(c) /\ Extend(c, ttl)

Renew(c, ttl) == Current(c) /\ Extend(c, ttl)

\* Faulty variant: the caller's lease is not compared.
CommitUnfenced(c) ==
  /\ committed' = [committed EXCEPT ![c.resource] = c.grant]
  /\ UNCHANGED <<now, next_fencing_token, leases, cron_fires, store, copies>>

CommitIfCurrent(c) ==
  /\ Current(c)
  /\ committed' = [committed EXCEPT ![c.resource] = c.grant]
  /\ UNCHANGED <<now, next_fencing_token, leases, cron_fires, store, copies>>

\* A fire commits under the leader's lease, then is inserted once.
FireCronOnce(c, j) ==
  /\ Current(c) /\ j \notin cron_fires
  /\ cron_fires' = cron_fires \cup {j}
  /\ committed' = [committed EXCEPT ![c.resource] = c.grant]
  /\ UNCHANGED <<now, next_fencing_token, leases, store, copies>>

Write(k, revision, v) ==
  /\ Len(watch_events) < MaxWrites
  /\ kv' = [kv EXCEPT ![k] = [revision |-> revision, value |-> v]]
  /\ watch_events' = Append(watch_events, [key |-> k, revision |-> revision, value |-> v])
  /\ UNCHANGED <<now, next_fencing_token, leases, cron_fires, side_effects, copies, committed>>

\* Faulty variant: the writer's revision is believed.
CasBlind(k, expected, v) == expected < MaxWrites /\ Write(k, expected + 1, v)

Cas(k, expected, v) == kv[k].revision = expected /\ Write(k, kv[k].revision + 1, v)

PerformSideEffectOnce(e) ==
  /\ e \notin side_effects /\ side_effects' = side_effects \cup {e}
  /\ UNCHANGED <<now, next_fencing_token, leases, cron_fires, kv, watch_events, copies, committed>>

AuthorityNext ==
  \/ \E r \in Resources, h \in Holders, ttl \in Ttls : Claim(r, h, ttl)
  \/ \E c \in copies, ttl \in Ttls : Renew(c, ttl)
  \/ \E c \in copies : CommitIfCurrent(c) \/ \E j \in Jobs : FireCronOnce(c, j)
  \/ \E k \in Keys, expected \in 0..MaxWrites, v \in Values : Cas(k, expected, v)
  \/ \E e \in EffectKeys : PerformSideEffectOnce(e)

-----------------------------------------------------------------------------
(* Properties *)

\* Of all the leases ever returned for a resource at most one is accepted by
\* commit_if_current, whatever expired, was renewed or claimed again.
OneAuthority ==
  \A c, d \in copies : c.resource = d.resource /\ Current(c) /\ Current(d) => c = d

\* A lease that commit_if_current would refuse is refused for ever: neither a
\* renewal nor a later grant, to the same holder or another, revives it.
StaleStaysStale == [][\A c \in copies : ~Current(c) => ~Current(c)']_avars

\* The commits and the fires accepted on a resource come in the order of their
\* grants: a superseded holder never overwrites its successor, and a job that a
\* former leader fires late is refused.
CommitsInOrder == [][\A r \in Resources : committed[r] <= committed'[r]]_avars

\* The watch events of a key are its revisions 1, 2, ... in order and end with
\* what is stored: no successful write is lost between two others.
WatchMatchesStore ==
  /\ \A i \in DOMAIN watch_events : watch_events[i].revision <= kv[watch_events[i].key].revision
  /\ \A i, j \in DOMAIN watch_events :
       i < j /\ watch_events[i].key = watch_events[j].key => watch_events[i].revision < watch_events[j].revision
  /\ \A k \in Keys : \A n \in 1..kv[k].revision : \E i \in DOMAIN watch_events :
       /\ watch_events[i].key = k /\ watch_events[i].revision = n
       /\ n = kv[k].revision => watch_events[i].value = kv[k].value

-----------------------------------------------------------------------------
(* The inductive invariant of the proofs *)

Lease == [holder : Holders \cup {NoHolder}, fencing_token : Nat, expires_at : Nat]
Copy == [resource : Resources, holder : Holders, fencing_token : Nat, grant : Nat]
Event == [key : Keys, revision : Nat \ {0}, value : Values]

AuthorityTypeOK ==
  /\ now \in Nat /\ next_fencing_token \in Nat
  /\ leases \in [Resources -> Lease] /\ committed \in [Resources -> Nat]
  /\ copies \subseteq Copy /\ IsFiniteSet(copies)
  /\ kv \in [Keys -> [revision : Nat, value : Values]] /\ watch_events \in Seq(Event)

\* Each grant has a token of its own, and no lease or commit is ahead of them.
TokensCountGrants ==
  /\ next_fencing_token = Cardinality(copies)
  /\ \A c \in copies : c.grant = c.fencing_token /\ c.grant <= next_fencing_token
  /\ \A c, d \in copies : c.grant = d.grant => c = d
  /\ \A r \in Resources : /\ leases[r].fencing_token <= next_fencing_token
                          /\ committed[r] <= leases[r].fencing_token

AuthorityInv == AuthorityTypeOK /\ TokensCountGrants /\ WatchMatchesStore
=============================================================================
