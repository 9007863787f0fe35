------------------------------- MODULE MCFleet -------------------------------
\* Small instances of Fleet for TLC.
EXTENDS Fleet

\* The methods of leases and cron, of the store, of slots, of the quota and of
\* heartbeats share nothing but the clock: each behaviour of the instance
\* calls those of one family.
OneFamily ==
  LET used == <<copies # {}, watch_events # <<>> \/ side_effects # {}, holders # [w \in Workers |-> 0],
                quota.open, beats # [w \in Workers |-> 0]>>
  IN  Cardinality({i \in DOMAIN used : used[i]}) <= 1
=============================================================================
