---------------------------- MODULE MCTaskRegistry ----------------------------
\* Small instances of TaskRegistry for TLC: calls 1..3 with ids of their own on
\* two threads, or with the same id on one thread.
EXTENDS TaskRegistry

OwnIds == [k \in Calls |-> k]
TwoThreads == [k \in Calls |-> IF k = 3 THEN 2 ELSE 1]
SameId == [k \in Calls |-> 1]
OneThread == [k \in Calls |-> 1]
=============================================================================
