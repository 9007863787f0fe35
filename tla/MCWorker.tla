------------------------------ MODULE MCWorker ------------------------------
\* Small instances of Worker for TLC.
EXTENDS Worker, TLC

CONSTANTS s1, s2

\* A complete governed environment, and a complete local one.
GovernedEnv ==
  [CONTROL_PLANE_URL |-> "set", CONTROL_PLANE_SECRET |-> "unset", INTERNAL_SECRET |-> "set",
   NODE_URL |-> "set", NODE_SECRET |-> "unset", NODE_ORG_ID |-> "unset",
   UNGOVERNED |-> "unset", HOST |-> "unset"]
LocalEnv ==
  [GovernedEnv EXCEPT !.CONTROL_PLANE_URL = "blank", !.UNGOVERNED = "true", !.HOST = "loopback"]

\* Each of them with something missing or too much, and one that gives each
\* secret under its own name.
MCEnvironments ==
  LET Own == [GovernedEnv EXCEPT !.INTERNAL_SECRET = "unset",
                                 !.CONTROL_PLANE_SECRET = "set", !.NODE_SECRET = "set"] IN
  {GovernedEnv, LocalEnv, Own}
  \cup {[GovernedEnv EXCEPT ![v] = "blank"] : v \in {"CONTROL_PLANE_URL", "INTERNAL_SECRET", "NODE_URL"}}
  \cup {[Own EXCEPT ![v] = "unset"] : v \in {"CONTROL_PLANE_SECRET", "NODE_SECRET"}}
  \cup {[GovernedEnv EXCEPT !.NODE_ORG_ID = "invalid"], [GovernedEnv EXCEPT !.UNGOVERNED = "true"]}
  \cup {[LocalEnv EXCEPT !.HOST = "unset"], [LocalEnv EXCEPT !.UNGOVERNED = "other"],
        [LocalEnv EXCEPT !.CONTROL_PLANE_URL = "set"]}

MCSymmetry == Permutations({s1, s2})
=============================================================================
