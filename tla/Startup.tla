------------------------------- MODULE Startup --------------------------------
(***************************************************************************)
(* How a worker comes up: run (src/main.rs), Config::from_env and          *)
(* resolve_governance_mode (src/config.rs), ControlPlane::new and register *)
(* (src/control_plane.rs).  The steps are taken in this order, the first   *)
(* error ends the process, and a process that ended, or is killed at any   *)
(* time, is started again in the same environment.                         *)
(***************************************************************************)
EXTENDS Naturals

CONSTANTS
  Environments,  \* environments a deployment may give the process
  MaxRestarts    \* bound: how often the process is started again

\* A text variable is absent, blank or set (the URL under either of its names);
\* of the others only what from_env tells apart.
Text == {"unset", "blank", "set"}
Environment ==
  [CONTROL_PLANE_URL : Text, CONTROL_PLANE_SECRET : Text, INTERNAL_SECRET : Text,
   NODE_URL : Text, NODE_SECRET : Text, NODE_ORG_ID : {"unset", "invalid"},
   UNGOVERNED : {"unset", "true", "other"}, HOST : {"unset", "loopback", "other"}]

ASSUME StartupAssumption == Environments \subseteq Environment /\ MaxRestarts \in Nat

VARIABLES
  env,        \* the process environment
  boot,       \* the step of run() that is next
  governed,   \* GovernanceMode, once resolved
  base, node, agent_id,   \* ControlPlane: URL, node handle, registered id
  restarts

bootvars == <<env, boot, governed, base, node, agent_id, restarts>>

Boots == {"config", "nats", "client", "register", "listen", "serving", "exited"}

StartupInit ==
  /\ env \in Environments
  /\ boot = "config" /\ governed = FALSE
  /\ base = FALSE /\ node = FALSE /\ agent_id = FALSE
  /\ restarts = 0

-----------------------------------------------------------------------------
(* Config::from_env *)

\* normalized: a blank value is no value.
env_opt(v) == env[v] = "set"

control_plane_secret == env_opt("CONTROL_PLANE_SECRET") \/ env_opt("INTERNAL_SECRET")
fiducia_node_internal_secret == env_opt("NODE_SECRET") \/ env_opt("INTERNAL_SECRET")
\* Only the exact text counts.
ungoverned_local_only == env.UNGOVERNED = "true"
\* Without HOST, or with one that does not parse, every address is bound.
host_is_loopback == env.HOST = "loopback"
\* A missing org id is replaced by the default, which is valid.
org_is_valid == env.NODE_ORG_ID # "invalid"

resolve_governance_mode ==
  CASE env_opt("CONTROL_PLANE_URL") /\ ~ungoverned_local_only -> "governed"
    [] ~env_opt("CONTROL_PLANE_URL") /\ ungoverned_local_only /\ host_is_loopback -> "ungoverned"
    [] OTHER -> "error"

-----------------------------------------------------------------------------
(* run *)

Fail == boot' = "exited"

ResolveMode ==
  /\ boot = "config"
  /\ IF resolve_governance_mode = "error" THEN Fail /\ UNCHANGED governed
     ELSE boot' = "nats" /\ governed' = (resolve_governance_mode = "governed")
  /\ UNCHANGED <<env, base, node, agent_id, restarts>>

\* Nats::start creates the directories, recounts and drains: any may fail.
StartNats ==
  /\ boot = "nats"
  /\ Fail \/ boot' = "client"
  /\ UNCHANGED <<env, governed, base, node, agent_id, restarts>>

\* ControlPlane::new: the URL agrees with the mode, and a governed worker has
\* all it needs for fencing.
NewControlPlane ==
  /\ boot = "client"
  /\ IF \/ governed # env_opt("CONTROL_PLANE_URL")
        \/ governed /\ ~(/\ control_plane_secret /\ env_opt("NODE_URL")
                         /\ fiducia_node_internal_secret /\ org_is_valid)
       THEN Fail /\ UNCHANGED <<base, node>>
       ELSE /\ boot' = "register"
            /\ base' = env_opt("CONTROL_PLANE_URL")
            /\ node' = (env_opt("NODE_URL") /\ fiducia_node_internal_secret)
  /\ UNCHANGED <<env, governed, agent_id, restarts>>

\* Faulty variant: a failed registration is only logged.
RegisterLenient ==
  /\ boot = "register"
  /\ boot' = "listen"
  /\ agent_id' \in IF base THEN BOOLEAN ELSE {FALSE}
  /\ UNCHANGED <<env, governed, base, node, restarts>>

\* register: without a URL nothing to do; otherwise the answer must hold a
\* valid id.
Register ==
  /\ boot = "register"
  /\ \/ ~base /\ boot' = "listen" /\ UNCHANGED agent_id
     \/ base /\ boot' = "listen" /\ agent_id' = TRUE
     \/ base /\ Fail /\ UNCHANGED agent_id
  /\ UNCHANGED <<env, governed, base, node, restarts>>

\* The collector is spawned, the listener bound, the router served.
Listen ==
  /\ boot = "listen"
  /\ Fail \/ boot' = "serving"
  /\ UNCHANGED <<env, governed, base, node, agent_id, restarts>>

StartupStep == ResolveMode \/ StartNats \/ NewControlPlane \/ Register \/ Listen

\* The process ends or is killed, and is started again.
Restart ==
  /\ boot # "config" /\ restarts < MaxRestarts
  /\ boot' = "config" /\ governed' = FALSE
  /\ base' = FALSE /\ node' = FALSE /\ agent_id' = FALSE
  /\ restarts' = restarts + 1
  /\ UNCHANGED env

-----------------------------------------------------------------------------
(* Inductive invariant (WorkerProofs) *)

\* What each step of run() has established when the next one is taken.
StartupInv ==
  /\ env \in Environments /\ boot \in Boots
  /\ governed \in BOOLEAN /\ base \in BOOLEAN /\ node \in BOOLEAN /\ agent_id \in BOOLEAN
  /\ governed => resolve_governance_mode = "governed"
  /\ boot \in {"nats", "client", "register", "listen", "serving"} =>
       IF governed THEN resolve_governance_mode = "governed"
       ELSE resolve_governance_mode = "ungoverned"
  /\ boot \in {"register", "listen", "serving"} => IF governed THEN base /\ node ELSE ~base
  /\ boot \in {"listen", "serving"} /\ governed => agent_id
=============================================================================
