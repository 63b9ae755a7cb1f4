---------------------------- MODULE HubDependencies ----------------------------
(***************************************************************************)
(* What both monitors look at: the hub's process and the two services it   *)
(* depends on, and HealthService's two pings.                              *)
(***************************************************************************)
VARIABLES
    postgres,   \* "up" or "down"
    redis,      \* "up", "refusing" (it answers with errors) or "unreachable"
    process     \* the Node process: "running" or "dead"

hubVars == <<postgres, redis, process>>

HubTypeOK ==
    /\ postgres \in {"up", "down"}
    /\ redis \in {"up", "refusing", "unreachable"}
    /\ process \in {"running", "dead"}

HubInit == postgres = "up" /\ redis = "up" /\ process = "running"

Running == process = "running"

(***************************************************************************)
(* HealthService.probe.  A query on a lost Postgres rejects.  A command    *)
(* for an unreachable Redis is kept by ioredis until the connection is     *)
(* back, as maxRetriesPerRequest is null: the ping has no outcome so far.  *)
(***************************************************************************)
pingPostgres == postgres = "up"

PingAnswered == redis # "unreachable"

pingRedis == redis = "up"

(***************************************************************************)
(* The world.  recover() is started without a catch every 30 s: its first  *)
(* query on a lost Postgres is an unhandled rejection, and Node exits.     *)
(* Docker restarts the container, whose entrypoint migrates first and      *)
(* fails without Postgres.                                                 *)
(***************************************************************************)
Die == Running /\ process' = "dead" /\ UNCHANGED <<postgres, redis>>

RecoverRejected == ~pingPostgres /\ Die

Restart ==
    /\ ~Running
    /\ postgres = "up"
    /\ process' = "running"
    /\ UNCHANGED <<postgres, redis>>

PostgresChanges ==
    /\ postgres' \in {"up", "down"} \ {postgres}
    /\ UNCHANGED <<redis, process>>

RedisChanges ==
    /\ redis' \in {"up", "refusing", "unreachable"} \ {redis}
    /\ UNCHANGED <<postgres, process>>
=============================================================================
