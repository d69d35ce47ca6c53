-------------------------------- MODULE RpcMain --------------------------------
(***************************************************************************)
(* cmd/rpc: the start of the pods of the service, side by side, on one     *)
(* database.  A pod reaches etcd (or goes on without it), Redis and MySQL, *)
(* brings the schema up and launches its two servers.  Whatever fails on   *)
(* the way, except etcd, ends the process (FatalV2); the orchestrator      *)
(* starts it again.  No deferred clean-up ever runs: main is only left by  *)
(* FatalV2 or by a kill, so a pod that ends loses all it has at once.      *)
(***************************************************************************)
EXTENDS Integers

CONSTANT Pods

VARIABLES development,  \* is the namespace envkit.EnvDevelopment?  It never changes
          pc,       \* pc[p]: the next step of pod p
          client,   \* client[p]: does p have an etcd client?
          server,   \* server[p][l]: what launcher l of p is doing
          table,    \* does the table of 0001_init.sql exist?
          version,  \* is that migration recorded as applied?
          up,       \* the backends that can be reached
          calm      \* from now on Needed stays reachable and no pod is killed

vars == <<development, pc, client, server, table, version, up, calm>>

Backends  == {"etcd", "redis", "mysql"}
Needed    == IF development THEN Backends ELSE Backends \ {"etcd"}
Launchers == {"grpc", "http"}

Idle == [l \in Launchers |-> "none"]

TypeOK ==
  /\ pc \in [Pods -> {"off", "etcd", "publish", "redis", "mysql", "migrate", "create",
                      "record", "listen", "launch", "wait"}]
  /\ client \in [Pods -> BOOLEAN]
  /\ server \in [Pods -> [Launchers -> {"none", "bound", "serving", "failed"}]]
  /\ table \in BOOLEAN /\ version \in BOOLEAN /\ calm \in BOOLEAN
  /\ up \in SUBSET Backends /\ development \in BOOLEAN

Init ==
  /\ development \in BOOLEAN
  /\ pc = [p \in Pods |-> "off"]
  /\ client = [p \in Pods |-> FALSE]
  /\ server = [p \in Pods |-> Idle]
  /\ table = FALSE /\ version = FALSE
  /\ up \in SUBSET Backends
  /\ calm = FALSE

-----------------------------------------------------------------------------
(* The steps of main. *)

Goto(p, step) == pc' = [pc EXCEPT ![p] = step]

\* The process ends, by FatalV2 or by a kill.
Exit(p) ==
  /\ Goto(p, "off")
  /\ client' = [client EXCEPT ![p] = FALSE]
  /\ server' = [server EXCEPT ![p] = Idle]

\* Step `at' of p needs backend b: without it the process ends.
Reach(p, at, b, next) ==
  /\ pc[p] = at
  /\ IF b \in up THEN Goto(p, next) /\ UNCHANGED <<client, server>> ELSE Exit(p)

Start(p) ==
  /\ pc[p] = "off"
  /\ Goto(p, "etcd")
  /\ UNCHANGED <<client, server, table, version, up, calm, development>>

\* An error is only logged.  The watcher of the dynamic configuration gets the nil
\* client then; assumed of configkit, which is not in the repository: it returns an
\* error, also only logged, or fails for itself, but does not end the process.
InitEtcd(p) ==
  /\ pc[p] = "etcd"
  /\ client' = [client EXCEPT ![p] = "etcd" \in up]
  /\ Goto(p, IF development THEN "publish" ELSE "redis")
  /\ UNCHANGED <<server, table, version, up, calm, development>>

Publish(p) ==
  /\ IF client[p] THEN Reach(p, "publish", "etcd", "redis")
     ELSE pc[p] = "publish" /\ Exit(p)
  /\ UNCHANGED <<table, version, up, calm, development>>

InitRedis(p) ==
  Reach(p, "redis", "redis", "mysql") /\ UNCHANGED <<table, version, up, calm, development>>

InitMysql(p) ==
  Reach(p, "mysql", "mysql", "migrate") /\ UNCHANGED <<table, version, up, calm, development>>

\* Mutant: a migration that fails is only logged.
MigrateLogged(p) ==
  /\ pc[p] = "migrate"
  /\ Goto(p, IF version \/ "mysql" \notin up THEN "listen" ELSE "create")
  /\ UNCHANGED <<client, server, table, version, up, calm, development>>

\* migrationKit.Up: is the migration recorded?  If not, run it and record it.
Migrate(p) ==
  /\ Reach(p, "migrate", "mysql", IF version THEN "listen" ELSE "create")
  /\ UNCHANGED <<table, version, up, calm, development>>

\* Mutant: the table is created without IF NOT EXISTS.
CreateTableOnce(p) ==
  /\ IF table THEN pc[p] = "create" /\ Exit(p) ELSE Reach(p, "create", "mysql", "record")
  /\ table' = (table \/ "mysql" \in up)
  /\ UNCHANGED <<version, up, calm, development>>

\* CREATE TABLE IF NOT EXISTS commits at once: MySQL has no transactional DDL.
CreateTable(p) ==
  /\ Reach(p, "create", "mysql", "record")
  /\ table' = (table \/ "mysql" \in up)
  /\ UNCHANGED <<version, up, calm, development>>

RecordVersion(p) ==
  /\ Reach(p, "record", "mysql", "listen")
  /\ version' = (version \/ "mysql" \in up)
  /\ UNCHANGED <<table, up, calm, development>>

\* NewGrpcSvcLauncher binds the port: clients connect, but nobody answers yet.
ListenGrpc(p) ==
  /\ pc[p] = "listen"
  /\ server' = [server EXCEPT ![p]["grpc"] = "bound"]
  /\ Goto(p, "launch")
  /\ UNCHANGED <<client, table, version, up, calm, development>>

\* The goroutines of the launchers are started; main waits for them.
Launch(p) ==
  /\ pc[p] = "launch"
  /\ Goto(p, "wait")
  /\ UNCHANGED <<client, server, table, version, up, calm, development>>

Serve(p, l) ==
  /\ pc[p] = "wait"
  /\ server[p][l] \in {"none", "bound"}
  /\ server' = [server EXCEPT ![p][l] = "serving"]
  /\ UNCHANGED <<pc, client, table, version, up, calm, development>>

\* Run of launcher l returns an error: http could not bind, accept failed.
RunFails(p, l) ==
  /\ pc[p] = "wait" /\ ~calm
  /\ server[p][l] # "failed"
  /\ server' = [server EXCEPT ![p][l] = "failed"]
  /\ UNCHANGED <<pc, client, table, version, up, calm, development>>

\* Mutant: the launcher's error is logged, and its goroutine ends.
LauncherLogged(p) ==
  /\ \E l \in Launchers : server[p][l] = "failed"
  /\ UNCHANGED vars

LauncherFatal(p) ==
  /\ \E l \in Launchers : server[p][l] = "failed"
  /\ Exit(p)
  /\ UNCHANGED <<table, version, up, calm, development>>

Step(p) ==
  \/ Start(p) \/ InitEtcd(p) \/ Publish(p) \/ InitRedis(p) \/ InitMysql(p)
  \/ Migrate(p) \/ CreateTable(p) \/ RecordVersion(p)
  \/ ListenGrpc(p) \/ Launch(p) \/ LauncherFatal(p)

-----------------------------------------------------------------------------
(* The environment. *)

Kill(p) ==
  ~calm /\ pc[p] # "off" /\ Exit(p) /\ UNCHANGED <<table, version, up, calm, development>>

BackendChanges ==
  /\ \E b \in Backends : \/ b \notin up /\ up' = up \cup {b}
                         \/ b \in up /\ (calm => b \notin Needed) /\ up' = up \ {b}
  /\ UNCHANGED <<pc, client, server, table, version, calm, development>>

CalmDown ==
  /\ ~calm /\ Needed \subseteq up
  /\ calm' = TRUE
  /\ UNCHANGED <<pc, client, server, table, version, up, development>>

Next ==
  \/ \E p \in Pods : Step(p) \/ Kill(p)
  \/ \E p \in Pods, l \in Launchers : Serve(p, l) \/ RunFails(p, l)
  \/ BackendChanges \/ CalmDown

Spec == Init /\ [][Next]_vars

\* main goes on, its goroutines are scheduled, the orchestrator restarts pods.
FairSpec ==
  /\ Spec
  /\ \A p \in Pods : WF_vars(Step(p))
  /\ \A p \in Pods, l \in Launchers : WF_vars(Serve(p, l))

-----------------------------------------------------------------------------

Serving(p) == \A l \in Launchers : server[p][l] = "serving"

\* A server that answers, or a port that takes connections, finds the table,
\* whichever pod created it and wherever pods died in between.
ServesMigrated ==
  /\ version => table
  /\ \A p \in Pods : (\E l \in Launchers : server[p][l] # "none") => version

\* Once nothing fails any more, every pod serves on both ports and goes on to:
\* no migration that was left half done keeps the pods from starting.  Outside
\* development that holds without etcd ("I ignore this Fatal").
EventuallyServes == calm ~> [](\A p \in Pods : Serving(p))

\* A pod does not go on with one of its two servers.
NoHalfPod ==
  \A p \in Pods, l \in Launchers : server[p][l] = "failed" ~> server[p][l] = "none"
=============================================================================
