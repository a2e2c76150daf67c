---------------------------- MODULE AppLifecycle -----------------------------
(***************************************************************************)
(* The life of the process in main.ts and DatabaseConnection: bootstrap    *)
(* (configuration, connection, migrations, health check, routes, listen),  *)
(* connections of clients, and gracefulShutdown, which every SIGTERM and   *)
(* SIGINT starts anew.                                                     *)
(*                                                                         *)
(* External, from how the code uses them: Node's http server (close stops  *)
(* new connections, serves those there are, and calls every callback it    *)
(* was given when the last is gone; it counts connections, and a client    *)
(* that goes away while it is served takes its connection along but not    *)
(* the handler, which nobody tells), the data source (a second destroy     *)
(* while the first is under way is rejected by the pool), the clock (a     *)
(* timer set may fire at any later time).                                  *)
(***************************************************************************)
EXTENDS Naturals, ConfigChecks

CONSTANTS
  Environments, \* what the environment variables may say
  Connections,  \* connections of clients
  MaxSignals    \* bound: SIGTERM and SIGINT in one life

ASSUME EnvironmentsAssumption == \A e \in Environments : IsEnvironment(e)
ASSUME SignalsAssumption == MaxSignals \in Nat

VARIABLES
  env,         \* what the environment variables say
  boot,        \* how far bootstrap has come
  initialized, \* dataSource.isInitialized
  synchronized,\* initialize has begun to fit the schema to the entities
  migrated,    \* runMigrations has succeeded
  server,      \* the http server
  conn,        \* conn[c]: none, idle (kept alive), busy with a request, or
               \* abandoned: its client is gone and its handler still runs
  shutdown,    \* shutdown[k]: how far the k-th call of gracefulShutdown is
  exit         \* how the process ended: by process.exit with 0 or 1, by the
               \* timer (also with 1), or killed by a signal nobody handles

vars == <<env, boot, initialized, synchronized, migrated, server, conn,
          shutdown, exit>>

Signals == 1 .. MaxSignals

TypeOK ==
  /\ env \in Environments
  /\ boot \in {"configuring", "connecting", "migrating", "checking",
               "routing", "starting", "started"}
  /\ initialized \in BOOLEAN
  /\ synchronized \in BOOLEAN
  /\ migrated \in BOOLEAN
  /\ server \in {"none", "open", "closing"}
  /\ conn \in [Connections -> {"none", "idle", "busy", "abandoned"}]
  /\ shutdown \in [Signals -> {"none", "closing", "destroying", "rejected"}]
  /\ exit \in {"running", "killed", "0", "1", "timer"}

Init ==
  /\ env \in Environments
  /\ boot = "configuring"
  /\ initialized = FALSE
  /\ synchronized = FALSE
  /\ migrated = FALSE
  /\ server = "none"
  /\ conn = [c \in Connections |-> "none"]
  /\ shutdown = [k \in Signals |-> "none"]
  /\ exit = "running"

Running == exit = "running"

\* The connections the server counts, and the handlers that run.
Open == {c \in Connections : conn[c] \in {"idle", "busy"}}
Serving == {c \in Connections : conn[c] \in {"busy", "abandoned"}}

----------------------------------------------------------------------------
(* Bootstrap: each step succeeds, or bootstrap's catch exits with 1. *)

At(stage) == Running /\ boot = stage
StillDown == UNCHANGED <<env, server, conn, shutdown>>

Schema == <<synchronized, migrated>>

Fails == exit' = "1" /\ UNCHANGED <<boot, initialized>>
Reaches(stage) == boot' = stage /\ UNCHANGED exit

\* validateConfiguration throws on the first check that fails.
ValidateConfiguration ==
  /\ At("configuring")
  /\ StillDown /\ UNCHANGED Schema
  /\ \/ /\ validateConfiguration(env)
        /\ Reaches("connecting")
        /\ UNCHANGED initialized
     \/ ~validateConfiguration(env) /\ Fails

\* Slip of AfterConnect: migrations are left out.
AfterConnectChecking == "checking"

AfterConnect == IF IsProduction(env) THEN "migrating" ELSE "checking"

\* initialize connects, then synchronizes where the options say so; it may
\* fail before it or on the way.
Connect ==
  /\ At("connecting")
  /\ StillDown /\ UNCHANGED migrated
  /\ \/ /\ Reaches(AfterConnect)
        /\ initialized' = TRUE
        /\ synchronized' = Synchronizes(env)
     \/ Fails /\ synchronized' \in {FALSE, Synchronizes(env)}

RunMigrations ==
  /\ At("migrating")
  /\ StillDown /\ UNCHANGED <<initialized, synchronized>>
  /\ \/ Reaches("checking") /\ migrated' = TRUE
     \/ Fails /\ UNCHANGED migrated

\* healthCheck returns FALSE on every error; connectToDatabase then throws.
CheckHealth ==
  /\ At("checking")
  /\ StillDown /\ UNCHANGED Schema
  /\ \/ Reaches("routing") /\ UNCHANGED initialized
     \/ Fails

\* setupMiddleware, setupRoutes and setupErrorHandling; setupSwagger, which
\* they await, catches its errors.
SetUp ==
  /\ At("routing")
  /\ StillDown /\ UNCHANGED <<Schema, initialized>>
  /\ Reaches("starting")

\* start: the server listens, or the port is taken and its 'error' rejects.
Start ==
  /\ At("starting")
  /\ UNCHANGED Schema
  /\ \/ /\ Reaches("started")
        /\ server' = "open"
        /\ UNCHANGED <<env, conn, shutdown, initialized>>
     \/ Fails /\ StillDown

----------------------------------------------------------------------------
(* Clients. *)

Booted == UNCHANGED <<env, boot, initialized, Schema, server, shutdown, exit>>

Accept(c) ==
  /\ Running /\ server = "open"
  /\ conn[c] = "none"
  /\ conn' = [conn EXCEPT ![c] = "busy"]
  /\ Booted

\* A handler ends: its answer goes to its client, or to nobody.
Respond(c) ==
  /\ Running
  /\ \/ conn[c] = "busy" /\ conn' = [conn EXCEPT ![c] = "idle"]
     \/ conn[c] = "abandoned" /\ conn' = [conn EXCEPT ![c] = "none"]
  /\ Booted

\* A connection kept alive brings another request, also after server.close.
SendAgain(c) ==
  /\ Running
  /\ conn[c] = "idle"
  /\ conn' = [conn EXCEPT ![c] = "busy"]
  /\ Booted

\* A kept-alive connection ends, or a client goes away while it is served:
\* nothing in the code listens for that, so the handler goes on.
Disconnect(c) ==
  /\ Running
  /\ \/ conn[c] = "idle" /\ conn' = [conn EXCEPT ![c] = "none"]
     \/ conn[c] = "busy" /\ conn' = [conn EXCEPT ![c] = "abandoned"]
  /\ Booted

----------------------------------------------------------------------------
(* Shutdown. *)

\* Slip of Signal: the name of the signal in place of an exit code.
SignalNamed(k) ==
  /\ Running
  /\ shutdown[k] = "none" /\ boot # "started"
  /\ exit' = "SIGTERM"
  /\ UNCHANGED <<env, boot, initialized, Schema, server, conn, shutdown>>

\* Before start has registered the handlers a signal kills the process; after
\* it, the handler closes the server and sets the timer.
Signal(k) ==
  /\ Running
  /\ shutdown[k] = "none"
  /\ \A j \in Signals : j < k => shutdown[j] # "none"
  /\ \/ boot # "started" /\ exit' = "killed" /\ UNCHANGED <<server, shutdown>>
     \/ /\ boot = "started"
        /\ server' = "closing"
        /\ shutdown' = [shutdown EXCEPT ![k] = "closing"]
        /\ UNCHANGED exit
  /\ UNCHANGED <<env, boot, initialized, Schema, conn>>

\* Slip of Drained: closed as soon as it does not listen.
NotListening == server = "closing"

Drained == server = "closing" /\ Open = {}

Closing == {k \in Signals : shutdown[k] = "closing"}
Destroying == {k \in Signals : shutdown[k] = "destroying"}

\* 'close' is emitted: the callbacks of all signals so far run one after the
\* other up to await disconnect().  The data source is initialized, so each
\* calls destroy, of which only the first is accepted.
ServerClosed ==
  /\ Running
  /\ Drained
  /\ Closing # {}
  /\ LET first == CHOOSE k \in Closing : \A j \in Closing : k <= j
     IN shutdown' = [k \in Signals |->
          IF k \notin Closing THEN shutdown[k]
          ELSE IF k = first /\ Destroying = {} THEN "destroying" ELSE "rejected"]
  /\ UNCHANGED <<env, boot, initialized, Schema, server, conn, exit>>

\* destroy succeeds and the callback exits with 0, or it fails.
Destroyed(k) ==
  /\ Running
  /\ shutdown[k] = "destroying"
  /\ \/ initialized' = FALSE /\ exit' = "0"
     \/ UNCHANGED initialized /\ exit' = "1"
  /\ UNCHANGED <<env, boot, Schema, server, conn, shutdown>>

\* The callback whose destroy was rejected exits with 1.
DestroyRejected(k) ==
  /\ Running
  /\ shutdown[k] = "rejected"
  /\ exit' = "1"
  /\ UNCHANGED <<env, boot, initialized, Schema, server, conn, shutdown>>

\* Slip of ForceShutdown: close's callback clears the timer.
ForceShutdownUnlessClosed(k) ==
  /\ Running
  /\ shutdown[k] = "closing"
  /\ exit' = "timer"
  /\ UNCHANGED <<env, boot, initialized, Schema, server, conn, shutdown>>

\* The timer of 30 seconds, which nothing clears.
ForceShutdown(k) ==
  /\ Running
  /\ shutdown[k] # "none"
  /\ exit' = "timer"
  /\ UNCHANGED <<env, boot, initialized, Schema, server, conn, shutdown>>

Next ==
  \/ ValidateConfiguration \/ Connect \/ RunMigrations \/ CheckHealth
  \/ SetUp \/ Start
  \/ \E c \in Connections : Accept(c) \/ Respond(c) \/ SendAgain(c) \/ Disconnect(c)
  \/ ServerClosed
  \/ \E k \in Signals :
       Signal(k) \/ Destroyed(k) \/ DestroyRejected(k) \/ ForceShutdown(k)

\* Timers fire.  Nothing is assumed of clients, handlers and the database.
Spec ==
  /\ Init /\ [][Next]_vars
  /\ \A k \in Signals : WF_vars(ForceShutdown(k))

----------------------------------------------------------------------------
(* Properties. *)

\* A handler only ever runs in a process whose configuration was accepted,
\* whose schema is migrated in production, and whose data source is not being
\* destroyed, also for a request on a kept-alive connection after the signal,
\* or while a second signal is handled; unless the server closes and every
\* client is gone, when nothing waits for the handlers that are left.  And no
\* start in production, a failing one included, lets TypeORM rebuild the
\* schema: nothing but the check that precedes connect stands between the two.
ServedByReadyProcess ==
  /\ Running /\ Serving # {} =>
       /\ validateConfiguration(env)
       /\ IsProduction(env) => migrated
       /\ \/ initialized /\ Destroying = {}
          \/ server = "closing" /\ Open = {}
  /\ IsProduction(env) => ~synchronized

\* Exit code 0 tells the operator that no client was cut off and that the data
\* source was closed, however many signals came; and once the process has
\* started, nothing but the 30-second timer ends it while a client waits for an
\* answer.  A handler whose client is gone may be cut off by either.
ExitsAreClean ==
  /\ exit = "0" => ~initialized /\ Open = {}
  /\ \A c \in Connections : conn[c] = "busy" => exit \in {"running", "timer"}

\* After a signal the process ends, even if a request or the database never
\* answers.
SignalEndsProcess ==
  \A k \in Signals : shutdown[k] # "none" ~> ~Running
==============================================================================
