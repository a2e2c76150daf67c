------------------------- MODULE AppLifecycleProofs --------------------------
(***************************************************************************)
(* Safety of AppLifecycle for any number of connections and signals, which *)
(* one of them destroys the data source, and that none is taken back.      *)
(***************************************************************************)
EXTENDS AppLifecycle, WellFoundedInduction, TLAPS

\* What each stage of bootstrap has established.
BootInv ==
  /\ boot # "configuring" => validateConfiguration(env)
  /\ boot \notin {"configuring", "connecting"} /\ exit # "0" => initialized
  /\ boot \notin {"configuring", "connecting", "migrating"} /\ IsProduction(env)
       => migrated
  /\ synchronized => validateConfiguration(env) /\ Synchronizes(env)

\* Who is there when: connections after the server was opened, calls of
\* gracefulShutdown while it closes, and a destroy only after the last
\* connection is gone, when no other can come.
ServerInv ==
  /\ server # "none" => boot = "started"
  /\ \A c \in Connections : conn[c] # "none" => server # "none"
  /\ \A k \in Signals : shutdown[k] # "none" => server = "closing"
  /\ \A k \in Signals : shutdown[k] \in {"destroying", "rejected"} => Open = {}

\* How the process can have ended.
ExitInv ==
  /\ exit = "0" => ~initialized
  /\ exit \in {"0", "1", "killed"} => Open = {}

IInv == TypeOK /\ BootInv /\ ServerInv /\ ExitInv

\* IInv holds when the process starts.
LEMMA InitIInv == Init => IInv
BY DEF Init, IInv, TypeOK, BootInv, ServerInv, ExitInv

LEMMA OpenUnchanged == ASSUME UNCHANGED conn PROVE Open' = Open
BY DEF Open

\* A step of bootstrap keeps IInv: no client and no signal handler is there.
LEMMA BootStep ==
  ASSUME IInv,
         \/ ValidateConfiguration \/ Connect \/ RunMigrations
         \/ CheckHealth \/ SetUp \/ Start
  PROVE  IInv'
<1> USE DEF At, StillDown, Fails, Reaches, Schema, Running
<1>1. server = "none" /\ \A c \in Connections : conn[c] = "none"
  BY DEF IInv, ServerInv, ValidateConfiguration, Connect, RunMigrations,
         CheckHealth, SetUp, Start
<1>2. /\ \A k \in Signals : shutdown[k] = "none"
      /\ Open = {}
  BY <1>1 DEF IInv, ServerInv, TypeOK, Open
<1>3. TypeOK'
  BY DEF IInv, TypeOK, ValidateConfiguration, Connect, RunMigrations,
         CheckHealth, SetUp, Start, AfterConnect, Synchronizes
<1>4. BootInv'
  <2>1. env' = env
    BY DEF ValidateConfiguration, Connect, RunMigrations, CheckHealth, SetUp,
           Start
  <2>2. boot' # "configuring" => validateConfiguration(env)
    BY DEF IInv, BootInv, ValidateConfiguration, Connect, RunMigrations,
           CheckHealth, SetUp, Start
  <2>3. synchronized' => validateConfiguration(env) /\ Synchronizes(env)
    BY DEF IInv, TypeOK, BootInv, ValidateConfiguration, Connect,
           RunMigrations, CheckHealth, SetUp, Start
  <2>4. /\ boot' \notin {"configuring", "connecting"} /\ exit' # "0"
             => initialized'
        /\ boot' \notin {"configuring", "connecting", "migrating"}
             /\ IsProduction(env) => migrated'
    BY DEF IInv, TypeOK, BootInv, ValidateConfiguration, Connect,
           RunMigrations, CheckHealth, SetUp, Start, AfterConnect
  <2> QED BY <2>1, <2>2, <2>3, <2>4 DEF BootInv
<1>5. conn' = conn /\ Open' = {}
  <2>1. conn' = conn
    BY DEF ValidateConfiguration, Connect, RunMigrations, CheckHealth, SetUp,
           Start
  <2> QED BY <1>2, <2>1, OpenUnchanged
<1>6. ServerInv'
  BY <1>1, <1>2, <1>5 DEF IInv, TypeOK, ServerInv, ValidateConfiguration,
         Connect, RunMigrations, CheckHealth, SetUp, Start, AfterConnect
<1>7. ExitInv'
  BY <1>5 DEF IInv, ExitInv, ValidateConfiguration, Connect, RunMigrations,
         CheckHealth, SetUp, Start
<1> QED BY <1>3, <1>4, <1>6, <1>7 DEF IInv

\* A step of a client keeps IInv: none can connect while the server closes,
\* and none is connected any more when destroy has been called; a handler that
\* ends without its client opens nothing.
LEMMA ClientStep ==
  ASSUME IInv, NEW c \in Connections,
         Accept(c) \/ Respond(c) \/ SendAgain(c) \/ Disconnect(c)
  PROVE  IInv'
<1> USE DEF Booted, Schema, Running
<1>1. server # "none" /\ exit = "running"
  BY DEF IInv, ServerInv, Accept, Respond, SendAgain, Disconnect
<1>2. ASSUME Open = {}, server = "closing" PROVE Open' = {}
  <2>1. \A d \in Connections : conn[d] \notin {"idle", "busy"}
    BY <1>2 DEF Open
  <2>2. \A d \in Connections : conn'[d] \notin {"idle", "busy"}
    BY <1>2, <2>1 DEF IInv, TypeOK, Accept, Respond, SendAgain, Disconnect
  <2> QED BY <2>2 DEF Open
<1>3. TypeOK'
  BY DEF IInv, TypeOK, Accept, Respond, SendAgain, Disconnect
<1>4. BootInv'
  BY DEF IInv, BootInv, Accept, Respond, SendAgain, Disconnect
<1>5. ServerInv'
  BY <1>1, <1>2 DEF IInv, TypeOK, ServerInv, Accept, Respond, SendAgain,
                    Disconnect
<1>6. ExitInv'
  BY <1>1 DEF IInv, ExitInv, Accept, Respond, SendAgain, Disconnect
<1> QED BY <1>3, <1>4, <1>5, <1>6 DEF IInv

\* 'close' keeps IInv: it is emitted when the last connection is gone.
LEMMA CloseStep == ASSUME IInv, ServerClosed PROVE IInv'
<1> USE DEF ServerClosed, Schema, Running, Drained, Closing
<1>1. TypeOK'
  BY DEF IInv, TypeOK
<1>2. BootInv'
  BY DEF IInv, BootInv
<1>3. ServerInv'
  BY OpenUnchanged DEF IInv, TypeOK, ServerInv
<1>4. ExitInv'
  BY OpenUnchanged DEF IInv, ExitInv
<1> QED BY <1>1, <1>2, <1>3, <1>4 DEF IInv

\* A step of one call of gracefulShutdown keeps IInv.
LEMMA SignalStep ==
  ASSUME IInv, NEW k \in Signals,
         Signal(k) \/ Destroyed(k) \/ DestroyRejected(k) \/ ForceShutdown(k)
  PROVE  IInv'
<1> USE DEF Schema, Running
<1>0. Open' = Open
  BY OpenUnchanged DEF Signal, Destroyed, DestroyRejected, ForceShutdown
<1>1. CASE Signal(k)
  <2>1. TypeOK' BY <1>1 DEF IInv, TypeOK, Signal
  <2>2. BootInv' BY <1>1 DEF IInv, BootInv, Signal
  <2>3. ServerInv' BY <1>0, <1>1 DEF IInv, TypeOK, ServerInv, Signal
  <2>4. ExitInv'
    <3>1. boot # "started" => Open = {}
      BY DEF IInv, ServerInv, Open
    <3> QED BY <1>0, <1>1, <3>1 DEF IInv, ExitInv, Signal
  <2> QED BY <2>1, <2>2, <2>3, <2>4 DEF IInv
<1>2. CASE Destroyed(k)
  <2>1. TypeOK' BY <1>2 DEF IInv, TypeOK, Destroyed
  <2>2. BootInv' BY <1>2 DEF IInv, BootInv, Destroyed
  <2>3. ServerInv' BY <1>0, <1>2 DEF IInv, ServerInv, Destroyed
  <2>4. ExitInv' BY <1>0, <1>2 DEF IInv, ServerInv, ExitInv, Destroyed
  <2> QED BY <2>1, <2>2, <2>3, <2>4 DEF IInv
<1>3. CASE DestroyRejected(k) \/ ForceShutdown(k)
  <2>1. TypeOK' BY <1>3 DEF IInv, TypeOK, DestroyRejected, ForceShutdown
  <2>2. BootInv'
    BY <1>3 DEF IInv, BootInv, DestroyRejected, ForceShutdown
  <2>3. ServerInv'
    BY <1>0, <1>3 DEF IInv, ServerInv, DestroyRejected, ForceShutdown
  <2>4. ExitInv'
    BY <1>0, <1>3 DEF IInv, ServerInv, ExitInv, DestroyRejected, ForceShutdown
  <2> QED BY <2>1, <2>2, <2>3, <2>4 DEF IInv
<1> QED BY <1>1, <1>2, <1>3

\* Every step keeps IInv.
LEMMA StepIInv == IInv /\ [Next]_vars => IInv'
<1> SUFFICES ASSUME IInv, [Next]_vars PROVE IInv'
  OBVIOUS
<1>1. CASE ValidateConfiguration \/ Connect \/ RunMigrations \/ CheckHealth
           \/ SetUp \/ Start
  BY <1>1, BootStep
<1>2. CASE \E c \in Connections :
             Accept(c) \/ Respond(c) \/ SendAgain(c) \/ Disconnect(c)
  BY <1>2, ClientStep
<1>3. CASE ServerClosed
  BY <1>3, CloseStep
<1>4. CASE \E k \in Signals :
             Signal(k) \/ Destroyed(k) \/ DestroyRejected(k) \/ ForceShutdown(k)
  BY <1>4, SignalStep
<1>5. CASE UNCHANGED vars
  BY <1>5, OpenUnchanged DEF vars, IInv, TypeOK, BootInv, ServerInv, ExitInv
<1> QED BY <1>1, <1>2, <1>3, <1>4, <1>5 DEF Next

\* A configuration production accepts does not synchronize: the check of
\* main.ts covers the option of the data source.
LEMMA ProductionKeepsSchema ==
  ASSUME NEW e, IsProduction(e), validateConfiguration(e)
  PROVE  ~Synchronizes(e)
BY DEF validateConfiguration, validateProductionDatabase, Synchronizes

\* IInv entails what the run checks: handlers run in a ready process while any
\* client is left, 0 is a clean exit, and only the timer cuts off a client.
LEMMA IInvEntails == IInv => TypeOK /\ ServedByReadyProcess /\ ExitsAreClean
<1> SUFFICES ASSUME IInv
             PROVE  TypeOK /\ ServedByReadyProcess /\ ExitsAreClean
  OBVIOUS
<1>1. TypeOK BY DEF IInv
<1>2. ServedByReadyProcess
  <2>1. IsProduction(env) => ~synchronized
    BY ProductionKeepsSchema DEF IInv, BootInv
  <2>2. ASSUME Running, Serving # {}
        PROVE  boot = "started" /\ initialized
    <3>1. \E c \in Connections : conn[c] # "none"
      BY <2>2 DEF Serving
    <3> QED BY <2>2, <3>1 DEF IInv, BootInv, ServerInv, Running
  <2>3. Destroying # {} => server = "closing" /\ Open = {}
    BY DEF IInv, ServerInv, Destroying
  <2> QED BY <2>1, <2>2, <2>3 DEF IInv, BootInv, ServedByReadyProcess
<1>3. ExitsAreClean
  <2>1. \A c \in Connections : conn[c] = "busy" => Open # {}
    BY DEF Open
  <2> QED BY <2>1 DEF IInv, TypeOK, ExitInv, ExitsAreClean
<1> QED BY <1>1, <1>2, <1>3

\* The state keeps its type.
THEOREM TypeCorrect == Spec => []TypeOK
BY InitIInv, StepIInv, IInvEntails, PTL DEF Spec

\* However many connections there are and signals come, in whatever order, and
\* whenever clients go away: a handler runs in a process that is configured and
\* migrated and keeps its database while a client is left (initialize before
\* start, disconnect after server.close); and no environment makes production
\* rebuild its schema.
THEOREM ServedReady == Spec => []ServedByReadyProcess
BY InitIInv, StepIInv, IInvEntails, PTL DEF Spec

\* process.exit(0) is reached with every connection ended and the data source
\* closed, and nothing but the timer of gracefulShutdown ends the process
\* while a client waits for its answer.
THEOREM CleanExits == Spec => []ExitsAreClean
BY InitIInv, StepIInv, IInvEntails, PTL DEF Spec

----------------------------------------------------------------------------
(* Several signals, and what a signal does not take back. *)

\* Induction without an operator parameter: a set of numbers has a least one.
LEMMA LeastNumber ==
  ASSUME NEW T \in SUBSET Nat, T # {}
  PROVE  \E n \in T : \A m \in T : n <= m
<1> DEFINE R == {p \in Nat \X Nat : p[1] < p[2]}
<1>1. IsWellFoundedOn(R, Nat)
  BY NatLessThanWellFounded DEF OpToRel
<1>2. ASSUME NEW m \in Nat, NEW n \in Nat, <<m, n>> \notin R
      PROVE  n <= m
  <2>1. <<m, n>> \in Nat \X Nat /\ <<m, n>>[1] = m /\ <<m, n>>[2] = n
    OBVIOUS
  <2>2. ~(m < n)
    BY <1>2, <2>1
  <2> QED
    BY <2>2
<1> HIDE DEF R
<1>3. \E n \in T : \A m \in T : <<m, n>> \notin R
  BY <1>1, WFMin
<1> QED
  BY <1>2, <1>3

\* At most one call of gracefulShutdown has its destroy under way, and one is
\* refused only because another has.
OneDestroy ==
  /\ \A j, k \in Destroying : j = k
  /\ (\E k \in Signals : shutdown[k] = "rejected") => Destroying # {}

\* 'close' runs the callbacks of all signals so far, and the first of them
\* destroys the data source if none does already.
LEMMA CloseDestroysOnce ==
  ASSUME IInv, OneDestroy, ServerClosed PROVE OneDestroy'
<1> DEFINE first == CHOOSE k \in Closing : \A j \in Closing : k <= j
<1>1. first \in Closing
  <2>1. Closing \in SUBSET Nat /\ Closing # {}
    BY DEF Closing, Signals, ServerClosed
  <2>2. \E k \in Closing : \A j \in Closing : k <= j
    BY <2>1, LeastNumber
  <2> QED BY <2>2
<1>2. shutdown' = [k \in Signals |->
        IF k \notin Closing THEN shutdown[k]
        ELSE IF k = first /\ Destroying = {} THEN "destroying" ELSE "rejected"]
  BY DEF ServerClosed
<1> HIDE DEF first
<1>3. Destroying' = IF Destroying = {} THEN {first} ELSE Destroying
  <2>1. ASSUME NEW k \in Signals
        PROVE  shutdown'[k] = "destroying"
                 <=> k \in Destroying \/ (k = first /\ Destroying = {})
    BY <1>1, <1>2 DEF Destroying, Closing
  <2> QED BY <1>1, <2>1 DEF Destroying, Closing
<1> QED BY <1>3 DEF OneDestroy

\* No other step begins a destroy, refuses one or ends one.
LEMMA OthersDestroyNothing ==
  ASSUME IInv, OneDestroy, [Next]_vars, ~ServerClosed PROVE OneDestroy'
<1>1. Destroying' = Destroying
      /\ \A k \in Signals : shutdown'[k] = "rejected" <=> shutdown[k] = "rejected"
  <2>1. CASE UNCHANGED shutdown
    BY <2>1 DEF Destroying
  <2>2. CASE \E k \in Signals : Signal(k)
    BY <2>2 DEF Signal, Destroying, IInv, TypeOK
  <2> QED
    BY <2>1, <2>2 DEF Next, vars, ValidateConfiguration, Connect,
       RunMigrations, CheckHealth, SetUp, Start, StillDown, Accept, Respond,
       SendAgain, Disconnect, Booted, Destroyed, DestroyRejected, ForceShutdown
<1> QED BY <1>1 DEF OneDestroy

\* However many signals come and whenever, the data source is destroyed by one
\* call of gracefulShutdown only; the exit code 1 of a refused one is about a
\* destroy that is still under way.
THEOREM DestroyedByOne == Spec => []OneDestroy
<1>1. Init => OneDestroy
  BY DEF Init, OneDestroy, Destroying
<1>2. IInv /\ OneDestroy /\ [Next]_vars => OneDestroy'
  BY CloseDestroysOnce, OthersDestroyNothing
<1> QED BY <1>1, <1>2, InitIInv, StepIInv, PTL DEF Spec

\* No step ends a process twice, re-opens a server that closes, lets a client
\* connect to it, or disarms the timer of a signal: the handler of every signal
\* can still end the process until the process has ended.
Irrevocable ==
  /\ ~Running => UNCHANGED vars
  /\ server = "closing" =>
       /\ server' = "closing"
       /\ Open' \subseteq Open
  /\ \A k \in Signals : shutdown[k] # "none" => shutdown'[k] # "none"

\* A shutdown is never taken back, by bootstrap, a client, the database or
\* another signal; with the timer of 30 seconds, which nothing clears, that is
\* what lets every signal end the process.
THEOREM ShutdownIsIrrevocable == Spec => [][Irrevocable]_vars
<1>1. ASSUME IInv, Next PROVE Irrevocable
  <2>1. Running
    BY <1>1 DEF Next, Running, ValidateConfiguration, Connect, RunMigrations,
       CheckHealth, SetUp, Start, At, Accept, Respond, SendAgain, Disconnect,
       ServerClosed, Signal, Destroyed, DestroyRejected, ForceShutdown
  <2>2. server = "closing" => server' = "closing"
    BY <1>1 DEF IInv, ServerInv, Next, ValidateConfiguration, Connect,
       RunMigrations, CheckHealth, SetUp, Start, At, StillDown, Accept,
       Respond, SendAgain, Disconnect, Booted, ServerClosed, Signal, Destroyed,
       DestroyRejected, ForceShutdown
  <2>3. ASSUME server = "closing" PROVE Open' \subseteq Open
    <3>1. CASE UNCHANGED conn
      BY <3>1, OpenUnchanged
    <3>2. CASE \E d \in Connections :
                 Accept(d) \/ Respond(d) \/ SendAgain(d) \/ Disconnect(d)
      <4>1. \A c \in Connections :
              conn'[c] \in {"idle", "busy"} => conn[c] \in {"idle", "busy"}
        BY <1>1, <2>3, <3>2 DEF IInv, TypeOK, Accept, Respond, SendAgain,
           Disconnect
      <4> QED BY <4>1 DEF Open
    <3> QED
      BY <1>1, <3>1, <3>2 DEF Next, ValidateConfiguration, Connect,
         RunMigrations, CheckHealth, SetUp, Start, StillDown, ServerClosed,
         Signal, Destroyed, DestroyRejected, ForceShutdown
  <2>4. ASSUME NEW k \in Signals, shutdown[k] # "none"
        PROVE  shutdown'[k] # "none"
    <3>1. CASE UNCHANGED shutdown
      BY <2>4, <3>1
    <3>2. CASE \E j \in Signals : Signal(j)
      BY <1>1, <2>4, <3>2 DEF IInv, TypeOK, Signal
    <3>3. CASE ServerClosed
      BY <2>4, <3>3 DEF ServerClosed
    <3> QED
      BY <1>1, <3>1, <3>2, <3>3 DEF Next, ValidateConfiguration, Connect,
         RunMigrations, CheckHealth, SetUp, Start, StillDown, Accept, Respond,
         SendAgain, Disconnect, Booted, Destroyed, DestroyRejected,
         ForceShutdown
  <2> QED BY <2>1, <2>2, <2>3, <2>4 DEF Irrevocable
<1> QED BY <1>1, InitIInv, StepIInv, PTL DEF Spec

----------------------------------------------------------------------------
(* The health check. *)

\* What GET /health/security says of DB_SYNCHRONIZE is on the safe side, but
\* not what the start checks: 200 rules the rebuilding of the schema out, and
\* there is an environment production accepts, with which it does not rebuild
\* the schema, that is answered 503 "Auto-sync enabled in production" for good.
THEOREM HealthDoubtsAccepted ==
  /\ \A e : SecurityHealthy(e) => ~Synchronizes(e)
  /\ \E e : /\ IsEnvironment(e) /\ IsProduction(e) /\ validateConfiguration(e)
            /\ ~Synchronizes(e) /\ ~SecurityHealthy(e)
<1>1. \A e : SecurityHealthy(e) => ~Synchronizes(e)
  BY DEF SecurityHealthy, Synchronizes
<1> DEFINE accepted ==
      [NODE_ENV |-> "production", PORT |-> "valid", DB_ACCESS |-> "given",
       DB_PASSWORD |-> "strong", DB_SYNCHRONIZE |-> "unset",
       JWT_SECRET |-> "strong", BCRYPT_SALT_ROUNDS |-> "enough",
       RATE_LIMIT_WINDOW_MS |-> "within", RATE_LIMIT_MAX_REQUESTS |-> "within",
       LOG_LEVEL |-> "known", CORS_ORIGIN |-> "harmless",
       SSL_ENABLED |-> "other", SSL_PATHS |-> "unset", REDIS_HOST |-> "local",
       REDIS_PASSWORD |-> "unset", SESSION_SECRET |-> "unset"]
<1>2. IsEnvironment(accepted)
  BY DEF IsEnvironment, Classes, ValidEnvironments
<1>3. /\ IsProduction(accepted) /\ validateConfiguration(accepted)
      /\ ~Synchronizes(accepted) /\ ~SecurityHealthy(accepted)
  BY DEF IsProduction, validateConfiguration, validateDatabaseConfig,
         validateBasicEnvironment, ValidEnvironments,
         validateProductionSecurity, validateProductionDatabase,
         validateProductionCORS, validateProductionSSL,
         validateProductionSecrets, Synchronizes, SecurityHealthy
<1> HIDE DEF accepted
<1> QED BY <1>1, <1>2, <1>3
==============================================================================
