----------------------------- MODULE ConfigChecks -----------------------------
(***************************************************************************)
(* What the process makes of its environment variables: the checks of      *)
(* validateConfiguration in main.ts and of validateDatabaseConfig, the     *)
(* options of the data source that depend on a variable, and the answer of *)
(* GET /health/security.  A variable is the class of its value: what the   *)
(* checks tell apart, boundaries included (parseInt of BCRYPT_SALT_ROUNDS  *)
(* is "low" below 12 or when it is not a number; a rate limit is "high"    *)
(* above its maximum or when it is not a number, and zero is "within").    *)
(***************************************************************************)

ValidEnvironments == {"development", "test", "staging", "production"}

\* The classes of each variable.  DB_ACCESS stands for DB_HOST, DB_PORT,
\* DB_USERNAME and DB_DATABASE, SSL_PATHS for SSL_KEY_PATH and SSL_CERT_PATH:
\* "given" when none of them is missing.
Classes ==
  [NODE_ENV                |-> ValidEnvironments \union {"unset", "other"},
   PORT                    |-> {"unset", "invalid", "valid"},
   DB_ACCESS               |-> {"unset", "given"},
   DB_PASSWORD             |-> {"unset", "weak", "strong"},
   DB_SYNCHRONIZE          |-> {"unset", "true", "false"},
   JWT_SECRET              |-> {"unset", "weak", "strong"},
   BCRYPT_SALT_ROUNDS      |-> {"unset", "low", "enough"},
   RATE_LIMIT_WINDOW_MS    |-> {"unset", "high", "within"},
   RATE_LIMIT_MAX_REQUESTS |-> {"unset", "high", "within"},
   LOG_LEVEL               |-> {"unset", "unknown", "known"},
   CORS_ORIGIN             |-> {"unset", "dangerous", "harmless"},
   SSL_ENABLED             |-> {"other", "true"},
   SSL_PATHS               |-> {"unset", "given"},
   REDIS_HOST              |-> {"local", "external"},
   REDIS_PASSWORD          |-> {"unset", "short", "long"},
   SESSION_SECRET          |-> {"unset", "weak", "strong"}]

\* The variable v is in one of its classes, and so is every other.
IsEnvironment(e) ==
  /\ DOMAIN e = DOMAIN Classes
  /\ \A v \in DOMAIN Classes : e[v] \in Classes[v]

IsProduction(e) == e.NODE_ENV = "production"

----------------------------------------------------------------------------
(* validateConfiguration: every check throws, so one failure is enough. *)

validateDatabaseConfig(e) == e.DB_ACCESS = "given" /\ e.DB_PASSWORD # "unset"

validateBasicEnvironment(e) ==
  e.NODE_ENV \in ValidEnvironments /\ e.PORT = "valid"

validateProductionSecurity(e) ==
  /\ e.JWT_SECRET = "strong"
  /\ e.BCRYPT_SALT_ROUNDS = "enough"
  /\ e.RATE_LIMIT_WINDOW_MS = "within"
  /\ e.RATE_LIMIT_MAX_REQUESTS = "within"
  /\ e.LOG_LEVEL = "known"

\* Slip of validateProductionDatabase: DB_SYNCHRONIZE is only warned about.
ProductionDatabaseLenient(e) == e.DB_PASSWORD = "strong"

\* An unset DB_SYNCHRONIZE passes, as does any value other than "true".
validateProductionDatabase(e) ==
  e.DB_PASSWORD = "strong" /\ e.DB_SYNCHRONIZE # "true"

validateProductionCORS(e) == e.CORS_ORIGIN = "harmless"

validateProductionSSL(e) == e.SSL_ENABLED = "true" => e.SSL_PATHS = "given"

validateProductionSecrets(e) ==
  /\ e.REDIS_HOST = "external" => e.REDIS_PASSWORD = "long"
  /\ e.SESSION_SECRET # "weak"

validateConfiguration(e) ==
  /\ validateDatabaseConfig(e)
  /\ validateBasicEnvironment(e)
  /\ IsProduction(e) =>
       /\ validateProductionSecurity(e)
       /\ validateProductionDatabase(e)
       /\ validateProductionCORS(e)
       /\ validateProductionSSL(e)
       /\ validateProductionSecrets(e)

----------------------------------------------------------------------------
(* What the variables do. *)

\* AppDataSource: initialize brings the schema in line with the entities.
Synchronizes(e) == e.DB_SYNCHRONIZE = "true"

\* validateSecurityHealth throws unless DB_SYNCHRONIZE is literally "false";
\* its other five checks are constants or warnings.
SecurityHealthy(e) == e.DB_SYNCHRONIZE = "false"
==============================================================================
