---------------------------- MODULE MCAppLifecycle ----------------------------
(***************************************************************************)
(* AppLifecycle for TLC: every environment that differs in at most two     *)
(* variables from one that is accepted in production.                      *)
(***************************************************************************)
EXTENDS AppLifecycle

\* A configuration production accepts.
Accepted ==
  [NODE_ENV |-> "production", PORT |-> "valid", DB_ACCESS |-> "given",
   DB_PASSWORD |-> "strong", DB_SYNCHRONIZE |-> "false",
   JWT_SECRET |-> "strong", BCRYPT_SALT_ROUNDS |-> "enough",
   RATE_LIMIT_WINDOW_MS |-> "within", RATE_LIMIT_MAX_REQUESTS |-> "within",
   LOG_LEVEL |-> "known", CORS_ORIGIN |-> "harmless", SSL_ENABLED |-> "true",
   SSL_PATHS |-> "given", REDIS_HOST |-> "external", REDIS_PASSWORD |-> "long",
   SESSION_SECRET |-> "strong"]

\* One variable of e set anew.
Near(e) ==
  UNION {{[e EXCEPT ![v] = x] : x \in Classes[v]} : v \in DOMAIN Classes}

NearAccepted == UNION {Near(e) : e \in Near(Accepted)}
==============================================================================
