--------------------------- MODULE RequestPipeline ---------------------------
(***************************************************************************)
(* The way of a request through the middlewares in the order of main.ts    *)
(* and user.routes.ts, with two limiters in series: rateLimiters.api,      *)
(* whose store is that of the module extended here, and the limiter of     *)
(* POST /register with a store and a timer of its own.                     *)
(*                                                                         *)
(* The chain of one request runs to its end or to an await before any      *)
(* other code of the process: running is the request it runs for.  What a  *)
(* client sends (path, header, body) is chosen when the code first looks   *)
(* at it.  Response headers other than x-request-id, and what the context  *)
(* and the timing middleware only log, are left out.                       *)
(***************************************************************************)
EXTENDS FixedWindowLimiter, Sequences

CONSTANTS
  Slots,     \* requests in progress at one time; each serves any number
  NoSlot,    \* no chain is running
  NoClient,  \* not known yet
  routeMax,  \* limit of POST /register
  RouterOptions \* the values of UserRouteConfig to start with

ASSUME OptionsAssumption ==
  RouterOptions \subseteq [enableRateLimit : BOOLEAN, enableValidation : BOOLEAN]
ASSUME SlotAssumption == NoSlot \notin Slots
ASSUME RouteAssumption == routeMax \in Nat \ {0} /\ routeMax < MaxHits

VARIABLES
  routeHits, routeResetAt, routeLog, routeRefused,  \* limiter of /register
  request,  \* request[q]: the request slot q serves
  running,  \* the slot whose chain is running
  options   \* the UserRouteConfig the router was made with

apiVars == <<hits, resetAt, log, refused>>
routeVars == <<routeHits, routeResetAt, routeLog, routeRefused>>
pipelineVars == <<vars, routeVars, request, running, options>>

Route == INSTANCE FixedWindowLimiter
  WITH max <- routeMax, hits <- routeHits, resetAt <- routeResetAt,
       log <- routeLog, refused <- routeRefused

----------------------------------------------------------------------------
(* Requests. *)

\* /register, another route of the users' router, a path below the router
\* that it does not know, /health, /health/db, and any other path.
Paths == {"register", "profile", "usersOther", "health", "healthDb", "other"}
UsersPaths == {"register", "profile", "usersOther"}

\* Request ids: none that is a UUID v4, a UUID v4 the client sent, and what
\* uuidv4 returns the first and the second time.
Sent == {"none", "uuid"}
Ids == Sent \union {"first", "second"}

Answers == [status : {200, 201, 204, 400, 404, 409, 429, 500},
            requestId : Ids]

Stages == {"idle", "reading", "context", "apiLimiter", "routes", "querying",
           "routeLimiter", "validation", "controller", "executing",
           "notFound", "answered"}

\* id is req.headers['x-request-id'], header that of the response, context
\* the requestId of req.context, answers the calls of res.json.
NoRequest == [at |-> "idle", path |-> "other", client |-> NoClient,
              valid |-> FALSE, id |-> "none", header |-> "none",
              context |-> "none", answers |-> <<>>]

PipelineTypeOK ==
  /\ TypeOK
  /\ Route!TypeOK
  /\ request \in [Slots -> [at : Stages, path : Paths,
                            client : Clients \union {NoClient},
                            valid : BOOLEAN, id : Ids, header : Ids,
                            context : Ids, answers : Seq(Answers)]]
  /\ running \in Slots \union {NoSlot}
  /\ options \in RouterOptions

\* createUserRoutes is the router with both options TRUE.
PipelineInit ==
  /\ Init
  /\ Route!Init
  /\ request = [q \in Slots |-> NoRequest]
  /\ running = NoSlot
  /\ options \in RouterOptions

----------------------------------------------------------------------------
(* Steps of a chain. *)

NoLimiter == UNCHANGED <<vars, routeVars, options>>

Runs(q, stage) == running = q /\ request[q].at = stage
Awaits(q, stage) == running = NoSlot /\ request[q].at = stage

GoTo(q, stage) == request' = [request EXCEPT ![q].at = stage]

Respond(q, status, id, stage) ==
  request' = [request EXCEPT ![q].at = stage,
                ![q].answers = Append(@, [status |-> status, requestId |-> id])]

\* res.status(status).json({..., requestId}); a success carries no requestId.
Fail(q, status) == Respond(q, status, request[q].id, "answered")
Succeed(q, status) == Respond(q, status, "none", "answered")

\* cors answers a preflight (OPTIONS) itself, before the body and the id: an
\* OPTIONS request reaches neither a limiter nor a route.
Preflight(q) ==
  /\ Awaits(q, "idle")
  /\ running' = q
  /\ Respond(q, 204, "none", "answered")
  /\ NoLimiter

\* Any other request line: express.json waits for the body.
Receive(q) ==
  /\ Awaits(q, "idle")
  /\ GoTo(q, "reading")
  /\ UNCHANGED running
  /\ NoLimiter

\* Malformed JSON is a SyntaxError with a body; any other failure of a body
\* (too large, unknown charset, connection lost) is generic, whatever its own
\* status.
BodyErrorStatus == {400, 500}

\* errorMiddleware after express.json or urlencoded has called next(error).
\* The header x-request-id has not been checked yet: the answer carries it as
\* it came, or 'unknown'.
BodyRejected(q) ==
  /\ Awaits(q, "reading")
  /\ running' = q
  /\ \E status \in BodyErrorStatus : Respond(q, status, "none", "answered")
  /\ NoLimiter

\* Slip of IsValidRequestId: another version of UUID than the generator's.
IsValidRequestIdV7(id) == id = "uuid"

IsValidRequestId(id) == id \in {"uuid", "first", "second"}

GenerateId(id) == IF id = "first" THEN "second" ELSE "first"

\* requestIdMiddleware with the options it has in main.ts and user.routes.ts
RequestIdMiddleware(q, id, next) ==
  LET requestId == IF IsValidRequestId(id) THEN id ELSE GenerateId(id)
  IN request' = [request EXCEPT ![q] = [@ EXCEPT
                   !.id = requestId, !.header = requestId, !.at = next]]

\* The body is read: the chain starts with app.use(requestIdMiddleware()).
BodyRead(q) ==
  /\ Awaits(q, "reading")
  /\ running' = q
  /\ \E sent \in Sent : RequestIdMiddleware(q, sent, "context")
  /\ NoLimiter

\* Slip of RequestContext: next is not called.
RequestContextStops(q) ==
  /\ Runs(q, "context")
  /\ request' = [request EXCEPT ![q].context = request[q].id]
  /\ UNCHANGED running
  /\ NoLimiter

\* requestContextMiddleware and responseTimeMiddleware
RequestContext(q) ==
  /\ Runs(q, "context")
  /\ request' = [request EXCEPT ![q].context = request[q].id,
                                ![q].at = "apiLimiter"]
  /\ UNCHANGED running
  /\ NoLimiter

\* The path of app.use('/api', rateLimiters.api)
UnderApi(path) == path \in UsersPaths

\* The chain goes on, or ends with 429 from createDefaultHandler.
Limited(q, path, c, passes) ==
  LET r == [request[q] EXCEPT !.path = path, !.client = c]
      tooMany == [status |-> 429, requestId |-> r.id]
  IN request' = [request EXCEPT ![q] =
       IF passes
       THEN [r EXCEPT !.at = "routes"]
       ELSE [r EXCEPT !.at = "answered", !.answers = Append(r.answers, tooMany)]]

\* Slip of ApiLimiter: mounted after the users' router.
ApiLimiterAfterRouter(q) ==
  /\ Runs(q, "apiLimiter")
  /\ \E path \in Paths, c \in Clients : Limited(q, path, c, TRUE)
  /\ UNCHANGED running
  /\ NoLimiter

ApiLimiter(q) ==
  /\ Runs(q, "apiLimiter")
  /\ \E path \in Paths, c \in Clients :
       \/ /\ UnderApi(path)
          /\ Request(c)
          /\ Limited(q, path, c, WithinMax(hits'[c]))
       \/ /\ ~UnderApi(path)
          /\ Limited(q, path, c, TRUE)
          /\ UNCHANGED vars
  /\ UNCHANGED <<routeVars, running, options>>

\* /health answers at once, /health/db awaits the query of healthCheck.
HealthRoute(q) ==
  /\ Runs(q, "routes")
  /\ \/ request[q].path = "health" /\ Succeed(q, 200) /\ UNCHANGED running
     \/ request[q].path = "healthDb" /\ GoTo(q, "querying") /\ running' = NoSlot
  /\ NoLimiter

\* healthCheck catches every error of its own: the catch block that would
\* answer 503 is not reached, and an unhealthy database is told with 200.
HealthChecked(q) ==
  /\ Awaits(q, "querying")
  /\ running' = q
  /\ Succeed(q, 200)
  /\ NoLimiter

AfterRouterId(path) ==
  CASE path = "register" -> "routeLimiter"
    [] path = "profile" -> "controller"
    [] path = "usersOther" -> "notFound"

\* The users' router: router.use(requestIdMiddleware()) runs a second time for
\* the request.
UsersRouter(q) ==
  LET r == request[q]
  IN /\ Runs(q, "routes") /\ r.path \in UsersPaths
     /\ RequestIdMiddleware(q, r.id, AfterRouterId(r.path))
     /\ UNCHANGED running
     /\ NoLimiter

\* Slip of NotFound: skipFailedRequests, the answered failure is not counted.
NotFoundUncounted(q) ==
  /\ \/ /\ Runs(q, "notFound")
        /\ hits' = [hits EXCEPT ![request[q].client] = @ - 1]
     \/ /\ Runs(q, "routes") /\ request[q].path = "other"
        /\ UNCHANGED hits
  /\ Fail(q, 404)
  /\ UNCHANGED <<clock, resetAt, log, refused, routeVars, running, options>>

\* notFoundMiddleware
NotFound(q) ==
  /\ \/ Runs(q, "notFound")
     \/ Runs(q, "routes") /\ request[q].path = "other"
  /\ Fail(q, 404)
  /\ UNCHANGED running
  /\ NoLimiter

----------------------------------------------------------------------------
(* POST /register and the placeholders of the controller. *)

RouteLimiter(q) ==
  LET c == request[q].client
  IN /\ Runs(q, "routeLimiter")
     /\ \/ /\ options.enableRateLimit
           /\ Route!Request(c)
           /\ IF Route!WithinMax(routeHits'[c])
              THEN GoTo(q, "validation") ELSE Fail(q, 429)
        \/ /\ ~options.enableRateLimit
           /\ GoTo(q, "validation")
           /\ UNCHANGED <<clock, routeVars>>
     /\ UNCHANGED <<apiVars, running, options>>

\* Slip of Validated: no return after the answer.
ValidatedFallsThrough(q, valid) ==
  request' = [request EXCEPT ![q] = [@ EXCEPT
    !.valid = valid, !.at = "controller",
    !.answers = IF options.enableValidation /\ ~valid
                THEN Append(@, [status |-> 400, requestId |-> request[q].id])
                ELSE @]]

\* validationMiddleware answers, or passes the body on.
Validated(q, valid) ==
  IF options.enableValidation /\ ~valid
  THEN Fail(q, 400)
  ELSE request' = [request EXCEPT ![q].valid = valid, ![q].at = "controller"]

Validation(q) ==
  /\ Runs(q, "validation")
  /\ \E valid \in BOOLEAN : Validated(q, valid)
  /\ UNCHANGED running
  /\ NoLimiter

\* Slip of Register: the controller trusts the middleware.
RegisterTrusting(q) ==
  /\ Runs(q, "controller") /\ request[q].path = "register"
  /\ GoTo(q, "executing") /\ running' = NoSlot
  /\ NoLimiter

\* UserController.register validates the body a second time, then awaits
\* CreateUserUseCase.execute.
Register(q) ==
  /\ Runs(q, "controller") /\ request[q].path = "register"
  /\ IF request[q].valid
     THEN GoTo(q, "executing") /\ running' = NoSlot
     ELSE Fail(q, 400) /\ UNCHANGED running
  /\ NoLimiter

\* getProfile, updateProfile and healthCheck of the controller
Profile(q) ==
  /\ Runs(q, "controller") /\ request[q].path = "profile"
  /\ Succeed(q, 200)
  /\ UNCHANGED running
  /\ NoLimiter

\* The use case has answered: 201, or the status getErrorStatusCode finds for
\* the code of the error; a rejected promise is the catch block's 500.
Executed(q) ==
  /\ Awaits(q, "executing")
  /\ running' = q
  /\ Succeed(q, 201) \/ \E status \in {400, 409, 500} : Fail(q, status)
  /\ NoLimiter

\* The chain has run to its end: other code runs, and the slot is free.
ChainEnds(q) ==
  /\ Runs(q, "answered")
  /\ request' = [request EXCEPT ![q] = NoRequest]
  /\ running' = NoSlot
  /\ NoLimiter

----------------------------------------------------------------------------
\* Time passes at any point; the timers of the stores wait for the chain.
PassTime ==
  /\ Tick
  /\ UNCHANGED <<routeVars, request, running, options>>

ApiTimer ==
  /\ running = NoSlot
  /\ ResetAll
  /\ UNCHANGED <<routeVars, request, running, options>>

RouteTimer ==
  /\ running = NoSlot
  /\ Route!ResetAll
  /\ UNCHANGED <<apiVars, request, running, options>>

ChainStep(q) ==
  \/ RequestContext(q) \/ ApiLimiter(q) \/ HealthRoute(q) \/ UsersRouter(q)
  \/ RouteLimiter(q) \/ Validation(q) \/ Register(q) \/ Profile(q)
  \/ NotFound(q) \/ ChainEnds(q)

Resumed(q) == HealthChecked(q) \/ Executed(q)

PipelineNext ==
  \/ PassTime \/ ApiTimer \/ RouteTimer
  \/ \E q \in Slots :
       \/ Preflight(q) \/ Receive(q) \/ BodyRejected(q) \/ BodyRead(q)
       \/ ChainStep(q) \/ Resumed(q)

\* The chain of a request runs on, and the use case and the database answer,
\* however often other requests come first; a body may never arrive.
PipelineSpec ==
  /\ PipelineInit /\ [][PipelineNext]_pipelineVars
  /\ \A q \in Slots : WF_pipelineVars(ChainStep(q)) /\ SF_pipelineVars(Resumed(q))

----------------------------------------------------------------------------
(* Properties. *)

\* A request is answered once, and its chain ends there: no middleware answers
\* and calls next, none ends without either.
OneAnswer ==
  \A q \in Slots :
    Len(request[q].answers) = IF request[q].at = "answered" THEN 1 ELSE 0

\* A request whose body was read has one id: the one in the context made
\* before the router, in the answer's body and in the answer's header are the
\* same, although requestIdMiddleware runs again in the router.
OneRequestId ==
  \A q \in Slots :
    LET r == request[q]
    IN r.at = "answered" /\ r.header # "none" =>
         /\ r.context = r.header
         /\ r.answers[1].requestId \in {"none", r.header}

\* Whatever the router's options, the use case is never given a body that the
\* schema refuses: with enableValidation FALSE the controller's own check is
\* the only one.
OnlyValidExecuted ==
  \A q \in Slots : request[q].at = "executing" => request[q].valid

\* The limit of the API guards the limit of registration: a client has never
\* had more requests through the second limiter than through the first.
ApiGuardsRoute ==
  \A c \in Clients : Cardinality(routeLog[c]) <= Cardinality(log[c])

\* Two limiters in series keep what each promises alone: at most twice max of
\* a client in any window, and nobody refused before max have passed, although
\* their windows begin at different times and the first counts what the second
\* refuses.
EachLimiterKeepsItsPromise ==
  /\ AtMostTwiceMax /\ Route!AtMostTwiceMax
  /\ RefusedOnlyAtMax /\ Route!RefusedOnlyAtMax

\* Each limiter, seen alone, behaves as FixedWindowLimiter says, whatever the
\* chain does around it.
LimitersRefined ==
  /\ Init /\ [][Next]_vars
  /\ Route!Init /\ [][Route!Next]_<<clock, routeVars>>

\* A request that reached the first middleware is answered.
EveryReadRequestAnswered ==
  \A q \in Slots : request[q].at = "context" ~> request[q].at = "answered"
==============================================================================
