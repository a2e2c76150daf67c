------------------------ MODULE RequestPipelineProofs -------------------------
(***************************************************************************)
(* Theorems about RequestPipeline for any requests in progress, clients,   *)
(* windows, limits and router options.  What the limiter of the API keeps  *)
(* is FixedWindowProofs', and what that of POST /register keeps is the     *)
(* same with its own limit and store.                                      *)
(***************************************************************************)
EXTENDS RequestPipeline, FixedWindowProofs

RouteP == INSTANCE FixedWindowProofs
  WITH max <- routeMax, hits <- routeHits, resetAt <- routeResetAt,
       log <- routeLog, refused <- routeRefused

RequestType ==
  [at : Stages, path : Paths, client : Clients \union {NoClient},
   valid : BOOLEAN, id : Ids, header : Ids, context : Ids, answers : Seq(Answers)]

\* What a request has on its way: no answer before its last stage and one
\* there; from the stage on that sets it, the checked id, its copies in the
\* header and in the context, and the client; the path of the stages only
\* registration has, and a body the schema accepts where it is executed.
Sound(r) ==
  /\ r \in RequestType
  /\ Len(r.answers) = IF r.at = "answered" THEN 1 ELSE 0
  /\ r.at \in {"idle", "reading"} => r.header = "none"
  /\ r.at \notin {"idle", "reading", "answered"} =>
       r.header = r.id /\ IsValidRequestId(r.id)
  /\ r.at \notin {"idle", "reading", "context", "answered"} => r.context = r.id
  /\ r.at = "answered" /\ r.header # "none" =>
       /\ r.context = r.header
       /\ r.answers[1].requestId \in {"none", r.header}
  /\ r.at \in {"routes", "routeLimiter"} => r.client \in Clients
  /\ r.at = "executing" => r.valid

\* Between its two limiters a request of the users' router has been counted by
\* the first and not by the second, and nothing else runs.
BetweenLimiters(q) ==
  request[q].at \in {"routes", "routeLimiter"} /\ request[q].path \in UsersPaths

GuardInv ==
  \A q \in Slots :
    BetweenLimiters(q) =>
      /\ running = q
      /\ Cardinality(routeLog[request[q].client]) < Cardinality(log[request[q].client])

SlotsInv ==
  /\ request \in [Slots -> RequestType]
  /\ \A q \in Slots : Sound(request[q])
  /\ \A q \in Slots : request[q].at = "routeLimiter" => request[q].path = "register"
  /\ running \in Slots \union {NoSlot}
  /\ options \in RouterOptions

PipelineInv ==
  /\ IInv
  /\ RouteP!IInv
  /\ SlotsInv
  /\ GuardInv
  /\ ApiGuardsRoute

----------------------------------------------------------------------------
(* The limiter of /register as RequestPipeline and as the proofs name it. *)

LEMMA SameLimiter ==
  /\ Route!Init => RouteP!Init
  /\ Route!ResetAll => RouteP!ResetAll
  /\ \A c \in Clients : Route!Request(c) => RouteP!Request(c)
  /\ \A n : Route!WithinMax(n) <=> RouteP!WithinMax(n)
<1>1. Route!Init => RouteP!Init
  BY DEF Route!Init, RouteP!Init, Route!EmptyStore, RouteP!EmptyStore
<1>2. Route!ResetAll => RouteP!ResetAll
  BY DEF Route!ResetAll, RouteP!ResetAll, Route!EmptyStore, RouteP!EmptyStore
<1>3. \A n : Route!WithinMax(n) <=> RouteP!WithinMax(n)
  BY DEF Route!WithinMax, RouteP!WithinMax
<1>4. ASSUME NEW c \in Clients, Route!Request(c) PROVE RouteP!Request(c)
  BY <1>4 DEF Route!Request, RouteP!Request, Route!Handle, RouteP!Handle,
    Route!WithinMax, RouteP!WithinMax, Route!Count, RouteP!Count,
    Route!New, RouteP!New, Route!Cardinality, RouteP!Cardinality
<1> QED
  BY <1>1, <1>2, <1>3, <1>4

LEMMA SameLimiterInv ==
  RouteP!IInv => Route!TypeOK /\ Route!AtMostTwiceMax /\ Route!RefusedOnlyAtMax
<1>1. RouteP!IInv => RouteP!TypeOK /\ RouteP!AtMostTwiceMax
  BY DEF RouteP!IInv
<1>2. RouteP!IInv => RouteP!RefusedOnlyAtMax
  BY RouteP!RefusedInv, WindowAssumption, RouteAssumption
<1>3. RouteP!TypeOK => Route!TypeOK
  BY DEF Route!TypeOK, RouteP!TypeOK, Route!Admission, RouteP!Admission
<1>4. RouteP!AtMostTwiceMax => Route!AtMostTwiceMax
  BY DEF Route!AtMostTwiceMax, RouteP!AtMostTwiceMax, Route!Within, RouteP!Within,
    Route!Cardinality, RouteP!Cardinality
<1>5. RouteP!RefusedOnlyAtMax => Route!RefusedOnlyAtMax
  BY DEF Route!RefusedOnlyAtMax, RouteP!RefusedOnlyAtMax,
    Route!Cardinality, RouteP!Cardinality
<1> QED
  BY <1>1, <1>2, <1>3, <1>4, <1>5

LEMMA Counts == IInv => \A c \in Clients : Cardinality(log[c]) \in Nat
  BY FS_CardinalityType DEF IInv, LogInv

LEMMA RouteCounts ==
  RouteP!IInv => \A c \in Clients : Cardinality(routeLog[c]) \in Nat
<1>1. \A S : IsFiniteSet(S) <=> RouteP!IsFiniteSet(S)
  BY DEF IsFiniteSet, RouteP!IsFiniteSet
<1> QED
  BY <1>1, FS_CardinalityType DEF RouteP!IInv, RouteP!LogInv

LEMMA RouteInit == Route!Init => RouteP!IInv
  BY SameLimiter, RouteP!InitIInv, WindowAssumption, RouteAssumption

LEMMA RouteUntouched ==
  RouteP!IInv /\ UNCHANGED <<clock, routeVars>> => RouteP!IInv'
<1>1. UNCHANGED <<clock, routeVars>> => UNCHANGED RouteP!vars
  BY DEF routeVars, RouteP!vars
<1> QED
  BY <1>1, RouteP!StutterIInv, WindowAssumption, RouteAssumption

LEMMA RouteTick == RouteP!IInv /\ Tick /\ UNCHANGED routeVars => RouteP!IInv'
<1>1. Tick /\ UNCHANGED routeVars => RouteP!Tick
  BY DEF Tick, RouteP!Tick, routeVars
<1> QED
  BY <1>1, RouteP!TickIInv, WindowAssumption, RouteAssumption

LEMMA RouteReset == RouteP!IInv /\ Route!ResetAll => RouteP!IInv'
  BY SameLimiter, RouteP!ResetIInv, WindowAssumption, RouteAssumption

LEMMA RouteRequest ==
  ASSUME RouteP!IInv, NEW c \in Clients, Route!Request(c)
  PROVE  /\ RouteP!IInv'
         /\ \A d \in Clients : Cardinality(routeLog[d]) \in Nat
         /\ \A d \in Clients \ {c} : routeLog'[d] = routeLog[d]
         /\ Cardinality(routeLog'[c]) \in Nat
         /\ Cardinality(routeLog'[c]) <= Cardinality(routeLog[c]) + 1
<1>1. RouteP!Request(c)
  BY SameLimiter
<1>2. RouteP!IInv'
  BY <1>1, RouteP!RequestIInv, WindowAssumption, RouteAssumption
<1>3. /\ \A d \in Clients : RouteP!Cardinality(routeLog[d]) \in Nat
      /\ \A d \in Clients \ {c} : routeLog'[d] = routeLog[d]
      /\ RouteP!Cardinality(routeLog'[c]) =
           RouteP!Cardinality(routeLog[c])
             + (IF RouteP!WithinMax(routeHits'[c]) THEN 1 ELSE 0)
  BY <1>1, RouteP!LogsGrow, WindowAssumption, RouteAssumption
<1>4. \A S : RouteP!Cardinality(S) = Cardinality(S)
  BY DEF RouteP!Cardinality, Cardinality
<1> QED
  BY <1>2, <1>3, <1>4

----------------------------------------------------------------------------
(* The requests. *)

\* The other slots are not touched.
OthersStay(q) == \A p \in Slots \ {q} : request'[p] = request[p]

LEMMA SoundIsTyped == \A r : Sound(r) => r \in RequestType
  BY DEF Sound

\* A step of one slot leaves the other slots sound.
LEMMA OtherSlots ==
  ASSUME SlotsInv, NEW q \in Slots, NEW r, Sound(r),
         request' = [request EXCEPT ![q] = r],
         r.at = "routeLimiter" => r.path = "register",
         running' \in Slots \union {NoSlot}, options' = options
  PROVE  SlotsInv' /\ OthersStay(q) /\ request'[q] = r
<1>1. r \in RequestType
  BY SoundIsTyped
<1>2. request' \in [Slots -> RequestType]
  BY <1>1 DEF SlotsInv
<1>3. \A p \in Slots : request'[p] = IF p = q THEN r ELSE request[p]
  BY DEF SlotsInv
<1> QED
  BY <1>2, <1>3 DEF SlotsInv, OthersStay

LEMMA GoToSound ==
  ASSUME SlotsInv, NEW q \in Slots, NEW stage \in Stages,
         GoTo(q, stage), options' = options,
         running' \in Slots \union {NoSlot},
         request[q].at \notin {"idle", "reading", "context", "answered"},
         stage \in {"querying", "validation", "controller", "executing"},
         stage = "executing" => request[q].valid
  PROVE  SlotsInv' /\ OthersStay(q) /\ request'[q].at = stage
<1> DEFINE r == [request[q] EXCEPT !.at = stage]
<1>1. Sound(request[q]) /\ request[q] \in RequestType
  BY DEF SlotsInv
<1>2. Sound(r)
  BY <1>1 DEF Sound, RequestType
<1>3. request' = [request EXCEPT ![q] = r]
  BY DEF GoTo
<1>4. r.at = stage
  BY <1>1 DEF RequestType
<1> HIDE DEF r
<1> QED
  BY <1>2, <1>3, <1>4, OtherSlots

LEMMA RespondSound ==
  ASSUME SlotsInv, NEW q \in Slots, NEW status, NEW id,
         [status |-> status, requestId |-> id] \in Answers,
         Respond(q, status, id, "answered"), options' = options,
         running' \in Slots \union {NoSlot},
         \/ request[q].at \in {"idle", "reading"} /\ id = "none"
         \/ /\ request[q].at \notin {"idle", "reading", "context", "answered"}
            /\ id \in {"none", request[q].id}
  PROVE  SlotsInv' /\ OthersStay(q) /\ request'[q].at = "answered"
<1> DEFINE a == [status |-> status, requestId |-> id]
           r == [request[q] EXCEPT !.at = "answered", !.answers = Append(@, a)]
<1>1. Sound(request[q]) /\ request[q] \in RequestType /\ request \in [Slots -> RequestType]
  BY DEF SlotsInv
<1>2. /\ Append(request[q].answers, a) \in Seq(Answers)
      /\ Len(Append(request[q].answers, a)) = 1
      /\ Append(request[q].answers, a)[1] = a
  <2>1. request[q].answers \in Seq(Answers) /\ Len(request[q].answers) = 0
    BY <1>1 DEF Sound, RequestType
  <2> QED
    BY <2>1
<1>3. "answered" \in Stages
  BY DEF Stages
<1>4. /\ r \in RequestType /\ r.at = "answered"
      /\ r.answers = Append(request[q].answers, a)
      /\ r.header = request[q].header /\ r.context = request[q].context
  BY <1>1, <1>2, <1>3 DEF RequestType
<1>5. r.header # "none" =>
        r.context = r.header /\ r.answers[1].requestId \in {"none", r.header}
  BY <1>1, <1>2, <1>4 DEF Sound
<1>6. Sound(r)
  BY <1>2, <1>4, <1>5 DEF Sound
<1>7. request' = [request EXCEPT ![q] = r]
  BY <1>1 DEF Respond
<1> HIDE DEF r
<1> QED
  BY <1>4, <1>6, <1>7, OtherSlots

\* The id, its header and its context: a second run changes nothing.
LEMMA RequestIdSound ==
  ASSUME SlotsInv, NEW q \in Slots, NEW id \in Ids, NEW next \in Stages,
         RequestIdMiddleware(q, id, next), options' = options,
         running' \in Slots \union {NoSlot},
         \/ request[q].at = "reading" /\ next = "context"
         \/ /\ request[q].at = "routes" /\ id = request[q].id
            /\ next \in {"routeLimiter", "controller", "notFound"}
            /\ next = "routeLimiter" => request[q].path = "register"
  PROVE  /\ SlotsInv' /\ OthersStay(q)
         /\ request'[q].at = next
         /\ request'[q].client = request[q].client
<1> DEFINE new == IF IsValidRequestId(id) THEN id ELSE GenerateId(id)
           r == [request[q] EXCEPT !.id = new, !.header = new, !.at = next]
<1>1. Sound(request[q]) /\ request[q] \in RequestType
  BY DEF SlotsInv
<1>2. new \in Ids /\ IsValidRequestId(new)
  BY DEF Ids, Sent, IsValidRequestId, GenerateId
<1>3. request' = [request EXCEPT ![q] = r]
  BY DEF RequestIdMiddleware
<1>4. request[q].at = "routes" => new = request[q].id
  BY <1>1 DEF Sound
<1> HIDE DEF new
<1>5. /\ r \in RequestType /\ r.id = new /\ r.header = new /\ r.at = next
      /\ r.context = request[q].context /\ r.client = request[q].client
      /\ r.answers = request[q].answers /\ r.path = request[q].path
  BY <1>1, <1>2 DEF RequestType
<1> HIDE DEF r
<1>6. Sound(r)
  BY <1>1, <1>2, <1>4, <1>5 DEF Sound
<1> QED
  BY <1>3, <1>5, <1>6, OtherSlots

\* A step that touches no limiter and does not go to one keeps the invariant
\* if the slots stay sound.
LEMMA QuietStep ==
  ASSUME PipelineInv, NoLimiter, NEW q \in Slots, running \in {q, NoSlot},
         SlotsInv', OthersStay(q),
         request'[q].at \notin {"routes", "routeLimiter"}
  PROVE  PipelineInv'
<1>1. UNCHANGED vars /\ UNCHANGED <<clock, routeVars>>
      /\ log' = log /\ routeLog' = routeLog
  BY DEF NoLimiter, vars, routeVars
<1>2. IInv' /\ RouteP!IInv'
  BY <1>1, StutterIInv, RouteUntouched DEF PipelineInv
<1>3. \A p \in Slots : ~BetweenLimiters(p)'
  BY SlotAssumption DEF PipelineInv, GuardInv, BetweenLimiters, OthersStay
<1>4. GuardInv'
  BY <1>3 DEF GuardInv
<1>5. ApiGuardsRoute'
  BY <1>1 DEF PipelineInv, ApiGuardsRoute
<1> QED
  BY <1>2, <1>4, <1>5 DEF PipelineInv

\* All statuses and ids of answers.
LEMMA AnswersAre ==
  \A status \in {200, 201, 204, 400, 404, 409, 429, 500}, id \in Ids :
    [status |-> status, requestId |-> id] \in Answers
  BY DEF Answers

LEMMA FailSucceedSound ==
  ASSUME SlotsInv, NEW q \in Slots, NEW status \in {200, 201, 204, 400, 404, 409, 429, 500},
         Fail(q, status) \/ Succeed(q, status), options' = options,
         running' \in Slots \union {NoSlot},
         request[q].at \notin {"idle", "reading", "context", "answered"}
  PROVE  SlotsInv' /\ OthersStay(q) /\ request'[q].at = "answered"
<1>1. request[q].id \in Ids /\ "none" \in Ids
  BY DEF SlotsInv, RequestType, Ids, Sent
<1>2. [status |-> status, requestId |-> request[q].id] \in Answers
      /\ [status |-> status, requestId |-> "none"] \in Answers
  BY <1>1, AnswersAre
<1> QED
  BY <1>1, <1>2, RespondSound DEF Fail, Succeed

LEMMA ReceiveInv ==
  ASSUME PipelineInv, NEW q \in Slots, Receive(q)
  PROVE  PipelineInv'
<1> DEFINE r == [request[q] EXCEPT !.at = "reading"]
<1>1. Sound(request[q]) /\ request[q] \in RequestType /\ request[q].at = "idle"
      /\ running = NoSlot
  BY DEF PipelineInv, SlotsInv, Receive, Awaits
<1>2. Sound(r) /\ r.at = "reading"
  BY <1>1 DEF Sound, RequestType, Stages
<1>3. request' = [request EXCEPT ![q] = r]
  BY DEF Receive, GoTo
<1>4. running' \in Slots \union {NoSlot} /\ options' = options /\ NoLimiter
  BY <1>1 DEF Receive, NoLimiter
<1> HIDE DEF r
<1>5. SlotsInv' /\ OthersStay(q) /\ request'[q].at = "reading"
  BY <1>2, <1>3, <1>4, OtherSlots DEF PipelineInv
<1> QED
  BY <1>1, <1>4, <1>5, QuietStep

LEMMA PreflightInv ==
  ASSUME PipelineInv, NEW q \in Slots, Preflight(q)
  PROVE  PipelineInv'
<1>1. SlotsInv /\ running = NoSlot /\ request[q].at = "idle" /\ NoLimiter
      /\ running' = q /\ options' = options /\ "none" \in Ids
  BY DEF PipelineInv, Preflight, Awaits, NoLimiter, Ids, Sent
<1>2. [status |-> 204, requestId |-> "none"] \in Answers
  BY <1>1, AnswersAre
<1>3. SlotsInv' /\ OthersStay(q) /\ request'[q].at = "answered"
  BY <1>1, <1>2, RespondSound DEF Preflight
<1> QED
  BY <1>1, <1>3, QuietStep

LEMMA BodyInv ==
  ASSUME PipelineInv, NEW q \in Slots, BodyRejected(q) \/ BodyRead(q)
  PROVE  PipelineInv'
<1>1. SlotsInv /\ running = NoSlot /\ request[q].at = "reading" /\ NoLimiter
      /\ running' = q /\ options' = options /\ "none" \in Ids /\ Sent \subseteq Ids
  BY DEF PipelineInv, BodyRejected, BodyRead, Awaits, NoLimiter, Ids, Sent
<1>2. CASE BodyRejected(q)
  <2>1. PICK status \in BodyErrorStatus : Respond(q, status, "none", "answered")
    BY <1>2 DEF BodyRejected
  <2>2. [status |-> status, requestId |-> "none"] \in Answers
    BY <1>1, AnswersAre DEF BodyErrorStatus
  <2>3. SlotsInv' /\ OthersStay(q) /\ request'[q].at = "answered"
    BY <1>1, <2>1, <2>2, RespondSound
  <2> QED
    BY <1>1, <2>3, QuietStep
<1>3. CASE BodyRead(q)
  <2>1. PICK sent \in Sent : RequestIdMiddleware(q, sent, "context")
    BY <1>3 DEF BodyRead
  <2>2. "context" \in Stages
    BY DEF Stages
  <2>3. SlotsInv' /\ OthersStay(q) /\ request'[q].at = "context"
    BY <1>1, <2>1, <2>2, RequestIdSound
  <2> QED
    BY <1>1, <2>3, QuietStep
<1> QED
  BY <1>2, <1>3

LEMMA ContextInv ==
  ASSUME PipelineInv, NEW q \in Slots, RequestContext(q)
  PROVE  PipelineInv'
<1> DEFINE r == [request[q] EXCEPT !.context = request[q].id, !.at = "apiLimiter"]
<1>1. Sound(request[q]) /\ request[q] \in RequestType /\ request[q].at = "context"
      /\ running = q /\ request \in [Slots -> RequestType]
  BY DEF PipelineInv, SlotsInv, RequestContext, Runs
<1>2. Sound(r) /\ r.at = "apiLimiter"
  BY <1>1 DEF Sound, RequestType, Stages
<1>3. request' = [request EXCEPT ![q] = r]
  BY <1>1 DEF RequestContext
<1>4. running' \in Slots \union {NoSlot} /\ options' = options /\ NoLimiter
  BY <1>1 DEF RequestContext, NoLimiter
<1> HIDE DEF r
<1>5. SlotsInv' /\ OthersStay(q) /\ request'[q].at = "apiLimiter"
  BY <1>2, <1>3, <1>4, OtherSlots DEF PipelineInv
<1> QED
  BY <1>1, <1>4, <1>5, QuietStep

\* The steps that only answer or go on to a stage without a limiter.
LEMMA AnswerInv ==
  ASSUME PipelineInv, NEW q \in Slots,
         HealthRoute(q) \/ HealthChecked(q) \/ NotFound(q) \/ Register(q)
           \/ Profile(q) \/ Executed(q)
  PROVE  PipelineInv'
<1>1. /\ running \in {q, NoSlot} /\ running' \in Slots \union {NoSlot}
      /\ NoLimiter /\ options' = options /\ SlotsInv
      /\ request[q].at \notin {"idle", "reading", "context", "answered"}
  BY DEF PipelineInv, HealthRoute, HealthChecked, NotFound, Register, Profile,
         Executed, Runs, Awaits, NoLimiter
<1>2. \/ \E status \in {200, 201, 204, 400, 404, 409, 429, 500} :
             Fail(q, status) \/ Succeed(q, status)
      \/ \E stage \in {"querying", "executing"} :
             GoTo(q, stage) /\ (stage = "executing" => request[q].valid)
  BY DEF HealthRoute, HealthChecked, NotFound, Register, Profile, Executed
<1>3. CASE \E status \in {200, 201, 204, 400, 404, 409, 429, 500} :
             Fail(q, status) \/ Succeed(q, status)
  <2>1. SlotsInv' /\ OthersStay(q) /\ request'[q].at = "answered"
    BY <1>1, <1>3, FailSucceedSound
  <2> QED
    BY <1>1, <2>1, QuietStep
<1>4. CASE \E stage \in {"querying", "executing"} :
             GoTo(q, stage) /\ (stage = "executing" => request[q].valid)
  <2>1. "querying" \in Stages /\ "executing" \in Stages
    BY DEF Stages
  <2>2. SlotsInv' /\ OthersStay(q) /\ request'[q].at \in {"querying", "executing"}
    BY <1>1, <1>4, <2>1, GoToSound
  <2> QED
    BY <1>1, <2>2, QuietStep
<1> QED
  BY <1>2, <1>3, <1>4

LEMMA ValidationInv ==
  ASSUME PipelineInv, NEW q \in Slots, Validation(q)
  PROVE  PipelineInv'
<1>1. /\ running = q /\ running' \in Slots \union {NoSlot}
      /\ NoLimiter /\ options' = options /\ SlotsInv
      /\ request[q].at = "validation"
  BY DEF PipelineInv, Validation, Runs, NoLimiter
<1>2. PICK valid \in BOOLEAN : Validated(q, valid)
  BY DEF Validation
<1>3. CASE Fail(q, 400)
  <2>1. SlotsInv' /\ OthersStay(q) /\ request'[q].at = "answered"
    BY <1>1, <1>3, FailSucceedSound
  <2> QED
    BY <1>1, <2>1, QuietStep
<1>4. CASE request' = [request EXCEPT ![q].valid = valid, ![q].at = "controller"]
  <2> DEFINE r == [request[q] EXCEPT !.valid = valid, !.at = "controller"]
  <2>1. Sound(request[q]) /\ request[q] \in RequestType
        /\ request \in [Slots -> RequestType]
    BY <1>1 DEF SlotsInv
  <2>2. Sound(r) /\ r.at = "controller"
    BY <1>1, <2>1 DEF Sound, RequestType, Stages
  <2>3. request' = [request EXCEPT ![q] = r]
    BY <1>4, <2>1
  <2> HIDE DEF r
  <2>4. SlotsInv' /\ OthersStay(q) /\ request'[q].at = "controller"
    BY <1>1, <2>2, <2>3, OtherSlots
  <2> QED
    BY <1>1, <2>4, QuietStep
<1> QED
  BY <1>2, <1>3, <1>4 DEF Validated

LEMMA ChainEndsInv ==
  ASSUME PipelineInv, NEW q \in Slots, ChainEnds(q)
  PROVE  PipelineInv'
<1>1. /\ running = q /\ running' \in Slots \union {NoSlot}
      /\ NoLimiter /\ options' = options /\ SlotsInv
      /\ request' = [request EXCEPT ![q] = NoRequest]
  BY DEF PipelineInv, ChainEnds, Runs, NoLimiter
<1>2. Sound(NoRequest) /\ NoRequest.at = "idle"
  BY DEF Sound, NoRequest, RequestType, Stages, Paths, Ids, Sent
<1>3. SlotsInv' /\ OthersStay(q) /\ request'[q].at = "idle"
  BY <1>1, <1>2, OtherSlots
<1> QED
  BY <1>1, <1>3, QuietStep

----------------------------------------------------------------------------
(* The steps between and through the limiters. *)

\* While the slot of a step runs, or none, no other is between the limiters.
LEMMA GuardStep ==
  ASSUME PipelineInv, NEW q \in Slots, running = q, OthersStay(q),
         BetweenLimiters(q)' =>
           /\ running' = q
           /\ Cardinality(routeLog'[request'[q].client])
                < Cardinality(log'[request'[q].client])
  PROVE  GuardInv'
<1>1. \A p \in Slots \ {q} : ~BetweenLimiters(p)'
  BY DEF PipelineInv, GuardInv, BetweenLimiters, OthersStay
<1> QED
  BY <1>1 DEF GuardInv

LEMMA RouterInv ==
  ASSUME PipelineInv, NEW q \in Slots, UsersRouter(q)
  PROVE  PipelineInv'
<1>1. /\ running = q /\ running' = q /\ NoLimiter /\ options' = options
      /\ SlotsInv /\ request[q].at = "routes" /\ request[q].path \in UsersPaths
  BY DEF PipelineInv, UsersRouter, Runs, NoLimiter
<1>2. PICK next : /\ RequestIdMiddleware(q, request[q].id, next)
                  /\ next \in {"routeLimiter", "controller", "notFound"}
                  /\ next = "routeLimiter" => request[q].path = "register"
  BY <1>1 DEF UsersRouter, AfterRouterId, UsersPaths
<1>3. next \in Stages /\ request[q].id \in Ids
  BY <1>1, <1>2 DEF Stages, SlotsInv, RequestType
<1>4. /\ SlotsInv' /\ OthersStay(q) /\ request'[q].client = request[q].client
  BY <1>1, <1>2, <1>3, RequestIdSound
<1>5. UNCHANGED vars /\ UNCHANGED <<clock, routeVars>>
      /\ log' = log /\ routeLog' = routeLog
  BY <1>1 DEF NoLimiter, vars, routeVars
<1>6. IInv' /\ RouteP!IInv'
  BY <1>5, StutterIInv, RouteUntouched DEF PipelineInv
<1>7. BetweenLimiters(q)
  BY <1>1 DEF BetweenLimiters
<1>8. GuardInv'
  BY <1>1, <1>4, <1>5, <1>7, GuardStep DEF PipelineInv, GuardInv
<1>9. ApiGuardsRoute'
  BY <1>5 DEF PipelineInv, ApiGuardsRoute
<1> QED
  BY <1>4, <1>6, <1>8, <1>9 DEF PipelineInv

\* The answer of a limiter, or the way on to the router.
LEMMA LimitedSound ==
  ASSUME SlotsInv, NEW q \in Slots, NEW path \in Paths, NEW c \in Clients,
         NEW passes \in BOOLEAN, Limited(q, path, c, passes), options' = options,
         running' \in Slots \union {NoSlot}, request[q].at = "apiLimiter"
  PROVE  /\ SlotsInv' /\ OthersStay(q)
         /\ passes => request'[q].client = c /\ request'[q].path = path
         /\ ~passes => request'[q].at = "answered"
<1>1. Sound(request[q]) /\ request[q] \in RequestType
  BY DEF SlotsInv
<1>2. CASE passes
  <2> DEFINE r == [request[q] EXCEPT !.path = path, !.client = c, !.at = "routes"]
  <2>1. Sound(r) /\ r.at = "routes" /\ r.client = c /\ r.path = path
    BY <1>1 DEF Sound, RequestType, Stages
  <2>2. request' = [request EXCEPT ![q] = r]
    BY <1>2 DEF Limited
  <2> HIDE DEF r
  <2> QED
    BY <1>2, <2>1, <2>2, OtherSlots
<1>3. CASE ~passes
  <2> DEFINE a == [status |-> 429, requestId |-> request[q].id]
             r == [request[q] EXCEPT !.path = path, !.client = c, !.at = "answered",
                                     !.answers = Append(@, a)]
  <2>1. a \in Answers /\ a.requestId = request[q].id
    BY <1>1 DEF Answers, RequestType
  <2> HIDE DEF a
  <2>2. /\ Append(request[q].answers, a) \in Seq(Answers)
        /\ Len(Append(request[q].answers, a)) = 1
        /\ Append(request[q].answers, a)[1] = a
    <3>1. request[q].answers \in Seq(Answers) /\ Len(request[q].answers) = 0
      BY <1>1 DEF Sound, RequestType
    <3> QED
      BY <2>1, <3>1
  <2>3. "answered" \in Stages
    BY DEF Stages
  <2>4. /\ r \in RequestType /\ r.at = "answered"
        /\ r.answers = Append(request[q].answers, a)
        /\ r.header = request[q].header /\ r.context = request[q].context
    BY <1>1, <2>2, <2>3 DEF RequestType
  <2>5. request[q].header = request[q].id /\ request[q].context = request[q].id
    BY <1>1 DEF Sound
  <2>6. Sound(r)
    BY <2>1, <2>2, <2>4, <2>5 DEF Sound
  <2>7. request' = [request EXCEPT ![q] = r]
    BY <1>3 DEF Limited, a
  <2> HIDE DEF r
  <2> QED
    BY <1>3, <2>4, <2>6, <2>7, OtherSlots
<1> QED
  BY <1>2, <1>3

\* Counted by the first limiter, the request has one more in its log than the
\* second can have.
LEMMA ApiLimiterInv ==
  ASSUME PipelineInv, NEW q \in Slots, ApiLimiter(q)
  PROVE  PipelineInv'
<1>1. /\ running = q /\ running' = q /\ options' = options /\ SlotsInv
      /\ request[q].at = "apiLimiter" /\ UNCHANGED routeVars
  BY DEF PipelineInv, ApiLimiter, Runs
<1>2. ASSUME NEW path \in Paths, NEW c \in Clients, UnderApi(path), Request(c),
             Limited(q, path, c, WithinMax(hits'[c]))
      PROVE  PipelineInv'
  <2>1. /\ SlotsInv' /\ OthersStay(q)
        /\ WithinMax(hits'[c]) => request'[q].client = c
        /\ ~WithinMax(hits'[c]) => request'[q].at = "answered"
    <3>1. WithinMax(hits'[c]) \in BOOLEAN
      BY DEF WithinMax
    <3> HIDE DEF WithinMax
    <3> QED
      BY <1>1, <1>2, <3>1, LimitedSound
  <2>2. IInv' /\ RouteP!IInv'
    <3>1. UNCHANGED clock
      BY <1>2 DEF Request
    <3> QED
      BY <1>1, <1>2, <3>1, RequestIInv, RouteUntouched DEF PipelineInv
  <2>3. /\ \A d \in Clients : Cardinality(log[d]) \in Nat
        /\ \A d \in Clients \ {c} : log'[d] = log[d]
        /\ Cardinality(log'[c]) =
             Cardinality(log[c]) + (IF WithinMax(hits'[c]) THEN 1 ELSE 0)
    BY <1>2, LogsGrow DEF PipelineInv
  <2>4. routeLog' = routeLog /\ \A d \in Clients : Cardinality(routeLog[d]) \in Nat
    BY <1>1, RouteCounts DEF routeVars, PipelineInv
  <2>5. ApiGuardsRoute'
    BY <2>3, <2>4 DEF PipelineInv, ApiGuardsRoute
  <2>6. GuardInv'
    <3>1. BetweenLimiters(q)' =>
            Cardinality(routeLog'[request'[q].client])
              < Cardinality(log'[request'[q].client])
      BY <2>1, <2>3, <2>4 DEF PipelineInv, ApiGuardsRoute, BetweenLimiters
    <3> QED
      BY <1>1, <2>1, <3>1, GuardStep
  <2> QED
    BY <2>1, <2>2, <2>5, <2>6 DEF PipelineInv
<1>3. ASSUME NEW path \in Paths, NEW c \in Clients, ~UnderApi(path),
             Limited(q, path, c, TRUE), UNCHANGED vars
      PROVE  PipelineInv'
  <2>1. SlotsInv' /\ OthersStay(q) /\ request'[q].path = path
    BY <1>1, <1>3, LimitedSound
  <2>2. log' = log /\ routeLog' = routeLog /\ UNCHANGED <<clock, routeVars>>
    BY <1>1, <1>3 DEF vars, routeVars
  <2>3. IInv' /\ RouteP!IInv'
    BY <1>3, <2>2, StutterIInv, RouteUntouched DEF PipelineInv
  <2>4. ~BetweenLimiters(q)'
    BY <1>3, <2>1 DEF BetweenLimiters, UnderApi
  <2>5. GuardInv' /\ ApiGuardsRoute'
    BY <1>1, <2>1, <2>2, <2>4, GuardStep DEF PipelineInv, ApiGuardsRoute
  <2> QED
    BY <2>1, <2>3, <2>5 DEF PipelineInv
<1> QED
  BY <1>2, <1>3 DEF ApiLimiter

LEMMA RouteLimiterSound ==
  ASSUME SlotsInv, NEW q \in Slots, options' = options, running' = running,
         request[q].at = "routeLimiter",
         GoTo(q, "validation") \/ Fail(q, 429)
  PROVE  /\ SlotsInv' /\ OthersStay(q)
         /\ request'[q].at \notin {"routes", "routeLimiter"}
<1>1. "validation" \in Stages /\ running' \in Slots \union {NoSlot}
  BY DEF Stages, SlotsInv
<1> QED
  BY <1>1, GoToSound, FailSucceedSound

LEMMA RouteLimiterInv ==
  ASSUME PipelineInv, NEW q \in Slots, RouteLimiter(q)
  PROVE  PipelineInv'
<1> DEFINE c == request[q].client
<1>1. /\ running = q /\ running' = running /\ options' = options /\ SlotsInv
      /\ request[q].at = "routeLimiter" /\ UNCHANGED apiVars
      /\ GoTo(q, "validation") \/ Fail(q, 429)
  BY DEF PipelineInv, RouteLimiter, Runs
<1>2. SlotsInv' /\ OthersStay(q) /\ ~BetweenLimiters(q)'
  BY <1>1, RouteLimiterSound DEF BetweenLimiters
<1>3. GuardInv'
  BY <1>1, <1>2, GuardStep
<1>4. /\ c \in Clients
      /\ Cardinality(routeLog[c]) < Cardinality(log[c])
  BY <1>1 DEF PipelineInv, GuardInv, BetweenLimiters, SlotsInv, Sound, UsersPaths
<1>5. CASE Route!Request(c)
  <2>1. /\ RouteP!IInv'
        /\ \A d \in Clients : Cardinality(routeLog[d]) \in Nat
        /\ \A d \in Clients \ {c} : routeLog'[d] = routeLog[d]
        /\ Cardinality(routeLog'[c]) <= Cardinality(routeLog[c]) + 1
        /\ Cardinality(routeLog'[c]) \in Nat
    BY <1>4, <1>5, RouteRequest DEF PipelineInv
  <2>2. UNCHANGED vars /\ log' = log
    BY <1>1, <1>5 DEF vars, apiVars, Route!Request
  <2>3. IInv' /\ \A d \in Clients : Cardinality(log[d]) \in Nat
    BY <2>2, StutterIInv, Counts DEF PipelineInv
  <2> HIDE DEF c
  <2>4. ApiGuardsRoute'
    BY <1>4, <2>1, <2>2, <2>3 DEF PipelineInv, ApiGuardsRoute
  <2> QED
    BY <1>2, <1>3, <2>1, <2>3, <2>4 DEF PipelineInv
<1>6. CASE UNCHANGED <<clock, routeVars>>
  <2>1. UNCHANGED vars /\ log' = log /\ routeLog' = routeLog
    BY <1>1, <1>6 DEF vars, apiVars, routeVars
  <2>2. IInv' /\ RouteP!IInv' /\ ApiGuardsRoute'
    BY <1>6, <2>1, StutterIInv, RouteUntouched DEF PipelineInv, ApiGuardsRoute
  <2> QED
    BY <1>2, <1>3, <2>2 DEF PipelineInv
<1> QED
  BY <1>5, <1>6 DEF RouteLimiter

LEMMA TimeInv ==
  ASSUME PipelineInv, PassTime \/ ApiTimer \/ RouteTimer
  PROVE  PipelineInv'
<1>1. UNCHANGED <<request, running, options>> /\ log' = log /\ routeLog' = routeLog
  BY DEF PassTime, ApiTimer, RouteTimer, Tick, ResetAll, Route!ResetAll,
         apiVars, routeVars
<1>2. SlotsInv' /\ GuardInv' /\ ApiGuardsRoute'
  BY <1>1 DEF PipelineInv, SlotsInv, GuardInv, BetweenLimiters, ApiGuardsRoute
<1>3. CASE PassTime
  BY <1>2, <1>3, TickIInv, RouteTick DEF PassTime, PipelineInv
<1>4. CASE ApiTimer
  <2>1. UNCHANGED <<clock, routeVars>>
    BY <1>4 DEF ApiTimer, ResetAll
  <2> QED
    BY <1>2, <1>4, <2>1, ResetIInv, RouteUntouched DEF ApiTimer, PipelineInv
<1>5. CASE RouteTimer
  <2>1. UNCHANGED vars
    BY <1>5 DEF RouteTimer, Route!ResetAll, apiVars, vars
  <2> QED
    BY <1>2, <1>5, <2>1, StutterIInv, RouteReset DEF RouteTimer, PipelineInv
<1> QED
  BY <1>3, <1>4, <1>5

----------------------------------------------------------------------------
LEMMA InitPipelineInv == PipelineInit => PipelineInv
<1> SUFFICES ASSUME PipelineInit PROVE PipelineInv
  OBVIOUS
<1>1. Init /\ Route!Init /\ IInv /\ RouteP!IInv
  BY InitIInv, RouteInit DEF PipelineInit
<1>2. Sound(NoRequest) /\ NoRequest.at = "idle" /\ NoRequest \in RequestType
  BY DEF Sound, NoRequest, RequestType, Stages, Paths, Ids, Sent
<1>3. SlotsInv /\ GuardInv
  BY <1>2 DEF PipelineInit, SlotsInv, GuardInv, BetweenLimiters
<1>4. ApiGuardsRoute
  <2>1. \A c \in Clients : log[c] = routeLog[c] /\ Cardinality(log[c]) \in Nat
    BY <1>1, Counts DEF Init, Route!Init
  <2> QED
    BY <2>1 DEF ApiGuardsRoute
<1> QED
  BY <1>1, <1>3, <1>4 DEF PipelineInv

LEMMA NextPipelineInv ==
  PipelineInv /\ [PipelineNext]_pipelineVars => PipelineInv'
<1> SUFFICES ASSUME PipelineInv, [PipelineNext]_pipelineVars PROVE PipelineInv'
  OBVIOUS
<1>1. CASE UNCHANGED pipelineVars
  <2>1. UNCHANGED <<vars, clock, routeVars, request, running, options, log, routeLog>>
    BY <1>1 DEF pipelineVars, vars, routeVars
  <2>2. IInv' /\ RouteP!IInv'
    BY <2>1, StutterIInv, RouteUntouched DEF PipelineInv
  <2>3. SlotsInv' /\ GuardInv' /\ ApiGuardsRoute'
    BY <2>1 DEF PipelineInv, SlotsInv, GuardInv, BetweenLimiters, ApiGuardsRoute
  <2> QED
    BY <2>2, <2>3 DEF PipelineInv
<1>2. CASE PassTime \/ ApiTimer \/ RouteTimer
  BY <1>2, TimeInv
<1>3. ASSUME NEW q \in Slots,
             \/ Preflight(q) \/ Receive(q) \/ BodyRejected(q) \/ BodyRead(q)
             \/ ChainStep(q) \/ Resumed(q)
      PROVE  PipelineInv'
  BY <1>3, PreflightInv, ReceiveInv, BodyInv, ContextInv, AnswerInv, ValidationInv, ChainEndsInv,
     RouterInv, ApiLimiterInv, RouteLimiterInv DEF ChainStep, Resumed
<1> QED
  BY <1>1, <1>2, <1>3 DEF PipelineNext

LEMMA SpecPipelineInv == PipelineSpec => []PipelineInv
  BY InitPipelineInv, NextPipelineInv, PTL DEF PipelineSpec

LEMMA InvImplies ==
  PipelineInv => /\ PipelineTypeOK /\ OneAnswer /\ OneRequestId
                 /\ OnlyValidExecuted /\ ApiGuardsRoute /\ EachLimiterKeepsItsPromise
<1> SUFFICES ASSUME PipelineInv
             PROVE  /\ PipelineTypeOK /\ OneAnswer /\ OneRequestId
                    /\ OnlyValidExecuted /\ EachLimiterKeepsItsPromise
  BY DEF PipelineInv
<1>1. Route!TypeOK /\ Route!AtMostTwiceMax /\ Route!RefusedOnlyAtMax
  BY SameLimiterInv DEF PipelineInv
<1>2. TypeOK /\ AtMostTwiceMax /\ RefusedOnlyAtMax
  BY RefusedInv DEF PipelineInv, IInv
<1>3. PipelineTypeOK
  BY <1>1, <1>2 DEF PipelineTypeOK, PipelineInv, SlotsInv, RequestType
<1>4. OneAnswer /\ OneRequestId /\ OnlyValidExecuted
  BY DEF OneAnswer, OneRequestId, OnlyValidExecuted, PipelineInv, SlotsInv, Sound
<1> QED
  BY <1>1, <1>2, <1>3, <1>4 DEF EachLimiterKeepsItsPromise

\* Both limiters, the requests and the chain keep their types: no stage hands
\* the next what it does not expect.
THEOREM PipelineTypeCorrect == PipelineSpec => []PipelineTypeOK
  BY SpecPipelineInv, InvImplies, PTL

\* No path through the middlewares answers a request twice, goes on after an
\* answer, or ends without one.
THEOREM AnsweredExactlyOnce == PipelineSpec => []OneAnswer
  BY SpecPipelineInv, InvImplies, PTL

\* A request whose body was read is answered under one id, that of its context.
THEOREM AnsweredUnderOneId == PipelineSpec => []OneRequestId
  BY SpecPipelineInv, InvImplies, PTL

\* Whatever the options of the router, only a valid body reaches the use case.
THEOREM InvalidNeverExecuted == PipelineSpec => []OnlyValidExecuted
  BY SpecPipelineInv, InvImplies, PTL

\* No client has more requests through the second limiter than through the
\* first, whatever the limits of the two.
THEOREM ApiLimiterComesFirst == PipelineSpec => []ApiGuardsRoute
  BY SpecPipelineInv, InvImplies, PTL

\* Each limiter keeps alone what it promises, in series with the other.
THEOREM LimitersKeepTheirPromise == PipelineSpec => []EachLimiterKeepsItsPromise
  BY SpecPipelineInv, InvImplies, PTL

\* Whatever the chain does, each limiter makes only steps of its own: counting
\* and answering a request, an emptied store, or the passing of time.
THEOREM LimitersImplemented == PipelineSpec => LimitersRefined
<1>1. PipelineInv /\ [PipelineNext]_pipelineVars =>
        [Next]_vars /\ [Route!Next]_<<clock, routeVars>>
  <2> SUFFICES ASSUME PipelineInv, [PipelineNext]_pipelineVars
               PROVE  /\ Next \/ UNCHANGED vars
                      /\ Route!Next \/ UNCHANGED <<clock, routeVars>>
    OBVIOUS
  <2>1. CASE UNCHANGED pipelineVars \/ NoLimiter
    BY <2>1 DEF pipelineVars, vars, routeVars, NoLimiter
  <2>2. CASE PassTime
    BY <2>2 DEF PassTime, Next, Tick, Route!Next, Route!Tick, routeVars
  <2>3. CASE ApiTimer
    BY <2>3 DEF ApiTimer, Next, ResetAll, routeVars
  <2>4. CASE RouteTimer
    BY <2>4 DEF RouteTimer, Route!Next, Route!ResetAll, apiVars, vars
  <2>5. ASSUME NEW q \in Slots, ApiLimiter(q)
        PROVE  (Next \/ UNCHANGED vars) /\ UNCHANGED <<clock, routeVars>>
    BY <2>5 DEF ApiLimiter, Next, Request, vars
  <2>6. ASSUME NEW q \in Slots, RouteLimiter(q)
        PROVE  /\ UNCHANGED vars
               /\ Route!Next \/ UNCHANGED <<clock, routeVars>>
    <3>1. request[q].client \in Clients
      BY <2>6 DEF RouteLimiter, Runs, PipelineInv, SlotsInv, Sound
    <3> QED
      BY <2>6, <3>1 DEF RouteLimiter, Route!Next, Route!Request, apiVars, vars
  <2>7. ASSUME NEW q \in Slots,
               \/ Preflight(q) \/ Receive(q) \/ BodyRejected(q) \/ BodyRead(q)
               \/ ChainStep(q) \/ Resumed(q)
        PROVE  ApiLimiter(q) \/ RouteLimiter(q) \/ NoLimiter
    BY <2>7 DEF Preflight, Receive, BodyRejected, BodyRead, ChainStep, Resumed, RequestContext,
      HealthRoute, UsersRouter, Validation, Register, Profile, NotFound, ChainEnds,
      HealthChecked, Executed
  <2> QED
    BY <2>1, <2>2, <2>3, <2>4, <2>5, <2>6, <2>7 DEF PipelineNext
<1> QED
  BY <1>1, SpecPipelineInv, PTL DEF PipelineSpec, PipelineInit, LimitersRefined

----------------------------------------------------------------------------
(* Why every chain comes to an end: what EveryReadRequestAnswered needs      *)
(* beside the scheduling of Node and an answer of the use case.              *)

\* Where a request waits for its body, the database or the use case.
Suspended == {"idle", "reading", "querying", "executing"}

\* The chain that runs is at a middleware, every other one waits for something
\* outside; and only /register has a limiter and a validation of its own.
ChainInv ==
  \A q \in Slots :
    /\ running = q <=> request[q].at \notin Suspended
    /\ request[q].at \in {"routeLimiter", "validation"} =>
         request[q].path = "register"
    /\ request[q].at = "controller" => request[q].path \in {"register", "profile"}

\* The guard of a step of the chain of q.
MiddlewareTakes(q) ==
  \/ request[q].at \in {"context", "apiLimiter", "validation", "notFound", "answered"}
  \/ request[q].at = "routes" /\ request[q].path \in Paths
  \/ request[q].at = "routeLimiter" /\ request[q].client \in Clients
  \/ request[q].at = "controller" /\ request[q].path \in {"register", "profile"}

\* Nothing waits for a chain that does not run: the one that runs is at a
\* middleware that takes the request it is handed, and one that does not run
\* is waiting for its body, the database or the use case.
NoChainHangs ==
  \A q \in Slots :
    IF running = q THEN MiddlewareTakes(q) ELSE request[q].at \in Suspended

\* The stages in the order in which a request passes them.
StageNumber(stage) ==
  IF stage = "idle" THEN 0 ELSE IF stage = "reading" THEN 1
  ELSE IF stage = "context" THEN 2 ELSE IF stage = "apiLimiter" THEN 3
  ELSE IF stage = "routes" THEN 4
  ELSE IF stage \in {"querying", "routeLimiter"} THEN 5
  ELSE IF stage = "validation" THEN 6 ELSE IF stage = "controller" THEN 7
  ELSE IF stage \in {"executing", "notFound"} THEN 8 ELSE 9

Onward(q) ==
  IF request[q].at = "answered"
  THEN request'[q] = NoRequest
  ELSE StageNumber(request'[q].at) > StageNumber(request[q].at)

\* A step of one chain leaves the others where they are and brings its own to
\* a later stage, or frees its slot after the answer: no middleware is run
\* again for a request, and none ends without an answer or a call of next.
ChainsAdvance ==
  \A q \in Slots :
    /\ ChainStep(q) \/ Resumed(q) => Onward(q)
    /\ request'[q] # request[q] => Onward(q)

\* One step of a request: where it goes from where, and on which path.
Moves(q, from, to) ==
  /\ request[q].at = from /\ request'[q].at = to
  /\ request'[q].path = request[q].path \/ from = "apiLimiter"
  /\ OthersStay(q)

\* All that a step of one request does to the stages and to who runs.
LEMMA Movement ==
  ASSUME SlotsInv, NEW q \in Slots,
         \/ Preflight(q) \/ Receive(q) \/ BodyRejected(q) \/ BodyRead(q)
         \/ ChainStep(q) \/ Resumed(q)
  PROVE  \/ Moves(q, "idle", "reading") /\ running = NoSlot /\ running' = NoSlot
         \/ Moves(q, "idle", "answered") /\ running = NoSlot /\ running' = q
         \/ Moves(q, "reading", "answered") /\ running = NoSlot /\ running' = q
         \/ Moves(q, "reading", "context") /\ running = NoSlot /\ running' = q
         \/ Moves(q, "context", "apiLimiter") /\ running = q /\ running' = q
         \/ /\ \E to \in {"routes", "answered"} : Moves(q, "apiLimiter", to)
            /\ running = q /\ running' = q
         \/ Moves(q, "routes", "answered") /\ running = q /\ running' = q
         \/ Moves(q, "routes", "querying") /\ running = q /\ running' = NoSlot
         \/ /\ Moves(q, "routes", "routeLimiter") /\ running = q /\ running' = q
            /\ request[q].path = "register"
         \/ /\ Moves(q, "routes", "controller") /\ running = q /\ running' = q
            /\ request[q].path = "profile"
         \/ Moves(q, "routes", "notFound") /\ running = q /\ running' = q
         \/ /\ \E to \in {"validation", "answered"} : Moves(q, "routeLimiter", to)
            /\ running = q /\ running' = q
         \/ /\ \E to \in {"controller", "answered"} : Moves(q, "validation", to)
            /\ running = q /\ running' = q
         \/ Moves(q, "controller", "executing") /\ running = q /\ running' = NoSlot
         \/ Moves(q, "controller", "answered") /\ running = q /\ running' = q
         \/ Moves(q, "notFound", "answered") /\ running = q /\ running' = q
         \/ /\ \E from \in {"querying", "executing"} : Moves(q, from, "answered")
            /\ running = NoSlot /\ running' = q
         \/ /\ request[q].at = "answered" /\ request'[q] = NoRequest
            /\ OthersStay(q) /\ running = q /\ running' = NoSlot
<1>0. request \in [Slots -> RequestType]
  BY DEF SlotsInv
<1>1. ASSUME NEW stage, GoTo(q, stage)
      PROVE  /\ request'[q].at = stage /\ request'[q].path = request[q].path
             /\ OthersStay(q)
  BY <1>0, <1>1 DEF GoTo, OthersStay, RequestType
<1>2. ASSUME NEW status, Fail(q, status) \/ Succeed(q, status)
      PROVE  /\ request'[q].at = "answered" /\ request'[q].path = request[q].path
             /\ OthersStay(q)
  BY <1>0, <1>2 DEF Fail, Succeed, Respond, OthersStay, RequestType
<1>3. ASSUME NEW id, NEW next, RequestIdMiddleware(q, id, next)
      PROVE  /\ request'[q].at = next /\ request'[q].path = request[q].path
             /\ OthersStay(q)
  BY <1>0, <1>3 DEF RequestIdMiddleware, OthersStay, RequestType
<1>4. CASE Receive(q)
  BY <1>1, <1>4 DEF Receive, Awaits, Moves
<1>5. CASE Preflight(q) \/ BodyRejected(q)
  <2>1. /\ request'[q].at = "answered" /\ request'[q].path = request[q].path
        /\ OthersStay(q)
    BY <1>0, <1>5 DEF Preflight, BodyRejected, Respond, OthersStay, RequestType
  <2> QED
    BY <1>5, <2>1 DEF Preflight, BodyRejected, Awaits, Moves
<1>6. CASE BodyRead(q)
  BY <1>3, <1>6 DEF BodyRead, Awaits, Moves
<1>7. CASE RequestContext(q)
  <2>1. /\ request'[q].at = "apiLimiter" /\ request'[q].path = request[q].path
        /\ OthersStay(q)
    BY <1>0, <1>7 DEF RequestContext, OthersStay, RequestType
  <2> QED
    BY <1>7, <2>1 DEF RequestContext, Runs, Moves
<1>8. CASE ApiLimiter(q)
  <2>1. ASSUME NEW path, NEW c, NEW passes, Limited(q, path, c, passes)
        PROVE  request'[q].at \in {"routes", "answered"} /\ OthersStay(q)
    BY <1>0, <2>1 DEF Limited, OthersStay, RequestType
  <2>2. request'[q].at \in {"routes", "answered"} /\ OthersStay(q)
    BY <1>8, <2>1 DEF ApiLimiter
  <2> QED
    BY <1>8, <2>2 DEF ApiLimiter, Runs, Moves
<1>9. CASE HealthRoute(q)
  BY <1>1, <1>2, <1>9 DEF HealthRoute, Runs, Moves
<1>10. CASE UsersRouter(q)
  <2>1. /\ request[q].path \in UsersPaths /\ running = q /\ running' = q
        /\ request[q].at = "routes"
        /\ RequestIdMiddleware(q, request[q].id, AfterRouterId(request[q].path))
    BY <1>10 DEF UsersRouter, Runs
  <2>2. \/ request[q].path = "register" /\ AfterRouterId(request[q].path) = "routeLimiter"
        \/ request[q].path = "profile" /\ AfterRouterId(request[q].path) = "controller"
        \/ AfterRouterId(request[q].path) = "notFound"
    BY <2>1 DEF UsersPaths, AfterRouterId
  <2>3. /\ request'[q].at = AfterRouterId(request[q].path)
        /\ request'[q].path = request[q].path /\ OthersStay(q)
    BY <1>3, <2>1
  <2> QED
    BY <2>1, <2>2, <2>3 DEF Moves
<1>11. CASE NotFound(q)
  BY <1>2, <1>11 DEF NotFound, Runs, Moves
<1>12. CASE RouteLimiter(q)
  <2>1. GoTo(q, "validation") \/ Fail(q, 429)
    BY <1>12 DEF RouteLimiter
  <2>2. /\ request'[q].at \in {"validation", "answered"}
        /\ request'[q].path = request[q].path /\ OthersStay(q)
    BY <1>1, <1>2, <2>1
  <2> QED
    BY <1>12, <2>2 DEF RouteLimiter, Runs, Moves
<1>13. CASE Validation(q)
  <2>1. PICK valid \in BOOLEAN : Validated(q, valid)
    BY <1>13 DEF Validation
  <2>2. /\ request'[q].at \in {"controller", "answered"}
        /\ request'[q].path = request[q].path /\ OthersStay(q)
    <3>1. CASE Fail(q, 400)
      BY <1>2, <3>1
    <3>2. CASE request' = [request EXCEPT ![q].valid = valid, ![q].at = "controller"]
      BY <1>0, <3>2 DEF OthersStay, RequestType
    <3> QED
      BY <2>1, <3>1, <3>2 DEF Validated
  <2> QED
    BY <1>13, <2>2 DEF Validation, Runs, Moves
<1>14. CASE Register(q)
  BY <1>1, <1>2, <1>14 DEF Register, Runs, Moves
<1>15. CASE Profile(q)
  BY <1>2, <1>15 DEF Profile, Runs, Moves
<1>16. CASE HealthChecked(q) \/ Executed(q)
  BY <1>2, <1>16 DEF HealthChecked, Executed, Awaits, Moves
<1>17. CASE ChainEnds(q)
  <2>1. /\ request'[q] = NoRequest /\ OthersStay(q) /\ running = q
        /\ running' = NoSlot /\ request[q].at = "answered"
    BY <1>0, <1>17 DEF ChainEnds, Runs, OthersStay
  <2> QED
    BY <2>1
<1> QED
  BY <1>4, <1>5, <1>6, <1>7, <1>8, <1>9, <1>10, <1>11, <1>12, <1>13, <1>14,
     <1>15, <1>16, <1>17 DEF ChainStep, Resumed

\* No move breaks ChainInv, and each is a move onward.
LEMMA MovementKeeps ==
  ASSUME SlotsInv, ChainInv, NEW q \in Slots,
         \/ Preflight(q) \/ Receive(q) \/ BodyRejected(q) \/ BodyRead(q)
         \/ ChainStep(q) \/ Resumed(q)
  PROVE  ChainInv' /\ Onward(q) /\ OthersStay(q)
<1>1. NoSlot # q /\ \A p \in Slots : p # NoSlot
  BY SlotAssumption
<1>2. ASSUME OthersStay(q), running \in {q, NoSlot}, running' \in {q, NoSlot},
             running' = q <=> request'[q].at \notin Suspended,
             request'[q].at \in {"routeLimiter", "validation"} =>
               request'[q].path = "register",
             request'[q].at = "controller" =>
               request'[q].path \in {"register", "profile"}
      PROVE  ChainInv'
  <2>1. ASSUME NEW p \in Slots \ {q}
        PROVE  running' = p <=> request'[p].at \notin Suspended
    BY <1>1, <1>2, <2>1 DEF ChainInv, OthersStay
  <2>2. ASSUME NEW p \in Slots \ {q}
        PROVE  /\ request'[p].at \in {"routeLimiter", "validation"} =>
                    request'[p].path = "register"
               /\ request'[p].at = "controller" =>
                    request'[p].path \in {"register", "profile"}
    BY <1>2, <2>2 DEF ChainInv, OthersStay
  <2>3. Suspended' = Suspended
    BY DEF Suspended
  <2> QED
    BY <1>2, <2>1, <2>2, <2>3 DEF ChainInv
<1>3. NoRequest.at = "idle"
  BY DEF NoRequest
<1>4. /\ request[q].at \in {"routeLimiter", "validation"} =>
           request[q].path = "register"
      /\ request[q].at = "controller" => request[q].path \in {"register", "profile"}
  BY DEF ChainInv
<1>5. /\ running \in {q, NoSlot} /\ running' \in {q, NoSlot}
      /\ running' = q <=> request'[q].at \notin Suspended
      /\ OthersStay(q)
  BY <1>1, <1>3, Movement DEF Moves, Suspended
<1>6. /\ request'[q].at \in {"routeLimiter", "validation"} =>
           request'[q].path = "register"
      /\ request'[q].at = "controller" => request'[q].path \in {"register", "profile"}
  BY <1>3, <1>4, Movement DEF Moves
<1>7. Onward(q)
  BY Movement DEF Moves, Onward, StageNumber
<1> QED
  BY <1>2, <1>5, <1>6, <1>7

\* Time and the timers of the stores touch no chain.
LEMMA TimeKeeps ==
  PassTime \/ ApiTimer \/ RouteTimer \/ UNCHANGED pipelineVars =>
    UNCHANGED <<request, running>>
  BY DEF PassTime, ApiTimer, RouteTimer, pipelineVars

\* Every step keeps ChainInv.
LEMMA ChainInvStep ==
  SlotsInv /\ ChainInv /\ [PipelineNext]_pipelineVars => ChainInv'
<1> SUFFICES ASSUME SlotsInv, ChainInv, [PipelineNext]_pipelineVars PROVE ChainInv'
  OBVIOUS
<1>1. CASE UNCHANGED <<request, running>>
  BY <1>1 DEF ChainInv, Suspended
<1> QED
  BY <1>1, TimeKeeps, MovementKeeps DEF PipelineNext

\* ChainInv always holds.
LEMMA SpecChainInv == PipelineSpec => []ChainInv
<1>1. PipelineInit => ChainInv
  BY SlotAssumption DEF PipelineInit, ChainInv, NoRequest, Suspended
<1>2. PipelineInv => SlotsInv
  BY DEF PipelineInv
<1> QED
  BY <1>1, <1>2, SpecPipelineInv, ChainInvStep, PTL DEF PipelineSpec

\* No chain of middlewares is left in the middle: the one that runs is at a
\* stage that takes what it was handed, and every other request waits for the
\* client, the database or the use case.
THEOREM ChainsNeverHang == PipelineSpec => []NoChainHangs
<1>1. SlotsInv /\ ChainInv => NoChainHangs
  <2> SUFFICES ASSUME SlotsInv, ChainInv, NEW q \in Slots
               PROVE  IF running = q THEN MiddlewareTakes(q)
                      ELSE request[q].at \in Suspended
    BY DEF NoChainHangs
  <2>1. Sound(request[q]) /\ request[q] \in RequestType
    BY DEF SlotsInv
  <2>2. request[q].at \in Stages /\ request[q].path \in Paths
    BY <2>1 DEF RequestType
  <2>3. request[q].at = "routeLimiter" => request[q].client \in Clients
    BY <2>1 DEF Sound
  <2> QED
    BY <2>2, <2>3 DEF ChainInv, MiddlewareTakes, Suspended, Stages
<1>2. PipelineInv => SlotsInv
  BY DEF PipelineInv
<1> QED
  BY <1>1, <1>2, SpecPipelineInv, SpecChainInv, PTL

\* Every step of a request takes it to a later stage: its chain ends after at
\* most nine, one of which is its answer, however many other requests come
\* between them.
THEOREM ChainsOnlyAdvance == PipelineSpec => [][ChainsAdvance]_pipelineVars
<1>1. ASSUME SlotsInv, ChainInv, PipelineNext
      PROVE  ChainsAdvance
  <2>1. ASSUME NEW q \in Slots, ChainStep(q) \/ Resumed(q) PROVE Onward(q)
    BY <1>1, <2>1, MovementKeeps
  <2>2. ASSUME NEW q \in Slots, request'[q] # request[q] PROVE Onward(q)
    <3>1. ~UNCHANGED request
      BY <2>2
    <3>2. PICK p \in Slots :
            \/ Preflight(p) \/ Receive(p) \/ BodyRejected(p) \/ BodyRead(p)
            \/ ChainStep(p) \/ Resumed(p)
      BY <1>1, <3>1, TimeKeeps DEF PipelineNext
    <3>3. Onward(p) /\ OthersStay(p)
      BY <1>1, <3>2, MovementKeeps
    <3> QED
      BY <2>2, <3>3 DEF OthersStay
  <2> QED
    BY <2>1, <2>2 DEF ChainsAdvance
<1>2. PipelineInv => SlotsInv
  BY DEF PipelineInv
<1> QED
  BY <1>1, <1>2, SpecPipelineInv, SpecChainInv, PTL DEF PipelineSpec
==============================================================================
