# InsightLoop user service: TLA+ models and proofs

This directory holds TLA+ specifications of the user account service under
`src/src` (Express, TypeORM, an in-process event publisher), the TLC
configurations that check them on small instances, and theorems checked by
TLAPS. Paths below are relative to `src/src`.

## 1. Inventory

| Component | State | Operations | Talks to | What is hard |
|---|---|---|---|---|
| Registration: `user.controller.ts`, `create-user.use-case.ts`, `user.factory.ts` | the suspended handlers | `register`, `execute`, `createUser`, `publishDomainEvents` | repository, publisher, bcrypt | handlers interleave at every `await`; find-then-insert without a lock; faults and crashes between row, event and answer |
| Repository and table: `user.repository.ts`, `user.orm-entity.ts`, migration 001 | rows, unique index, CHECK constraints | `findByEmail`, `save`, `delete`, queries, the helpers of the ORM entity | PostgreSQL | queries skip soft-deleted rows, the index does not; `save` is lookup then whole-row update from a copy that may be old; statements that arrive late |
| Event publisher: `in-memory-event-publisher.service.ts` | subscriptions, bounded history | `publish`, `publishAll`, `subscribe`, `unsubscribe`, `clear...`, `waitForCompletion` | handlers, which call back | handlers change the array the loop is reading; nested publications |
| Rate limiters: `rate-limit.middleware.ts` | timestamps or counts per client | sliding window, counting window (express-rate-limit), role-based | clock, timers | window edges, random cleanup, late timers |
| User aggregate: `user.entity.ts`, value objects, `user.events.ts` | role, status, pending events | `create`, `changeRole`, `activate`, `suspend`, `deactivate` | publisher, through the use case | events must tell the same story as the fields; rules written twice |
| Permissions: `user-permissions.service.ts` | none | rule tables | the same rules in the aggregate | drifting apart |
| Validation: `user.validator.ts`, `validation.middleware.ts` | none | Joi schemas, run twice, then `validateCommand` and value objects | table constraints | five statements of the rules that need not agree |
| Request pipeline: `request-id`, `error` middlewares, `main.ts` routes | limiter stores | ordered middlewares, 404, error mapping | all of the above | exactly one answer; limiters in series |
| Lifecycle: `main.ts`, `typeorm.config.ts` | server, connection, force-exit timer | `bootstrap`, `start`, `gracefulShutdown`, health | process signals, environment | signals twice, timer against `server.close`; checks at the start against what the variables do |
| Hashing: `bcrypt.service.ts` | none | `hash`, `verify`, salt rounds | bcrypt | bounds |
| Logging, mappers, base classes | none | formatting | | |

What makes each correct:

- Registration: one row per e-mail in any spelling; every answer final and
  justified by the table; an event exactly for stored users; no contest without
  a winner.
- Publisher: a loop calls the handlers it found, each once, in order; `publish`
  resolves after all it started and always does; the history is the newest events.
- Limiters: the stated bound in *every* interval, no refusal below the bound,
  bounded memory, and pruning that never changes a decision.
- Aggregate: replaying the events yields role and status; nobody becomes an
  admin later than at creation; entity and permissions service differ in no rule but
  the one finding 6 names.
- Repository: a call is one write of the whole user or none, deletion is final, and
  what is stored can be loaded again.
- Validation: what one layer passes the next passes, except where that is said.
- Pipeline: one answer and one id per request; nothing unvalidated reaches the use
  case; each of two limiters in series still keeps its own promise.
- Lifecycle: only a ready process serves; production never rebuilds its schema; exit
  code 0 means that no client was cut off; only the timer cuts clients off; a signal
  ends the process.

## 2. Modules

| Module | Models | Role |
|---|---|---|
| `Registration` | `POST /api/v1/users/register` end to end, with the table and the database's faults | component, composed with the repository, the table and the publisher's entry point |
| `EmailRegistry` | | abstract specification of registration |
| `RegistrationRefinement` | | refinement mapping |
| `MCRegistration` | | constants for TLC |
| `RegistrationProofs` | | theorems |
| `EventPublisher` | `InMemoryDomainEventPublisher` and handlers that call it back | component |
| `MCEventPublisher` | | constants for TLC |
| `EventPublisherProofs` | | theorems |
| `SlidingWindowLimiter` | `slidingWindowRateLimiter` | component |
| `RequestLog` | | abstract specification of a sliding-window limiter |
| `SlidingWindowProofs` | | theorems |
| `FixedWindowLimiter` | `rateLimitMiddleware` over express-rate-limit's store | component; the library is external |
| `FixedWindowProofs` | | theorems about `FixedWindowLimiter` and `DynamicLimiter` |
| `DynamicLimiter` | `dynamicRateLimitMiddleware` | composition: the same handler over a store made for each request |
| `RequestPipeline` | the middlewares and routes of `main.ts` and `user.routes.ts` | composition: two instances of `FixedWindowLimiter` and the chain of each request |
| `MCRequestPipeline` | | constants for TLC |
| `RequestPipelineProofs` | | theorems |
| `ConfigChecks` | `validateConfiguration`, `validateDatabaseConfig`, `validateSecurityHealth`, what the options of the data source read | operators on environments |
| `AppLifecycle` | `bootstrap`, `start`, `gracefulShutdown`, `DatabaseConnection` | component, over `ConfigChecks`; Node's http server and the data source are external |
| `MCAppLifecycle` | | environments for TLC |
| `AppLifecycleProofs` | | theorems |
| `UserRules` | roles, statuses and who may change a role | operators shared by the next modules |
| `UserAggregate` | `User`, `UserRole`, `UserStatus`, the role rules of `UserPermissions` | component |
| `UserAggregateProofs` | | theorems |
| `ValidationChain` | `createUserSchema`, `validateCommand`, the value objects, the columns and CHECKs, and the status a body is answered | operators on classes of bodies |
| `UserStore` | `TypeORMUserRepository` over the table, with callers that hold copies of users | composition of the entity's methods, `ValidationChain` and the repository |
| `UserRegister` | | abstract specification of `save` and `delete` |
| `MCUserStore` | | constants for TLC |
| `UserStoreProofs` | | theorems about `ValidationChain`, `UserStore` and `AccountRow` |
| `AccountRow` | the helpers of `UserOrmEntity` (lock, tokens, confirmation, restore) and the CHECK on login attempts | component; its callers are external |

A definition called *slip* is a plausible mistake in the code next to it. No
specification uses a slip; substituting it for the definition it follows makes
the property listed with it in `PROJECT.json` ("mutants") fail, which shows that
the property depends on that piece of code.

### Registration

A handler is atomic between two awaits, because Node runs one at a time. `phase[r]`
names the await the handler of request `r` is suspended in:

    idle -> hashing -> finding -> looking -> inserting -> inserted -> publishing -> done

`hashing` is `HashedPassword.fromPlainText`, `finding` is `findByEmail`, `looking`
is `save`'s `findOne`, `inserting` its INSERT before and `inserted` after the
commit, `publishing` the await on the publisher. Each action resumes one await and
runs to the next, with the early returns: `RejectBody` (400), `RejectCommand` (500: an
address with a blank beyond ASCII passes Joi and not `validateCommand`, whose error
`getErrorCode` does not know), `EmailTaken` (409), `InsertRejected` (500, because
`getErrorCode` does not know `QueryFailedError`).
`rows` is the table, indexed by the request that generated the row's id:
`findByEmail` sees the live rows, the unique index all of them, and the CHECK on
e-mail admits fewer addresses than the value object (`DbFormatted`).

Faults: an await that rejects, a statement whose connection dies before or after
the commit, a crash of the process. A statement nobody waits for (`orphaned`) still
commits or rolls back. `announced` is the set of users whose event reached
`publish`; `publish` does not fail because of a handler, so publishing cannot fail
here. `Delete` is the repository's soft delete; no route calls it at this commit,
but it is there for callers, and the index behaves differently because of it.

### EventPublisher

`publish` runs each handler up to its first await inside
`handlers.map(...)`, over the array in the subscriptions map. `map` fixes how many
elements it visits but reads each when its turn comes, so what handlers do to the
array in that time matters. The loops under way are a stack of frames; `live` says
whether a frame's array is still the one in the map, since `unsubscribe` deletes an
empty array from the map and `clearAllSubscriptions` drops all of them, while the
loop keeps its own. Handlers are not part of the code: any of them may do anything
the interface offers while it runs, and awaits the publications it starts. `due` is
a history variable, the handlers that were subscribed when the publication began
and have not left since.

### Limiters

`SlidingWindowLimiter` keeps sets of admissions where the code keeps arrays of
timestamps, since the code only filters and counts; `log` is a history variable of
everything admitted. The random cleanup (one admission in a hundred) is a
nondeterministic choice. `FixedWindowLimiter` counts requests in a store that a
timer empties; the timer may be late and counts its next period from when it
fired. `DynamicLimiter` reuses the same handler with a store that is empty for
each request, which is what the code does.

### RequestPipeline

The chain of a request runs synchronously from middleware to middleware until it
ends or awaits; `running` is the request it runs for, and only `PassTime` can come
in between. The awaits are the body (`reading`), the health query (`querying`) and
the use case (`executing`, whose inside is `Registration`). `request[q].at` names
the middleware that is next. A request carries three copies of its id, which the
code keeps apart: the request header (`id`), the response header (`header`) and
`req.context` (`context`). The API's limiter is the module this one extends, the
limiter of `/register` an instance of it with a store and a timer of its own; both
share the clock. `options` are those of `createConfigurableUserRoutes`;
`createUserRoutes` is the case with both on. A body that cannot be read goes
straight to `errorMiddleware`, before there is an id.

cors answers an OPTIONS request itself (`Preflight`), before the body is read and there
is an id: it is counted by no limiter and carries no id.

What the model shows beside its properties: a body above 10 MB is answered 500, not
413; `/health/db` answers 200 also for an unhealthy database, because `healthCheck`
never throws and the 503 branch is not reached.

### AppLifecycle

`boot` is how far `bootstrap` has come; each await may fail, and its catch exits
with 1. An environment gives each variable a class of values: those the checks of
`main.ts` tell apart. `synchronized` says that `initialize` has begun to fit the
schema to the entities, as `DB_SYNCHRONIZE=true` makes it. A signal before `start`
has registered its handlers kills the process; each later one calls
`gracefulShutdown` anew, with a timer and a callback of `server.close` of its own
(`shutdown[k]`). The callbacks run together when the last connection is gone, and
each calls `disconnect`: only the first `destroy` is accepted. A connection kept
alive may bring further requests while the server is closing.

A client may go away while it is served. Node then counts its connection no more, and
nothing in the code listens for that, so the handler goes on (`abandoned`). `Open` are
the connections the server counts and `Serving` the handlers that run: `server.close`
waits for the former only. Its callback destroys the data source and exits with 0
under the handlers that are left over, for example between the INSERT and the publish;
for `Registration` that is a `Crash`. `ServedByReadyProcess` and `ExitsAreClean` are
therefore about clients who wait, and say where a handler may be cut off.

What the model shows beside its properties: a second signal during a clean drain may
turn exit code 0 into 1, because its `destroy` is rejected and may answer first; that
is why `ExitsAreClean` is stated in one direction only. An environment without
`DB_SYNCHRONIZE` is accepted in production and does not synchronize, and
`/health/security` answers 503 to it, "Auto-sync enabled in production"
(`HealthDoubtsAccepted`). `BCRYPT_SALT_ROUNDS`, `RATE_LIMIT_WINDOW_MS`,
`RATE_LIMIT_MAX_REQUESTS` and `JWT_SECRET` are demanded of a production environment,
and nothing in `src/src` reads them afterwards. Migrations run in production only:
elsewhere the table is what `synchronize` makes of the entities, without a CHECK, so
the integration tests cannot meet one.

### UserAggregate

`role`, `status`, `events` (the entity's `_domainEvents`), `published` (what the use
case has handed over) and `sent` (how far its loop is in `events`). `publishDomainEvents`
awaits each `publish` (`PublishNext`) and reads the entity's own array, so what other
methods append between two awaits is handed over by the same loop; after the last,
`clearEvents` runs without another await (`ClearEvents`). The rules of
`UserPermissions` are the operators `Permits...`. `ChangeRole(u, new, p)` is
`u.changeRole(new, role of p, id of p)`; the code throws in two different ways when
it is not allowed, and changes nothing in either. `suspend` and `deactivate` have no
guard, `activate` has. An event of a status change carries both values, while
`UserCreatedEvent` carries no status, so a replay knows the status only after the
first change; `EventsTellState` says exactly that much.

### ValidationChain

A body is the features the layers look at: whether a value is a string, its blanks,
its length (any natural number), its alphabet, which kinds of character a password
has and has in its first line, and so on. Each layer is one operator named after the
function that states it. `Validated` is Joi's part, in the router and again in the
controller; `Constructed` the use case's and the value objects'; `RowAdmitted` the
table's; `AnswerTo` puts them in order and adds what each refusal is answered.

What the model shows (proved as `OnlyTableRefuses` and `RoutersAgree`): of the bodies
Joi accepts, the code's own layers refuse none, except for addresses with a blank
beyond ASCII, which `validateCommand` refuses with `Error('Validation failed')`, a name
`getErrorCode` does not know: 500. The CHECK refuses addresses Joi accepts, with a
character outside its list (`'`, `!`) or a last label of one letter: 500 as well. An
unknown key is stripped behind the validating router and answered 400 without it,
since the controller's check passes no options.

### UserStore

`copy[c]` is the `User` object a caller holds, `call[c]` the call of the repository it
awaits, `rows` the table. `Create` is the use case up to `save`; `Find` stands for every
query that returns users: each filters on `deletedAt IS NULL` and maps all rows it
lists through `toDomainEntity`, which throws if a constructor does. The caller changes
its copy with the methods of the entity and calls `save` or `delete`; each is a lookup
and a statement, and anything may happen between them. `save` looks for the row without
regard to `deletedAt` and updates the columns of `toOrmEntity`. Its INSERT goes through
TypeORM's `save`, which looks for the row itself. `role` and `status` of the performer
of a role change come from another caller's copy, as old as it may be: deleted or
demoted since.

Faults: a connection that dies under a call, which throws while its statement may still
be executed later (`stray`), and a crash of the process, which takes the copies as
well. `created` remembers the role each user was created with, `changes` and `faults`
only count for the bounds. At this commit only `POST /register` calls `save`, with a
fresh id, and nobody calls `delete`: the module is about what the repository gives to
its next callers.

What the model shows beside its properties: the last save wins with all its fields, so
two callers that change a role and a name lose one of them; the save of a copy loaded
before a delete writes `active` over `inactive` in a deleted row (it stays deleted); a
statement that arrives late may undo a later save. `UserRegister` promises exactly
that: each call takes effect as a whole, at one moment, in no promised order.
The `@BeforeInsert` and `@BeforeUpdate` hooks of the ORM entity do not run, because
`toOrmEntity` makes plain objects; the value objects do what they would do.
`findActiveUsers` asks for `emailVerified`, which nothing sets.

### AccountRow

One row and the methods of `UserOrmEntity`, each followed by the UPDATE that stores
the entity, which CHK_users_login_attempts may refuse as a whole. No login flow exists
yet; the module assumes the one its methods are made for: compare the password only for
an active account that is not locked, count a failure, reset at a success. It shows
also that `restore` makes a suspended account active, since `softDelete` overwrites
the status.

## 3. Runs

| Run | Instance | Shows |
|---|---|---|
| `registration` | 3 requests, 4 addresses, 2 faults, fair | the safety of registration, that it implements `EmailRegistry`, and that without faults every request is answered and every stored user announced |
| `registration_race` | the same, no faults | **violation**: the loser of the race is told 500, the integration test expects 409 |
| `publisher` | 2 handlers, 3 events of two types, a batch of two, history of 2, 3 subscription changes, fair | loops and promises under re-entrant handlers; the history is the newest events; every publication resolves |
| `publisher_skips` | 3 handlers, 5 subscription changes, else as `publisher` | **violation**: a handler that unsubscribes during the loop makes `publish` skip another |
| `sliding_window` | 2 clients, limit 2, window 2, clock to 5 | the bound in every window, and that it implements `RequestLog` |
| `request_pipeline` | 2 requests at a time, 1 client, both limits 1, window 2, clock to 3, two routers, fair | one answer under one id, only valid bodies executed, both limiters as `FixedWindowLimiter` promises |
| `dynamic_limiter` | 1 client | **violation**: the role-based limiter never limits |
| `user_aggregate` | 2 users, 4 events | events against state, no later admins, the rules of entity and permissions service differ by enterprise users only |
| `own_role` | the same | **violation**: a user changes its own role although the comment says nobody can |
| `lifecycle` | 476 environments, 3 connections, 3 signals, clients that go away, timers fire | only a ready process serves clients, production does not synchronize, exit codes tell whether a client was cut off, a signal ends the process |
| `user_store` | 2 users, 2 callers, 4 bodies, 2 names, 2 changes of a copy or 1 and a fault | rows load, no later admins, deletion is final, and `save` and `delete` implement `UserRegister` |
| `account_lock` | 1 token, 12 failures in a row | **violation**: the eleventh failed login is neither counted nor does it lock |

Why the bounds are enough:

- Three requests give a winner, a loser and a third that comes when the row is
  deleted or orphaned; the addresses are two spellings of one e-mail, a different
  e-mail and one the CHECK rejects. Two faults allow a crash after a lost reply.
- Two handlers are the least with an order to disturb, and the three of
  `publisher_skips` a first, a middle and a last one, which is what distinguishes the
  effects of a splice. Three events allow a batch and a publication nested in it, or two
  nested ones, and overflow a history of two. Three changes let both handlers subscribe
  and one leave; five, all three subscribe and two leave. The proofs hold for any number.
- In six ticks there are three windows of two ticks.
- In the pipeline, times 0 to 3 hold a whole window and the two resets around it;
  a timer due at 1 that fires at 2 is next due at 4, where one that caught up would
  fire at 3 and let a third burst in. The store counts one more than the limit, which
  is where decisions differ. Two requests are enough for one to be suspended while
  another passes the limiters; each of the two slots serves any number one after the
  other. The clients' counters do not depend on each other, so one client is enough.
- The environments are all that are accepted or at most two variables away from one
  that is: a check that reads a single variable, or one under the condition of a second,
  is seen to accept and to refuse.
- In the store, two callers are a reader of an old copy and a writer of a newer one;
  of the bodies one becomes an admin, one a user who may change roles, one passes
  everything but the CHECK and one is refused by Joi; of the names one is stored without
  its blanks and one refused. Two changes demote a performer
  and let it perform with the copy from before; one change beside a fault makes two
  copies of a row differ while a statement is under way and its caller tries again. The
  proofs hold for any number of each.
- Three signals are one whose `destroy` is accepted, one that comes before `close`
  is emitted and one after it; connections do not depend on each other.
- Four events let two users be created and role or status change twice, which
  includes an admin that is demoted and another change after that.

`CHECK_DEADLOCK FALSE` is used where the system really comes to rest: all requests
answered, all events published, no events left in the bound, or the process ended.
The limiters and the pipeline always accept a further request and are checked for
deadlock.

Fairness. `Registration!FairSpec` is weak fairness of each handler's steps: the
event loop resumes handlers whose await is done, and PostgreSQL executes the
statements it is sent. Nothing is assumed of clients, deletions or faults. `EventPublisher!FairSpec` is
weak fairness of the loops (synchronous code runs to its end), of settling promises
(handlers do finish: a handler that never settles is outside the assumption and
does block `publish`) and of `Promise.allSettled`. `RequestPipeline!PipelineSpec` is
weak fairness of the chain, which runs to its end, and strong fairness of resuming a
suspended one: while another chain runs it cannot be resumed, but its settled promise
stays in the queue. `Receive` and the body are the client's and are not assumed, which
is why `EveryReadRequestAnswered` begins behind the body. `AppLifecycle!Spec` assumes
only that timers fire; neither requests nor the database are assumed to answer.

## 4. Proofs

All theorems hold for every value of the constants under the assumptions next to
them.

`RegistrationProofs` proves every safety property of the run `registration`. The
invariants are not inductive alone: that `PublishDomainEvents` announces only
stored users needs that a handler in phase `inserted` has its row. `IInv` collects
what each phase entails for row, event and answer (`PhaseInv`), what each answer
entails (`AnswerInv`) and what the row entails (`RowInv`). `OneWinner` needs more,
`WinnerIInv`: without faults, whoever is done has an answer, whoever is stored and
done was told 201, and a 500 has a reason in the table. That there is at most one
winner follows from `UniqueEmail`; that there is one, by taking any rival
and following the reason for its answer to a row. The same invariant gives
`ServerErrorsAreConflicts`: without faults a 500 means an address `validateCommand`
refuses, or an e-mail that the CHECK does not admit or that somebody else holds, so that
the first finding is about the status only.
`HandlersAdvance` is what liveness needs of the code: no await is repeated and a handler
ends with an answer. `Refinement` maps each step to a step of `EmailRegistry` or a
stutter.

`SlidingWindowProofs` proves types, the bound in every window, the bound of the store,
and that nothing that counts is forgotten. The argument: the store of a client lies
between its recent admissions and all of them (`StoreAgreesWithLog`), so what the
middleware counts is what there is to count; an admission that leaves some window
with more than the limit would be the newest in it, and the count it passed was of
a superset of that window. Refinement of `RequestLog` follows from the same fact.

`UserAggregateProofs` proves type correctness, that nobody becomes an admin after
creation, that the permissions service differs from the entity on role changes by enterprise
users and on nothing else (`EnterpriseIsTheDifference`), and that no operation takes an
event back (`NothingIsTakenBack`): each await hands over the first pending event
(`RestOfEvents`), and what is cleared has been handed over. In `IInv` the events of an admin, published and pending,
contain no role change. `EventsAreTheStory` proves `EventsTellState`, which is about a
replay of any length. `Replay` is a recursive function over positions; `Seen(f, h, n)`
says that `f` is what a subscriber has seen after each of the first `n` events, and that
such an `f` exists, that two of them agree, and that they agree with `Replay` are proved
by taking the least position at which it fails (`LeastNumber`, from the well-foundedness
of `<`). `ReplayAppend` then reduces each step to the one event it adds.
`NobodyRaisesItself` bounds the fourth finding: a user may change its own role, but no
history contains such a change to a higher rank.

`EventPublisherProofs` proves the four invariants of the run `publisher` for loops
nested to any depth. `ResolvedMeansSettled` needs that the stack holds the events
being dispatched, each once (`StackInv`), and that no call settles during the loop it
was made in (`SettledInv`): so a publication a handler starts finds its parent's
promise still open. `UndisturbedLoopIsExact` needs how far each loop has come
(`Fits`): unless a handler has left, the handlers called are a first part of those
`publish` found, and these are still the first of the array. A handler that leaves
without having been found stands behind them (`LeavingKeepsFits`), because `subscribe`
appends and admits nobody twice. `LoopsEnd` bounds a loop by the number of handlers
`publish` found, whatever is subscribed meanwhile (`Paced`: each call uses up a place of
the array).

For the promises, `WaitInv` says that publications can be numbered so that each awaits
only smaller ones: a `publish` that begins awaits nobody yet, so it can be numbered
first and all others one higher. `NobodyWaitsInACircle`
follows by the least number of a set, and with it `PromisesCanSettle`: when no loop runs,
any pending publications that wait for nothing outside them hold one whose promise, or
the promise of one of whose calls, can be settled.

`FixedWindowProofs` proves that at most `2 * max` requests of a client pass in any
interval of a window's length, and that a refusal means `max` have passed in the same
period. The argument (`TwoPeriods`): two resets are at least a window apart however
late they are, so an interval meets at most two periods of the store, and each admits
`max`. `DynamicNeverRefuses` is the third finding for all constants: a store made for the
request counts one, and no limit refuses the first. `RequestPipelineProofs` proves the safety of the run `request_pipeline` for any
number of requests under way, and uses the former twice, the second time through an
instance for the limiter of `/register`. `SlotsInv` says at each place of the chain what
the request has been given and what it has been answered; `GuardInv` that the second
limiter has admitted no more of a client than the first. `LimitersImplemented` is the
refinement: each step of the chain is a step or a stutter of each limiter.
`ChainsNeverHang` says that the chain that runs is at a middleware that takes what it was
handed and that every other request waits for something outside (`ChainInv`; it needs
that only `/register` reaches the second limiter and the validation), and
`ChainsOnlyAdvance` that every step takes its request to a later stage: no middleware is
run again for it or ends without an answer or a call of `next`.

`AppLifecycleProofs` proves all three safety properties of the run `lifecycle`. The
invariant `IInv` says what each stage of `bootstrap` has established, that nobody is
connected before the server listens, and that once a callback of `server.close` has
run the connections are gone and stay gone, since a closing server accepts none; the
handlers are not, which is why the invariant is about `Open`.
`DestroyedByOne` shows that among any number of signals one destroys the data source and
the others are refused only while it does; `ShutdownIsIrrevocable` that nothing takes a
shutdown back or disarms a timer.

`UserStoreProofs` first proves how the layers stand to one another, for every body:
the second check of the schema agrees with the first (`SecondCheckAgrees`), who refuses
what and with which status (`OnlyTableRefuses`, `RoutersAgree`), and that the stored form
of a value is accepted by the constructor that reads it (`StoredUsersLoad`).

Then it proves the four safety properties of the run `user_store`, for any
number of changes and faults. They are one invariant: data under way in copies and
statements (`CopyInv`, `StrayInv`) fits as well as that in rows (`RowInv`): its
constructors accept it, and its role is admin only where the user was created so. A
removing statement has found its row (`CallInv`), which is what keeps `Remove` from
making one. `CommandLoads` is where the layers come in: what they let pass can be
loaded. `StoreIsRegister` shows that `save` and `delete` take effect as whole writes of
one copy: each statement, also one that arrives late, is the moment at which its call
takes effect in `UserRegister`, and every other step is a stutter.

Last, `LockEndsAtTen` about `AccountRow`: `loginAttempts` is the number of failures until
the CHECK stops it at ten (`AttemptsInv`), so that the fifth to the tenth failure in a row
lock the account and none after them does, as the fifth finding has it.

Model-checked only: the four liveness properties (`EveryRequestCompletes`,
`EveryPublicationResolves`, `EveryReadRequestAnswered`, `SignalEndsProcess`), since the
prover reaches neither fairness nor ENABLED. What they need beside fairness is proved:
that whatever is under way has a step to take, or only ever moves on to later ones
(`HandlersAdvance`, `NobodyWaitsInACircle` with `PromisesCanSettle` and `LoopsEnd`,
`ChainsNeverHang` with `ChainsOnlyAdvance`, `ShutdownIsIrrevocable`).
The five violations are counterexamples TLC finds; four of them have their extent proved
(`ServerErrorsAreConflicts`, `DynamicNeverRefuses`, `NobodyRaisesItself`,
`LockEndsAtTen`), and `UndisturbedLoopsAreExact` that of the fifth, a skipped handler.
Nothing is assumed but the named assumptions on the constants; TLC evaluates those on
every run.

## 5. Findings

1. The loser of a concurrent registration gets 500 instead of 409.
2. `publish` skips a handler when another unsubscribes during the loop.
3. The role-based limiter counts every request in a store of its own.
4. A user who manages users can change its own role, against the comment in
   `user.entity.ts`.
5. The lock after failed logins stops at the tenth failure: the CHECK refuses the UPDATE
   that would count the eleventh and lock the account again.
6. An enterprise user can change roles, an admin's included (`User.changeRole`), while
   `UserPermissions.canChangeRole` says "Only admins can change roles". Nothing in
   `src/src` calls either at this commit.

Each of the first five is a run that TLC finds violated; the sixth is stated as what it
is, the only difference between two sets of rules (`RulesDifferByEnterprise`), checked in
`user_aggregate` and proved for any users. `PROJECT.json` quotes the line the code
disagrees with. One more disagreement is too plain for a run: `waitForCompletion`, "Wait
for all pending events to be processed", is `return Promise.resolve()`.

## 6. Plan

Done, in this order: Registration with its refinement and proofs; EventPublisher;
SlidingWindowLimiter with refinement and proofs; FixedWindowLimiter and
DynamicLimiter; UserAggregate with proofs; RequestPipeline; AppLifecycle with proofs;
ConfigChecks; ValidationChain and UserStore with its refinement and proofs; AccountRow;
the proofs about FixedWindowLimiter, RequestPipeline and EventPublisher.

What would add most after this, once the code has it: a login flow over `AccountRow`
and `BcryptHashingService`; routes that load, change and save users, whose handlers
replace the free callers of `UserStore`; a delete route, which makes the soft delete in
`Registration` an action of a client. At this commit no caller of these operations
exists, so their order is left open in the models.

## 7. Not modelled

Logging, Swagger, security and CORS headers, response formatting, the mappers and the
permission strings and feature lists they return: output nothing else depends on.
`BcryptHashingService`: `main.ts` constructs one and uses it nowhere; its methods keep no
state, and a hash is opaque here. The middlewares and schemas that no route uses
(query, params and full validation, sanitization, update schemas, correlation, session
and tracing), and `createValidationError`: they have no caller whose behaviour could be
checked. Ordering, paging and text criteria of the queries: they choose among rows that
are only read. Regular expressions and message texts: abstracted to the classes of
inputs they separate. PostgreSQL, bcrypt, Joi's address syntax and express-rate-limit are
external and modelled from how the code uses them.
