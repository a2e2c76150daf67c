---------------------------- MODULE Registration ----------------------------
(***************************************************************************)
(* Concurrent user registrations, POST /api/v1/users/register, from the    *)
(* controller to the database and back:                                    *)
(*                                                                         *)
(*   UserController.register -> CreateUserUseCase.execute                  *)
(*     -> UserFactory.createUser          (hash, then find by e-mail)      *)
(*     -> TypeORMUserRepository.save      (find by id, then INSERT)        *)
(*     -> publishDomainEvents             (after the row is stored)        *)
(*                                                                         *)
(* Node runs one handler at a time, so a handler is atomic between two     *)
(* awaits: a phase is the await a request is suspended in, and an action   *)
(* is the resumption of one await up to the next.  The request r stands    *)
(* also for the user it creates: UserId.generate makes a fresh id per      *)
(* request, and the row r of the table users is the row with that id.      *)
(* The database executes one statement at a time; a statement in flight    *)
(* when the connection or the process dies may still commit.               *)
(***************************************************************************)
EXTENDS Naturals, FiniteSets

CONSTANTS
  Requests,     \* registration requests, each with the user id it generates
  Addresses,    \* e-mail addresses as clients spell them
  Lower,        \* Email.getValue: the lower-case spelling of an address
  DbFormatted,  \* addresses the table's CHECK constraint on email admits
  NoAddress,    \* a request of which no address has passed validateCommand
  MaxFaults     \* bound: failed awaits and crashes in one behaviour

ASSUME AddressAssumption ==
  /\ Lower \in [Addresses -> Addresses]
  /\ \A a \in Addresses : Lower[Lower[a]] = Lower[a]
  /\ DbFormatted \subseteq Addresses
  /\ NoAddress \notin Addresses

ASSUME FaultAssumption == MaxFaults \in Nat

VARIABLES
  phase,      \* phase[r]: the await the handler of r is suspended in
  addr,       \* addr[r]: the address in the validated body of r
  answer,     \* answer[r]: the HTTP status sent to the client of r
  rows,       \* rows[r]: the row of the table users whose id r generated
  announced,  \* the users whose UserCreated event reached the publisher
  faults      \* faults so far, at most MaxFaults

vars == <<phase, addr, answer, rows, announced, faults>>

\* The awaits of one handler, in order; "inserted" is the INSERT committed
\* and its reply under way, "orphaned" an INSERT nobody waits for any more.
Awaiting == {"hashing", "finding", "looking", "inserting", "inserted",
             "publishing"}
Phases == {"idle", "orphaned", "done"} \union Awaiting

\* 0 stands for a client that never got an answer.
NoAnswer == 0
Answers == {NoAnswer, 201, 400, 409, 500}

\* "deleted" is a row with deleted_at set; rows are never removed.
RowStates == {"absent", "live", "deleted"}

TypeOK ==
  /\ phase \in [Requests -> Phases]
  /\ addr \in [Requests -> Addresses \union {NoAddress}]
  /\ answer \in [Requests -> Answers]
  /\ rows \in [Requests -> RowStates]
  /\ announced \subseteq Requests
  /\ faults \in 0 .. MaxFaults

Init ==
  /\ phase = [r \in Requests |-> "idle"]
  /\ addr = [r \in Requests |-> NoAddress]
  /\ answer = [r \in Requests |-> NoAnswer]
  /\ rows = [r \in Requests |-> "absent"]
  /\ announced = {}
  /\ faults = 0

----------------------------------------------------------------------------
\* What the database sees.

\* Email.getValue of the user that r registers.
EmailOf(r) == Lower[addr[r]]

\* Slip of IsListed: the query without its e-mail condition.
ListedAnyone(e) == \E s \in Requests : rows[s] = "live"

\* The filter of findByEmail: a row with that e-mail and no deleted_at.
IsListed(e) == \E s \in Requests : rows[s] = "live" /\ EmailOf(s) = e

\* Slip of IsIndexed: a partial index, WHERE deleted_at IS NULL.
IndexedLive(e) == IsListed(e)

\* The unique index on email covers every row, the soft-deleted ones too.
IsIndexed(e) == \E s \in Requests : rows[s] # "absent" /\ EmailOf(s) = e

\* Slip of CanInsert: the migration does not create the unique index.
InsertUnindexed(r) == EmailOf(r) \in DbFormatted

\* The INSERT of r meets the unique index and the CHECK constraint on email.
CanInsert(r) == ~IsIndexed(EmailOf(r)) /\ EmailOf(r) \in DbFormatted

----------------------------------------------------------------------------
\* One step of a handler.

Resume(r, from, to) ==
  /\ phase[r] = from
  /\ phase' = [phase EXCEPT ![r] = to]

Finish(r, status) ==
  /\ phase' = [phase EXCEPT ![r] = "done"]
  /\ answer' = [answer EXCEPT ![r] = status]

Inject == faults < MaxFaults /\ faults' = faults + 1

\* The body fails the schema, in the route's validation or in the controller.
RejectBody(r) ==
  /\ phase[r] = "idle"
  /\ Finish(r, 400)
  /\ UNCHANGED <<addr, rows, announced, faults>>

\* The schema lets an address with a blank beyond ASCII pass and validateCommand
\* does not: its Error('Validation failed') has no code, so the status is 500.
RejectCommand(r) ==
  /\ phase[r] = "idle"
  /\ Finish(r, 500)
  /\ UNCHANGED <<addr, rows, announced, faults>>

\* The body passes, and so it does all other checks before the handler's first
\* await, bcrypt.hash (ValidationChain).
Register(r, a) ==
  /\ Resume(r, "idle", "hashing")
  /\ addr' = [addr EXCEPT ![r] = a]
  /\ UNCHANGED <<answer, rows, announced, faults>>

HashDone(r) ==
  /\ Resume(r, "hashing", "finding")
  /\ UNCHANGED <<addr, answer, rows, announced, faults>>

\* findByEmail returns a user: UserAlreadyExistsException, mapped to 409.
EmailTaken(r) ==
  /\ phase[r] = "finding"
  /\ IsListed(EmailOf(r))
  /\ Finish(r, 409)
  /\ UNCHANGED <<addr, rows, announced, faults>>

\* findByEmail returns null: User.create, then save issues its findOne by id.
EmailFree(r) ==
  /\ Resume(r, "finding", "looking")
  /\ ~IsListed(EmailOf(r))
  /\ UNCHANGED <<addr, answer, rows, announced, faults>>

\* Slip of SaveLookup: the event is published before the row is stored.
AnnounceThenInsert(r) ==
  /\ Resume(r, "looking", "inserting")
  /\ announced' = announced \union {r}
  /\ UNCHANGED <<addr, answer, rows, faults>>

\* The id is fresh, so save's findOne finds no row and save inserts.
SaveLookup(r) ==
  /\ rows[r] = "absent"
  /\ Resume(r, "looking", "inserting")
  /\ UNCHANGED <<addr, answer, rows, announced, faults>>

InsertRow(r) ==
  /\ Resume(r, "inserting", "inserted")
  /\ CanInsert(r)
  /\ rows' = [rows EXCEPT ![r] = "live"]
  /\ UNCHANGED <<addr, answer, announced, faults>>

\* Slips of InsertRejected: no default status; no response at all.
RejectedUnmapped(r) ==
  /\ phase[r] = "inserting" /\ ~CanInsert(r)
  /\ Finish(r, 0 - 1)
  /\ UNCHANGED <<addr, rows, announced, faults>>

RejectedSilently(r) ==
  /\ Resume(r, "inserting", "done") /\ ~CanInsert(r)
  /\ UNCHANGED <<addr, answer, rows, announced, faults>>

\* A constraint rejects the INSERT: QueryFailedError has no entry in the
\* error-code map, so its code is UNKNOWN_ERROR and its status 500.
InsertRejected(r) ==
  /\ phase[r] = "inserting"
  /\ ~CanInsert(r)
  /\ Finish(r, 500)
  /\ UNCHANGED <<addr, rows, announced, faults>>

\* Slip of PublishDomainEvents: clearEvents before the loop over the events.
PublishCleared(r) ==
  /\ Resume(r, "inserted", "publishing")
  /\ UNCHANGED <<addr, answer, rows, announced, faults>>

\* save returns; publish records the event and starts its handlers at once.
PublishDomainEvents(r) ==
  /\ Resume(r, "inserted", "publishing")
  /\ announced' = announced \union {r}
  /\ UNCHANGED <<addr, answer, rows, faults>>

\* Every handler has settled; publish never fails because of a handler.
RespondCreated(r) ==
  /\ phase[r] = "publishing"
  /\ Finish(r, 201)
  /\ UNCHANGED <<addr, rows, announced, faults>>

----------------------------------------------------------------------------
\* Faults: the catch block of execute answers 500 whatever was awaited.

\* bcrypt, or a query that changes nothing, rejects its promise.
AwaitFails(r) ==
  /\ Inject
  /\ phase[r] \in {"hashing", "finding", "looking"}
  /\ Finish(r, 500)
  /\ UNCHANGED <<addr, rows, announced>>

\* The connection dies before the INSERT is known to be executed.
InsertFails(r) ==
  /\ Inject
  /\ Resume(r, "inserting", "orphaned")
  /\ answer' = [answer EXCEPT ![r] = 500]
  /\ UNCHANGED <<addr, rows, announced>>

\* Slip of ReplyLost: the error is answered and the handler goes on.
ReplyLostGoesOn(r) ==
  /\ Inject
  /\ phase[r] = "inserted"
  /\ answer' = [answer EXCEPT ![r] = 500]
  /\ UNCHANGED <<phase, addr, rows, announced>>

\* The connection dies after the commit, before its reply.
ReplyLost(r) ==
  /\ Inject
  /\ phase[r] = "inserted"
  /\ Finish(r, 500)
  /\ UNCHANGED <<addr, rows, announced>>

\* The process dies: no client waiting gets an answer, INSERTs in flight are
\* left to the database, the table stays.  A new process serves at once.
Crash ==
  /\ Inject
  /\ phase' = [r \in Requests |->
                 IF phase[r] = "inserting" THEN "orphaned"
                 ELSE IF phase[r] \in Awaiting THEN "done" ELSE phase[r]]
  /\ UNCHANGED <<addr, answer, rows, announced>>

\* The database executes the INSERT that nobody waits for ...
OrphanCommits(r) ==
  /\ Resume(r, "orphaned", "done")
  /\ CanInsert(r)
  /\ rows' = [rows EXCEPT ![r] = "live"]
  /\ UNCHANGED <<addr, answer, announced, faults>>

\* ... or rolls it back.
OrphanRollsBack(r) ==
  /\ Resume(r, "orphaned", "done")
  /\ UNCHANGED <<addr, answer, rows, announced, faults>>

----------------------------------------------------------------------------
\* TypeORMUserRepository.delete: the row keeps its e-mail, and a second delete
\* only renews deleted_at.  Its findOne decides nothing that can change, since
\* a row once stored stays stored, so lookup and update are one step.
Delete(r) ==
  /\ rows[r] = "live"
  /\ rows' = [rows EXCEPT ![r] = "deleted"]
  /\ UNCHANGED <<phase, addr, answer, announced, faults>>

HandlerStep(r) ==
  \/ HashDone(r) \/ EmailTaken(r) \/ EmailFree(r) \/ SaveLookup(r)
  \/ InsertRow(r) \/ InsertRejected(r)
  \/ PublishDomainEvents(r) \/ RespondCreated(r)

FaultStep(r) ==
  \/ AwaitFails(r) \/ InsertFails(r) \/ ReplyLost(r)
  \/ OrphanCommits(r) \/ OrphanRollsBack(r)

Next ==
  \/ \E r \in Requests :
       \/ RejectBody(r) \/ RejectCommand(r)
       \/ \E a \in Addresses : Register(r, a)
       \/ HandlerStep(r)
       \/ FaultStep(r)
       \/ Delete(r)
  \/ Crash

Spec == Init /\ [][Next]_vars

\* The event loop and the database keep serving every suspended handler;
\* nothing obliges clients to send, rows to be deleted or faults to happen.
FairSpec == Spec /\ \A r \in Requests : WF_vars(HandlerStep(r))

----------------------------------------------------------------------------
(* Properties. *)

SameEmail(r, s) == addr[r] # NoAddress /\ addr[s] # NoAddress
                   /\ Lower[addr[r]] = Lower[addr[s]]

IsStored(r) == rows[r] # "absent"

\* No two rows of users ever carry the same e-mail in any spelling, although
\* findByEmail and save's INSERT are separated by two awaits, rows are
\* soft-deleted in between and an INSERT may commit after its client was told
\* it failed.
UniqueEmail ==
  \A r, s \in Requests : IsStored(r) /\ IsStored(s) /\ SameEmail(r, s) => r = s

\* A client told 409 (UserAlreadyExistsException) registered nobody, and the
\* e-mail it asked for is really held by the row of somebody else, whatever
\* was deleted and whichever process crashed since.
ConflictJustified ==
  \A r \in Requests : answer[r] = 409 =>
    /\ ~IsStored(r)
    /\ \E s \in Requests \ {r} : IsStored(s) /\ SameEmail(r, s)

\* A client told 201 has a row in the table and its UserCreated event reached
\* the publisher, and the publisher never hears of a user that is not in the
\* table: execute awaits save, then publishDomainEvents, before it answers, and
\* no fault or crash undoes the row.
CreatedIsComplete ==
  /\ \A r \in Requests : answer[r] = 201 => r \in announced
  /\ \A r \in announced : IsStored(r)

\* With no fault, once every request for an e-mail the table admits has been
\* answered, exactly one of them was told 201: the concurrent handlers neither
\* both win nor all lose, although none of them holds a lock.
OneWinner ==
  faults = 0 =>
    \A r \in Requests :
      LET rivals == {s \in Requests : SameEmail(r, s)}
      IN (/\ rivals # {}
          /\ Lower[addr[r]] \in DbFormatted
          /\ \A s \in rivals : phase[s] = "done")
         => Cardinality({s \in rivals : answer[s] = 201}) = 1

RowAdvances(r) ==
  IsStored(r) => rows'[r] \in {rows[r], "deleted"} /\ addr'[r] = addr[r]

AnswerStays(r) == answer[r] # NoAnswer => answer'[r] = answer[r]

\* What a client was told and what the table holds is never taken back: no step
\* takes a row out, revives a soft-deleted one or changes the e-mail a row is
\* indexed under, and no path of execute and register answers a second time,
\* also after a lost reply or a crash.
NothingIsTakenBack ==
  [][\A r \in Requests : RowAdvances(r) /\ AnswerStays(r)]_vars

\* Every request whose handler reached its first await is answered, and every
\* stored user is announced to the publisher, unless a fault comes first.
EveryRequestCompletes ==
  \A r \in Requests :
    /\ phase[r] = "hashing" ~> (answer[r] # NoAnswer \/ faults > 0)
    /\ IsStored(r) ~> (r \in announced \/ faults > 0)

\* tests/integration/api/user.registration.integration.spec.ts:360-379 sends
\* five registrations of one e-mail at once and expects one 201 and four 409:
\* with no fault, nothing deleted and an e-mail the table admits, nobody is
\* told 500.
LosersAreToldConflict ==
  \A r \in Requests :
    (/\ faults = 0
     /\ \A s \in Requests : rows[s] # "deleted"
     /\ addr[r] # NoAddress /\ Lower[addr[r]] \in DbFormatted)
    => answer[r] # 500

----------------------------------------------------------------------------
(* The inductive invariant behind the theorems of RegistrationProofs: what  *)
(* each phase of a handler entails for the row, the event and the answer.   *)

PhaseInv(r) ==
  /\ phase[r] = "idle" => addr[r] = NoAddress /\ answer[r] = NoAnswer
  /\ phase[r] \in Awaiting => addr[r] # NoAddress /\ answer[r] = NoAnswer
  /\ phase[r] = "orphaned" => addr[r] # NoAddress /\ answer[r] \in {NoAnswer, 500}
  /\ phase[r] \in {"idle", "hashing", "finding", "looking", "inserting",
                   "orphaned"} => ~IsStored(r)
  /\ phase[r] \in {"inserted", "publishing"} => IsStored(r)
  /\ phase[r] = "inserted" => r \notin announced
  /\ phase[r] = "publishing" => r \in announced

AnswerInv(r) ==
  /\ answer[r] = 400 => addr[r] = NoAddress /\ ~IsStored(r)
  /\ answer[r] = 500 => r \notin announced

\* A row has an e-mail, and only the row of a user is announced.
RowInv(r) ==
  /\ IsStored(r) => addr[r] # NoAddress
  /\ r \in announced => IsStored(r)

IInv ==
  /\ TypeOK
  /\ \A r \in Requests : PhaseInv(r) /\ AnswerInv(r) /\ RowInv(r)
  /\ UniqueEmail
  /\ ConflictJustified
  /\ CreatedIsComplete

\* What an execution without faults adds: nothing is orphaned, whoever is done
\* has its answer, a stored user is told 201, and the only reasons for a 500
\* are an address that validateCommand refuses, and an e-mail that is held
\* already or that the table does not admit.
FaultlessInv(r) ==
  /\ phase[r] # "orphaned"
  /\ phase[r] = "done" => answer[r] # NoAnswer
  /\ IsStored(r) /\ phase[r] = "done" => answer[r] = 201
  /\ answer[r] = 500 =>
       \/ addr[r] = NoAddress
       \/ Lower[addr[r]] \notin DbFormatted
       \/ \E s \in Requests : IsStored(s) /\ SameEmail(r, s)

WinnerIInv == IInv /\ (faults = 0 => \A r \in Requests : FaultlessInv(r))
=============================================================================
