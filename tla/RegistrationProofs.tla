------------------------- MODULE RegistrationProofs -------------------------
(***************************************************************************)
(* Theorems about Registration for every set of requests, every set of     *)
(* addresses and every number of faults.                                   *)
(***************************************************************************)
EXTENDS RegistrationRefinement, FiniteSetTheorems, TLAPS

----------------------------------------------------------------------------
(* Type correctness. *)

LEMMA InitTypeOK == Init => TypeOK
  BY FaultAssumption
  DEF Init, TypeOK, Phases, Answers, NoAnswer, RowStates

LEMMA NextTypeOK == TypeOK /\ [Next]_vars => TypeOK'
<1> SUFFICES ASSUME TypeOK, [Next]_vars PROVE TypeOK'
  OBVIOUS
<1> USE DEF TypeOK, Phases, Awaiting, Answers, NoAnswer, RowStates
<1>1. ASSUME NEW r \in Requests, RejectBody(r) \/ RejectCommand(r)
      PROVE  TypeOK'
  BY <1>1 DEF RejectBody, RejectCommand, Finish
<1>2. ASSUME NEW r \in Requests, NEW a \in Addresses, Register(r, a)
      PROVE  TypeOK'
  BY <1>2 DEF Register, Resume
<1>3. ASSUME NEW r \in Requests, HandlerStep(r) PROVE TypeOK'
  BY <1>3 DEF HandlerStep, HashDone, EmailTaken, EmailFree, SaveLookup,
     InsertRow, InsertRejected, PublishDomainEvents, RespondCreated,
     Resume, Finish
<1>4. ASSUME NEW r \in Requests, FaultStep(r) PROVE TypeOK'
  BY <1>4, FaultAssumption
  DEF FaultStep, AwaitFails, InsertFails, ReplyLost, OrphanCommits,
      OrphanRollsBack, Resume, Finish, Inject
<1>5. ASSUME NEW r \in Requests, Delete(r) PROVE TypeOK'
  BY <1>5 DEF Delete
<1>6. CASE Crash
  BY <1>6, FaultAssumption DEF Crash, Inject
<1>7. CASE UNCHANGED vars
  BY <1>7 DEF vars
<1> QED
  BY <1>1, <1>2, <1>3, <1>4, <1>5, <1>6, <1>7 DEF Next

\* The state always has the types TypeOK gives it; in particular no handler
\* sends a status that getErrorStatusCode does not know.
THEOREM TypeCorrect == Spec => []TypeOK
  BY InitTypeOK, NextTypeOK, PTL DEF Spec

----------------------------------------------------------------------------
(* The inductive invariant. *)

LEMMA InitIInv == Init => IInv
<1> SUFFICES ASSUME Init PROVE IInv
  OBVIOUS
<1> QED
  BY InitTypeOK
  DEF Init, IInv, PhaseInv, AnswerInv, RowInv, UniqueEmail, ConflictJustified,
      CreatedIsComplete, IsStored, SameEmail, Awaiting, NoAnswer

LEMMA NextIInv == IInv /\ [Next]_vars => IInv'
<1> SUFFICES ASSUME IInv, [Next]_vars PROVE IInv'
  OBVIOUS
<1>t. TypeOK'
  BY NextTypeOK DEF IInv
<1> USE <1>t DEF IInv, TypeOK, PhaseInv, AnswerInv, RowInv, UniqueEmail,
    ConflictJustified, CreatedIsComplete, IsStored, SameEmail, Awaiting,
    NoAnswer
<1>1. ASSUME NEW r \in Requests, RejectBody(r) \/ RejectCommand(r)
      PROVE  IInv'
  BY <1>1 DEF RejectBody, RejectCommand, Finish
<1>2. ASSUME NEW r \in Requests, NEW a \in Addresses, Register(r, a)
      PROVE  IInv'
  BY <1>2, AddressAssumption DEF Register, Resume
<1>3. ASSUME NEW r \in Requests, HandlerStep(r) PROVE IInv'
  <2>1. CASE HashDone(r)
    BY <2>1 DEF HashDone, Resume
  <2>2. CASE EmailTaken(r)
    BY <2>2 DEF EmailTaken, Finish, IsListed, EmailOf
  <2>3. CASE EmailFree(r)
    BY <2>3 DEF EmailFree, Resume
  <2>4. CASE SaveLookup(r)
    BY <2>4 DEF SaveLookup, Resume
  <2>5. CASE InsertRow(r)
    BY <2>5 DEF InsertRow, Resume, CanInsert, IsIndexed, EmailOf
  <2>6. CASE InsertRejected(r)
    BY <2>6 DEF InsertRejected, Finish
  <2>7. CASE PublishDomainEvents(r)
    BY <2>7 DEF PublishDomainEvents, Resume
  <2>8. CASE RespondCreated(r)
    BY <2>8 DEF RespondCreated, Finish
  <2> QED
    BY <1>3, <2>1, <2>2, <2>3, <2>4, <2>5, <2>6, <2>7, <2>8 DEF HandlerStep
<1>4. ASSUME NEW r \in Requests, FaultStep(r) PROVE IInv'
  <2>1. CASE AwaitFails(r)
    BY <2>1 DEF AwaitFails, Finish
  <2>2. CASE InsertFails(r)
    BY <2>2 DEF InsertFails, Resume
  <2>3. CASE ReplyLost(r)
    BY <2>3 DEF ReplyLost, Finish
  <2>4. CASE OrphanCommits(r)
    BY <2>4 DEF OrphanCommits, Resume, CanInsert, IsIndexed, EmailOf
  <2>5. CASE OrphanRollsBack(r)
    BY <2>5 DEF OrphanRollsBack, Resume
  <2> QED
    BY <1>4, <2>1, <2>2, <2>3, <2>4, <2>5 DEF FaultStep
<1>5. ASSUME NEW r \in Requests, Delete(r) PROVE IInv'
  BY <1>5 DEF Delete
<1>6. CASE Crash
  BY <1>6 DEF Crash
<1>7. CASE UNCHANGED vars
  BY <1>7 DEF vars
<1> QED
  BY <1>1, <1>2, <1>3, <1>4, <1>5, <1>6, <1>7 DEF Next

LEMMA SpecIInv == Spec => []IInv
  BY InitIInv, NextIInv, PTL DEF Spec

\* findByEmail and the INSERT of one registration are separated by awaits, yet
\* no e-mail ever belongs to two rows.
THEOREM EmailsStayUnique == Spec => []UniqueEmail
  BY SpecIInv, PTL DEF IInv

\* A 409 is always about the row of somebody else, and registers nobody.
THEOREM ConflictsAreReal == Spec => []ConflictJustified
  BY SpecIInv, PTL DEF IInv

\* A 201 always has its event and its row, and no event is published for a
\* user that is not stored, whatever fails around it.
THEOREM CreatedUsersAreComplete == Spec => []CreatedIsComplete
  BY SpecIInv, PTL DEF IInv

----------------------------------------------------------------------------
(* An action property, from the same invariant. *)

\* Rows are never removed, revived or moved to another e-mail: only a request
\* that is still idle, hence without a row, is given an address.
LEMMA RowsAdvance ==
  ASSUME IInv, Next, NEW s \in Requests
  PROVE  RowAdvances(s)
<1> SUFFICES ASSUME IsStored(s)
             PROVE  rows'[s] \in {rows[s], "deleted"} /\ addr'[s] = addr[s]
  BY DEF RowAdvances
<1> QED
  BY DEF IInv, TypeOK, PhaseInv, IsStored, Next, RejectBody, RejectCommand,
     Register, HandlerStep, HashDone, EmailTaken, EmailFree, SaveLookup, InsertRow,
     InsertRejected, PublishDomainEvents, RespondCreated, FaultStep,
     AwaitFails, InsertFails, ReplyLost, OrphanCommits, OrphanRollsBack,
     Delete, Crash, Resume, Finish

\* No client is answered twice: an answered handler is done or orphaned.
LEMMA AnswersStay ==
  ASSUME IInv, Next, NEW s \in Requests
  PROVE  AnswerStays(s)
<1> SUFFICES ASSUME answer[s] # NoAnswer
             PROVE  answer'[s] = answer[s]
  BY DEF AnswerStays
<1> QED
  BY DEF IInv, TypeOK, PhaseInv, Awaiting, Next, RejectBody, RejectCommand,
     Register, HandlerStep, HashDone, EmailTaken, EmailFree, SaveLookup, InsertRow,
     InsertRejected, PublishDomainEvents, RespondCreated, FaultStep,
     AwaitFails, InsertFails, ReplyLost, OrphanCommits, OrphanRollsBack,
     Delete, Crash, Resume, Finish

\* Neither what the table holds nor what a client was told is taken back.
THEOREM NothingTakenBack == Spec => NothingIsTakenBack
<1>1. IInv /\ [Next]_vars =>
        [\A r \in Requests : RowAdvances(r) /\ AnswerStays(r)]_vars
  BY RowsAdvance, AnswersStay
<1> QED
  BY <1>1, SpecIInv, PTL DEF Spec, NothingIsTakenBack

----------------------------------------------------------------------------
(* One winner for each contested e-mail. *)

LEMMA InitWinner == Init => WinnerIInv
  BY InitIInv DEF Init, WinnerIInv, FaultlessInv, IsStored, NoAnswer

LEMMA NextWinner == WinnerIInv /\ [Next]_vars => WinnerIInv'
<1> SUFFICES ASSUME WinnerIInv, [Next]_vars PROVE WinnerIInv'
  OBVIOUS
<1>i. IInv'
  BY NextIInv DEF WinnerIInv
<1> SUFFICES ASSUME faults' = 0 PROVE \A r \in Requests : FaultlessInv(r)'
  BY <1>i DEF WinnerIInv
<1>0. /\ TypeOK /\ TypeOK'
      /\ \A r \in Requests : PhaseInv(r) /\ AnswerInv(r) /\ RowInv(r)
  BY <1>i DEF WinnerIInv, IInv
<1>f. faults = 0 => \A r \in Requests : FaultlessInv(r)
  BY DEF WinnerIInv
<1> USE <1>0, <1>f DEF TypeOK, PhaseInv, AnswerInv, RowInv, FaultlessInv,
    IsStored, SameEmail, Awaiting, NoAnswer
<1>1. ASSUME NEW r \in Requests, RejectBody(r) \/ RejectCommand(r)
      PROVE  \A s \in Requests : FaultlessInv(s)'
  BY <1>1 DEF RejectBody, RejectCommand, Finish
<1>2. ASSUME NEW r \in Requests, NEW a \in Addresses, Register(r, a)
      PROVE  \A s \in Requests : FaultlessInv(s)'
  BY <1>2 DEF Register, Resume
<1>3. ASSUME NEW r \in Requests, HandlerStep(r)
      PROVE  \A s \in Requests : FaultlessInv(s)'
  <2>1. CASE HashDone(r)
    BY <2>1 DEF HashDone, Resume
  <2>2. CASE EmailTaken(r)
    BY <2>2 DEF EmailTaken, Finish
  <2>3. CASE EmailFree(r)
    BY <2>3 DEF EmailFree, Resume
  <2>4. CASE SaveLookup(r)
    BY <2>4 DEF SaveLookup, Resume
  <2>5. CASE InsertRow(r)
    BY <2>5 DEF InsertRow, Resume
  <2>6. CASE InsertRejected(r)
    BY <2>6 DEF InsertRejected, Finish, CanInsert, IsIndexed, EmailOf
  <2>7. CASE PublishDomainEvents(r)
    BY <2>7 DEF PublishDomainEvents, Resume
  <2>8. CASE RespondCreated(r)
    BY <2>8 DEF RespondCreated, Finish
  <2> QED
    BY <1>3, <2>1, <2>2, <2>3, <2>4, <2>5, <2>6, <2>7, <2>8 DEF HandlerStep
<1>4. ASSUME NEW r \in Requests, FaultStep(r)
      PROVE  \A s \in Requests : FaultlessInv(s)'
  BY <1>4 DEF FaultStep, AwaitFails, InsertFails, ReplyLost, OrphanCommits,
     OrphanRollsBack, Inject, Resume
<1>5. ASSUME NEW r \in Requests, Delete(r)
      PROVE  \A s \in Requests : FaultlessInv(s)'
  BY <1>5 DEF Delete
<1>6. CASE Crash
  BY <1>6 DEF Crash, Inject
<1>7. CASE UNCHANGED vars
  BY <1>7 DEF vars
<1> QED
  BY <1>1, <1>2, <1>3, <1>4, <1>5, <1>6, <1>7 DEF Next

\* With no fault, a contested e-mail goes to exactly one request once all have
\* been answered: at least one because whoever is refused was refused for a
\* stored row and every stored row ends in a 201, at most one because e-mails
\* are unique.
THEOREM ContestsHaveOneWinner == Spec => []OneWinner
<1>1. WinnerIInv => OneWinner
  <2> SUFFICES ASSUME WinnerIInv, faults = 0, NEW r \in Requests,
                      addr[r] # NoAddress, Lower[addr[r]] \in DbFormatted,
                      \A s \in Requests : SameEmail(r, s) => phase[s] = "done"
               PROVE  Cardinality({s \in {t \in Requests : SameEmail(r, t)} :
                                     answer[s] = 201}) = 1
    BY DEF OneWinner, SameEmail
  <2> DEFINE winners == {s \in {t \in Requests : SameEmail(r, t)} :
                           answer[s] = 201}
  <2>1. PICK w \in Requests : SameEmail(r, w) /\ answer[w] = 201
    <3>1. SameEmail(r, r) /\ phase[r] = "done"
      BY DEF SameEmail
    <3>2. CASE answer[r] = 201
      BY <3>1, <3>2
    <3>3. CASE answer[r] # 201
      <4>1. PICK s \in Requests : IsStored(s) /\ SameEmail(r, s)
        BY <3>1, <3>3 DEF WinnerIInv, IInv, TypeOK, Answers, FaultlessInv,
           AnswerInv, ConflictJustified
      <4> QED
        BY <4>1 DEF WinnerIInv, FaultlessInv
    <3> QED
      BY <3>2, <3>3
  <2>2. winners = {w}
    BY <2>1 DEF WinnerIInv, IInv, CreatedIsComplete, UniqueEmail, SameEmail
  <2> QED
    BY <2>2, FS_Singleton
<1> QED
  BY <1>1, InitWinner, NextWinner, PTL DEF Spec

----------------------------------------------------------------------------
(* What a 500 means, and why every handler comes to an end. *)

\* With no fault a client is told 500 for one of three reasons only:
\* validateCommand refuses its address, the CHECK of the table does not admit
\* it, or somebody else holds the e-mail.
RefusedForAReason ==
  faults = 0 =>
    \A r \in Requests : answer[r] = 500 =>
      \/ addr[r] = NoAddress
      \/ Lower[addr[r]] \notin DbFormatted
      \/ \E s \in Requests \ {r} : IsStored(s) /\ SameEmail(r, s)

\* Losing the race is the one way in which an admitted e-mail is answered 500
\* without a fault: what LosersAreToldConflict expects as 409 differs in the
\* status, never in the verdict.
THEOREM ServerErrorsAreConflicts == Spec => []RefusedForAReason
<1>1. WinnerIInv => RefusedForAReason
  <2> SUFFICES ASSUME WinnerIInv, faults = 0, NEW r \in Requests,
                      answer[r] = 500, addr[r] # NoAddress,
                      Lower[addr[r]] \in DbFormatted
               PROVE  \E s \in Requests \ {r} : IsStored(s) /\ SameEmail(r, s)
    BY DEF RefusedForAReason
  <2>1. PICK s \in Requests : IsStored(s) /\ SameEmail(r, s)
    BY DEF WinnerIInv, FaultlessInv
  <2>2. ~IsStored(r)
    BY DEF WinnerIInv, IInv, TypeOK, PhaseInv, FaultlessInv, Phases, Awaiting,
       NoAnswer
  <2> QED
    BY <2>1, <2>2
<1> QED
  BY <1>1, InitWinner, NextWinner, PTL DEF Spec

\* The phases in the order in which a request passes them; "orphaned" is where
\* a fault may put an INSERT.
PhaseNumber(p) ==
  IF p = "idle" THEN 0 ELSE IF p = "hashing" THEN 1 ELSE IF p = "finding" THEN 2
  ELSE IF p = "looking" THEN 3 ELSE IF p = "inserting" THEN 4
  ELSE IF p = "inserted" THEN 5 ELSE IF p = "publishing" THEN 6
  ELSE IF p = "orphaned" THEN 7 ELSE 8

\* A handler only ever goes on to a later await, whoever steps, and it ends by
\* itself with an answer.
HandlerAdvances(r) ==
  /\ phase'[r] # phase[r] => PhaseNumber(phase'[r]) > PhaseNumber(phase[r])
  /\ HandlerStep(r) =>
       /\ phase'[r] # phase[r]
       /\ phase'[r] = "done" => answer'[r] # NoAnswer

\* What EveryRequestCompletes needs beside the scheduling: whatever other
\* requests, deletions and crashes do, no await is repeated, save's findOne
\* never finds a row of a fresh id, and what a handler comes to is an answer.
THEOREM HandlersAdvance ==
  Spec => /\ [](\A r \in Requests : phase[r] = "looking" => rows[r] = "absent")
          /\ [][\A r \in Requests : HandlerAdvances(r)]_vars
<1>1. IInv => \A r \in Requests : phase[r] = "looking" => rows[r] = "absent"
  BY DEF IInv, PhaseInv, IsStored
<1>2. ASSUME IInv, Next, NEW r \in Requests
      PROVE  HandlerAdvances(r)
  <2> DEFINE later(s) ==
        \E p : /\ phase' = [phase EXCEPT ![s] = p]
              /\ PhaseNumber(p) > PhaseNumber(phase[s])
  <2>0. TypeOK /\ phase \in [Requests -> Phases]
    BY <1>2 DEF IInv, TypeOK
  <2>1. \A p : PhaseNumber(p) \in 0 .. 8
    BY DEF PhaseNumber
  <2>2. ASSUME NEW s \in Requests, later(s)
        PROVE  /\ phase'[r] # phase[r] =>
                    PhaseNumber(phase'[r]) > PhaseNumber(phase[r])
               /\ phase'[s] # phase[s]
    <3>1. PICK p : /\ phase' = [phase EXCEPT ![s] = p]
                   /\ PhaseNumber(p) > PhaseNumber(phase[s])
      BY <2>2
    <3>2. phase'[s] = p /\ (r # s => phase'[r] = phase[r])
      BY <2>0, <3>1
    <3>3. p # phase[s]
      BY <2>1, <3>1
    <3> QED
      BY <3>1, <3>2, <3>3
  <2>3. ASSUME NEW s \in Requests, NEW from, NEW to, Resume(s, from, to),
               PhaseNumber(to) > PhaseNumber(from)
        PROVE  later(s)
    BY <2>3 DEF Resume
  <2>4. ASSUME NEW s \in Requests, NEW status, Finish(s, status),
               phase[s] # "done"
        PROVE  later(s)
    <3>1. PhaseNumber("done") > PhaseNumber(phase[s])
      BY <2>0, <2>4 DEF PhaseNumber, Phases, Awaiting
    <3> QED
      BY <2>4, <3>1 DEF Finish
  <2>5. /\ PhaseNumber("idle") = 0 /\ PhaseNumber("hashing") = 1
        /\ PhaseNumber("finding") = 2 /\ PhaseNumber("looking") = 3
        /\ PhaseNumber("inserting") = 4 /\ PhaseNumber("inserted") = 5
        /\ PhaseNumber("publishing") = 6 /\ PhaseNumber("orphaned") = 7
        /\ PhaseNumber("done") = 8
    BY DEF PhaseNumber
  <2> HIDE DEF later
  <2>6. ASSUME NEW s \in Requests, HandlerStep(s)
        PROVE  later(s)
    BY <2>3, <2>4, <2>5, <2>6 DEF HandlerStep, HashDone, EmailTaken, EmailFree,
       SaveLookup, InsertRow, InsertRejected, PublishDomainEvents,
       RespondCreated
  <2>7. ASSUME NEW s \in Requests, \/ RejectBody(s) \/ RejectCommand(s)
                                   \/ FaultStep(s)
                                   \/ \E a \in Addresses : Register(s, a)
        PROVE  later(s)
    BY <2>3, <2>4, <2>5, <2>7 DEF RejectBody, RejectCommand, Register, FaultStep,
       AwaitFails, InsertFails, ReplyLost, OrphanCommits, OrphanRollsBack
  <2>8. ASSUME Crash
        PROVE  phase'[r] # phase[r] =>
                 PhaseNumber(phase'[r]) > PhaseNumber(phase[r])
    <3>1. phase'[r] = IF phase[r] = "inserting" THEN "orphaned"
                      ELSE IF phase[r] \in Awaiting THEN "done" ELSE phase[r]
      BY <1>2, <2>8 DEF Crash
    <3> QED
      BY <2>5, <3>1 DEF Awaiting
  <2>9. phase'[r] # phase[r] => PhaseNumber(phase'[r]) > PhaseNumber(phase[r])
    <3>1. CASE \E s \in Requests : Delete(s)
      BY <3>1 DEF Delete
    <3> QED
      BY <1>2, <2>2, <2>6, <2>7, <2>8, <3>1 DEF Next
  <2>10. HandlerStep(r) => phase'[r] # phase[r]
    BY <2>2, <2>6
  <2>11. HandlerStep(r) /\ phase'[r] = "done" => answer'[r] # NoAnswer
    <3>1. answer \in [Requests -> Answers]
      BY <2>0 DEF TypeOK
    <3> QED
      BY <2>0, <3>1 DEF HandlerStep, HashDone, EmailTaken, EmailFree,
         SaveLookup, InsertRow, InsertRejected, PublishDomainEvents,
         RespondCreated, Resume, Finish, NoAnswer
  <2> QED
    BY <2>9, <2>10, <2>11 DEF HandlerAdvances
<1>3. IInv /\ [Next]_vars => [\A r \in Requests : HandlerAdvances(r)]_vars
  BY <1>2
<1> QED
  BY <1>1, <1>3, SpecIInv, PTL DEF Spec

----------------------------------------------------------------------------
(* Refinement. *)


LEMMA SilentStep ==
  UNCHANGED <<addr, rows, answer, announced>>
    => UNCHANGED Registry!registryVars
  BY DEF Registry!registryVars, wantedBar, ownersBar, removedBar, IsStored

LEMMA ClaimStep ==
  ASSUME IInv, NEW r \in Requests, CanInsert(r), addr[r] # NoAddress,
         ~IsStored(r), answer[r] \in {NoAnswer, 500},
         rows' = [rows EXCEPT ![r] = "live"],
         UNCHANGED <<addr, answer, announced>>
  PROVE  Registry!Claim(r)
<1> USE DEF IInv, TypeOK, wantedBar, ownersBar, removedBar, IsStored
<1>1. wantedBar[r] = Lower[addr[r]] /\ wantedBar[r] # NoAddress
  BY AddressAssumption
<1>2. ~Registry!IsOwned(wantedBar[r])
  BY <1>1 DEF Registry!IsOwned, CanInsert, IsIndexed, EmailOf, RowInv
<1>3. ownersBar' = ownersBar \union {r}
  OBVIOUS
<1>4. removedBar' = removedBar /\ wantedBar' = wantedBar
  OBVIOUS
<1> QED
  BY <1>1, <1>2, <1>3, <1>4 DEF Registry!Claim, NoAnswer

LEMMA TellStep ==
  ASSUME IInv, NEW r \in Requests, NEW status, answer[r] = NoAnswer,
         answer' = [answer EXCEPT ![r] = status],
         UNCHANGED <<addr, rows, announced>>
  PROVE  Registry!Tell(r, status)
  BY DEF Registry!Tell, wantedBar, ownersBar, removedBar, IsStored

\* Registration implements the atomic registry of EmailRegistry, for any
\* number of requests, addresses and faults: each step of a handler, of the
\* database or of the faults is one step of the registry or none.
THEOREM Refinement == Spec => ImplementsRegistry
<1>1. Init => Registry!Init
  BY DEF Init, Registry!Init, wantedBar, ownersBar, removedBar, IsStored
<1>2. IInv /\ [Next]_vars => [Registry!Next]_Registry!registryVars
  <2> SUFFICES ASSUME IInv, [Next]_vars
               PROVE  Registry!Next \/ UNCHANGED Registry!registryVars
    OBVIOUS
  <2>0. /\ TypeOK
        /\ \A r \in Requests : PhaseInv(r) /\ AnswerInv(r) /\ RowInv(r)
    BY DEF IInv
  <2> USE <2>0 DEF TypeOK, PhaseInv, AnswerInv, RowInv, Awaiting
  <2>1. ASSUME NEW r \in Requests, RejectBody(r) PROVE Registry!Next
    <3>1. Registry!Tell(r, 400)
      BY <2>1, TellStep, ZenonT(30) DEF RejectBody, Finish
    <3> QED
      BY <2>1, <3>1 DEF Registry!Next, Registry!TellInvalid, RejectBody,
         wantedBar
  <2>2. ASSUME NEW r \in Requests, NEW a \in Addresses, Register(r, a)
        PROVE  Registry!Next
    <3>1. Lower[a] \in Addresses
      BY AddressAssumption
    <3>2. wantedBar' = [wantedBar EXCEPT ![r] = Lower[a]]
      <4>1. addr' = [addr EXCEPT ![r] = a] /\ a # NoAddress
        BY <2>2, AddressAssumption DEF Register
      <4>2. addr \in [Requests -> Addresses \union {NoAddress}]
        BY DEF IInv, TypeOK
      <4> QED
        BY <4>1, <4>2, ZenonT(30) DEF wantedBar
    <3>3. wantedBar[r] = NoAddress /\ answer[r] = NoAnswer
      BY <2>2 DEF Register, Resume, wantedBar
    <3>4. Registry!Ask(r, Lower[a])
      BY <2>2, <3>2, <3>3
      DEF Registry!Ask, Register, ownersBar, removedBar, IsStored
    <3> QED
      BY <3>1, <3>4 DEF Registry!Next
  <2>3. ASSUME NEW r \in Requests, HashDone(r) \/ EmailFree(r)
                                    \/ SaveLookup(r) \/ OrphanRollsBack(r)
        PROVE  UNCHANGED Registry!registryVars
    BY <2>3, SilentStep
    DEF HashDone, EmailFree, SaveLookup, OrphanRollsBack
  <2>4. ASSUME NEW r \in Requests, EmailTaken(r) PROVE Registry!Next
    <3>1. Registry!Tell(r, 409)
      BY <2>4, TellStep, ZenonT(30) DEF EmailTaken, Finish
    <3>2. r \notin ownersBar /\ addr[r] # NoAddress
      BY <2>4 DEF EmailTaken, ownersBar
    <3>3. Registry!IsOwned(wantedBar[r])
      BY <2>4, <3>2
      DEF EmailTaken, IsListed, EmailOf, Registry!IsOwned, wantedBar,
          ownersBar, IsStored
    <3> QED
      BY <3>1, <3>2, <3>3 DEF Registry!Next, Registry!TellExists
  <2>5. ASSUME NEW r \in Requests, InsertRow(r) \/ OrphanCommits(r)
        PROVE  Registry!Next
    <3>1. Registry!Claim(r)
      BY <2>5, ClaimStep DEF InsertRow, OrphanCommits, Resume
    <3> QED
      BY <3>1 DEF Registry!Next
  <2>6. ASSUME NEW r \in Requests,
               RejectCommand(r) \/ InsertRejected(r) \/ AwaitFails(r)
                 \/ InsertFails(r) \/ ReplyLost(r)
        PROVE  Registry!Next
    <3>1. phase[r] \in {"idle", "hashing", "finding", "looking", "inserting",
                        "inserted"}
      BY <2>6 DEF RejectCommand, InsertRejected, AwaitFails, InsertFails,
         ReplyLost, Resume
    <3>2. r \notin announced
      BY <3>1 DEF IsStored
    <3>3. Registry!Tell(r, 500)
      BY <2>6, <3>1, TellStep
      DEF RejectCommand, InsertRejected, AwaitFails, InsertFails, ReplyLost,
          Finish
    <3> QED
      BY <3>2, <3>3 DEF Registry!Next, Registry!TellFailed
  <2>7. ASSUME NEW r \in Requests, PublishDomainEvents(r) PROVE Registry!Next
    <3>1. Registry!Announce(r)
      BY <2>7
      DEF Registry!Announce, PublishDomainEvents, Resume, wantedBar,
          ownersBar, removedBar, IsStored
    <3> QED
      BY <3>1 DEF Registry!Next
  <2>8. ASSUME NEW r \in Requests, RespondCreated(r) PROVE Registry!Next
    <3>1. Registry!Tell(r, 201)
      BY <2>8, TellStep, ZenonT(30) DEF RespondCreated, Finish
    <3> QED
      BY <2>8, <3>1 DEF Registry!Next, Registry!TellCreated, RespondCreated
  <2>9. ASSUME NEW r \in Requests, Delete(r) PROVE Registry!Next
    <3>1. removedBar' = removedBar \union {r} /\ r \in ownersBar \ removedBar
      BY <2>9 DEF Delete, removedBar, ownersBar, IsStored
    <3>2. ownersBar' = ownersBar /\ wantedBar' = wantedBar
      BY <2>9 DEF Delete, wantedBar, ownersBar, IsStored
    <3> QED
      BY <2>9, <3>1, <3>2 DEF Delete, Registry!Remove, Registry!Next
  <2>10. CASE Crash
    BY <2>10, SilentStep DEF Crash
  <2>11. CASE UNCHANGED vars
    BY <2>11, SilentStep DEF vars
  <2> QED
    BY <2>1, <2>2, <2>3, <2>4, <2>5, <2>6, <2>7, <2>8, <2>9, <2>10, <2>11
    DEF Next, HandlerStep, FaultStep
<1> QED
  BY <1>1, <1>2, SpecIInv, PTL DEF Spec, ImplementsRegistry, Registry!Spec
=============================================================================
