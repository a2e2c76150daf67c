------------------------------ MODULE UserStore -------------------------------
(***************************************************************************)
(* TypeORMUserRepository over the table of users: callers register or load *)
(* users, change their copies with the methods of the entity, save the     *)
(* whole copy back and delete.  Each call is a lookup and then a statement,*)
(* and calls of several callers interleave between them.                   *)
(*                                                                         *)
(* External, from how the repository uses them: TypeORM's save of a plain  *)
(* object (it looks for the row itself, then inserts or updates), and      *)
(* PostgreSQL.  A statement whose connection or process is gone may still  *)
(* be executed later.                                                      *)
(***************************************************************************)
EXTENDS Naturals, ValidationChain

CONSTANTS
  Users,      \* ids that UserId.generate can return
  Callers,    \* flows of the application
  Bodies,     \* bodies of POST /register
  Names,      \* strings callers give to new Name
  Hashes,     \* what bcrypt.hash returns
  None,       \* no user, no call
  MaxEvents,  \* bound: times a copy becomes another, and faults, together
  MaxFaults   \* bound: connections lost and crashes among them

ASSUME BodiesAssumption == Bodies \subseteq RegistrationBodies
ASSUME NamesAssumption == Names \subseteq NameInputs
ASSUME StoreBounds == MaxEvents \in Nat /\ MaxFaults \in Nat

VARIABLES
  rows,    \* rows[u]: the row with id u, or None
  copy,    \* copy[c]: the User the caller c holds, or None
  call,    \* call[c]: the call of the repository c waits for, or None
  stray,   \* statements whose caller does not wait any more
  created, \* created[u]: the role User.create gave u, or None (history)
  changes, \* times a copy became another so far
  faults   \* faults so far

vars == <<rows, copy, call, stray, created, changes, faults>>

\* The fields of a User without its id and times.
UserData ==
  [email : EmailInputs, name : NameInputs, hash : Hashes,
   role : UserRoleType, status : UserStatusType]

Rows == [data : UserData, deleted : BOOLEAN]

Copies == [id : Users, data : UserData]

Calls ==
  [kind : {"save"}, user : Users, stage : {"finding", "insert", "update"}]
    \union [kind : {"delete"}, user : Users, stage : {"finding", "remove"}]

Statements ==
  [kind : {"insert", "update"}, user : Users, data : UserData, fault : Nat]
    \union [kind : {"remove"}, user : Users, fault : Nat]

\* What is asked of the repository, as Request and LateRequest below tell it.
Requests ==
  [kind : {"delete"}, user : Users]
    \union [kind : {"save"}, user : Users, data : UserData]

ASSUME NoneAssumption ==
  None \notin Rows \union Copies \union Calls \union Requests \union UserRoleType

TypeOK ==
  /\ rows \in [Users -> Rows \union {None}]
  /\ copy \in [Callers -> Copies \union {None}]
  /\ call \in [Callers -> Calls \union {None}]
  /\ stray \subseteq Statements
  /\ created \in [Users -> UserRoleType \union {None}]
  /\ changes \in Nat /\ faults \in Nat

Init ==
  /\ rows = [u \in Users |-> None]
  /\ copy = [c \in Callers |-> None]
  /\ call = [c \in Callers |-> None]
  /\ stray = {}
  /\ created = [u \in Users |-> None]
  /\ changes = 0
  /\ faults = 0

----------------------------------------------------------------------------
(* Copies. *)

Stored == UNCHANGED <<rows, call, stray, faults>>

\* The use case constructs the user of a body that passed the layers before it.
Create(c, u, b) ==
  /\ copy[c] = None /\ call[c] = None
  /\ created[u] = None
  /\ \E enableValidation \in BOOLEAN, h \in Hashes :
       LET cmd == Command(b, enableValidation)
       IN /\ Validated(b, enableValidation)
          /\ Constructed(cmd)
          /\ copy' = [copy EXCEPT ![c] =
               [id |-> u,
                data |-> [email |-> EmailValue(cmd.email),
                          name |-> NameValue(cmd.name), hash |-> h,
                          role |-> cmd.role, status |-> "active"]]]
          /\ created' = [created EXCEPT ![u] = cmd.role]
  /\ UNCHANGED changes /\ Stored

\* The rows a query may list: those of the role and the status asked for,
\* where one is, and in every query only those not deleted.
Listed(role, status) ==
  {u \in Users :
     /\ rows[u] # None
     /\ ~rows[u].deleted
     /\ role \in {None, rows[u].data.role}
     /\ status \in {None, rows[u].data.status}}

\* The constructors of the value objects accept the columns.
Constructs(d) ==
  /\ Email(d.email)
  /\ Name(d.name)
  /\ d.hash \in Hashes
  /\ d.role \in UserRoleType
  /\ d.status \in UserStatusType

\* toDomainEntity: it throws unless they do.
toDomainEntity(u) == [id |-> u, data |-> rows[u].data]
Loads(u) == Constructs(rows[u].data)

\* findById, findByEmail, or any of the queries that list users, of which the
\* caller takes one: all must load.  It drops the copy it has.
Find(c) ==
  /\ call[c] = None
  /\ \E role \in UserRoleType \union {None}, status \in UserStatusType \union {None} :
       /\ \A v \in Listed(role, status) : Loads(v)
       /\ \E u \in Listed(role, status) :
            copy' = [copy EXCEPT ![c] = toDomainEntity(u)]
  /\ UNCHANGED <<created, changes>> /\ Stored

Room == changes + faults < MaxEvents

\* A method of the entity makes the data of the copy d.
Change(c, d) ==
  /\ copy[c] # None /\ call[c] = None
  /\ \/ d = copy[c].data /\ UNCHANGED changes
     \/ d # copy[c].data /\ Room /\ changes' = changes + 1
  /\ copy' = [copy EXCEPT ![c].data = d]
  /\ UNCHANGED created /\ Stored

\* The role of the performer is that of the copy another caller holds.
ChangeRole(c, new, p) ==
  /\ p # c /\ copy[p] # None
  /\ CanChangeRoleTo(new, copy[p].data.role)
  /\ Change(c, [copy[c].data EXCEPT !.role = new])

\* activate throws for an active user; suspend and deactivate never do.
ChangeStatus(c, s) ==
  /\ s \in {"active", "suspended", "inactive"}
  /\ copy[c] # None
  /\ s = "active" => copy[c].data.status # "active"
  /\ Change(c, [copy[c].data EXCEPT !.status = s])

\* Slip of UpdateName: the string is taken without new Name.
UpdateNameRaw(c, n) == Change(c, [copy[c].data EXCEPT !.name = n])

UpdateName(c, n) ==
  Name(n) /\ Change(c, [copy[c].data EXCEPT !.name = NameValue(n)])

\* Slip of ChangePassword: the password itself is kept.
ChangePasswordPlain(c, h) == Change(c, [copy[c].data EXCEPT !.hash = "plain"])

ChangePassword(c, h) == Change(c, [copy[c].data EXCEPT !.hash = h])

----------------------------------------------------------------------------
(* save and delete. *)

Kept == UNCHANGED <<created, changes, faults>>

Begin(c, request) ==
  /\ call[c] = None
  /\ call' = [call EXCEPT ![c] = request]
  /\ UNCHANGED <<rows, copy, stray>> /\ Kept

Save(c) ==
  /\ copy[c] # None
  /\ Begin(c, [kind |-> "save", user |-> copy[c].id, stage |-> "finding"])

Delete(c, u) ==
  Begin(c, [kind |-> "delete", user |-> u, stage |-> "finding"])

At(c, stage) == call[c] # None /\ call[c].stage = stage

Sends(c, stage) ==
  /\ call' = [call EXCEPT ![c].stage = stage]
  /\ UNCHANGED <<rows, copy, stray>> /\ Kept

\* The call returns or throws.
Returns(c) ==
  /\ call' = [call EXCEPT ![c] = None]
  /\ UNCHANGED <<copy, stray>> /\ Kept

\* The lookup of save, which also finds deleted rows, and that of delete, which
\* throws when there is none.
Lookup(c) ==
  /\ At(c, "finding")
  /\ LET u == call[c].user
         found == rows[u] # None
     IN \/ call[c].kind = "save" /\ found /\ Sends(c, "update")
        \/ call[c].kind = "save" /\ ~found /\ Sends(c, "insert")
        \/ call[c].kind = "delete" /\ found /\ Sends(c, "remove")
        \/ call[c].kind = "delete" /\ ~found /\ Returns(c) /\ UNCHANGED rows

Admitted(d) == RowAdmitted(d.email, d.name)

\* INSERT sets every column the entity knows; deleted_at keeps its default.
Insert(u, d) ==
  /\ rows[u] = None /\ Admitted(d)
  /\ rows' = [rows EXCEPT ![u] = [data |-> d, deleted |-> FALSE]]

\* Slip of Update: toOrmEntity writes deleted_at as well.
UpdateUndeleting(u, d) ==
  /\ rows[u] # None /\ Admitted(d)
  /\ rows' = [rows EXCEPT ![u] = [data |-> d, deleted |-> FALSE]]

\* Slip of Update: toOrmEntity leaves the status out.
UpdateButStatus(u, d) ==
  /\ rows[u] # None /\ Admitted(d)
  /\ rows' = [rows EXCEPT ![u].data = [d EXCEPT !.status = rows[u].data.status]]

\* toOrmEntity: UPDATE sets every column but created_at and those the entity
\* does not know, deleted_at among them.
Update(u, d) ==
  /\ rows[u] # None /\ Admitted(d)
  /\ rows' = [rows EXCEPT ![u].data = d]

\* The soft delete.
Remove(u) ==
  rows' = [rows EXCEPT ![u] =
    [data |-> [rows[u].data EXCEPT !.status = "inactive"], deleted |-> TRUE]]

\* The statement is executed and answered.  The row may have come into being
\* since the lookup: then TypeORM updates it, or its INSERT is a duplicate.
Execute(c) ==
  LET u == call[c].user
      d == copy[c].data
  IN /\ \/ At(c, "insert") /\ (Insert(u, d) \/ Update(u, d))
        \/ At(c, "update") /\ Update(u, d)
        \/ At(c, "remove") /\ Remove(u)
     /\ Returns(c)

\* A constraint refuses the statement, and the call throws.
Reject(c) ==
  LET u == call[c].user
      d == copy[c].data
  IN /\ \/ At(c, "insert") /\ rows[u] # None
        \/ (At(c, "insert") \/ At(c, "update")) /\ ~Admitted(d)
     /\ Returns(c)
     /\ UNCHANGED rows

----------------------------------------------------------------------------
(* Faults. *)

\* The statements the callers C wait for.
Sent(C) ==
  {IF call[c].kind = "save"
   THEN [kind |-> call[c].stage, user |-> call[c].user,
         data |-> copy[c].data, fault |-> faults]
   ELSE [kind |-> "remove", user |-> call[c].user, fault |-> faults] :
     c \in {x \in C : call[x] # None /\ ~At(x, "finding")}}

Fault ==
  /\ Room /\ faults < MaxFaults
  /\ faults' = faults + 1
  /\ UNCHANGED <<rows, created, changes>>

\* The connection is lost: the call throws, and the caller, which still has
\* its copy, may try again.
ConnectionLost(c) ==
  /\ Fault
  /\ call[c] # None
  /\ stray' = stray \union Sent({c})
  /\ call' = [call EXCEPT ![c] = None]
  /\ UNCHANGED copy

\* The process dies.
Crash ==
  /\ Fault
  /\ stray' = stray \union Sent(Callers)
  /\ call' = [c \in Callers |-> None]
  /\ copy' = [c \in Callers |-> None]

\* The database executes a statement nobody waits for, or drops it.
ExecuteStray(s) ==
  /\ \/ s.kind = "insert" /\ Insert(s.user, s.data)
     \/ s.kind = "update" /\ Update(s.user, s.data)
     \/ s.kind = "remove" /\ Remove(s.user)
     \/ UNCHANGED rows
  /\ stray' = stray \ {s}
  /\ UNCHANGED <<copy, call>> /\ Kept

Next ==
  \/ \E c \in Callers :
       \/ \E u \in Users, b \in Bodies : Create(c, u, b)
       \/ Find(c)
       \/ \E new \in UserRoleType, p \in Callers : ChangeRole(c, new, p)
       \/ \E s \in UserStatusType : ChangeStatus(c, s)
       \/ \E n \in Names : UpdateName(c, n)
       \/ \E h \in Hashes : ChangePassword(c, h)
       \/ Save(c)
       \/ \E u \in Users : Delete(c, u)
       \/ Lookup(c) \/ Execute(c) \/ Reject(c)
       \/ ConnectionLost(c)
  \/ Crash
  \/ \E s \in stray : ExecuteStray(s)

Spec == Init /\ [][Next]_vars

----------------------------------------------------------------------------
(* Properties. *)

\* Whatever was registered, changed and saved, by whom and in which order, and
\* whatever the faults, every row passes the constructors of toDomainEntity: no
\* single row makes findAll and the other queries throw for everybody.
EveryRowLoads == \A u \in Users : rows[u] # None => Loads(u)

\* No row, no copy and no statement under way makes an admin of a user who was
\* not created as one, although the performer's role may be stale and saves
\* overwrite one another.
AdminsWereCreated ==
  \A u \in Users :
    created[u] # "admin" =>
      /\ rows[u] # None => rows[u].data.role # "admin"
      /\ \A c \in Callers :
           copy[c] # None /\ copy[c].id = u => copy[c].data.role # "admin"
      /\ \A s \in stray :
           s.user = u /\ s.kind # "remove" => s.data.role # "admin"

\* A deleted user stays deleted and is listed by no query again: not even the
\* save of a copy loaded before, the retry of an insert or a statement that
\* arrives late brings it back.
DeletedStaysDeleted ==
  [][\A u \in Users :
       rows[u] # None =>
         rows'[u] # None /\ (rows[u].deleted => rows'[u].deleted)]_rows

\* The call a caller waits for, and the late statements, as requests.
Request(c) ==
  IF call[c] = None THEN None
  ELSE IF call[c].kind = "delete"
  THEN [kind |-> "delete", user |-> call[c].user]
  ELSE [kind |-> "save", user |-> call[c].user, data |-> copy[c].data]
LateRequest(s) ==
  IF s.kind = "remove" THEN [kind |-> "delete", user |-> s.user]
  ELSE [kind |-> "save", user |-> s.user, data |-> s.data]

Register == INSTANCE UserRegister WITH
  value <- rows,
  asked <- [c \in Callers |-> Request(c)],
  loose <- {LateRequest(s) : s \in stray}

\* Although a save is a lookup and then a statement, it is one write of the
\* whole user at one moment, or none: the row changes between them, the retry
\* of an insert and the late statement included.
ImplementsRegister == Register!Spec
==============================================================================
