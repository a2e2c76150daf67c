---------------------------- MODULE UserStoreProofs ----------------------------
(***************************************************************************)
(* First how the layers a registration passes agree, for inputs of any     *)
(* length; then the safety of UserStore, which rests on it, for any users, *)
(* callers, bodies and names, however many changes and faults there are;   *)
(* that it implements UserRegister; last how far the lock of AccountRow    *)
(* goes, for any number of failed logins.                                  *)
(***************************************************************************)
EXTENDS UserStore, TLAPS

----------------------------------------------------------------------------
(* The layers of the validation. *)

\* What the schema hands on it accepts again, unchanged and without options:
\* the controller's check adds nothing to the router's.
THEOREM SecondCheckAgrees ==
  ASSUME NEW b \in RegistrationBodies, SchemaAccepts(b, TRUE)
  PROVE  /\ SchemaAccepts(SchemaValue(b), FALSE)
         /\ SchemaValue(SchemaValue(b)) = SchemaValue(b)
<1>1. /\ SchemaValue(b).name = [b.name EXCEPT !.blanks = 0]
      /\ SchemaValue(b).email = [b.email EXCEPT !.lower = TRUE]
      /\ SchemaValue(b).password = b.password
      /\ SchemaValue(b).confirmation = b.confirmation
      /\ SchemaValue(b).role = b.role
      /\ SchemaValue(b).extra = FALSE
  BY DEF RegistrationBodies, SchemaValue, NameInputs, EmailInputs
<1>2. SchemaName(SchemaValue(b).name)
  BY <1>1 DEF SchemaAccepts, SchemaName, RegistrationBodies, NameInputs
<1>3. SchemaEmail(SchemaValue(b).email)
  BY <1>1 DEF SchemaAccepts, SchemaEmail, JoiEmail, RegistrationBodies,
              EmailInputs
<1>4. SchemaAccepts(SchemaValue(b), FALSE)
  BY <1>1, <1>2, <1>3 DEF SchemaAccepts
<1>5. SchemaValue(SchemaValue(b)) = SchemaValue(b)
  BY ZenonT(30) DEF RegistrationBodies, SchemaValue, NameInputs, EmailInputs
<1> QED BY <1>4, <1>5

\* Sanitizing changes nothing that a command keeps: the blanks, the case of the
\* address and the unknown keys are gone either way.
LEMMA SameCommand ==
  ASSUME NEW b \in RegistrationBodies
  PROVE  Command(b, TRUE) = Command(b, FALSE)
<1>1. SchemaValue(SchemaValue(b)) = SchemaValue(b)
  BY ZenonT(30) DEF RegistrationBodies, SchemaValue, NameInputs, EmailInputs
<1> QED BY <1>1 DEF Command, Sanitized

\* The fields of the command.
LEMMA CommandFields ==
  ASSUME NEW b \in RegistrationBodies
  PROVE  /\ Command(b, FALSE).name = [b.name EXCEPT !.blanks = 0]
         /\ Command(b, FALSE).email = [b.email EXCEPT !.lower = TRUE]
         /\ Command(b, FALSE).password = b.password
         /\ Command(b, FALSE).confirmation = b.confirmation
         /\ Command(b, FALSE).role =
              IF b.role = "absent" THEN "free" ELSE b.role
BY DEF RegistrationBodies, Command, Sanitized, SchemaValue

\* What both checks of the schema let pass, the use case and the value objects
\* let pass too, unless the address has a blank from beyond ASCII.
LEMMA ValidatedConstructs ==
  ASSUME NEW b \in RegistrationBodies, NEW en \in BOOLEAN,
         SchemaAccepts(b, en), b.email.blank # "unicode"
  PROVE  Constructed(Command(b, FALSE))
<1> DEFINE c == Command(b, FALSE)
<1>1. c.name.given /\ c.name.length \in 2 .. 100 /\ c.name.inAlphabet
  BY CommandFields DEF SchemaAccepts, SchemaName, RegistrationBodies, NameInputs
<1>2. c.email.given /\ EmailRegex(c.email) /\ c.email.length <= 320
  <2>1. b.email.blank = "none"
    BY DEF SchemaAccepts, SchemaEmail, JoiEmail, RegistrationBodies, EmailInputs
  <2> QED BY <2>1, CommandFields DEF SchemaAccepts, SchemaEmail, JoiEmail,
                 EmailRegex, RegistrationBodies, EmailInputs
<1>3. /\ c.password.given /\ c.password.length \in 8 .. 128
      /\ c.password.has = CharacterKinds
  <2>1. b.password.has = CharacterKinds
    BY DEF SchemaAccepts, SchemaPassword, RegistrationBodies, PasswordInputs
  <2> QED BY <2>1, CommandFields DEF SchemaAccepts, SchemaPassword
<1>4. c.confirmation = "same" /\ c.role \in UserRoleType
  BY CommandFields DEF SchemaAccepts, RegistrationBodies, UserRoleType
<1> HIDE DEF c
<1>5. validateCommand(c)
  BY <1>1, <1>2, <1>3, <1>4 DEF validateCommand, validatePassword, UserRoleType
<1>6. Email(c.email) /\ Name(c.name) /\ PlainPassword(c.password)
  BY <1>1, <1>2, <1>3 DEF Email, Name, PlainPassword
<1> QED BY <1>5, <1>6 DEF Constructed, c

\* With the schema in the router, the controller's check refuses nothing more;
\* without it, only unknown keys are treated differently.
LEMMA ValidatedMeans ==
  ASSUME NEW b \in RegistrationBodies, NEW en \in BOOLEAN
  PROVE  Validated(b, en) <=> SchemaAccepts(b, en)
<1>1. CASE en = TRUE
  BY <1>1, SecondCheckAgrees DEF Validated, Sanitized
<1>2. CASE en = FALSE
  BY <1>2 DEF Validated, Sanitized
<1> QED BY <1>1, <1>2

\* Of the five layers only two matter: what the schema accepts is created,
\* whatever its lengths, or refused by the CHECK on the address with a 500; no
\* user gets a 500 or a 400 from the layers between them.  (An address with a
\* blank from beyond ASCII is the exception: Joi passes it and validateCommand
\* turns it into a 500.)
THEOREM OnlyTableRefuses ==
  ASSUME NEW b \in RegistrationBodies, NEW en \in BOOLEAN,
         SchemaAccepts(b, en), b.email.blank # "unicode"
  PROVE  AnswerTo(b, en) = IF b.email.plain /\ b.email.tld >= 2 THEN 201 ELSE 500
<1> DEFINE c == Command(b, FALSE)
<1>1. Command(b, en) = c
  BY SameCommand
<1>2. Validated(b, en)
  BY ValidatedMeans
<1>3. Constructed(c) /\ validateCommand(c)
  BY ValidatedConstructs DEF Constructed
<1>4. RowAdmitted(EmailValue(c.email), NameValue(c.name))
        <=> b.email.plain /\ b.email.tld >= 2
  <2>1. NameAdmitted(NameValue(c.name))
    <3>1. b.name \in NameInputs /\ b.name.length \in 2 .. 100
      BY DEF SchemaAccepts, SchemaName, RegistrationBodies
    <3>2. NameValue(c.name) = [b.name EXCEPT !.blanks = 0]
      BY <3>1, CommandFields DEF NameValue, NameInputs
    <3>3. /\ NameValue(c.name).length = b.name.length
          /\ NameValue(c.name).blanks = 0
      BY <3>1, <3>2 DEF NameInputs
    <3> HIDE DEF c
    <3>4. b.name.length >= 2 /\ 0 + b.name.length <= 100
      BY <3>1
    <3> QED BY <3>3, <3>4 DEF NameAdmitted
  <2>2. b.email.dotted /\ b.email.blank = "none" /\ b.email.length <= 320
    BY DEF SchemaAccepts, SchemaEmail, JoiEmail, RegistrationBodies, EmailInputs
  <2>3. EmailAdmitted(EmailValue(c.email)) <=> b.email.plain /\ b.email.tld >= 2
    <3>1. b.email \in EmailInputs
      BY DEF RegistrationBodies
    <3>2. EmailValue(c.email) = [b.email EXCEPT !.lower = TRUE]
      BY <3>1, CommandFields DEF EmailValue, EmailInputs
    <3> QED BY <2>2, <3>1, <3>2 DEF EmailAdmitted, EmailInputs
  <2> QED BY <2>1, <2>3 DEF RowAdmitted
<1> HIDE DEF c
<1> QED BY <1>1, <1>2, <1>3, <1>4 DEF AnswerTo

\* The two routers, with the schema and without, answer alike, except that a
\* key the schema does not know is dropped by the one and refused by the other.
THEOREM RoutersAgree ==
  ASSUME NEW b \in RegistrationBodies
  PROVE  /\ ~b.extra => AnswerTo(b, TRUE) = AnswerTo(b, FALSE)
         /\ b.extra => AnswerTo(b, FALSE) = 400
<1>1. Command(b, TRUE) = Command(b, FALSE)
  BY SameCommand
<1>2. ~b.extra => (SchemaAccepts(b, TRUE) <=> SchemaAccepts(b, FALSE))
  BY DEF SchemaAccepts
<1>3. ~b.extra => (Validated(b, TRUE) <=> Validated(b, FALSE))
  BY <1>2, ValidatedMeans
<1>4. b.extra => ~Validated(b, FALSE)
  BY ValidatedMeans DEF SchemaAccepts
<1>5. ~b.extra => AnswerTo(b, TRUE) = AnswerTo(b, FALSE)
  BY <1>1, <1>3 DEF AnswerTo
<1>6. b.extra => AnswerTo(b, FALSE) = 400
  BY <1>4 DEF AnswerTo
<1> QED BY <1>5, <1>6

\* What a command became as a row makes the same value objects again when it
\* is loaded: getValue neither undoes nor repeats what they check.
THEOREM StoredUsersLoad ==
  ASSUME NEW e \in EmailInputs, NEW n \in NameInputs, Email(e), Name(n)
  PROVE  /\ Email(EmailValue(e)) /\ EmailValue(EmailValue(e)) = EmailValue(e)
         /\ Name(NameValue(n)) /\ NameValue(NameValue(n)) = NameValue(n)
<1>1. Email(EmailValue(e)) /\ EmailValue(EmailValue(e)) = EmailValue(e)
  BY DEF Email, EmailRegex, EmailValue, EmailInputs
<1>2. Name(NameValue(n)) /\ NameValue(NameValue(n)) = NameValue(n)
  BY DEF Name, NameValue, NameInputs
<1> QED BY <1>1, <1>2

----------------------------------------------------------------------------
(* The store. *)

\* The data d may be written to the row of u.
Fit(u, d) ==
  /\ Constructs(d)
  /\ created[u] # "admin" => d.role # "admin"

RowInv == \A u \in Users : rows[u] # None => Fit(u, rows[u].data)

CopyInv == \A c \in Callers : copy[c] # None => Fit(copy[c].id, copy[c].data)

\* A statement that nobody waits for carries data that fits, or removes a row
\* that is there.
StrayInv ==
  \A s \in stray :
    /\ s.kind # "remove" => Fit(s.user, s.data)
    /\ s.kind = "remove" => rows[s.user] # None

\* A save is one of the copy its caller holds, and what updates or removes a
\* row has found it.
CallInv ==
  \A c \in Callers : call[c] # None =>
    /\ call[c].kind = "save" => copy[c] # None /\ copy[c].id = call[c].user
    /\ call[c].stage = "remove" => rows[call[c].user] # None

IInv == TypeOK /\ RowInv /\ CopyInv /\ StrayInv /\ CallInv

LEMMA InitIInv == Init => IInv
BY DEF Init, IInv, TypeOK, RowInv, CopyInv, StrayInv, CallInv

----------------------------------------------------------------------------
(* Copies. *)

\* A caller that waits for no call may get any copy whose data fits, and roles
\* may become known, but no admin a user of another role.
LEMMA NewCopy ==
  ASSUME IInv, NEW c \in Callers, NEW u \in Users, NEW d \in UserData,
         call[c] = None,
         copy' = [copy EXCEPT ![c] = [id |-> u, data |-> d]],
         UNCHANGED <<rows, call, stray, faults>>,
         created' \in [Users -> UserRoleType \union {None}],
         changes' \in Nat,
         \A v \in Users : created'[v] # "admin" => created[v] # "admin",
         Constructs(d), created'[u] # "admin" => d.role # "admin"
  PROVE  IInv'
<1>1. [id |-> u, data |-> d] \in Copies
  BY DEF Copies
<1>2. TypeOK'
  BY <1>1 DEF IInv, TypeOK
<1>3. RowInv'
  BY DEF IInv, RowInv, Fit
<1>4. CopyInv'
  <2> SUFFICES ASSUME NEW x \in Callers, copy'[x] # None
               PROVE  Fit(copy[x].id, copy[x].data)'
    BY DEF CopyInv
  <2>1. CASE x = c
    BY <2>1 DEF IInv, TypeOK, Fit
  <2>2. CASE x # c
    <3>1. copy'[x] = copy[x] /\ copy[x] \in Copies
      BY <2>2 DEF IInv, TypeOK
    <3> QED BY <3>1 DEF IInv, CopyInv, Fit, Copies
  <2> QED BY <2>1, <2>2
<1>5. StrayInv'
  BY DEF IInv, TypeOK, Statements, StrayInv, Fit
<1>6. CallInv'
  BY DEF IInv, TypeOK, CallInv
<1> QED BY <1>2, <1>3, <1>4, <1>5, <1>6 DEF IInv

LEMMA ValuesHaveTypes ==
  /\ \A e \in EmailInputs : EmailValue(e) \in EmailInputs
  /\ \A n \in NameInputs : NameValue(n) \in NameInputs
BY DEF EmailValue, NameValue, EmailInputs, NameInputs

\* What the layers of a registration let pass constructs, and loads again.
LEMMA CommandLoads ==
  ASSUME NEW b \in RegistrationBodies, NEW en \in BOOLEAN, NEW h \in Hashes,
         Constructed(Command(b, en))
  PROVE  LET cmd == Command(b, en)
             d == [email |-> EmailValue(cmd.email),
                   name |-> NameValue(cmd.name), hash |-> h,
                   role |-> cmd.role, status |-> "active"]
         IN d \in UserData /\ Constructs(d)
<1> DEFINE cmd == Command(b, en)
<1>1. cmd = Command(b, FALSE)
  BY SameCommand
<1>2. cmd.email \in EmailInputs /\ cmd.name \in NameInputs
  <2>1. b.email \in EmailInputs /\ b.name \in NameInputs
    BY DEF RegistrationBodies
  <2>2. cmd.email = EmailValue(b.email) /\ cmd.name = NameValue(b.name)
    BY <1>1, CommandFields DEF EmailValue, NameValue
  <2> HIDE DEF cmd
  <2> QED BY <2>1, <2>2, ValuesHaveTypes
<1>3. cmd.role \in UserRoleType
  BY <1>1, CommandFields DEF Constructed, validateCommand, RegistrationBodies,
     UserRoleType
<1>4. Email(cmd.email) /\ Name(cmd.name)
  BY DEF Constructed
<1>5. EmailValue(cmd.email) \in EmailInputs /\ NameValue(cmd.name) \in NameInputs
  BY <1>2, ValuesHaveTypes
<1>6. Email(EmailValue(cmd.email)) /\ Name(NameValue(cmd.name))
  BY <1>2, <1>4, StoredUsersLoad
<1> HIDE DEF cmd
<1> QED BY <1>3, <1>5, <1>6 DEF UserData, UserStatusType, Constructs, cmd

LEMMA CreateStep ==
  ASSUME IInv, NEW c \in Callers, NEW u \in Users, NEW b \in Bodies,
         Create(c, u, b)
  PROVE  IInv'
<1>1. b \in RegistrationBodies
  BY BodiesAssumption
<1>2. PICK en \in BOOLEAN, h \in Hashes :
        /\ Constructed(Command(b, en))
        /\ copy' = [copy EXCEPT ![c] =
             [id |-> u,
              data |-> [email |-> EmailValue(Command(b, en).email),
                        name |-> NameValue(Command(b, en).name), hash |-> h,
                        role |-> Command(b, en).role, status |-> "active"]]]
        /\ created' = [created EXCEPT ![u] = Command(b, en).role]
  BY DEF Create
<1> DEFINE d == [email |-> EmailValue(Command(b, en).email),
                 name |-> NameValue(Command(b, en).name), hash |-> h,
                 role |-> Command(b, en).role, status |-> "active"]
<1>3. d \in UserData /\ Constructs(d)
  BY <1>1, <1>2, CommandLoads
<1>4. d.role = Command(b, en).role /\ d.role \in UserRoleType
  BY <1>3 DEF Constructs
<1>5. copy' = [copy EXCEPT ![c] = [id |-> u, data |-> d]]
  BY <1>2
<1>6. created' = [created EXCEPT ![u] = d.role]
  BY <1>2
<1> HIDE DEF d
<1>7. /\ created' \in [Users -> UserRoleType \union {None}]
      /\ \A v \in Users : created'[v] # "admin" => created[v] # "admin"
      /\ created'[u] # "admin" => d.role # "admin"
  <2>1. created[u] # "admin"
    BY NoneAssumption DEF Create, UserRoleType
  <2> QED BY <1>4, <1>6, <2>1 DEF IInv, TypeOK
<1>8. /\ call[c] = None /\ changes' \in Nat
      /\ UNCHANGED <<rows, call, stray, faults>>
  BY DEF Create, Stored, IInv, TypeOK
<1> QED BY <1>3, <1>5, <1>7, <1>8, NewCopy

LEMMA FindStep == ASSUME IInv, NEW c \in Callers, Find(c) PROVE IInv'
<1>1. PICK u \in Users :
        /\ rows[u] # None
        /\ copy' = [copy EXCEPT ![c] = [id |-> u, data |-> rows[u].data]]
  BY DEF Find, Listed, toDomainEntity
<1>2. rows[u].data \in UserData /\ Fit(u, rows[u].data)
  BY <1>1 DEF IInv, TypeOK, Rows, RowInv
<1>3. /\ call[c] = None /\ UNCHANGED <<rows, call, stray, faults>>
      /\ created' = created /\ changes' = changes
  BY DEF Find, Stored
<1>4. created' \in [Users -> UserRoleType \union {None}] /\ changes' \in Nat
  BY <1>3 DEF IInv, TypeOK
<1> QED BY <1>1, <1>2, <1>3, <1>4, NewCopy DEF Fit

\* A method of the entity that makes its data d, where d fits.
LEMMA ChangeStep ==
  ASSUME IInv, NEW c \in Callers, NEW d \in UserData, Change(c, d),
         Constructs(d), d.role = "admin" => copy[c].data.role = "admin"
  PROVE  IInv'
<1>1. copy[c] \in Copies /\ Fit(copy[c].id, copy[c].data)
  BY DEF Change, IInv, TypeOK, CopyInv
<1>2. copy' = [copy EXCEPT ![c] = [id |-> copy[c].id, data |-> d]]
  <2>1. [copy[c] EXCEPT !.data = d] = [id |-> copy[c].id, data |-> d]
    BY <1>1 DEF Copies
  <2>2. copy' = [copy EXCEPT ![c] = [copy[c] EXCEPT !.data = d]]
    BY DEF Change, IInv, TypeOK
  <2> QED BY <2>1, <2>2
<1>3. /\ call[c] = None /\ UNCHANGED <<rows, call, stray, faults>>
      /\ created' = created /\ changes' \in Nat
  BY DEF Change, Stored, IInv, TypeOK
<1>4. created' \in [Users -> UserRoleType \union {None}]
  BY <1>3 DEF IInv, TypeOK
<1>5. copy[c].id \in Users /\ (created[copy[c].id] # "admin" => d.role # "admin")
  BY <1>1 DEF Copies, Fit
<1> QED BY <1>2, <1>3, <1>4, <1>5, NewCopy

\* A role that may be assigned is not admin's.
LEMMA MethodStep ==
  ASSUME IInv, NEW c \in Callers,
         \/ \E new \in UserRoleType, p \in Callers : ChangeRole(c, new, p)
         \/ \E s \in UserStatusType : ChangeStatus(c, s)
         \/ \E n \in Names : UpdateName(c, n)
         \/ \E h \in Hashes : ChangePassword(c, h)
  PROVE  IInv'
<1> DEFINE old == copy[c].data
<1>1. old \in UserData /\ Constructs(old)
  BY DEF ChangeRole, ChangeStatus, UpdateName, ChangePassword, Change, IInv,
         TypeOK, Copies, CopyInv, Fit
<1>2. ASSUME NEW new \in UserRoleType, NEW p \in Callers, ChangeRole(c, new, p)
      PROVE  IInv'
  <2> DEFINE d == [old EXCEPT !.role = new]
  <2>1. Change(c, d) /\ new # "admin"
    BY <1>2 DEF ChangeRole, CanChangeRoleTo, RoleCanChangeRoleTo
  <2>2. d \in UserData /\ Constructs(d) /\ d.role = new
    BY <1>1 DEF UserData, Constructs
  <2> HIDE DEF d
  <2> QED BY <2>1, <2>2, ChangeStep
<1>3. ASSUME NEW s \in UserStatusType, ChangeStatus(c, s) PROVE IInv'
  <2> DEFINE d == [old EXCEPT !.status = s]
  <2>1. Change(c, d)
    BY <1>3 DEF ChangeStatus
  <2>2. d \in UserData /\ Constructs(d) /\ d.role = old.role
    BY <1>1 DEF UserData, Constructs
  <2> HIDE DEF d
  <2> QED BY <2>1, <2>2, ChangeStep
<1>4. ASSUME NEW n \in Names, UpdateName(c, n) PROVE IInv'
  <2> DEFINE d == [old EXCEPT !.name = NameValue(n)]
  <2>1. Change(c, d) /\ Name(n) /\ n \in NameInputs
    BY <1>4, NamesAssumption DEF UpdateName
  <2>2. NameValue(n) \in NameInputs /\ Name(NameValue(n))
    BY <2>1, ValuesHaveTypes DEF Name, NameValue, NameInputs
  <2>3. d \in UserData /\ Constructs(d) /\ d.role = old.role
    BY <1>1, <2>2 DEF UserData, Constructs
  <2> HIDE DEF d
  <2> QED BY <2>1, <2>3, ChangeStep
<1>5. ASSUME NEW h \in Hashes, ChangePassword(c, h) PROVE IInv'
  <2> DEFINE d == [old EXCEPT !.hash = h]
  <2>1. Change(c, d)
    BY <1>5 DEF ChangePassword
  <2>2. d \in UserData /\ Constructs(d) /\ d.role = old.role
    BY <1>1 DEF UserData, Constructs
  <2> HIDE DEF d
  <2> QED BY <2>1, <2>2, ChangeStep
<1> QED BY <1>2, <1>3, <1>4, <1>5

----------------------------------------------------------------------------
(* The table. *)

\* A statement with data that fit leaves rows that fit; no row disappears and
\* none that is deleted comes back.
LEMMA Statement ==
  ASSUME TypeOK, RowInv, NEW u \in Users,
         \/ \E d \in UserData : Fit(u, d) /\ (Insert(u, d) \/ Update(u, d))
         \/ rows[u] # None /\ Remove(u)
         \/ UNCHANGED rows,
         created' = created
  PROVE  /\ rows' \in [Users -> Rows \union {None}]
         /\ RowInv'
         /\ \A v \in Users : rows[v] # None =>
              rows'[v] # None /\ (rows[v].deleted => rows'[v].deleted)
<1>1. ASSUME NEW d \in UserData, Fit(u, d), Insert(u, d)
      PROVE  /\ rows'[u] \in Rows /\ rows[u] = None /\ Fit(u, rows'[u].data)
             /\ \A v \in Users \ {u} : rows'[v] = rows[v]
             /\ DOMAIN rows' = Users /\ rows' = [v \in Users |-> rows'[v]]
  BY <1>1 DEF Insert, TypeOK, Rows
<1>2. ASSUME NEW d \in UserData, Fit(u, d), Update(u, d)
      PROVE  /\ rows'[u] \in Rows /\ rows[u] \in Rows
             /\ rows'[u].deleted = rows[u].deleted /\ Fit(u, rows'[u].data)
             /\ \A v \in Users \ {u} : rows'[v] = rows[v]
             /\ DOMAIN rows' = Users /\ rows' = [v \in Users |-> rows'[v]]
  BY <1>2 DEF Update, TypeOK, Rows
<1>3. ASSUME rows[u] # None, Remove(u)
      PROVE  /\ rows'[u] \in Rows /\ rows[u] \in Rows
             /\ rows'[u].deleted /\ Fit(u, rows'[u].data)
             /\ \A v \in Users \ {u} : rows'[v] = rows[v]
             /\ DOMAIN rows' = Users /\ rows' = [v \in Users |-> rows'[v]]
  <2> DEFINE d == [rows[u].data EXCEPT !.status = "inactive"]
  <2>1. rows[u] \in Rows /\ rows[u].data \in UserData /\ Fit(u, rows[u].data)
    BY <1>3 DEF TypeOK, RowInv, Rows
  <2>2. d \in UserData /\ Fit(u, d)
    BY <2>1 DEF UserData, UserStatusType, Fit, Constructs
  <2>3. rows' = [rows EXCEPT ![u] = [data |-> d, deleted |-> TRUE]]
    BY <1>3 DEF Remove
  <2> HIDE DEF d
  <2> QED BY <2>1, <2>2, <2>3 DEF TypeOK, Rows, Fit
<1>4. CASE UNCHANGED rows
  BY <1>4 DEF TypeOK, RowInv, Fit
<1> QED BY <1>1, <1>2, <1>3, <1>4, NoneAssumption DEF TypeOK, RowInv, Fit

\* A step that leaves rows and copies alone, where each call that goes on is
\* that of its caller and has found what it removes.
LEMMA CallsMove ==
  ASSUME IInv, UNCHANGED <<rows, copy, created>>, CallInv', StrayInv',
         call' \in [Callers -> Calls \union {None}], stray' \subseteq Statements,
         changes' \in Nat, faults' \in Nat
  PROVE  IInv'
BY DEF IInv, TypeOK, RowInv, CopyInv, Fit

\* Where rows and their creators stay, so do the conditions on statements.
LEMMA StrayKept ==
  ASSUME IInv, UNCHANGED <<rows, created, stray>>
  PROVE  StrayInv' /\ stray' \subseteq Statements
BY DEF IInv, TypeOK, StrayInv, Fit

LEMMA BeginStep ==
  ASSUME IInv, NEW c \in Callers, Save(c) \/ \E u \in Users : Delete(c, u)
  PROVE  IInv'
<1>1. PICK r \in Calls :
        /\ call' = [call EXCEPT ![c] = r]
        /\ r.kind = "save" => copy[c] # None /\ r.user = copy[c].id
        /\ r.stage = "finding"
  <2>1. CASE Save(c)
    <3> DEFINE r == [kind |-> "save", user |-> copy[c].id, stage |-> "finding"]
    <3>1. copy[c] \in Copies /\ copy[c] # None
      BY <2>1 DEF Save, IInv, TypeOK
    <3>2. r \in Calls /\ r.user = copy[c].id /\ r.stage = "finding"
      BY <3>1 DEF Calls, Copies
    <3>3. call' = [call EXCEPT ![c] = r]
      BY <2>1 DEF Save, Begin
    <3> HIDE DEF r
    <3> QED BY <3>1, <3>2, <3>3
  <2>2. ASSUME NEW u \in Users, Delete(c, u)
        PROVE  \E r \in Calls :
                 /\ call' = [call EXCEPT ![c] = r]
                 /\ r.kind = "save" => copy[c] # None /\ r.user = copy[c].id
                 /\ r.stage = "finding"
    <3> DEFINE r == [kind |-> "delete", user |-> u, stage |-> "finding"]
    <3>1. r \in Calls /\ r.kind = "delete" /\ r.stage = "finding"
      BY DEF Calls
    <3>2. call' = [call EXCEPT ![c] = r]
      BY <2>2 DEF Delete, Begin
    <3> HIDE DEF r
    <3> QED BY <3>1, <3>2
  <2> QED BY <2>1, <2>2
<1>2. UNCHANGED <<rows, copy, stray, created, changes, faults>>
  BY DEF Save, Delete, Begin, Kept
<1>3. CallInv'
  BY <1>1, <1>2 DEF IInv, TypeOK, CallInv
<1>4. call' \in [Callers -> Calls \union {None}]
  BY <1>1 DEF IInv, TypeOK
<1> QED BY <1>2, <1>3, <1>4, CallsMove, StrayKept DEF IInv, TypeOK

LEMMA LookupStep == ASSUME IInv, NEW c \in Callers, Lookup(c) PROVE IInv'
<1>1. call[c] \in Calls
  BY DEF Lookup, At, IInv, TypeOK
<1>2. \/ call' = [call EXCEPT ![c] = None]
      \/ \E stage \in {"insert", "update", "remove"} :
           /\ call' = [call EXCEPT ![c].stage = stage]
           /\ stage = "remove" <=> call[c].kind = "delete"
           /\ stage = "remove" => rows[call[c].user] # None
  BY <1>1 DEF Lookup, Sends, Returns, Calls
<1>3. UNCHANGED <<rows, copy, stray, created, changes, faults>>
  BY DEF Lookup, Sends, Returns, Kept
<1>4. CASE call' = [call EXCEPT ![c] = None]
  <2>1. CallInv' /\ call' \in [Callers -> Calls \union {None}]
    BY <1>3, <1>4 DEF IInv, TypeOK, CallInv
  <2> QED BY <1>3, <2>1, CallsMove, StrayKept DEF IInv, TypeOK
<1>5. ASSUME NEW stage \in {"insert", "update", "remove"},
             call' = [call EXCEPT ![c].stage = stage],
             stage = "remove" <=> call[c].kind = "delete",
             stage = "remove" => rows[call[c].user] # None
      PROVE  IInv'
  <2> DEFINE r == [call[c] EXCEPT !.stage = stage]
  <2>1. r \in Calls /\ r.kind = call[c].kind /\ r.user = call[c].user
        /\ r.stage = stage
    BY <1>1, <1>5 DEF Calls
  <2>2. call' = [call EXCEPT ![c] = r]
    BY <1>5
  <2> HIDE DEF r
  <2>3. CallInv' /\ call' \in [Callers -> Calls \union {None}]
    BY <1>1, <1>3, <1>5, <2>1, <2>2, NoneAssumption DEF IInv, TypeOK, CallInv
  <2> QED BY <1>3, <2>3, CallsMove, StrayKept DEF IInv, TypeOK
<1> QED BY <1>2, <1>4, <1>5

\* A statement executed for its caller leaves rows that fit.
LEMMA ReturnKeepsDeleted ==
  ASSUME IInv, NEW c \in Callers, Execute(c) \/ Reject(c)
  PROVE  /\ rows' \in [Users -> Rows \union {None}] /\ RowInv'
         /\ \A u \in Users : rows[u] # None =>
              rows'[u] # None /\ (rows[u].deleted => rows'[u].deleted)
<1>1. call[c] \in Calls /\ call[c].user \in Users
  BY DEF Execute, Reject, At, IInv, TypeOK, Calls
<1>2. \/ \E d \in UserData :
           /\ Fit(call[c].user, d)
           /\ Insert(call[c].user, d) \/ Update(call[c].user, d)
      \/ rows[call[c].user] # None /\ Remove(call[c].user)
      \/ UNCHANGED rows
  <2>1. CASE call[c].kind = "save"
    <3>1. copy[c] \in Copies /\ Fit(call[c].user, copy[c].data)
      BY <2>1, <1>1, NoneAssumption DEF IInv, TypeOK, CallInv, CopyInv
    <3>2. ~At(c, "remove")
      BY <1>1, <2>1 DEF At, Calls
    <3> QED BY <3>1, <3>2 DEF Execute, Reject, Copies
  <2>2. CASE call[c].kind = "delete"
    BY <1>1, <2>2, NoneAssumption DEF Execute, Reject, At, Calls, IInv, CallInv
  <2> QED BY <1>1, <2>1, <2>2 DEF Calls
<1>3. created' = created
  BY DEF Execute, Reject, Returns, Kept
<1> QED BY <1>1, <1>2, <1>3, Statement DEF IInv

\* The caller waits no more.
LEMMA ReturnStep ==
  ASSUME IInv, NEW c \in Callers, Execute(c) \/ Reject(c)
  PROVE  IInv'
<1>3. /\ call' = [call EXCEPT ![c] = None]
      /\ UNCHANGED <<copy, stray, created, changes, faults>>
  BY DEF Execute, Reject, Returns, Kept
<1>4. /\ rows' \in [Users -> Rows \union {None}] /\ RowInv'
      /\ \A v \in Users : rows[v] # None => rows'[v] # None
  BY ReturnKeepsDeleted
<1>5. TypeOK'
  BY <1>3, <1>4 DEF IInv, TypeOK
<1>6. CopyInv'
  BY <1>3 DEF IInv, CopyInv, Fit
<1>7. StrayInv'
  BY <1>3, <1>4 DEF IInv, TypeOK, Statements, StrayInv, Fit
<1>8. CallInv'
  BY <1>3, <1>4 DEF IInv, TypeOK, CallInv, Calls
<1> QED BY <1>4, <1>5, <1>6, <1>7, <1>8 DEF IInv

----------------------------------------------------------------------------
(* Faults. *)

\* What the callers wait for may be executed without them.
LEMMA SentFits ==
  ASSUME IInv, NEW C \in SUBSET Callers, NEW s \in Sent(C)
  PROVE  /\ s \in Statements
         /\ s.kind # "remove" => Fit(s.user, s.data)
         /\ s.kind = "remove" => rows[s.user] # None
<1>1. PICK c \in C :
        /\ call[c] # None /\ call[c].stage # "finding"
        /\ s = IF call[c].kind = "save"
               THEN [kind |-> call[c].stage, user |-> call[c].user,
                     data |-> copy[c].data, fault |-> faults]
               ELSE [kind |-> "remove", user |-> call[c].user, fault |-> faults]
  BY DEF Sent, At
<1>2. call[c] \in Calls /\ faults \in Nat /\ c \in Callers
  BY <1>1 DEF IInv, TypeOK
<1>3. CASE call[c].kind = "save"
  <2>1. copy[c] \in Copies /\ Fit(call[c].user, copy[c].data)
    BY <1>1, <1>2, <1>3 DEF IInv, TypeOK, CallInv, CopyInv
  <2>2. call[c].stage \in {"insert", "update"} /\ call[c].user \in Users
    BY <1>1, <1>2, <1>3 DEF Calls
  <2> QED BY <1>1, <1>2, <1>3, <2>1, <2>2 DEF Statements, Copies
<1>4. CASE call[c].kind # "save"
  <2>1. call[c].stage = "remove" /\ call[c].user \in Users
    BY <1>1, <1>2, <1>4 DEF Calls
  <2> QED BY <1>1, <1>2, <1>4, <2>1 DEF Statements, IInv, CallInv
<1> QED BY <1>3, <1>4

LEMMA FaultEffects ==
  ASSUME IInv, Crash \/ \E c \in Callers : ConnectionLost(c)
  PROVE  /\ UNCHANGED <<rows, created, changes>> /\ faults' = faults + 1
         /\ copy' \in [Callers -> Copies \union {None}]
         /\ call' \in [Callers -> Calls \union {None}]
         /\ \A x \in Callers :
              /\ copy'[x] # None => copy'[x] = copy[x]
              /\ call'[x] # None => call'[x] = call[x] /\ copy'[x] = copy[x]
<1>1. CASE Crash
  BY <1>1 DEF Crash, Fault
<1>2. ASSUME NEW c \in Callers, ConnectionLost(c)
      PROVE  /\ UNCHANGED <<rows, created, changes, copy>> /\ faults' = faults + 1
             /\ call' = [call EXCEPT ![c] = None]
  BY <1>2 DEF ConnectionLost, Fault
<1>3. CASE \E c \in Callers : ConnectionLost(c)
  BY <1>2, <1>3 DEF IInv, TypeOK
<1> QED BY <1>1, <1>3

LEMMA FaultStep ==
  ASSUME IInv, Crash \/ \E c \in Callers : ConnectionLost(c)
  PROVE  IInv'
<1>2. PICK C \in SUBSET Callers : stray' = stray \union Sent(C)
  <2>1. CASE Crash
    BY <2>1 DEF Crash
  <2>2. CASE \E c \in Callers : ConnectionLost(c)
    BY <2>2 DEF ConnectionLost
  <2> QED BY <2>1, <2>2
<1>3. stray' \subseteq Statements /\ StrayInv'
  BY <1>2, FaultEffects, SentFits DEF IInv, TypeOK, StrayInv, Fit
<1>5. TypeOK' /\ RowInv'
  BY <1>3, FaultEffects DEF IInv, TypeOK, RowInv, Fit
<1>6. CopyInv'
  BY FaultEffects DEF IInv, CopyInv, Fit
<1>7. CallInv'
  BY FaultEffects DEF IInv, CallInv
<1> QED BY <1>3, <1>5, <1>6, <1>7 DEF IInv

\* So does one that nobody waits for.
LEMMA StrayKeepsDeleted ==
  ASSUME IInv, NEW s \in stray, ExecuteStray(s)
  PROVE  /\ rows' \in [Users -> Rows \union {None}] /\ RowInv'
         /\ \A u \in Users : rows[u] # None =>
              rows'[u] # None /\ (rows[u].deleted => rows'[u].deleted)
<1>1. created' = created
  BY DEF ExecuteStray, Kept
<1>2. s \in Statements /\ s.user \in Users
  BY DEF IInv, TypeOK, Statements
<1>3. \/ \E d \in UserData :
           Fit(s.user, d) /\ (Insert(s.user, d) \/ Update(s.user, d))
      \/ rows[s.user] # None /\ Remove(s.user)
      \/ UNCHANGED rows
  <2>1. CASE s.kind = "remove"
    BY <2>1 DEF ExecuteStray, IInv, StrayInv
  <2>2. CASE s.kind # "remove"
    <3>1. s.data \in UserData /\ Fit(s.user, s.data)
      BY <1>2, <2>2 DEF Statements, IInv, StrayInv
    <3> QED BY <2>2, <3>1 DEF ExecuteStray
  <2> QED BY <2>1, <2>2
<1> QED BY <1>1, <1>2, <1>3, Statement DEF IInv

LEMMA StrayStep ==
  ASSUME IInv, NEW s \in stray, ExecuteStray(s)
  PROVE  IInv'
<1>1. /\ stray' = stray \ {s}
      /\ UNCHANGED <<copy, call, created, changes, faults>>
  BY DEF ExecuteStray, Kept
<1>4. /\ rows' \in [Users -> Rows \union {None}] /\ RowInv'
      /\ \A v \in Users : rows[v] # None => rows'[v] # None
  BY StrayKeepsDeleted
<1>5. TypeOK' /\ CopyInv'
  BY <1>1, <1>4 DEF IInv, TypeOK, CopyInv, Fit
<1>6. StrayInv'
  BY <1>1, <1>4 DEF IInv, TypeOK, Statements, StrayInv, Fit
<1>7. CallInv'
  BY <1>1, <1>4 DEF IInv, TypeOK, CallInv, Calls
<1> QED BY <1>4, <1>5, <1>6, <1>7 DEF IInv

LEMMA StepIInv == IInv /\ [Next]_vars => IInv'
<1> SUFFICES ASSUME IInv, [Next]_vars PROVE IInv'
  OBVIOUS
<1>1. ASSUME NEW c \in Callers, \E u \in Users, b \in Bodies : Create(c, u, b)
      PROVE  IInv'
  BY <1>1, CreateStep
<1>2. ASSUME NEW c \in Callers, Find(c) PROVE IInv'
  BY <1>2, FindStep
<1>3. ASSUME NEW c \in Callers,
             \/ \E new \in UserRoleType, p \in Callers : ChangeRole(c, new, p)
             \/ \E s \in UserStatusType : ChangeStatus(c, s)
             \/ \E n \in Names : UpdateName(c, n)
             \/ \E h \in Hashes : ChangePassword(c, h)
      PROVE  IInv'
  BY <1>3, MethodStep
<1>4. ASSUME NEW c \in Callers, Save(c) \/ \E u \in Users : Delete(c, u)
      PROVE  IInv'
  BY <1>4, BeginStep
<1>5. ASSUME NEW c \in Callers, Lookup(c) PROVE IInv'
  BY <1>5, LookupStep
<1>6. ASSUME NEW c \in Callers, Execute(c) \/ Reject(c) PROVE IInv'
  BY <1>6, ReturnStep
<1>7. CASE Crash \/ \E c \in Callers : ConnectionLost(c)
  BY <1>7, FaultStep
<1>8. ASSUME NEW s \in stray, ExecuteStray(s) PROVE IInv'
  BY <1>8, StrayStep
<1>9. CASE UNCHANGED vars
  BY <1>9 DEF vars, IInv, TypeOK, RowInv, CopyInv, StrayInv, CallInv, Fit
<1> QED BY <1>1, <1>2, <1>3, <1>4, <1>5, <1>6, <1>7, <1>8, <1>9 DEF Next

----------------------------------------------------------------------------
(* Theorems. *)

LEMMA IInvEntails == IInv => TypeOK /\ EveryRowLoads /\ AdminsWereCreated
<1> SUFFICES ASSUME IInv PROVE TypeOK /\ EveryRowLoads /\ AdminsWereCreated
  OBVIOUS
<1>1. EveryRowLoads
  BY DEF IInv, RowInv, Fit, EveryRowLoads, Loads
<1>2. AdminsWereCreated
  BY DEF IInv, RowInv, CopyInv, StrayInv, Fit, AdminsWereCreated
<1> QED BY <1>1, <1>2 DEF IInv

\* The state keeps its type.
THEOREM StoreTypeCorrect == Spec => []TypeOK
BY InitIInv, StepIInv, IInvEntails, PTL DEF Spec

\* For every body the layers let pass and every name a caller makes, however
\* the calls interleave and whatever is cut off, each row loads again.
THEOREM RowsLoad == Spec => []EveryRowLoads
BY InitIInv, StepIInv, IInvEntails, PTL DEF Spec

\* No interleaving of loads, role changes by stale performers, saves and late
\* statements makes an admin of a user created as something else.
THEOREM AdminsCreated == Spec => []AdminsWereCreated
BY InitIInv, StepIInv, IInvEntails, PTL DEF Spec

\* No step takes a row away or a deletion back.
LEMMA StepKeepsDeleted ==
  IInv /\ [Next]_vars =>
    \A u \in Users : rows[u] # None =>
      rows'[u] # None /\ (rows[u].deleted => rows'[u].deleted)
<1> SUFFICES ASSUME IInv, [Next]_vars
             PROVE  \A u \in Users : rows[u] # None =>
                      rows'[u] # None /\ (rows[u].deleted => rows'[u].deleted)
  OBVIOUS
<1>1. ASSUME NEW c \in Callers, Execute(c) \/ Reject(c)
      PROVE  \A u \in Users : rows[u] # None =>
               rows'[u] # None /\ (rows[u].deleted => rows'[u].deleted)
  BY <1>1, ReturnKeepsDeleted
<1>2. ASSUME NEW s \in stray, ExecuteStray(s)
      PROVE  \A u \in Users : rows[u] # None =>
               rows'[u] # None /\ (rows[u].deleted => rows'[u].deleted)
  BY <1>2, StrayKeepsDeleted
<1>3. CASE UNCHANGED rows
  BY <1>3
<1>4. \/ \E c \in Callers : Execute(c) \/ Reject(c)
      \/ \E s \in stray : ExecuteStray(s)
      \/ UNCHANGED rows
  BY DEF Next, vars, Create, Find, ChangeRole, ChangeStatus, UpdateName,
         ChangePassword, Change, Stored, Save, Delete, Begin, Lookup, Sends,
         ConnectionLost, Crash, Fault
<1> QED BY <1>1, <1>2, <1>3, <1>4

\* Soft deletion is final, for saves of copies loaded before it as for
\* statements executed after it.
THEOREM DeletionIsFinal == Spec => DeletedStaysDeleted
<1>1. IInv /\ [Next]_vars =>
        [\A u \in Users : rows[u] # None =>
           rows'[u] # None /\ (rows[u].deleted => rows'[u].deleted)]_rows
  BY StepKeepsDeleted
<1> QED BY <1>1, InitIInv, StepIInv, PTL DEF Spec, DeletedStaysDeleted

----------------------------------------------------------------------------
(* The refinement. *)

LEMMA RequestsHaveTypes ==
  ASSUME IInv
  PROVE  /\ \A c \in Callers : call[c] # None => Request(c) \in Requests
         /\ \A s \in stray : LateRequest(s) \in Requests
         /\ None \notin Requests
<1>1. ASSUME NEW c \in Callers, call[c] # None PROVE Request(c) \in Requests
  <2>1. call[c] \in Calls
    BY <1>1 DEF IInv, TypeOK
  <2>2. CASE call[c].kind = "delete"
    BY <1>1, <2>1, <2>2 DEF Request, Requests, Calls
  <2>3. CASE call[c].kind = "save"
    <3>1. copy[c] \in Copies
      BY <1>1, <2>3 DEF IInv, TypeOK, CallInv
    <3> QED BY <1>1, <2>1, <2>3, <3>1 DEF Request, Requests, Calls, Copies
  <2> QED BY <2>1, <2>2, <2>3 DEF Calls
<1>2. ASSUME NEW s \in stray PROVE LateRequest(s) \in Requests
  BY <1>2 DEF IInv, TypeOK, LateRequest, Requests, Statements
<1> QED BY <1>1, <1>2, NoneAssumption

\* What each kind of request makes of the register.
LEMMA EffectOfRequest ==
  ASSUME NEW r
  PROVE  /\ r.kind = "delete" => Register!Effect(r) = Register!Gone(rows[r.user])
         /\ r.kind = "save" /\ rows[r.user] = None =>
              Register!Effect(r) = [data |-> r.data, deleted |-> FALSE]
         /\ r.kind = "save" /\ rows[r.user] # None =>
              Register!Effect(r) = [rows[r.user] EXCEPT !.data = r.data]
BY DEF Register!Effect

\* A statement that is executed is the request taking effect.
LEMMA StatementTakesEffect ==
  ASSUME IInv, NEW u \in Users, NEW r \in Requests, r.user = u,
         \/ r.kind = "save" /\ (Insert(u, r.data) \/ Update(u, r.data))
         \/ r.kind = "delete" /\ rows[u] # None /\ Remove(u)
  PROVE  Register!TakesEffect(r)
<1>1. CASE r.kind = "save" /\ Insert(u, r.data)
  BY <1>1, EffectOfRequest DEF Insert, Register!TakesEffect
<1>2. CASE r.kind = "save" /\ Update(u, r.data)
  <2>1. rows' = [rows EXCEPT ![u] = [rows[u] EXCEPT !.data = r.data]]
        /\ rows[u] # None
    BY <1>2 DEF Update
  <2>2. Register!Effect(r) = [rows[u] EXCEPT !.data = r.data]
    BY <1>2, <2>1, EffectOfRequest
  <2> QED BY <1>2, <2>1, <2>2 DEF Register!TakesEffect
<1>3. CASE r.kind = "delete" /\ rows[u] # None /\ Remove(u)
  <2>1. Register!Effect(r) = [data |-> [rows[u].data EXCEPT !.status = "inactive"],
                              deleted |-> TRUE]
    BY <1>3, EffectOfRequest DEF Register!Gone
  <2> QED BY <1>3, <2>1 DEF Remove, Register!TakesEffect
<1> QED BY <1>1, <1>2, <1>3

asked == [c \in Callers |-> Request(c)]
loose == {LateRequest(s) : s \in stray}

\* Nothing the register knows has changed.
LEMMA StutterStep ==
  ASSUME UNCHANGED <<rows, stray>>, \A c \in Callers : Request(c)' = Request(c)
  PROVE  UNCHANGED Register!vars
BY DEF Register!vars

LEMMA CopiesStutter ==
  ASSUME NEW c \in Callers, call[c] = None, NEW new,
         copy' = [copy EXCEPT ![c] = new], UNCHANGED <<rows, call, stray>>, IInv
  PROVE  UNCHANGED Register!vars
<1>1. \A x \in Callers : Request(x)' = Request(x)
  BY DEF Request, IInv, TypeOK
<1> QED BY <1>1, StutterStep

LEMMA ReturnRefines ==
  ASSUME IInv, NEW c \in Callers, Returns(c), call[c] # None,
         UNCHANGED rows \/ Register!TakesEffect(Request(c))
  PROVE  Register!Next
<1>1. /\ call' = [call EXCEPT ![c] = None] /\ call \in [Callers -> Calls \union {None}]
      /\ UNCHANGED <<copy, stray>>
  BY DEF Returns, IInv, TypeOK
<1>2. \A x \in Callers : Request(x)' = IF x = c THEN None ELSE Request(x)
  BY <1>1 DEF Request
<1>3. asked' = [asked EXCEPT ![c] = None] /\ asked[c] = Request(c) /\ asked[c] # None
  BY <1>2, RequestsHaveTypes DEF asked
<1>4. loose' = loose
  BY <1>1 DEF loose, LateRequest
<1> QED BY <1>3, <1>4 DEF asked, loose, Register!Next, Register!Done,
           Register!Refused, Register!Return

LEMMA BeginRefines ==
  ASSUME IInv, NEW c \in Callers, Save(c) \/ \E u \in Users : Delete(c, u)
  PROVE  Register!Next
<1>1. PICK r \in Calls : Begin(c, r) /\ (r.kind = "save" => copy[c] \in Copies)
  <2>1. CASE Save(c)
    <3> DEFINE r == [kind |-> "save", user |-> copy[c].id, stage |-> "finding"]
    <3>1. copy[c] \in Copies
      BY <2>1 DEF Save, IInv, TypeOK
    <3>2. r \in Calls /\ Begin(c, r)
      BY <2>1, <3>1 DEF Save, Calls, Copies
    <3> HIDE DEF r
    <3> QED BY <3>1, <3>2
  <2>2. ASSUME NEW u \in Users, Delete(c, u)
        PROVE  \E r \in Calls : Begin(c, r) /\ (r.kind = "save" => copy[c] \in Copies)
    <3> DEFINE r == [kind |-> "delete", user |-> u, stage |-> "finding"]
    <3>1. r \in Calls /\ r.kind = "delete" /\ Begin(c, r)
      BY <2>2 DEF Delete, Calls
    <3> HIDE DEF r
    <3> QED BY <3>1
  <2> QED BY <2>1, <2>2
<1>2. /\ r # None /\ call[c] = None /\ call' = [call EXCEPT ![c] = r]
      /\ UNCHANGED <<rows, copy, stray>>
  BY <1>1, NoneAssumption DEF Begin
<1>3. call'[c] = r /\ \A x \in Callers \ {c} : Request(x)' = Request(x)
  BY <1>2 DEF Request, IInv, TypeOK
<1>4. Request(c)' \in Requests
  <2>1. CASE r.kind = "delete"
    <3>1. Request(c)' = [kind |-> "delete", user |-> r.user]
      BY <1>2, <1>3, <2>1 DEF Request
    <3> QED BY <3>1 DEF Requests, Calls
  <2>2. CASE r.kind = "save"
    <3>1. Request(c)' = [kind |-> "save", user |-> r.user, data |-> copy[c].data]
      BY <1>2, <1>3, <2>2 DEF Request
    <3> QED BY <1>1, <2>2, <3>1 DEF Requests, Calls, Copies
  <2> QED BY <2>1, <2>2 DEF Calls
<1>5. /\ asked[c] = None /\ asked'[c] \in Requests
      /\ asked' = [asked EXCEPT ![c] = asked'[c]]
  <2>1. Request(c) = None
    BY <1>2 DEF Request
  <2>2. /\ asked = [x \in Callers |-> Request(x)]
        /\ asked' = [x \in Callers |-> Request(x)']
    BY DEF asked
  <2> HIDE DEF asked
  <2> QED BY <1>3, <1>4, <2>1, <2>2
<1>6. loose' = loose
  BY <1>2 DEF loose, LateRequest
<1> QED BY <1>2, <1>5, <1>6 DEF asked, loose, Register!Next, Register!Ask

LEMMA LookupRefines ==
  ASSUME IInv, NEW c \in Callers, Lookup(c)
  PROVE  Register!Next \/ UNCHANGED Register!vars
<1>1. call[c] \in Calls /\ call[c] # None
  BY DEF Lookup, At, IInv, TypeOK
<1>2. CASE Returns(c) /\ UNCHANGED rows
  BY <1>1, <1>2, ReturnRefines
<1>3. ASSUME NEW stage \in {"insert", "update", "remove"}, Sends(c, stage),
             stage = "remove" <=> call[c].kind = "delete"
      PROVE  UNCHANGED Register!vars
  <2> DEFINE r == [call[c] EXCEPT !.stage = stage]
  <2>1. call' = [call EXCEPT ![c] = r] /\ UNCHANGED <<rows, copy, stray>>
    BY <1>3 DEF Sends
  <2>2. r \in Calls /\ r.kind = call[c].kind /\ r.user = call[c].user
    BY <1>1, <1>3 DEF Calls
  <2> HIDE DEF r
  <2>3. \A x \in Callers : Request(x)' = Request(x)
    BY <1>1, <2>1, <2>2, NoneAssumption DEF Request, IInv, TypeOK
  <2> QED BY <2>1, <2>3, StutterStep
<1> QED BY <1>1, <1>2, <1>3 DEF Lookup, Calls

LEMMA ExecuteRefines ==
  ASSUME IInv, NEW c \in Callers, Execute(c) \/ Reject(c)
  PROVE  Register!Next
<1>1. call[c] \in Calls /\ call[c] # None /\ Returns(c)
  BY DEF Execute, Reject, At, IInv, TypeOK
<1>2. Request(c) \in Requests
  BY <1>1, RequestsHaveTypes
<1>3. CASE Reject(c)
  BY <1>1, <1>3, ReturnRefines DEF Reject
<1>4. CASE Execute(c) /\ call[c].kind = "delete"
  <2>1. Request(c).kind = "delete" /\ Request(c).user = call[c].user
    BY <1>1, <1>4 DEF Request
  <2>2. rows[call[c].user] # None /\ Remove(call[c].user) /\ call[c].user \in Users
    BY <1>1, <1>4 DEF Execute, At, Calls, IInv, CallInv
  <2>3. Register!TakesEffect(Request(c))
    BY <1>2, <2>1, <2>2, StatementTakesEffect
  <2> QED BY <1>1, <2>3, ReturnRefines
<1>5. CASE Execute(c) /\ call[c].kind = "save"
  <2>1. /\ Request(c).kind = "save" /\ Request(c).user = call[c].user
        /\ Request(c).data = copy[c].data
    BY <1>1, <1>5 DEF Request
  <2>2. /\ Insert(call[c].user, copy[c].data) \/ Update(call[c].user, copy[c].data)
        /\ call[c].user \in Users
    BY <1>1, <1>5 DEF Execute, At, Calls
  <2>3. Register!TakesEffect(Request(c))
    BY <1>2, <2>1, <2>2, StatementTakesEffect
  <2> QED BY <1>1, <2>3, ReturnRefines
<1> QED BY <1>1, <1>3, <1>4, <1>5 DEF Calls

\* Calls that are cut off leave their statements, if they were sent.
LEMMA CutOffRefines ==
  ASSUME IInv, NEW C \in SUBSET Callers, stray' = stray \union Sent(C), UNCHANGED rows,
         call' \in [Callers -> Calls \union {None}],
         \A x \in Callers :
           /\ x \in C => call'[x] = None
           /\ x \notin C => call'[x] = call[x] /\ copy'[x] = copy[x]
  PROVE  Register!Next
<1> DEFINE S == {LateRequest(s) : s \in Sent(C)}
<1>1. ASSUME NEW s \in Sent(C)
      PROVE  \E c \in C : LateRequest(s) = Request(c) /\ LateRequest(s) # None
  <2>1. PICK c \in C :
          /\ call[c] # None /\ call[c].stage # "finding"
          /\ s = IF call[c].kind = "save"
                 THEN [kind |-> call[c].stage, user |-> call[c].user,
                       data |-> copy[c].data, fault |-> faults]
                 ELSE [kind |-> "remove", user |-> call[c].user, fault |-> faults]
    BY DEF Sent, At
  <2>2. call[c] \in Calls /\ c \in Callers
    BY <2>1 DEF IInv, TypeOK
  <2>3. Request(c) # None
    BY <2>1, <2>2, RequestsHaveTypes
  <2>4. CASE call[c].kind = "save"
    BY <2>1, <2>2, <2>3, <2>4 DEF LateRequest, Request, Calls
  <2>5. CASE call[c].kind = "delete"
    BY <2>1, <2>2, <2>3, <2>5 DEF LateRequest, Request, Calls
  <2> QED BY <2>2, <2>4, <2>5 DEF Calls
<1>2. S \in SUBSET {asked[c] : c \in C} /\ None \notin S
  BY <1>1 DEF asked
<1>3. loose' = loose \union (S \ {None})
  BY <1>2 DEF loose, LateRequest
<1>4. asked' = [c \in Callers |-> IF c \in C THEN None ELSE asked[c]]
  BY DEF asked, Request
<1> HIDE DEF S
<1>5. Register!CutOff(C)
  BY <1>2, <1>3, <1>4 DEF Register!CutOff, asked, loose
<1> QED BY <1>5 DEF Register!Next

LEMMA FaultRefines ==
  ASSUME IInv, Crash \/ \E c \in Callers : ConnectionLost(c)
  PROVE  Register!Next
<1>1. UNCHANGED rows /\ call' \in [Callers -> Calls \union {None}]
  BY FaultEffects
<1>2. CASE Crash
  BY <1>1, <1>2, CutOffRefines DEF Crash
<1>3. ASSUME NEW c \in Callers, ConnectionLost(c) PROVE Register!Next
  <2>1. /\ stray' = stray \union Sent({c}) /\ call' = [call EXCEPT ![c] = None]
        /\ copy' = copy /\ {c} \in SUBSET Callers
    BY <1>3 DEF ConnectionLost
  <2>2. \A x \in Callers :
          /\ x \in {c} => call'[x] = None
          /\ x \notin {c} => call'[x] = call[x] /\ copy'[x] = copy[x]
    BY <2>1 DEF IInv, TypeOK
  <2> QED BY <1>1, <2>1, <2>2, CutOffRefines
<1> QED BY <1>2, <1>3

LEMMA StrayRefines ==
  ASSUME IInv, NEW s \in stray, ExecuteStray(s)
  PROVE  Register!Next
<1> DEFINE r == LateRequest(s)
<1>1. /\ s \in Statements /\ s.user \in Users /\ r \in Requests /\ r.user = s.user
      /\ s.kind = "remove" => r.kind = "delete"
      /\ s.kind # "remove" => r.kind = "save" /\ r.data = s.data
  BY RequestsHaveTypes DEF IInv, TypeOK, Statements, LateRequest
<1>2. stray' = stray \ {s} /\ UNCHANGED <<copy, call>>
  BY DEF ExecuteStray
<1>3. s.kind = "remove" => rows[s.user] # None
  BY DEF IInv, StrayInv
<1> HIDE DEF r
<1>4. UNCHANGED rows \/ Register!TakesEffect(r)
  <2>1. CASE s.kind = "insert" /\ Insert(s.user, s.data)
    BY <1>1, <2>1, StatementTakesEffect
  <2>2. CASE s.kind = "update" /\ Update(s.user, s.data)
    BY <1>1, <2>2, StatementTakesEffect
  <2>3. CASE s.kind = "remove" /\ Remove(s.user)
    BY <1>1, <1>3, <2>3, StatementTakesEffect
  <2> QED BY <2>1, <2>2, <2>3 DEF ExecuteStray
<1>5. asked' = asked
  BY <1>2 DEF asked, Request
<1>6. loose' \in {loose, loose \ {r}} /\ r \in loose
  BY <1>2 DEF loose, r, LateRequest
<1> QED BY <1>4, <1>5, <1>6 DEF Register!Next, Register!Late, asked, loose

\* A save is one write of the whole user or none, at one moment, although its
\* lookup and its statement lie apart and the row may change between them.
THEOREM StoreIsRegister == Spec => ImplementsRegister
<1>1. Init => Register!Init
  BY DEF Init, Register!Init, Request
<1>2. IInv /\ [Next]_vars => [Register!Next]_Register!vars
  <2> SUFFICES ASSUME IInv, [Next]_vars
               PROVE  Register!Next \/ UNCHANGED Register!vars
    OBVIOUS
  <2>1. ASSUME NEW c \in Callers,
               \/ \E u \in Users, b \in Bodies : Create(c, u, b)
               \/ Find(c)
               \/ \E new \in UserRoleType, p \in Callers : ChangeRole(c, new, p)
               \/ \E s \in UserStatusType : ChangeStatus(c, s)
               \/ \E n \in Names : UpdateName(c, n)
               \/ \E h \in Hashes : ChangePassword(c, h)
        PROVE  UNCHANGED Register!vars
    <3>1. /\ call[c] = None /\ UNCHANGED <<rows, call, stray>>
          /\ \E new : copy' = [copy EXCEPT ![c] = new]
      BY <2>1 DEF Create, Find, ChangeRole, ChangeStatus, UpdateName,
        ChangePassword, Change, Stored
    <3> QED BY <3>1, CopiesStutter
  <2>2. CASE UNCHANGED vars
    BY <2>2 DEF vars, Register!vars, Request, LateRequest
  <2> QED
    BY <2>1, <2>2, BeginRefines, LookupRefines, ExecuteRefines, FaultRefines,
       StrayRefines DEF Next
<1> QED BY <1>1, <1>2, InitIInv, StepIInv, PTL
        DEF Spec, ImplementsRegister, Register!Spec

----------------------------------------------------------------------------
(* The lock of an account. *)

CONSTANTS
  Tokens,   \* tokens mailed to the user
  MaxFailed \* bound of AccountRow, which the theorem does not use

VARIABLES
  row,   \* the stored row
  failed \* failed logins since the last reset

Account == INSTANCE AccountRow

\* The columns of the lock.
AccountType ==
  [status : {"active", "inactive"}, deleted : BOOLEAN, loginAttempts : 0 .. 10,
   lockedUntil : Account!Moments, emailVerified : BOOLEAN,
   emailVerificationToken : Tokens \union {None},
   passwordResetToken : Tokens \union {None},
   passwordResetExpires : Account!Moments]

\* The column keeps up with the failures until the CHECK stops it at 10.
AttemptsInv ==
  /\ row \in AccountType
  /\ failed \in Nat
  /\ row.loginAttempts = IF failed < 10 THEN failed ELSE 10

\* r with n attempts, locked until m.
WithLock(r, n, m) == [r EXCEPT !.loginAttempts = n, !.lockedUntil = m]

\* A row whose lock is set or lifted is a row.
LEMMA LockedRow ==
  ASSUME NEW r \in AccountType, NEW n \in 0 .. 10, NEW m \in Account!Moments
  PROVE  /\ WithLock(r, n, m) \in AccountType
         /\ WithLock(r, n, m).loginAttempts = n
         /\ WithLock(r, n, m).lockedUntil = m
<1> DEFINE s == [r EXCEPT !.loginAttempts = n]
<1>1. s \in AccountType
  BY DEF AccountType
<1>2. s.loginAttempts = n
  BY DEF AccountType
<1> HIDE DEF s
<1>3. [s EXCEPT !.lockedUntil = m] \in AccountType
  BY <1>1 DEF AccountType
<1>4. [s EXCEPT !.lockedUntil = m].loginAttempts = n
  BY <1>1, <1>2 DEF AccountType
<1>5. [s EXCEPT !.lockedUntil = m].lockedUntil = m
  BY <1>1 DEF AccountType
<1> QED
  BY <1>3, <1>4, <1>5 DEF s, WithLock

\* Past ten attempts the CHECK refuses the UPDATE that would lock the row; up
\* to ten it is stored.
LEMMA FailureCounts ==
  ASSUME AttemptsInv, Account!FailedLogin
  PROVE  /\ AttemptsInv'
         /\ failed' \in 5 .. 10 => row'.lockedUntil = "ahead"
         /\ failed' > 10 => row' = row
         /\ failed' = failed + 1
<1> DEFINE count == row.loginAttempts + 1
           lock == IF count >= 5 THEN "ahead" ELSE row.lockedUntil
           next == WithLock(row, count, lock)
<1>1. Account!incrementLoginAttempts(row) = next
  BY DEF Account!incrementLoginAttempts, WithLock
<1>2. row \in AccountType /\ failed \in Nat /\ count \in Nat
      /\ row.loginAttempts = IF failed < 10 THEN failed ELSE 10
  BY DEF AttemptsInv, AccountType
<1>3. lock \in Account!Moments
  BY <1>2 DEF AccountType, Account!Moments
<1>4. failed' = failed + 1 /\ Account!Stored(next)
  BY <1>1 DEF Account!FailedLogin
<1>5. CASE failed < 10
  <2>1. count \in 0 .. 10 /\ count = failed + 1
    BY <1>2, <1>5
  <2> HIDE DEF count, lock
  <2>2. next \in AccountType /\ next.loginAttempts = count
        /\ next.lockedUntil = lock
    <3>1. row \in AccountType /\ count \in 0 .. 10
      BY <1>2, <2>1
    <3>2. \A m \in Account!Moments :
            /\ WithLock(row, count, m) \in AccountType
            /\ WithLock(row, count, m).loginAttempts = count
            /\ WithLock(row, count, m).lockedUntil = m
      BY <3>1, LockedRow
    <3> QED
      BY <1>3, <3>2
  <2> HIDE DEF next
  <2>3. row' = next
    BY <1>4, <2>1, <2>2 DEF Account!Stored, Account!Admitted
  <2>4. row'.loginAttempts = IF failed' < 10 THEN failed' ELSE 10
    BY <1>2, <1>4, <1>5, <2>1, <2>2, <2>3
  <2>5. failed' \in 5 .. 10 => row'.lockedUntil = "ahead"
    BY <1>4, <2>1, <2>2, <2>3 DEF lock
  <2> QED
    BY <1>2, <1>4, <1>5, <2>2, <2>3, <2>4, <2>5 DEF AttemptsInv
<1>6. CASE failed >= 10
  <2>1. count = 11
    BY <1>2, <1>6
  <2>2. next.loginAttempts = count
    BY <1>2 DEF AccountType, WithLock
  <2> HIDE DEF count, next
  <2>3. row' = row
    BY <1>4, <2>1, <2>2 DEF Account!Stored, Account!Admitted
  <2> QED
    BY <1>2, <1>4, <1>6, <2>3 DEF AttemptsInv
<1> QED
  BY <1>2, <1>5, <1>6

\* No other step counts a failed login, and only a login resets the count.
LEMMA OthersKeepCount ==
  ASSUME AttemptsInv, [Account!Next]_(Account!vars), ~Account!FailedLogin
  PROVE  AttemptsInv' /\ ~(failed' > failed)
<1>1. CASE Account!Login
  <2> DEFINE next == WithLock(row, 0, "none")
  <2>1. next \in AccountType /\ next.loginAttempts = 0
    <3>1. row \in AccountType /\ 0 \in 0 .. 10 /\ "none" \in Account!Moments
      BY DEF AttemptsInv, Account!Moments
    <3> QED
      BY <3>1, LockedRow
  <2>2. Account!updateLastLogin(row) = next
    BY DEF Account!updateLastLogin, Account!resetLoginAttempts, WithLock
  <2> HIDE DEF next
  <2>3. row' = next /\ failed' = 0
    BY <1>1, <2>1, <2>2 DEF Account!Login, Account!Stored, Account!Admitted
  <2> QED
    BY <2>1, <2>3 DEF AttemptsInv
<1>2. ASSUME NEW r \in AccountType, r.loginAttempts = row.loginAttempts,
             Account!Stored(r), UNCHANGED failed
      PROVE  AttemptsInv' /\ ~(failed' > failed)
  <2>1. row' = r
    BY <1>2 DEF Account!Stored, Account!Admitted, AccountType
  <2> QED
    BY <1>2, <2>1 DEF AttemptsInv
<1>3. CASE \E t \in Tokens : Account!ConfirmEmail(t)
  <2>1. /\ Account!markEmailAsVerified(row) \in AccountType
        /\ Account!markEmailAsVerified(row).loginAttempts = row.loginAttempts
    BY DEF AttemptsInv, AccountType, Account!markEmailAsVerified
  <2> QED
    BY <1>2, <1>3, <2>1 DEF Account!ConfirmEmail
<1>4. CASE \E t \in Tokens : Account!ForgotPassword(t)
  <2>1. PICK t \in Tokens : Account!ForgotPassword(t)
    BY <1>4
  <2>2. /\ Account!setPasswordResetToken(row, t) \in AccountType
        /\ Account!setPasswordResetToken(row, t).loginAttempts
             = row.loginAttempts
    BY DEF AttemptsInv, AccountType, Account!setPasswordResetToken,
           Account!Moments
  <2> QED
    BY <1>2, <2>1, <2>2 DEF Account!ForgotPassword
<1>5. CASE \E t \in Tokens : Account!ResetPassword(t)
  <2>1. /\ Account!clearPasswordResetToken(row) \in AccountType
        /\ Account!clearPasswordResetToken(row).loginAttempts
             = row.loginAttempts
    BY DEF AttemptsInv, AccountType, Account!clearPasswordResetToken,
           Account!Moments
  <2> QED
    BY <1>2, <1>5, <2>1 DEF Account!ResetPassword
<1>6. CASE Account!DeleteOrRestore
  <2>1. /\ Account!softDelete(row) \in AccountType
        /\ Account!softDelete(row).loginAttempts = row.loginAttempts
        /\ Account!restore(row) \in AccountType
        /\ Account!restore(row).loginAttempts = row.loginAttempts
    BY DEF AttemptsInv, AccountType, Account!softDelete, Account!restore
  <2> QED
    BY <1>2, <1>6, <2>1 DEF Account!DeleteOrRestore
<1>7. CASE Account!TimePasses
  BY <1>7 DEF AttemptsInv, AccountType, Account!TimePasses, Account!Moments
<1>8. CASE UNCHANGED Account!vars
  BY <1>8 DEF AttemptsInv, Account!vars
<1> QED
  BY <1>1, <1>3, <1>4, <1>5, <1>6, <1>7, <1>8 DEF Account!Next

\* The comment on incrementLoginAttempts promises the lock after five failures.
\* It holds of the fifth to the tenth in a row, and of none after them: the
\* CHECK of the table refuses the whole UPDATE, the lock with the count, so
\* that from the eleventh the row stays as it was, without a lock.
THEOREM LockEndsAtTen ==
  Account!Spec =>
    [][failed' > failed =>
         /\ failed' \in 5 .. 10 => Account!isLocked(row')
         /\ failed' > 10 => row' = row /\ ~Account!isLocked(row')]_(Account!vars)
<1>1. Account!Init => AttemptsInv
  <2>1. Account!Init => failed = 0 /\ row.loginAttempts = 0
    BY DEF Account!Init
  <2>2. Account!Init => row \in AccountType
    <3>1. {"none"} \subseteq Account!Moments /\ {0} \subseteq 0 .. 10
      BY DEF Account!Moments
    <3> HIDE DEF Account!Moments
    <3> QED
      BY <3>1 DEF Account!Init, AccountType
  <2> QED
    BY <2>1, <2>2 DEF AttemptsInv
<1>2. AttemptsInv /\ [Account!Next]_(Account!vars) => AttemptsInv'
  <2>1. CASE Account!FailedLogin
    BY <2>1, FailureCounts
  <2>2. CASE ~Account!FailedLogin
    BY <2>2, OthersKeepCount
  <2> QED
    BY <2>1, <2>2
<1>3. ASSUME AttemptsInv, [Account!Next]_(Account!vars), failed' > failed
      PROVE  /\ failed' \in 5 .. 10 => Account!isLocked(row')
             /\ failed' > 10 => row' = row /\ ~Account!isLocked(row')
  <2>1. Account!FailedLogin
    BY <1>3, OthersKeepCount
  <2>2. /\ failed' \in 5 .. 10 => row'.lockedUntil = "ahead"
        /\ failed' > 10 => row' = row
    BY <1>3, <2>1, FailureCounts
  <2>3. row.lockedUntil # "ahead"
    BY <2>1 DEF Account!FailedLogin, Account!isLocked
  <2> QED
    BY <2>2, <2>3 DEF Account!isLocked
<1> QED
  BY <1>1, <1>2, <1>3, PTL DEF Account!Spec
================================================================================
