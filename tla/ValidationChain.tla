---------------------------- MODULE ValidationChain ----------------------------
(***************************************************************************)
(* What a registration goes through before it is a row: the schema of Joi  *)
(* in the router (where it is enabled) and again in the controller, the    *)
(* checks of the use case, those of the value objects, and the constraints *)
(* of the table.  Each layer states the rules anew.  An input is the       *)
(* features these rules look at; lengths are any natural numbers.  The     *)
(* uniqueness of the address is Registration's subject.                    *)
(***************************************************************************)
EXTENDS Naturals, UserRules

\* given: it is a string.  blanks: whitespace at its ends; the rest of it has
\* the length and is in the alphabet of the names, or not.
NameInputs ==
  [given : BOOLEAN, blanks : Nat, length : Nat, inAlphabet : BOOLEAN]

\* dotted: one @, something before it, and behind it a dot with something on
\* both sides.  blank: the whitespace in it.  wellFormed: whatever else Joi
\* looks at, lengths of the whole excepted.  plain: every character is one the
\* table's CHECK admits.  tld: the letters of the last label, 0 if it has
\* anything else.
EmailInputs ==
  [given : BOOLEAN, lower : BOOLEAN, dotted : BOOLEAN,
   blank : {"none", "ascii", "unicode"}, wellFormed : BOOLEAN,
   plain : BOOLEAN, tld : Nat, length : Nat]

CharacterKinds == {"lower", "upper", "digit", "special"}

\* The kinds of character in a password, and in its first line.
PasswordInputs ==
  {p \in [given : BOOLEAN, length : Nat, has : SUBSET CharacterKinds,
          firstLine : SUBSET CharacterKinds] : p.firstLine \subseteq p.has}

\* The body of POST /register.  confirmation: as compared with the password.
\* extra: it has keys the schema does not know.
RegistrationBodies ==
  [name : NameInputs, email : EmailInputs, password : PasswordInputs,
   confirmation : {"absent", "same", "other"},
   role : UserRoleType \union {"absent", "other"}, extra : BOOLEAN]

----------------------------------------------------------------------------
(* createUserSchema. *)

\* Joi's email(): ASCII whitespace is refused, as are addresses of more than
\* 254 characters; Unicode is allowed, blanks beyond ASCII included.
JoiEmail(e) ==
  e.dotted /\ e.blank # "ascii" /\ e.wellFormed /\ e.length <= 254

\* trim comes before the other rules, and the empty string is refused.
SchemaName(n) == n.given /\ n.length \in 2 .. 100 /\ n.inAlphabet

SchemaEmail(e) == e.given /\ JoiEmail(e) /\ e.length <= 320

\* The dots of the pattern stop at the end of a line: all four kinds must
\* occur in the first.
SchemaPassword(p) ==
  p.given /\ p.length \in 8 .. 128 /\ p.firstLine = CharacterKinds

SchemaAccepts(b, stripUnknown) ==
  /\ SchemaName(b.name)
  /\ SchemaEmail(b.email)
  /\ SchemaPassword(b.password)
  /\ b.confirmation = "same"
  /\ b.role # "other"
  /\ b.extra => stripUnknown

\* The value the schema hands on: trimmed, in lower case, stripped.
SchemaValue(b) ==
  [b EXCEPT !.name.blanks = 0, !.email.lower = TRUE, !.extra = FALSE]

----------------------------------------------------------------------------
(* CreateUserUseCase.validateCommand. *)

\* /^[^\s@]+@[^\s@]+\.[^\s@]+$/
EmailRegex(e) == e.dotted /\ e.blank = "none"

validatePassword(p) == p.length \in 8 .. 128 /\ p.has = CharacterKinds

validateCommand(c) ==
  /\ c.name.given /\ c.name.length \in 2 .. 100
  /\ c.email.given /\ EmailRegex(c.email)
  /\ c.password.given /\ validatePassword(c.password)
  /\ c.confirmation = "same"
  /\ c.role # "other"

----------------------------------------------------------------------------
(* The value objects: what their constructors do not throw on. *)

Email(e) == e.given /\ EmailRegex(e) /\ e.length <= 320

Name(n) == n.given /\ n.length \in 2 .. 100 /\ n.inAlphabet

\* HashedPassword.fromPlainText
PlainPassword(p) ==
  p.given /\ p.length \in 8 .. 128 /\ p.has = CharacterKinds

\* getValue of both, which is what is stored.
EmailValue(e) == [e EXCEPT !.lower = TRUE]
NameValue(n) == [n EXCEPT !.blanks = 0]

----------------------------------------------------------------------------
(* The table, where the migration has made it. *)

\* CHK_users_email_format, and the width of the column.
EmailAdmitted(e) ==
  /\ e.dotted /\ e.blank = "none" /\ e.plain /\ e.tld >= 2
  /\ e.length <= 320

\* CHK_users_name_length, and the width of the column.
NameAdmitted(n) == n.length >= 2 /\ n.blanks + n.length <= 100

RowAdmitted(e, n) == EmailAdmitted(e) /\ NameAdmitted(n)

----------------------------------------------------------------------------
(* The way through. *)

\* The body the controller gets.
Sanitized(b, enableValidation) ==
  IF enableValidation THEN SchemaValue(b) ELSE b

\* The command the controller makes: of the validated value, free by default.
Command(b, enableValidation) ==
  LET v == SchemaValue(Sanitized(b, enableValidation))
  IN [v EXCEPT !.role = IF @ = "absent" THEN "free" ELSE @]

\* Both checks with the schema: the controller's passes no options, so an
\* unknown key that nobody has stripped is an error.
Validated(b, enableValidation) ==
  /\ enableValidation => SchemaAccepts(b, TRUE)
  /\ SchemaAccepts(Sanitized(b, enableValidation), FALSE)

\* The use case and the value objects let the command pass.
Constructed(c) ==
  /\ validateCommand(c)
  /\ Email(c.email) /\ Name(c.name) /\ PlainPassword(c.password)

\* The status of the answer when the address is free and nothing fails.  What
\* validateCommand refuses is an Error('Validation failed'), which has no code
\* of its own, as has the table's: both become 500.
AnswerTo(b, enableValidation) ==
  LET c == Command(b, enableValidation)
  IN CASE ~Validated(b, enableValidation) -> 400
       [] Validated(b, enableValidation) /\ ~validateCommand(c) -> 500
       [] /\ Validated(b, enableValidation) /\ validateCommand(c)
          /\ ~Constructed(c) -> 400
       [] /\ Validated(b, enableValidation) /\ Constructed(c)
          /\ ~RowAdmitted(EmailValue(c.email), NameValue(c.name)) -> 500
       [] OTHER -> 201
==============================================================================
