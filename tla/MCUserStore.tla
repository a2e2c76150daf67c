----------------------------- MODULE MCUserStore ------------------------------
(***************************************************************************)
(* UserStore for TLC: bodies that become rows, that only the table's CHECK *)
(* refuses, and that are refused before.                                   *)
(***************************************************************************)
EXTENDS UserStore, TLC

\* An admin, in capitals.
AdminBody ==
  [name |-> [given |-> TRUE, blanks |-> 0, length |-> 100, inAlphabet |-> TRUE],
   email |-> [given |-> TRUE, lower |-> FALSE, dotted |-> TRUE,
              blank |-> "none", wellFormed |-> TRUE, plain |-> TRUE, tld |-> 2,
              length |-> 254],
   password |-> [given |-> TRUE, length |-> 8, has |-> CharacterKinds,
                 firstLine |-> CharacterKinds],
   confirmation |-> "same", role |-> "admin", extra |-> TRUE]

\* A user who may change roles, whose name is sent with blanks.
EnterpriseBody ==
  [AdminBody EXCEPT !.name.blanks = 1, !.role = "enterprise", !.extra = FALSE]

\* A free user by default; the last label of the address is one letter, which
\* Joi and the entity allow.
OneLetterBody == [AdminBody EXCEPT !.email.tld = 1, !.role = "absent"]

\* The digit of the password is in its second line.
TwoLinesBody ==
  [AdminBody EXCEPT !.password.firstLine = CharacterKinds \ {"digit"}]

SomeBodies == {AdminBody, EnterpriseBody, OneLetterBody, TwoLinesBody}

\* A name with blanks around it, and a string only the entity refuses as one.
SomeNames ==
  {[given |-> TRUE, blanks |-> 2, length |-> 2, inAlphabet |-> TRUE],
   [given |-> TRUE, blanks |-> 2, length |-> 2, inAlphabet |-> FALSE]}

Symmetry == Permutations(Callers) \union Permutations(Users)
==============================================================================
