------------------------ MODULE RegistrationRefinement -----------------------
(***************************************************************************)
(* The registry of EmailRegistry as Registration keeps it: the owners are  *)
(* the rows of the table, soft-deleted rows included, and what a user      *)
(* wants is the lower-case e-mail of its row; an answer is the outcome.    *)
(***************************************************************************)
EXTENDS Registration

wantedBar ==
  [r \in Requests |-> IF addr[r] = NoAddress THEN NoAddress ELSE Lower[addr[r]]]
ownersBar == {r \in Requests : IsStored(r)}
removedBar == {r \in Requests : rows[r] = "deleted"}

Registry == INSTANCE EmailRegistry WITH
  Users <- Requests, Emails <- Addresses, NoEmail <- NoAddress,
  Nothing <- NoAnswer, Created <- 201, Exists <- 409, Invalid <- 400,
  Failed <- 500,
  wanted <- wantedBar, owners <- ownersBar, removed <- removedBar,
  told <- answer

\* Every step of the handlers, the database, the faults and the crashes is a
\* step of the registry or leaves it alone: find-then-insert, with its race,
\* its lost replies and its orphaned statements, is as good as one atomic
\* claim of the e-mail.
ImplementsRegistry == Registry!Spec
=============================================================================
