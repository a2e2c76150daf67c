---------------------------- MODULE EmailRegistry ----------------------------
(***************************************************************************)
(* What registration promises, with neither hashing, nor lookups, nor      *)
(* statements in flight: a registry in which a user asks for an e-mail,    *)
(* gets it in one step or not at all, is announced after that, and is told *)
(* the outcome once.  Module RegistrationRefinement shows that             *)
(* Registration implements it.                                             *)
(***************************************************************************)

CONSTANTS
  Users,    \* users, one for each registration
  Emails,   \* e-mails in canonical spelling
  NoEmail,  \* a user that has not asked
  Nothing,  \* a user that has been told nothing; the other outcomes are
  Created, Exists, Invalid, Failed

VARIABLES
  wanted,     \* wanted[u]: the e-mail u asks for
  owners,     \* the users that got their e-mail, for ever
  removed,    \* owners that have been soft-deleted; they keep their e-mail
  announced,  \* users whose creation has been announced
  told        \* told[u]: the outcome u's client was told

registryVars == <<wanted, owners, removed, announced, told>>

IsOwned(e) == \E u \in owners : wanted[u] = e

Init ==
  /\ wanted = [u \in Users |-> NoEmail]
  /\ owners = {}
  /\ removed = {}
  /\ announced = {}
  /\ told = [u \in Users |-> Nothing]

Ask(u, e) ==
  /\ wanted[u] = NoEmail
  /\ told[u] = Nothing
  /\ wanted' = [wanted EXCEPT ![u] = e]
  /\ UNCHANGED <<owners, removed, announced, told>>

\* Only a user who was told nothing definite can still get an e-mail: a
\* client told Failed may find itself registered, one told Exists may not.
Claim(u) ==
  /\ wanted[u] # NoEmail
  /\ ~IsOwned(wanted[u])
  /\ told[u] \in {Nothing, Failed}
  /\ owners' = owners \union {u}
  /\ UNCHANGED <<wanted, removed, announced, told>>

\* A user is announced while its client still waits, hence at most once.
Announce(u) ==
  /\ u \in owners \ announced
  /\ told[u] = Nothing
  /\ announced' = announced \union {u}
  /\ UNCHANGED <<wanted, owners, removed, told>>

Tell(u, outcome) ==
  /\ told[u] = Nothing
  /\ told' = [told EXCEPT ![u] = outcome]
  /\ UNCHANGED <<wanted, owners, removed, announced>>

TellInvalid(u) == wanted[u] = NoEmail /\ Tell(u, Invalid)

\* The e-mail belongs to somebody else.
TellExists(u) == u \notin owners /\ IsOwned(wanted[u]) /\ Tell(u, Exists)

TellCreated(u) == u \in announced /\ Tell(u, Created)

\* A failure may be told before or after the user asks, with or without the
\* e-mail, never once announced.
TellFailed(u) == u \notin announced /\ Tell(u, Failed)

Remove(u) ==
  /\ u \in owners \ removed
  /\ removed' = removed \union {u}
  /\ UNCHANGED <<wanted, owners, announced, told>>

Next ==
  \E u \in Users :
    \/ \E e \in Emails : Ask(u, e)
    \/ Claim(u) \/ Announce(u)
    \/ TellInvalid(u) \/ TellExists(u) \/ TellCreated(u) \/ TellFailed(u)
    \/ Remove(u)

Spec == Init /\ [][Next]_registryVars
=============================================================================
