---------------------------- MODULE UserAggregate ----------------------------
(***************************************************************************)
(* The User entity: role, status and the list of domain events that the    *)
(* entity collects and the application publishes and clears.  Password     *)
(* and name change nothing else and are left out.  A role change is        *)
(* performed with the role and the id of another user, as the callers in   *)
(* the tests do it.                                                        *)
(***************************************************************************)
EXTENDS Naturals, Sequences, SequencesExt, FiniteSetsExt, UserRules

CONSTANTS
  Users,      \* ids that UserId.generate can return
  MaxEvents   \* bound: events recorded in all

ASSUME BoundAssumption == MaxEvents \in Nat

None == "none"

VARIABLES
  role,       \* role[u], None before the user is created
  status,     \* status[u]
  events,     \* events[u]: the entity's _domainEvents
  published,  \* published[u]: the events of u handed to the publisher
  sent        \* sent[u]: how many of events[u] the loop of
              \* publishDomainEvents has handed over, 0 between two loops

vars == <<role, status, events, published, sent>>

UserCreatedEvent(r) ==
  [type |-> "UserCreated", old |-> None, new |-> r, by |-> None]
UserRoleChangedEvent(from, to, p) ==
  [type |-> "UserRoleChanged", old |-> from, new |-> to, by |-> p]
UserStatusChangedEvent(from, to) ==
  [type |-> "UserStatusChanged", old |-> from, new |-> to, by |-> None]

DomainEvent ==
  {UserCreatedEvent(r) : r \in UserRoleType}
    \union {UserRoleChangedEvent(x, y, p) :
              x \in UserRoleType, y \in UserRoleType, p \in Users}
    \union {UserStatusChangedEvent(x, y) :
              x \in UserStatusType, y \in UserStatusType}

Created == {u \in Users : role[u] # None}

\* The events of u that are still to be handed over.
Pending(u) == SubSeq(events[u], sent[u] + 1, Len(events[u]))

\* All events of u, in the order in which they were recorded.
History(u) == published[u] \o Pending(u)

TypeOK ==
  /\ role \in [Users -> UserRoleType \union {None}]
  /\ status \in [Users -> UserStatusType \union {None}]
  /\ events \in [Users -> Seq(DomainEvent)]
  /\ published \in [Users -> Seq(DomainEvent)]
  /\ sent \in [Users -> Nat]
  /\ \A u \in Users : sent[u] <= Len(events[u])

Init ==
  /\ role = [u \in Users |-> None]
  /\ status = [u \in Users |-> None]
  /\ events = [u \in Users |-> <<>>]
  /\ published = [u \in Users |-> <<>>]
  /\ sent = [u \in Users |-> 0]

----------------------------------------------------------------------------
(* The rules of the value objects and of the entity. *)

roleHierarchy == [free |-> 0, paid |-> 1, enterprise |-> 2, admin |-> 3]

canLogin(u) == status[u] = "active"

\* Slip of canAccessFeature: the status is not looked at.
canAccessFeatureByRole(u, required) ==
  roleHierarchy[role[u]] >= roleHierarchy[required]

canAccessFeature(u, required) ==
  canLogin(u) /\ roleHierarchy[role[u]] >= roleHierarchy[required]

canManageUsers(u) == RoleCanManageUsers(role[u]) /\ canLogin(u)

canCreateUser(u, target) ==
  canManageUsers(u) /\ RoleCanChangeRoleTo(role[u], target)

\* What validateForLogin throws, None when it returns.
validateForLogin(u) ==
  CASE status[u] = "suspended" -> "UserSuspended"
    [] status[u] # "suspended" /\ ~canLogin(u) -> "UserNotActive"
    [] OTHER -> None

----------------------------------------------------------------------------
(* The rules of UserPermissions, which state some of the above again. *)

PermitsCreateUserWithRole(creator, new) ==
  /\ creator \in {"admin", "enterprise"}
  /\ ~(creator = "enterprise" /\ new = "admin")
  /\ ~(creator = "admin" /\ new = "admin")

PermitsAccessFeature(r, required) ==
  roleHierarchy[r] >= roleHierarchy[required]

PermitsManageUsers(r) == r \in {"admin", "enterprise"}

\* Slip of PermitsChangeRole: that nobody is made an admin is left to the
\* callers.
PermitsChangeRoleToAny(performer, current, new) == performer = "admin"

\* canChangeRole looks up the rank of the current role and does not use it.
PermitsChangeRole(performer, current, new) ==
  performer = "admin" /\ new # "admin"

----------------------------------------------------------------------------
Room == MapThenSumSet(LAMBDA u : Len(History(u)), Users) < MaxEvents

addDomainEvent(u, e) == events' = [events EXCEPT ![u] = Append(@, e)]

\* User.create, with any role and status, as UserFactory and the fixtures
\* call it.
Create(u, r, s) ==
  /\ u \notin Created
  /\ Room
  /\ role' = [role EXCEPT ![u] = r]
  /\ status' = [status EXCEPT ![u] = s]
  /\ addDomainEvent(u, UserCreatedEvent(r))
  /\ UNCHANGED <<published, sent>>

\* Slip of ChangeRole: the event is made after the assignment, from the
\* role that is already the new one.
ChangeRoleThenRecord(u, new, p) ==
  /\ {u, p} \subseteq Created
  /\ Room
  /\ CanChangeRoleTo(new, role[p])
  /\ role' = [role EXCEPT ![u] = new]
  /\ addDomainEvent(u, UserRoleChangedEvent(role'[u], new, p))
  /\ UNCHANGED <<status, published, sent>>

\* p performs; neither the status of p nor whether p is u is looked at.
ChangeRole(u, new, p) ==
  /\ {u, p} \subseteq Created
  /\ Room
  /\ CanChangeRoleTo(new, role[p])
  /\ role' = [role EXCEPT ![u] = new]
  /\ addDomainEvent(u, UserRoleChangedEvent(role[u], new, p))
  /\ UNCHANGED <<status, published, sent>>

ChangeStatus(u, s) ==
  /\ u \in Created
  /\ Room
  /\ status' = [status EXCEPT ![u] = s]
  /\ addDomainEvent(u, UserStatusChangedEvent(status[u], s))
  /\ UNCHANGED <<role, published, sent>>

\* Slip of Activate: the user need not have been created.
ActivateUnset(u) ==
  /\ status[u] # "active"
  /\ Room
  /\ status' = [status EXCEPT ![u] = "active"]
  /\ addDomainEvent(u, UserStatusChangedEvent(status[u], "active"))
  /\ UNCHANGED <<role, published, sent>>

\* activate throws when the user is active; suspend and deactivate do not
\* look at the status they replace.
Activate(u) == status[u] # "active" /\ ChangeStatus(u, "active")

Suspend(u) == ChangeStatus(u, "suspended")

Deactivate(u) == ChangeStatus(u, "inactive")

\* publishDomainEvents iterates over the entity's own array and awaits each
\* publish, so what is recorded in the meantime is handed over as well.
PublishNext(u) ==
  /\ sent[u] < Len(events[u])
  /\ published' = [published EXCEPT ![u] = Append(@, events[u][sent[u] + 1])]
  /\ sent' = [sent EXCEPT ![u] = @ + 1]
  /\ UNCHANGED <<role, status, events>>

\* Slip of ClearEvents: the loop is not waited for (forEach with an async
\* callback).
ClearAfterFirst(u) ==
  /\ sent[u] > 0
  /\ events' = [events EXCEPT ![u] = <<>>]
  /\ sent' = [sent EXCEPT ![u] = 0]
  /\ UNCHANGED <<role, status, published>>

\* The last await is over and the array has no further element: clearEvents
\* follows without another await.
ClearEvents(u) ==
  /\ sent[u] > 0
  /\ sent[u] = Len(events[u])
  /\ events' = [events EXCEPT ![u] = <<>>]
  /\ sent' = [sent EXCEPT ![u] = 0]
  /\ UNCHANGED <<role, status, published>>

Next ==
  \E u \in Users :
    \/ \E r \in UserRoleType, s \in UserStatusType : Create(u, r, s)
    \/ \E r \in UserRoleType, p \in Users : ChangeRole(u, r, p)
    \/ Activate(u)
    \/ Suspend(u)
    \/ Deactivate(u)
    \/ PublishNext(u)
    \/ ClearEvents(u)

Spec == Init /\ [][Next]_vars

----------------------------------------------------------------------------
(* Properties. *)

\* What a subscriber that sees all events of a user, in order, makes of
\* them; "broken" once an event does not continue what went before it.
\* UserCreatedEvent has no status, so the first status change is believed.
NothingSeen == [role |-> None, status |-> None]
Broken == [role |-> "broken", status |-> "broken"]

Continue(seen, e) ==
  CASE e.type = "UserCreated" /\ seen.role = None ->
         [seen EXCEPT !.role = e.new]
    [] e.type = "UserRoleChanged" /\ seen.role = e.old ->
         [seen EXCEPT !.role = e.new]
    [] e.type = "UserStatusChanged" /\ seen.status \in {None, e.old} ->
         [seen EXCEPT !.status = e.new]
    [] OTHER -> Broken

Replay(h) ==
  LET seen[n \in 0 .. Len(h)] ==
        IF n = 0 THEN NothingSeen ELSE Continue(seen[n - 1], h[n])
  IN seen[Len(h)]

\* The events are the whole story: replayed, the published and the pending
\* ones give the entity's role, and its status if it ever changed, each
\* event continuing where the one before it ended.
EventsTellState ==
  \A u \in Users :
    /\ Replay(History(u)).role = role[u]
    /\ Replay(History(u)).status \in {None, status[u]}

\* A user is an admin only if created as one and never given another role:
\* no sequence of role changes, by whomever, makes an admin.
AdminsAreCreated ==
  \A u \in Users :
    role[u] = "admin" =>
      \A i \in 1 .. Len(History(u)) :
        /\ History(u)[i].type # "UserRoleChanged"
        /\ History(u)[i].type = "UserCreated" => History(u)[i].new = "admin"

\* The entity and UserPermissions state the same rules twice.  In every state
\* they agree on who manages users, who creates whom and who may use what,
\* the entity adding that the user can log in, which is when validateForLogin
\* does not throw.  On changes of a role they differ, and by just this: the
\* entity lets an enterprise user make them, canChangeRole only an admin
\* ("Only admins can change roles").
RulesDifferByEnterprise ==
  \A u \in Created, r \in UserRoleType :
    /\ canManageUsers(u) <=>
         validateForLogin(u) = None /\ PermitsManageUsers(role[u])
    /\ canCreateUser(u, r) <=>
         validateForLogin(u) = None /\ PermitsCreateUserWithRole(role[u], r)
    /\ canAccessFeature(u, r) <=>
         validateForLogin(u) = None /\ PermitsAccessFeature(role[u], r)
    /\ \A p \in Created :
         CanChangeRoleTo(r, role[p]) <=>
           \/ PermitsChangeRole(role[p], role[u], r)
           \/ role[p] = "enterprise" /\ r # "admin"

\* What is recorded stays recorded, in order, and what is published is never
\* taken back.
HistoryOnlyGrows ==
  [][\A u \in Users : /\ IsPrefix(History(u), History(u)')
                      /\ IsPrefix(published[u], published'[u])]_vars

\* The comment in User.canChangeRoleTo: users cannot change their own roles.
NobodyChangesOwnRole ==
  \A u \in Users : \A i \in 1 .. Len(History(u)) : History(u)[i].by # u
==============================================================================
