------------------------ MODULE UserAggregateProofs --------------------------
(***************************************************************************)
(* For any users and any bound, the entities keep their types, none        *)
(* becomes an admin after its creation, the two statements of the rules    *)
(* differ in the enterprise role only, and the events of a user, however   *)
(* many, tell its state and no rise by its own hand.                       *)
(***************************************************************************)
EXTENDS UserAggregate, SequenceTheorems, WellFoundedInduction, TLAPS

\* The events of s are those of a user who was created an admin and never
\* given another role.
AdminHistory(s) ==
  \A i \in 1 .. Len(s) :
    /\ s[i].type # "UserRoleChanged"
    /\ s[i].type = "UserCreated" => s[i].new = "admin"

LEMMA EventsHaveTypes ==
  /\ \A r \in UserRoleType : UserCreatedEvent(r) \in DomainEvent
  /\ \A x, y \in UserRoleType, p \in Users :
       UserRoleChangedEvent(x, y, p) \in DomainEvent
  /\ \A x, y \in UserStatusType : UserStatusChangedEvent(x, y) \in DomainEvent
  BY DEF DomainEvent

\* Before a user is created nothing has been recorded of it.
StatusInv ==
  \A u \in Users : (role[u] = None <=> status[u] = None)
                   /\ (role[u] = None => events[u] = <<>>
                                         /\ published[u] = <<>>)

IInv ==
  /\ TypeOK
  /\ StatusInv
  /\ \A u \in Users : role[u] = "admin" =>
                        AdminHistory(published[u]) /\ AdminHistory(events[u])

\* A history is an admin's if and only if both of its parts are.
LEMMA AdminHistoryConcat ==
  ASSUME NEW s \in Seq(DomainEvent), NEW t \in Seq(DomainEvent)
  PROVE  AdminHistory(s \o t) <=> AdminHistory(s) /\ AdminHistory(t)
<1>1. ASSUME AdminHistory(s \o t) PROVE AdminHistory(s) /\ AdminHistory(t)
  <2>1. ASSUME NEW i \in 1 .. Len(s)
        PROVE i \in 1 .. Len(s \o t) /\ (s \o t)[i] = s[i]
    OBVIOUS
  <2>2. ASSUME NEW i \in 1 .. Len(t)
        PROVE /\ Len(s) + i \in 1 .. Len(s \o t)
              /\ (s \o t)[Len(s) + i] = t[i]
    OBVIOUS
  <2> QED
    BY <1>1, <2>1, <2>2 DEF AdminHistory
<1>2. ASSUME AdminHistory(s), AdminHistory(t) PROVE AdminHistory(s \o t)
  <2>1. ASSUME NEW i \in 1 .. Len(s \o t)
        PROVE  \/ i \in 1 .. Len(s) /\ (s \o t)[i] = s[i]
               \/ i - Len(s) \in 1 .. Len(t) /\ (s \o t)[i] = t[i - Len(s)]
    OBVIOUS
  <2> QED
    BY <1>2, <2>1 DEF AdminHistory
<1> QED
  BY <1>1, <1>2

\* So are those of the events that a loop has not come to.
LEMMA AdminHistoryRest ==
  ASSUME NEW s \in Seq(DomainEvent), NEW k \in 0 .. Len(s), AdminHistory(s)
  PROVE  AdminHistory(SubSeq(s, k + 1, Len(s)))
<1> DEFINE t == SubSeq(s, k + 1, Len(s))
<1>1. Len(t) = Len(s) - k /\ \A i \in 1 .. Len(t) : t[i] = s[k + i]
  OBVIOUS
<1>2. \A i \in 1 .. Len(t) : k + i \in 1 .. Len(s)
  BY <1>1
<1> HIDE DEF t
<1>3. AdminHistory(t)
  BY <1>1, <1>2 DEF AdminHistory
<1> QED
  BY <1>3 DEF t

LEMMA AdminHistoryAppend ==
  ASSUME NEW s \in Seq(DomainEvent), NEW e \in DomainEvent, AdminHistory(s),
         e.type # "UserRoleChanged",
         e.type = "UserCreated" => e.new = "admin"
  PROVE  AdminHistory(Append(s, e))
  BY DEF AdminHistory

LEMMA InitIInv == Init => IInv
  BY DEF Init, IInv, TypeOK, StatusInv, AdminHistory, None

LEMMA CreateIInv ==
  ASSUME IInv, NEW u \in Users, NEW r \in UserRoleType, NEW s \in UserStatusType,
         Create(u, r, s)
  PROVE  IInv'
<1>1. UserCreatedEvent(r) \in DomainEvent
  BY EventsHaveTypes
<1>2. r # None /\ s # None
  BY DEF UserRoleType, UserStatusType, None
<1>3. TypeOK'
  BY <1>1 DEF IInv, TypeOK, Create, addDomainEvent
<1>4. StatusInv'
  BY <1>2 DEF IInv, TypeOK, StatusInv, Create, addDomainEvent, Created
<1>5. ASSUME NEW v \in Users, role'[v] = "admin"
      PROVE  AdminHistory(published'[v]) /\ AdminHistory(events'[v])
  <2>1. CASE v # u
    BY <1>5, <2>1 DEF IInv, TypeOK, Create, addDomainEvent
  <2>2. CASE v = u
    <3>1. r = "admin" /\ role[u] = None
      BY <1>5, <2>2 DEF IInv, TypeOK, Create, Created
    <3>2. published[u] = <<>> /\ events[u] = <<>>
      BY <3>1 DEF IInv, StatusInv
    <3>3. AdminHistory(<<>>)
      BY DEF AdminHistory
    <3>4. AdminHistory(Append(<<>>, UserCreatedEvent(r)))
      <4>1. <<>> \in Seq(DomainEvent)
        OBVIOUS
      <4>2. /\ UserCreatedEvent(r).type # "UserRoleChanged"
            /\ UserCreatedEvent(r).new = "admin"
        BY <3>1 DEF UserCreatedEvent
      <4> QED
        BY <1>1, <3>3, <4>1, <4>2, AdminHistoryAppend
    <3> QED
      BY <2>2, <3>2, <3>3, <3>4 DEF IInv, TypeOK, Create, addDomainEvent
  <2> QED
    BY <2>1, <2>2
<1> QED
  BY <1>3, <1>4, <1>5 DEF IInv

LEMMA ChangeRoleIInv ==
  ASSUME IInv, NEW u \in Users, NEW new \in UserRoleType, NEW p \in Users,
         ChangeRole(u, new, p)
  PROVE  IInv'
<1>1. u \in Created /\ role[u] \in UserRoleType /\ new # None
  BY DEF ChangeRole, IInv, TypeOK, Created, UserRoleType, None
<1>2. UserRoleChangedEvent(role[u], new, p) \in DomainEvent
  BY <1>1, EventsHaveTypes
<1>3. TypeOK'
  BY <1>2 DEF IInv, TypeOK, ChangeRole, addDomainEvent
<1>4. StatusInv'
  BY <1>1 DEF IInv, TypeOK, StatusInv, ChangeRole, addDomainEvent, Created
<1>5. new # "admin"
  BY DEF ChangeRole, CanChangeRoleTo, RoleCanChangeRoleTo
<1> QED
  BY <1>3, <1>4, <1>5 DEF IInv, TypeOK, ChangeRole, addDomainEvent

LEMMA ChangeStatusIInv ==
  ASSUME IInv, NEW u \in Users, NEW s \in UserStatusType, ChangeStatus(u, s)
  PROVE  IInv'
<1>1. status[u] \in UserStatusType /\ s # None /\ role[u] # None
  BY DEF ChangeStatus, IInv, TypeOK, StatusInv, Created, UserStatusType, None
<1>2. UserStatusChangedEvent(status[u], s) \in DomainEvent
  BY <1>1, EventsHaveTypes
<1>3. TypeOK'
  BY <1>2 DEF IInv, TypeOK, ChangeStatus, addDomainEvent
<1>4. StatusInv'
  BY <1>1 DEF IInv, TypeOK, StatusInv, ChangeStatus, addDomainEvent
<1>5. ASSUME NEW v \in Users, role'[v] = "admin"
      PROVE  AdminHistory(published'[v]) /\ AdminHistory(events'[v])
  <2>1. /\ AdminHistory(published[v]) /\ AdminHistory(events[v])
        /\ events[v] \in Seq(DomainEvent)
    BY <1>5 DEF IInv, TypeOK, ChangeStatus
  <2>2. AdminHistory(Append(events[v], UserStatusChangedEvent(status[u], s)))
    BY <1>2, <2>1, AdminHistoryAppend DEF UserStatusChangedEvent
  <2> QED
    BY <2>1, <2>2 DEF IInv, TypeOK, ChangeStatus, addDomainEvent
<1> QED
  BY <1>3, <1>4, <1>5 DEF IInv

LEMMA PublishNextIInv ==
  ASSUME IInv, NEW u \in Users, PublishNext(u)
  PROVE  IInv'
<1>1. /\ sent[u] \in Nat /\ sent[u] + 1 \in 1 .. Len(events[u])
      /\ events[u] \in Seq(DomainEvent) /\ published[u] \in Seq(DomainEvent)
      /\ events[u][sent[u] + 1] \in DomainEvent
  BY DEF IInv, TypeOK, PublishNext
<1>2. TypeOK'
  BY <1>1 DEF IInv, TypeOK, PublishNext
<1>3. StatusInv'
  <2>1. events[u] # <<>>
    BY <1>1
  <2> QED
    BY <2>1 DEF IInv, TypeOK, StatusInv, PublishNext
<1>4. ASSUME NEW v \in Users, role'[v] = "admin"
      PROVE  AdminHistory(published'[v]) /\ AdminHistory(events'[v])
  <2>1. /\ AdminHistory(published[v]) /\ AdminHistory(events[v])
        /\ events'[v] = events[v]
    BY <1>4 DEF IInv, TypeOK, PublishNext
  <2>2. CASE v # u
    BY <2>1, <2>2 DEF IInv, TypeOK, PublishNext
  <2>3. CASE v = u
    <3> DEFINE e == events[u][sent[u] + 1]
    <3>1. e.type # "UserRoleChanged" /\ (e.type = "UserCreated" => e.new = "admin")
      BY <1>1, <2>1, <2>3 DEF AdminHistory
    <3>2. e \in DomainEvent /\ published'[u] = Append(published[u], e)
      BY <1>1 DEF IInv, TypeOK, PublishNext
    <3> HIDE DEF e
    <3> QED
      BY <1>1, <2>1, <2>3, <3>1, <3>2, AdminHistoryAppend
  <2> QED
    BY <2>2, <2>3
<1> QED
  BY <1>2, <1>3, <1>4 DEF IInv

LEMMA ClearIInv ==
  ASSUME IInv, NEW u \in Users, ClearEvents(u)
  PROVE  IInv'
<1>1. TypeOK'
  BY DEF IInv, TypeOK, ClearEvents
<1>2. StatusInv'
  BY DEF IInv, TypeOK, StatusInv, ClearEvents
<1>3. AdminHistory(<<>>)
  BY DEF AdminHistory
<1> QED
  BY <1>1, <1>2, <1>3 DEF IInv, TypeOK, ClearEvents

LEMMA NextIInv == IInv /\ [Next]_vars => IInv'
<1> SUFFICES ASSUME IInv, [Next]_vars PROVE IInv'
  OBVIOUS
<1>1. CASE UNCHANGED vars
  BY <1>1 DEF vars, IInv, TypeOK, StatusInv
<1>2. ASSUME NEW u \in Users, Activate(u) \/ Suspend(u) \/ Deactivate(u)
      PROVE  IInv'
  <2>1. PICK s \in UserStatusType : ChangeStatus(u, s)
    BY <1>2 DEF Activate, Suspend, Deactivate, UserStatusType
  <2> QED
    BY <2>1, ChangeStatusIInv
<1> QED
  BY <1>1, <1>2, CreateIInv, ChangeRoleIInv, PublishNextIInv, ClearIInv
  DEF Next

LEMMA SpecIInv == Spec => []IInv
  BY InitIInv, NextIInv, PTL DEF Spec

\* The entities keep their types: every event they record is one of the
\* three kinds, with the old and the new value of the right enumeration.
THEOREM TypeCorrect == Spec => []TypeOK
  BY SpecIInv, PTL DEF IInv

\* No sequence of role changes makes anybody an admin.
THEOREM NobodyIsPromotedToAdmin == Spec => []AdminsAreCreated
<1>1. IInv => AdminsAreCreated
  <2> SUFFICES ASSUME IInv, NEW u \in Users, role[u] = "admin"
               PROVE  AdminHistory(History(u))
    BY DEF AdminsAreCreated, AdminHistory
  <2>1. /\ published[u] \in Seq(DomainEvent) /\ events[u] \in Seq(DomainEvent)
        /\ sent[u] \in 0 .. Len(events[u])
        /\ AdminHistory(published[u]) /\ AdminHistory(events[u])
    BY DEF IInv, TypeOK
  <2>2. AdminHistory(Pending(u)) /\ Pending(u) \in Seq(DomainEvent)
    BY <2>1, AdminHistoryRest DEF Pending
  <2> QED
    BY <2>1, <2>2, AdminHistoryConcat DEF History
<1> QED
  BY <1>1, SpecIInv, PTL

\* The entity and UserPermissions, the two places that state the rules of
\* roles, differ in one thing only: changeRole is open to enterprise users and
\* canChangeRole is not.
THEOREM EnterpriseIsTheDifference == Spec => []RulesDifferByEnterprise
<1>1. IInv => RulesDifferByEnterprise
  <2> SUFFICES ASSUME IInv, NEW u \in Created, NEW r \in UserRoleType
               PROVE  /\ canManageUsers(u) <=>
                           /\ validateForLogin(u) = None
                           /\ PermitsManageUsers(role[u])
                      /\ canCreateUser(u, r) <=>
                           /\ validateForLogin(u) = None
                           /\ PermitsCreateUserWithRole(role[u], r)
                      /\ canAccessFeature(u, r) <=>
                           /\ validateForLogin(u) = None
                           /\ PermitsAccessFeature(role[u], r)
                      /\ \A p \in Created :
                           CanChangeRoleTo(r, role[p]) <=>
                             \/ PermitsChangeRole(role[p], role[u], r)
                             \/ role[p] = "enterprise" /\ r # "admin"
    BY DEF RulesDifferByEnterprise
  <2>1. canLogin(u) <=> validateForLogin(u) = None
    BY DEF canLogin, validateForLogin, None
  <2>2. RoleCanManageUsers(role[u]) /\ RoleCanChangeRoleTo(role[u], r)
          <=> PermitsCreateUserWithRole(role[u], r)
    BY DEF RoleCanManageUsers, RoleCanChangeRoleTo, PermitsCreateUserWithRole
  <2>3. \A p \in Created :
          CanChangeRoleTo(r, role[p]) <=>
            \/ PermitsChangeRole(role[p], role[u], r)
            \/ role[p] = "enterprise" /\ r # "admin"
    BY DEF CanChangeRoleTo, RoleCanManageUsers, RoleCanChangeRoleTo,
           PermitsChangeRole
  <2> QED
    BY <2>1, <2>2, <2>3
    DEF canCreateUser, canManageUsers, RoleCanManageUsers, PermitsManageUsers,
        canAccessFeature, PermitsAccessFeature
<1> QED
  BY <1>1, SpecIInv, PTL

\* A sequence is a prefix of itself with another one after it.
LEMMA PrefixConcat ==
  ASSUME NEW s \in Seq(DomainEvent), NEW t \in Seq(DomainEvent)
  PROVE  IsPrefix(s, s \o t)
  BY DEF IsPrefix

\* What the loop over the events has not come to, as a sequence: it grows with
\* the array, and its first element is the next to be published.
LEMMA RestOfEvents ==
  ASSUME NEW s \in Seq(DomainEvent), NEW k \in 0 .. Len(s)
  PROVE  /\ SubSeq(s, k + 1, Len(s)) \in Seq(DomainEvent)
         /\ k = Len(s) => SubSeq(s, k + 1, Len(s)) = <<>>
         /\ \A e \in DomainEvent :
              SubSeq(Append(s, e), k + 1, Len(Append(s, e))) =
                Append(SubSeq(s, k + 1, Len(s)), e)
         /\ k < Len(s) => SubSeq(s, k + 1, Len(s)) =
                            <<s[k + 1]>> \o SubSeq(s, (k + 1) + 1, Len(s))
<1>1. SubSeq(s, k + 1, Len(s)) \in Seq(DomainEvent)
  OBVIOUS
<1>2. k = Len(s) => SubSeq(s, k + 1, Len(s)) = <<>>
  BY SubSeqEmpty
<1>3. ASSUME NEW e \in DomainEvent
      PROVE  SubSeq(Append(s, e), k + 1, Len(Append(s, e))) =
               Append(SubSeq(s, k + 1, Len(s)), e)
  <2> DEFINE t == SubSeq(Append(s, e), k + 1, Len(Append(s, e)))
             w == Append(SubSeq(s, k + 1, Len(s)), e)
  <2>1. t \in Seq(DomainEvent) /\ w \in Seq(DomainEvent)
    OBVIOUS
  <2>2. Len(t) = Len(s) + 1 - k /\ Len(w) = Len(s) + 1 - k
    OBVIOUS
  <2>3. ASSUME NEW i \in 1 .. Len(s) + 1 - k PROVE t[i] = w[i]
    OBVIOUS
  <2> HIDE DEF t, w
  <2>4. t = w
    BY <2>1, <2>2, <2>3, SeqEqual
  <2> QED
    BY <2>4 DEF t, w
<1>4. k < Len(s) => SubSeq(s, k + 1, Len(s)) =
                      <<s[k + 1]>> \o SubSeq(s, (k + 1) + 1, Len(s))
  BY SubSeqRecursiveFirst
<1> QED
  BY <1>1, <1>2, <1>3, <1>4

LEMMA HistoryTyped ==
  ASSUME IInv, NEW v \in Users
  PROVE  /\ events[v] \in Seq(DomainEvent) /\ sent[v] \in 0 .. Len(events[v])
         /\ published[v] \in Seq(DomainEvent) /\ Pending(v) \in Seq(DomainEvent)
         /\ History(v) \in Seq(DomainEvent)
<1>1. /\ events[v] \in Seq(DomainEvent) /\ sent[v] \in 0 .. Len(events[v])
      /\ published[v] \in Seq(DomainEvent)
  BY DEF IInv, TypeOK
<1>2. Pending(v) \in Seq(DomainEvent)
  BY <1>1, RestOfEvents DEF Pending
<1> QED
  BY <1>1, <1>2 DEF History

\* Of whom nothing was recorded the history is empty.
LEMMA NothingPending ==
  ASSUME IInv, NEW v \in Users, events[v] = <<>>, published[v] = <<>>
  PROVE  History(v) = <<>>
<1>1. sent[v] = 0 /\ Len(events[v]) = 0
  BY HistoryTyped
<1>2. Pending(v) = <<>>
  BY <1>1, HistoryTyped, RestOfEvents DEF Pending
<1>3. <<>> \o <<>> = <<>>
  OBVIOUS
<1> QED
  BY <1>2, <1>3 DEF History

\* Recording an event adds it to the end of its user's history, also while
\* the loop over the events is under way.
LEMMA RecordGrows ==
  ASSUME IInv, NEW u \in Users, NEW e \in DomainEvent, addDomainEvent(u, e),
         UNCHANGED <<published, sent>>, NEW v \in Users
  PROVE  History(v)' = IF v = u THEN Append(History(u), e) ELSE History(v)
<1>1. events'[v] = IF v = u THEN Append(events[v], e) ELSE events[v]
  BY DEF addDomainEvent, IInv, TypeOK
<1>2. CASE v # u
  BY <1>1, <1>2 DEF History, Pending
<1>3. CASE v = u
  <2>1. Pending(u)' = Append(Pending(u), e)
    <3>1. /\ events[u] \in Seq(DomainEvent) /\ sent[u] \in 0 .. Len(events[u])
          /\ events'[u] = Append(events[u], e) /\ sent'[u] = sent[u]
      BY <1>1, <1>3, HistoryTyped
    <3>2. Pending(u)' = SubSeq(events'[u], sent'[u] + 1, Len(events'[u]))
      BY DEF Pending
    <3>3. Pending(u) = SubSeq(events[u], sent[u] + 1, Len(events[u]))
      BY DEF Pending
    <3> QED
      BY <3>1, <3>2, <3>3, RestOfEvents
  <2>2. \A s, t \in Seq(DomainEvent) : s \o Append(t, e) = Append(s \o t, e)
    <3>1. \A s, t \in Seq(DomainEvent) : s \o Append(t, e) = (s \o t) \o <<e>>
      OBVIOUS
    <3>2. \A s, t \in Seq(DomainEvent) : s \o t \in Seq(DomainEvent)
      OBVIOUS
    <3>3. \A s \in Seq(DomainEvent) : s \o <<e>> = Append(s, e)
      OBVIOUS
    <3> QED
      BY <3>1, <3>2, <3>3
  <2>3. published[u] \o Append(Pending(u), e) = Append(History(u), e)
    BY <2>2, HistoryTyped DEF History
  <2> QED
    BY <1>3, <2>1, <2>3 DEF History
<1> QED
  BY <1>2, <1>3

\* Publishing moves the first pending event to the end of the published ones.
LEMMA PublishKeepsHistory ==
  ASSUME IInv, NEW u \in Users, PublishNext(u), NEW v \in Users
  PROVE  /\ History(v)' = History(v)
         /\ \E s \in Seq(DomainEvent) : published'[v] = published[v] \o s
<1>1. CASE v # u
  <2>1. /\ published'[v] = published[v] /\ events'[v] = events[v]
        /\ sent'[v] = sent[v]
    BY <1>1 DEF PublishNext, IInv, TypeOK
  <2>2. published[v] = published[v] \o <<>> /\ <<>> \in Seq(DomainEvent)
    BY HistoryTyped
  <2> QED
    BY <2>1, <2>2 DEF History, Pending
<1>2. CASE v = u
  <2> DEFINE e == events[u][sent[u] + 1]
             t == SubSeq(events[u], (sent[u] + 1) + 1, Len(events[u]))
  <2>1. /\ published'[u] = Append(published[u], e) /\ events'[u] = events[u]
        /\ sent'[u] = sent[u] + 1 /\ sent[u] < Len(events[u])
    BY DEF PublishNext, IInv, TypeOK
  <2>2. e \in DomainEvent /\ t \in Seq(DomainEvent)
    <3>1. sent[u] + 1 \in 0 .. Len(events[u]) /\ sent[u] + 1 \in 1 .. Len(events[u])
      BY <2>1, HistoryTyped
    <3> QED
      BY <3>1, HistoryTyped, RestOfEvents
  <2>3. Pending(u) = <<e>> \o t
    BY <2>1, HistoryTyped, RestOfEvents DEF Pending
  <2>4. Pending(u)' = t
    BY <2>1 DEF Pending
  <2> HIDE DEF e, t
  <2>5. published'[u] = published[u] \o <<e>>
    <3>1. \A s \in Seq(DomainEvent), x \in DomainEvent : Append(s, x) = s \o <<x>>
      OBVIOUS
    <3>2. published[u] \in Seq(DomainEvent)
      BY HistoryTyped
    <3> QED
      BY <2>1, <2>2, <3>1, <3>2
  <2>6. <<e>> \in Seq(DomainEvent)
    BY <2>2
  <2>7. (published[u] \o <<e>>) \o t = published[u] \o (<<e>> \o t)
    <3>1. \A x, y, z \in Seq(DomainEvent) : (x \o y) \o z = x \o (y \o z)
      BY ConcatAssociative
    <3>2. published[u] \in Seq(DomainEvent)
      BY HistoryTyped
    <3> QED
      BY <2>2, <2>6, <3>1, <3>2
  <2>8. History(u)' = History(u)
    BY <2>3, <2>4, <2>5, <2>7 DEF History
  <2> QED
    BY <1>2, <2>5, <2>6, <2>8
<1> QED
  BY <1>1, <1>2

\* Clearing removes events that have all been published.
LEMMA ClearKeepsHistory ==
  ASSUME IInv, NEW u \in Users, ClearEvents(u), NEW v \in Users
  PROVE  History(v)' = History(v) /\ published'[v] = published[v]
<1>1. CASE v # u
  <2>1. /\ published'[v] = published[v] /\ events'[v] = events[v]
        /\ sent'[v] = sent[v]
    BY <1>1 DEF ClearEvents, IInv, TypeOK
  <2> QED
    BY <2>1 DEF History, Pending
<1>2. CASE v = u
  <2>1. /\ published' = published /\ events'[u] = <<>> /\ sent'[u] = 0
        /\ sent[u] = Len(events[u])
    BY DEF ClearEvents, IInv, TypeOK
  <2>2. Pending(u) = <<>>
    BY <2>1, HistoryTyped, RestOfEvents DEF Pending
  <2>3. Pending(u)' = <<>>
    BY <2>1 DEF Pending
  <2> QED
    BY <1>2, <2>1, <2>2, <2>3 DEF History
<1> QED
  BY <1>1, <1>2

\* Whatever is not publishing or clearing records one event; a change of role
\* is one that the role of its performer permits.
LEMMA ChangesRecord ==
  ASSUME IInv, NEW u \in Users,
         \/ \E r \in UserRoleType, s \in UserStatusType : Create(u, r, s)
         \/ \E r \in UserRoleType, p \in Users : ChangeRole(u, r, p)
         \/ Activate(u) \/ Suspend(u) \/ Deactivate(u)
  PROVE  \E e \in DomainEvent :
           /\ addDomainEvent(u, e)
           /\ UNCHANGED <<published, sent>>
           /\ e.type = "UserRoleChanged" =>
                \E new \in UserRoleType, p \in Users :
                  /\ CanChangeRoleTo(new, role[p])
                  /\ e = UserRoleChangedEvent(role[u], new, p)
<1>1. ASSUME NEW r \in UserRoleType, NEW s \in UserStatusType, Create(u, r, s)
      PROVE  \E e \in DomainEvent : /\ addDomainEvent(u, e)
                                    /\ UNCHANGED <<published, sent>>
                                    /\ e.type # "UserRoleChanged"
  BY <1>1, EventsHaveTypes DEF Create, UserCreatedEvent
<1>2. ASSUME NEW s \in UserStatusType, ChangeStatus(u, s)
      PROVE  \E e \in DomainEvent : /\ addDomainEvent(u, e)
                                    /\ UNCHANGED <<published, sent>>
                                    /\ e.type # "UserRoleChanged"
  <2>1. status[u] \in UserStatusType
    BY <1>2 DEF ChangeStatus, Created, IInv, TypeOK, StatusInv
  <2> QED
    BY <1>2, <2>1, EventsHaveTypes DEF ChangeStatus, UserStatusChangedEvent
<1>3. ASSUME Activate(u) \/ Suspend(u) \/ Deactivate(u)
      PROVE  \E s \in UserStatusType : ChangeStatus(u, s)
  BY <1>3 DEF Activate, Suspend, Deactivate, UserStatusType
<1>4. ASSUME NEW new \in UserRoleType, NEW p \in Users, ChangeRole(u, new, p)
      PROVE  LET e == UserRoleChangedEvent(role[u], new, p)
             IN /\ e \in DomainEvent /\ addDomainEvent(u, e)
                /\ UNCHANGED <<published, sent>>
                /\ CanChangeRoleTo(new, role[p])
  <2>1. role[u] \in UserRoleType
    BY <1>4 DEF ChangeRole, Created, IInv, TypeOK
  <2> QED
    BY <1>4, <2>1, EventsHaveTypes DEF ChangeRole
<1> QED
  BY <1>1, <1>2, <1>3, <1>4

\* What a step does to a history: nothing, or it adds one event.
LEMMA StepRecords ==
  ASSUME IInv, [Next]_vars, NEW v \in Users
  PROVE  \/ History(v)' = History(v)
         \/ \E e \in DomainEvent :
              /\ History(v)' = Append(History(v), e)
              /\ e.type = "UserRoleChanged" =>
                   \E new \in UserRoleType, p \in Users :
                     /\ CanChangeRoleTo(new, role[p])
                     /\ e = UserRoleChangedEvent(role[v], new, p)
<1>1. CASE UNCHANGED vars
  BY <1>1 DEF vars, History, Pending
<1>2. CASE \E u \in Users : PublishNext(u) \/ ClearEvents(u)
  BY <1>2, PublishKeepsHistory, ClearKeepsHistory
<1>3. ASSUME NEW u \in Users,
             \/ \E r \in UserRoleType, s \in UserStatusType : Create(u, r, s)
             \/ \E r \in UserRoleType, p \in Users : ChangeRole(u, r, p)
             \/ Activate(u) \/ Suspend(u) \/ Deactivate(u)
      PROVE  \/ History(v)' = History(v)
             \/ \E e \in DomainEvent :
                  /\ History(v)' = Append(History(v), e)
                  /\ e.type = "UserRoleChanged" =>
                       \E new \in UserRoleType, p \in Users :
                         /\ CanChangeRoleTo(new, role[p])
                         /\ e = UserRoleChangedEvent(role[v], new, p)
  <2>1. PICK e \in DomainEvent :
               /\ addDomainEvent(u, e)
               /\ UNCHANGED <<published, sent>>
               /\ e.type = "UserRoleChanged" =>
                    \E new \in UserRoleType, p \in Users :
                      /\ CanChangeRoleTo(new, role[p])
                      /\ e = UserRoleChangedEvent(role[u], new, p)
    BY <1>3, ChangesRecord
  <2>2. History(v)' = IF v = u THEN Append(History(u), e) ELSE History(v)
    BY <2>1, RecordGrows
  <2> QED
    BY <2>1, <2>2
<1> QED
  BY <1>1, <1>2, <1>3 DEF Next

\* The published part of a history stays or grows at its end.
LEMMA StepPublishes ==
  ASSUME IInv, [Next]_vars, NEW v \in Users
  PROVE  \E s \in Seq(DomainEvent) : published'[v] = published[v] \o s
<1>1. published[v] = published[v] \o <<>> /\ <<>> \in Seq(DomainEvent)
  BY HistoryTyped
<1>2. CASE \E u \in Users : PublishNext(u)
  BY <1>2, PublishKeepsHistory
<1>3. CASE UNCHANGED published
  BY <1>1, <1>3
<1>4. ASSUME NEW u \in Users,
             \/ \E r \in UserRoleType, s \in UserStatusType : Create(u, r, s)
             \/ \E r \in UserRoleType, p \in Users : ChangeRole(u, r, p)
             \/ Activate(u) \/ Suspend(u) \/ Deactivate(u)
      PROVE  UNCHANGED published
  BY <1>4, ChangesRecord
<1>5. ASSUME NEW u \in Users, ClearEvents(u) PROVE UNCHANGED published
  BY <1>5 DEF ClearEvents
<1>6. UNCHANGED vars => UNCHANGED published
  BY DEF vars
<1> QED
  BY <1>2, <1>3, <1>4, <1>5, <1>6 DEF Next

\* No step takes a recorded event back or changes its place.
THEOREM NothingIsTakenBack == Spec => HistoryOnlyGrows
<1>1. IInv /\ [Next]_vars =>
        [\A u \in Users : /\ IsPrefix(History(u), History(u)')
                          /\ IsPrefix(published[u], published'[u])]_vars
  <2> SUFFICES ASSUME IInv, [Next]_vars, NEW v \in Users
               PROVE  /\ IsPrefix(History(v), History(v)')
                      /\ IsPrefix(published[v], published'[v])
    OBVIOUS
  <2>1. published[v] \in Seq(DomainEvent) /\ History(v) \in Seq(DomainEvent)
    BY HistoryTyped
  <2>2. \E s \in Seq(DomainEvent) : History(v)' = History(v) \o s
    <3>1. History(v) = History(v) \o <<>> /\ <<>> \in Seq(DomainEvent)
      BY <2>1
    <3>2. \A e \in DomainEvent : /\ Append(History(v), e) = History(v) \o <<e>>
                                 /\ <<e>> \in Seq(DomainEvent)
      BY <2>1
    <3> QED
      BY <3>1, <3>2, StepRecords
  <2> QED
    BY <2>1, <2>2, StepPublishes, PrefixConcat
<1> QED
  BY <1>1, SpecIInv, PTL DEF Spec, HistoryOnlyGrows

----------------------------------------------------------------------------
(* What a subscriber can conclude from the events.                         *)

\* Induction without an operator parameter: a set of numbers has a least one.
LEMMA LeastNumber ==
  ASSUME NEW T \in SUBSET Nat, T # {}
  PROVE  \E n \in T : \A m \in T : n <= m
<1> DEFINE R == {p \in Nat \X Nat : p[1] < p[2]}
<1>1. IsWellFoundedOn(R, Nat)
  BY NatLessThanWellFounded DEF OpToRel
<1>2. ASSUME NEW m \in Nat, NEW n \in Nat, <<m, n>> \notin R
      PROVE  n <= m
  <2>1. <<m, n>> \in Nat \X Nat /\ <<m, n>>[1] = m /\ <<m, n>>[2] = n
    OBVIOUS
  <2>2. ~(m < n)
    BY <1>2, <2>1
  <2> QED
    BY <2>2
<1> HIDE DEF R
<1>3. \E n \in T : \A m \in T : <<m, n>> \notin R
  BY <1>1, WFMin
<1> QED
  BY <1>2, <1>3

\* f is what the subscriber has seen after each of the first n events of h.
Seen(f, h, n) ==
  f = [i \in 0 .. n |->
         IF i = 0 THEN NothingSeen ELSE Continue(f[i - 1], h[i])]

\* After any number of the events a subscriber has seen something.
LEMMA SeenExists ==
  ASSUME NEW h \in Seq(DomainEvent), NEW n \in 0 .. Len(h)
  PROVE  \E f : Seen(f, h, n)
<1> DEFINE T == {i \in 0 .. n : ~ \E f : Seen(f, h, i)}
<1>1. n \in 0 .. n /\ T \in SUBSET Nat
  OBVIOUS
<1>2. SUFFICES ASSUME T # {} PROVE FALSE
  BY <1>1
<1>3. PICK i \in T : \A j \in T : i <= j
  <2> HIDE DEF T
  <2> QED
    BY <1>1, <1>2, LeastNumber
<1>4. CASE i = 0
  <2>1. Seen([k \in 0 .. 0 |-> NothingSeen], h, 0)
    BY DEF Seen
  <2> QED
    BY <1>4, <2>1
<1>5. CASE i # 0
  <2>1. i - 1 \in 0 .. n /\ i - 1 \notin T /\ i \in Nat \ {0}
    BY <1>3, <1>5
  <2>2. PICK f : Seen(f, h, i - 1)
    BY <2>1
  <2> DEFINE g == [k \in 0 .. i |->
                     IF k = i THEN Continue(f[i - 1], h[i]) ELSE f[k]]
  <2>3. ASSUME NEW k \in 0 .. i
        PROVE  g[k] = IF k = 0 THEN NothingSeen ELSE Continue(g[k - 1], h[k])
    <3>1. CASE k = i
      <4>1. g[k] = Continue(f[i - 1], h[i])
        BY <3>1
      <4>2. g[k - 1] = f[i - 1]
        BY <2>1, <3>1
      <4> QED
        BY <2>1, <3>1, <4>1, <4>2
    <3>2. CASE k # i
      <4>1. k \in 0 .. i - 1
        BY <2>1, <3>2
      <4>2. f[k] = IF k = 0 THEN NothingSeen ELSE Continue(f[k - 1], h[k])
        BY <2>2, <4>1 DEF Seen
      <4>3. k # 0 => k - 1 \in 0 .. i /\ k - 1 # i
        BY <2>1, <4>1
      <4> QED
        BY <3>2, <4>2, <4>3
    <3> QED
      BY <3>1, <3>2
  <2>4. g = [k \in 0 .. i |->
               IF k = 0 THEN NothingSeen ELSE Continue(g[k - 1], h[k])]
    BY <2>3
  <2>5. Seen(g, h, i)
    BY <2>4 DEF Seen
  <2> QED
    BY <2>5
<1> QED
  BY <1>4, <1>5

\* Two histories that agree on their first n events are seen alike.
LEMMA SeenUnique ==
  ASSUME NEW h, NEW t, NEW n \in Nat, NEW m \in Nat, NEW f, NEW g, n <= m,
         Seen(f, h, n), Seen(g, t, m), \A i \in 1 .. n : h[i] = t[i]
  PROVE  f[n] = g[n]
<1> DEFINE T == {i \in 0 .. n : f[i] # g[i]}
<1>1. n \in 0 .. n /\ T \in SUBSET Nat
  OBVIOUS
<1>2. SUFFICES ASSUME T # {} PROVE FALSE
  BY <1>1
<1>3. PICK i \in T : \A j \in T : i <= j
  <2> HIDE DEF T
  <2> QED
    BY <1>1, <1>2, LeastNumber
<1>4. i \in 0 .. n /\ i \in 0 .. m
  OBVIOUS
<1>5. /\ f[i] = IF i = 0 THEN NothingSeen ELSE Continue(f[i - 1], h[i])
      /\ g[i] = IF i = 0 THEN NothingSeen ELSE Continue(g[i - 1], t[i])
  BY <1>4 DEF Seen
<1>6. i # 0
  BY <1>5
<1>7. i - 1 \in 0 .. n /\ i \in 1 .. n /\ i - 1 \notin T
  BY <1>3, <1>4, <1>6
<1>8. f[i - 1] = g[i - 1] /\ h[i] = t[i]
  BY <1>7
<1> QED
  BY <1>5, <1>6, <1>8

LEMMA ReplayIs ==
  ASSUME NEW h \in Seq(DomainEvent)
  PROVE  \E f : Seen(f, h, Len(h)) /\ Replay(h) = f[Len(h)]
<1>1. Replay(h) = (CHOOSE f : Seen(f, h, Len(h)))[Len(h)]
  BY DEF Replay, Seen
<1>2. Len(h) \in 0 .. Len(h)
  OBVIOUS
<1> QED
  BY <1>1, <1>2, SeenExists

\* What the subscriber makes of the events is defined for every history, and
\* one more event continues it.
LEMMA ReplayEmpty == Replay(<<>>) = NothingSeen
<1>1. <<>> \in Seq(DomainEvent) /\ Len(<<>>) = 0 /\ 0 \in 0 .. 0
  OBVIOUS
<1> QED
  BY <1>1, ReplayIs DEF Seen

LEMMA ReplayAppend ==
  ASSUME NEW h \in Seq(DomainEvent), NEW e \in DomainEvent
  PROVE  Replay(Append(h, e)) = Continue(Replay(h), e)
<1> DEFINE t == Append(h, e)
           n == Len(h)
<1>1. /\ t \in Seq(DomainEvent) /\ Len(t) = n + 1 /\ t[n + 1] = e
      /\ \A i \in 1 .. n : h[i] = t[i]
      /\ n \in Nat
  OBVIOUS
<1> HIDE DEF t
<1>2. PICK f : Seen(f, h, n) /\ Replay(h) = f[n]
  BY ReplayIs
<1>3. PICK g : Seen(g, t, n + 1) /\ Replay(t) = g[n + 1]
  BY <1>1, ReplayIs
<1> HIDE DEF n
<1>4. f[n] = g[n]
  BY <1>1, <1>2, <1>3, SeenUnique
<1>5. g[n + 1] = Continue(g[n], t[n + 1])
  <2>1. n + 1 \in 0 .. n + 1 /\ n + 1 # 0 /\ (n + 1) - 1 = n
    BY <1>1
  <2> QED
    BY <1>3, <2>1 DEF Seen
<1>6. Replay(t) = Continue(Replay(h), e)
  BY <1>1, <1>2, <1>3, <1>4, <1>5
<1> QED
  BY <1>6 DEF t

\* h tells role r, and status s unless it tells no status at all.
Tells(h, r, s) ==
  \E x \in {None, s} : Replay(h) = [role |-> r, status |-> x]

ToldInv == \A u \in Users : Tells(History(u), role[u], status[u])

LEMMA CreateTold ==
  ASSUME IInv, ToldInv, NEW u \in Users, NEW r \in UserRoleType,
         NEW s \in UserStatusType, Create(u, r, s)
  PROVE  ToldInv'
<1> DEFINE e == UserCreatedEvent(r)
<1>1. e \in DomainEvent /\ addDomainEvent(u, e) /\ UNCHANGED <<published, sent>>
  BY EventsHaveTypes DEF Create
<1>2. role[u] = None /\ History(u) = <<>>
  <2>1. role[u] = None /\ events[u] = <<>> /\ published[u] = <<>>
    BY DEF Create, Created, IInv, StatusInv
  <2> QED
    BY <2>1, NothingPending
<1>3. Replay(<<>>) = NothingSeen /\ <<>> \in Seq(DomainEvent)
  BY ReplayEmpty
<1>4. Replay(Append(<<>>, e)) = Continue(NothingSeen, e)
  BY <1>1, <1>3, ReplayAppend
<1>5. Continue(NothingSeen, e) = [role |-> r, status |-> None]
  BY DEF Continue, NothingSeen, UserCreatedEvent
<1> SUFFICES ASSUME NEW v \in Users
             PROVE  Tells(History(v)', role'[v], status'[v])
  BY DEF ToldInv
<1>6. /\ History(v)' =
           IF v = u THEN Append(<<>>, e) ELSE History(v)
      /\ role'[v] = IF v = u THEN r ELSE role[v]
      /\ v # u => status'[v] = status[v]
  BY <1>1, <1>2, RecordGrows DEF Create, IInv, TypeOK
<1> HIDE DEF e
<1> QED
  BY <1>4, <1>5, <1>6 DEF ToldInv, Tells

LEMMA ChangeRoleTold ==
  ASSUME IInv, ToldInv, NEW u \in Users, NEW new \in UserRoleType,
         NEW p \in Users, ChangeRole(u, new, p)
  PROVE  ToldInv'
<1> DEFINE e == UserRoleChangedEvent(role[u], new, p)
<1>1. e \in DomainEvent /\ addDomainEvent(u, e) /\ UNCHANGED <<published, sent>>
  <2>1. role[u] \in UserRoleType
    BY DEF ChangeRole, Created, IInv, TypeOK
  <2> QED
    BY <2>1, EventsHaveTypes DEF ChangeRole
<1>2. PICK x \in {None, status[u]} :
        Replay(History(u)) = [role |-> role[u], status |-> x]
  BY DEF ToldInv, Tells
<1>3. Continue([role |-> role[u], status |-> x], e) = [role |-> new, status |-> x]
  BY DEF Continue, UserRoleChangedEvent
<1>4. Replay(Append(History(u), e)) = [role |-> new, status |-> x]
  <2>1. History(u) \in Seq(DomainEvent)
    BY HistoryTyped
  <2> HIDE DEF e
  <2> QED
    BY <1>1, <1>2, <1>3, <2>1, ReplayAppend
<1> SUFFICES ASSUME NEW v \in Users
             PROVE  Tells(History(v)', role'[v], status'[v])
  BY DEF ToldInv
<1>5. /\ History(v)' =
           IF v = u THEN Append(History(u), e) ELSE History(v)
      /\ role'[v] = IF v = u THEN new ELSE role[v]
      /\ status'[v] = status[v]
  BY <1>1, RecordGrows DEF ChangeRole, IInv, TypeOK
<1> HIDE DEF e
<1> QED
  BY <1>4, <1>5 DEF ToldInv, Tells

LEMMA ChangeStatusTold ==
  ASSUME IInv, ToldInv, NEW u \in Users, NEW s \in UserStatusType,
         ChangeStatus(u, s)
  PROVE  ToldInv'
<1> DEFINE e == UserStatusChangedEvent(status[u], s)
<1>1. e \in DomainEvent /\ addDomainEvent(u, e) /\ UNCHANGED <<published, sent>>
  <2>1. status[u] \in UserStatusType
    BY DEF ChangeStatus, Created, IInv, TypeOK, StatusInv
  <2> QED
    BY <2>1, EventsHaveTypes DEF ChangeStatus
<1>2. PICK x \in {None, status[u]} :
        Replay(History(u)) = [role |-> role[u], status |-> x]
  BY DEF ToldInv, Tells
<1>3. Continue([role |-> role[u], status |-> x], e) = [role |-> role[u], status |-> s]
  BY DEF Continue, UserStatusChangedEvent
<1>4. Replay(Append(History(u), e)) = [role |-> role[u], status |-> s]
  <2>1. History(u) \in Seq(DomainEvent)
    BY HistoryTyped
  <2> HIDE DEF e
  <2> QED
    BY <1>1, <1>2, <1>3, <2>1, ReplayAppend
<1> SUFFICES ASSUME NEW v \in Users
             PROVE  Tells(History(v)', role'[v], status'[v])
  BY DEF ToldInv
<1>5. /\ History(v)' =
           IF v = u THEN Append(History(u), e) ELSE History(v)
      /\ role'[v] = role[v]
      /\ status'[v] = IF v = u THEN s ELSE status[v]
  BY <1>1, RecordGrows DEF ChangeStatus, IInv, TypeOK
<1> HIDE DEF e
<1> QED
  BY <1>4, <1>5 DEF ToldInv, Tells

LEMMA NextTold == IInv /\ ToldInv /\ [Next]_vars => ToldInv'
<1> SUFFICES ASSUME IInv, ToldInv, [Next]_vars PROVE ToldInv'
  OBVIOUS
<1>1. CASE UNCHANGED vars
  BY <1>1 DEF vars, ToldInv, History, Pending
<1>2. ASSUME NEW u \in Users, PublishNext(u) \/ ClearEvents(u)
      PROVE  ToldInv'
  <2> SUFFICES ASSUME NEW v \in Users
               PROVE  Tells(History(v)', role'[v], status'[v])
    BY DEF ToldInv
  <2>1. History(v)' = History(v)
    BY <1>2, PublishKeepsHistory, ClearKeepsHistory
  <2>2. UNCHANGED <<role, status>>
    BY <1>2 DEF PublishNext, ClearEvents
  <2> QED
    BY <2>1, <2>2 DEF ToldInv
<1>3. ASSUME NEW u \in Users, Activate(u) \/ Suspend(u) \/ Deactivate(u)
      PROVE  ToldInv'
  <2>1. PICK s \in UserStatusType : ChangeStatus(u, s)
    BY <1>3 DEF Activate, Suspend, Deactivate, UserStatusType
  <2> QED
    BY <2>1, ChangeStatusTold
<1> QED
  BY <1>1, <1>2, <1>3, CreateTold, ChangeRoleTold DEF Next

\* Whoever replays the published and the pending events of a user, however
\* many, in their order, knows its role, and its status if it ever changed;
\* no event contradicts what went before it.
THEOREM EventsAreTheStory == Spec => []EventsTellState
<1>1. Init => ToldInv
  <2> SUFFICES ASSUME Init, NEW u \in Users
               PROVE  Tells(History(u), role[u], status[u])
    BY DEF ToldInv
  <2>1. History(u) = <<>>
    BY InitIInv, NothingPending DEF Init
  <2> QED
    BY <2>1, ReplayEmpty DEF Init, Tells, NothingSeen
<1>2. ToldInv => EventsTellState
  BY DEF ToldInv, Tells, EventsTellState
<1> QED
  BY <1>1, <1>2, NextTold, SpecIInv, PTL DEF Spec

\* Who changes its own role never rises by it: nobody gains from the missing
\* comparison of the performer with the user.
OwnRoleNeverRises ==
  \A u \in Users : \A i \in 1 .. Len(History(u)) :
    LET e == History(u)[i]
    IN e.type = "UserRoleChanged" /\ e.by = u =>
         roleHierarchy[e.new] <= roleHierarchy[e.old]

\* No history, whatever changes of role it holds, contains one by which a
\* user raised itself.
THEOREM NobodyRaisesItself == Spec => []OwnRoleNeverRises
<1> DEFINE Fine(e, u) == e.type = "UserRoleChanged" /\ e.by = u =>
                           roleHierarchy[e.new] <= roleHierarchy[e.old]
           Kept == \A u \in Users : \A i \in 1 .. Len(History(u)) :
                     Fine(History(u)[i], u)
<1>1. Init => Kept
  <2> SUFFICES ASSUME Init, NEW u \in Users PROVE History(u) = <<>>
    OBVIOUS
  <2> QED
    BY InitIInv, NothingPending DEF Init
<1>2. ASSUME IInv, Kept, [Next]_vars PROVE Kept'
  <2> SUFFICES ASSUME NEW v \in Users
               PROVE  LET h == History(v)'
                      IN \A i \in 1 .. Len(h) : Fine(h[i], v)
    BY DEF History
  <2>1. History(v) \in Seq(DomainEvent)
    BY <1>2, HistoryTyped
  <2>2. CASE History(v)' = History(v)
    BY <1>2, <2>2
  <2>3. ASSUME NEW e \in DomainEvent,
               History(v)' = Append(History(v), e), Fine(e, v)
        PROVE  LET h == History(v)'
               IN \A i \in 1 .. Len(h) : Fine(h[i], v)
    <3> HIDE DEF Fine
    <3>1. \A i \in 1 .. Len(Append(History(v), e)) :
            \/ Append(History(v), e)[i] = e
            \/ /\ i \in 1 .. Len(History(v))
               /\ Append(History(v), e)[i] = History(v)[i]
      BY <2>1
    <3> QED
      BY <1>2, <2>3, <3>1
  <2>4. ASSUME NEW e, NEW new \in UserRoleType, NEW p \in Users,
               CanChangeRoleTo(new, role[p]),
               e = UserRoleChangedEvent(role[v], new, p)
        PROVE  Fine(e, v)
    <3>1. e.by = p /\ e.new = new /\ e.old = role[v]
      BY <2>4 DEF UserRoleChangedEvent
    <3>2. new # "admin" /\ role[p] \in {"admin", "enterprise"}
      BY <2>4 DEF CanChangeRoleTo, RoleCanChangeRoleTo
    <3>3. roleHierarchy[new] <= 2
      BY <3>2 DEF roleHierarchy, UserRoleType
    <3>4. p = v => roleHierarchy[role[v]] >= 2
      BY <3>2 DEF roleHierarchy
    <3>5. roleHierarchy[new] \in Nat
      BY DEF roleHierarchy, UserRoleType
    <3>6. p = v => roleHierarchy[role[v]] \in Nat
      BY <3>2 DEF roleHierarchy
    <3> HIDE DEF roleHierarchy
    <3> QED
      BY <3>1, <3>3, <3>4, <3>5, <3>6
  <2> QED
    BY <1>2, <2>2, <2>3, <2>4, StepRecords
<1>3. Kept => OwnRoleNeverRises
  BY DEF OwnRoleNeverRises
<1> QED
  BY <1>1, <1>2, <1>3, SpecIInv, PTL DEF Spec
=============================================================================
