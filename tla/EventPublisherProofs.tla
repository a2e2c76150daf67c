------------------------- MODULE EventPublisherProofs -------------------------
(***************************************************************************)
(* Safety of EventPublisher for any types, handlers, events and batches,   *)
(* and for loops nested to any depth; and that nothing pending waits in a  *)
(* circle.                                                                 *)
(***************************************************************************)
EXTENDS EventPublisher, SequenceTheorems, WellFoundedInduction, TLAPS

----------------------------------------------------------------------------
(* Sequences. *)

LEMMA RemovedAt ==
  ASSUME NEW S, NEW s \in Seq(S), NEW i \in 1 .. Len(s)
  PROVE  /\ RemoveAt(s, i) \in Seq(S)
         /\ Len(RemoveAt(s, i)) = Len(s) - 1
         /\ \A j \in 1 .. i - 1 : RemoveAt(s, i)[j] = s[j]
         /\ \A j \in i .. Len(s) - 1 : RemoveAt(s, i)[j] = s[j + 1]
<1> DEFINE a == SubSeq(s, 1, i - 1)
           b == SubSeq(s, i + 1, Len(s))
<1>1. Len(s) \in Nat /\ i \in Nat /\ i <= Len(s) /\ 1 <= i
  BY LenProperties
<1>2. \A j \in 1 .. Len(s) : s[j] \in S
  BY ElementOfSeq
<1>3. /\ a \in Seq(S) /\ Len(a) = i - 1
      /\ \A j \in 1 .. i - 1 : a[j] = s[j]
  <2>1. \A j \in 1 .. i - 1 : s[j] \in S
    BY <1>1, <1>2
  <2>2. /\ a \in Seq(S) /\ Len(a) = IF 1 <= i - 1 THEN i - 1 - 1 + 1 ELSE 0
        /\ \A j \in 1 .. i - 1 - 1 + 1 : a[j] = s[1 + j - 1]
    BY <1>1, <2>1, SubSeqProperties
  <2> HIDE DEF a
  <2> QED BY <1>1, <2>2
<1>4. /\ b \in Seq(S) /\ Len(b) = Len(s) - i
      /\ \A j \in 1 .. Len(s) - i : b[j] = s[i + j]
  <2>1. \A j \in i + 1 .. Len(s) : s[j] \in S
    BY <1>1, <1>2
  <2>2. /\ b \in Seq(S) /\ Len(b) = IF i + 1 <= Len(s) THEN Len(s) - (i + 1) + 1 ELSE 0
        /\ \A j \in 1 .. Len(s) - (i + 1) + 1 : b[j] = s[i + 1 + j - 1]
    BY <1>1, <2>1, SubSeqProperties
  <2> HIDE DEF b
  <2> QED BY <1>1, <2>2
<1> HIDE DEF a, b
<1>5. /\ a \o b \in Seq(S) /\ Len(a \o b) = Len(a) + Len(b)
      /\ \A j \in 1 .. Len(a) + Len(b) :
           (a \o b)[j] = IF j <= Len(a) THEN a[j] ELSE b[j - Len(a)]
  BY <1>3, <1>4, ConcatProperties
<1>6. RemoveAt(s, i) = a \o b
  BY DEF RemoveAt, a, b
<1> DEFINE c == a \o b
<1> HIDE DEF c
<1>7. /\ Len(c) = Len(s) - 1
      /\ \A j \in 1 .. i - 1 : c[j] = a[j]
      /\ \A j \in i .. Len(s) - 1 : c[j] = b[j - (i - 1)] /\ j - (i - 1) \in 1 .. Len(s) - i
  BY <1>1, <1>3, <1>4, <1>5 DEF c
<1>8. ASSUME NEW j \in i .. Len(s) - 1 PROVE c[j] = s[j + 1]
  <2>1. c[j] = b[j - (i - 1)] /\ j - (i - 1) \in 1 .. Len(s) - i
    BY <1>7
  <2>2. b[j - (i - 1)] = s[i + (j - (i - 1))]
    BY <1>4, <2>1
  <2>3. i + (j - (i - 1)) = j + 1
    BY <1>1
  <2> QED BY <2>1, <2>2, <2>3
<1> QED BY <1>3, <1>5, <1>6, <1>7, <1>8 DEF c

LEMMA FoundAt ==
  ASSUME NEW S, NEW s \in Seq(S), NEW h, Contains(s, h)
  PROVE  indexOf(s, h) \in 1 .. Len(s) /\ s[indexOf(s, h)] = h
BY DEF Contains, indexOf

LEMMA FrontOf ==
  ASSUME NEW S, NEW s \in Seq(S), s # <<>>
  PROVE  /\ Front(s) \in Seq(S) /\ Len(Front(s)) = Len(s) - 1
         /\ \A j \in 1 .. Len(s) - 1 : Front(s)[j] = s[j]
<1> DEFINE m == Len(s) - 1
           f == SubSeq(s, 1, m)
<1>1. m \in Nat /\ \A j \in 1 .. m : s[j] \in S
  <2>1. Len(s) \in Nat \ {0}
    BY EmptySeq
  <2> QED BY <2>1, ElementOfSeq
<1>2. Front(s) = f
  BY DEF Front
<1> HIDE DEF m
<1>3. /\ f \in Seq(S) /\ Len(f) = IF 1 <= m THEN m - 1 + 1 ELSE 0
      /\ \A j \in 1 .. m - 1 + 1 : f[j] = s[1 + j - 1]
  BY <1>1, SubSeqProperties
<1> HIDE DEF f
<1>4. ASSUME NEW j \in 1 .. m PROVE f[j] = s[j]
  <2>1. j \in 1 .. m - 1 + 1 /\ 1 + j - 1 = j
    BY <1>1
  <2> QED BY <1>3, <2>1
<1>5. Len(f) = m
  BY <1>1, <1>3
<1> QED BY <1>2, <1>3, <1>4, <1>5 DEF m

----------------------------------------------------------------------------
(* Types. *)

LEMMA TopTyped ==
  ASSUME TypeOK, InLoop
  PROVE  /\ Len(stack) \in 1 .. Len(stack) /\ Top \in Frame /\ Top.event \in Events
         /\ Array(Top) \in Seq(Handlers)
<1>1. Len(stack) \in 1 .. Len(stack) /\ Top \in Frame
  BY DEF TypeOK, InLoop, Top
<1> QED BY <1>1, EventAssumption DEF Frame, Array, TypeOK

LEMMA BeginTyped ==
  ASSUME TypeOK, NEW e \in Events, NEW p \in (Events \X Nat) \union {<<>>},
         Begin(e, p), queue' \in Seq(Events)
  PROVE  TypeOK'
<1>1. subscriptions[TypeOf[e]] \in Seq(Handlers)
  BY EventAssumption DEF TypeOK
<1>2. Remembered(e) \in Seq(Events)
  <2>1. eventHistory \in Seq(Events)
    BY DEF TypeOK
  <2>2. Append(eventHistory, e) \in Seq(Events) /\ Append(eventHistory, e) # <<>>
    BY <2>1, AppendProperties
  <2>3. Tail(Append(eventHistory, e)) \in Seq(Events)
    BY <2>2, HeadTailProperties
  <2> QED BY <2>2, <2>3 DEF Remembered
<1>3. [event |-> e, next |-> 1, length |-> Len(subscriptions[TypeOf[e]]),
       inHandler |-> FALSE, live |-> TRUE, array |-> <<>>] \in Frame
  BY <1>1 DEF Frame
<1>4. [status |-> "dispatching", initial |-> subscriptions[TypeOf[e]],
       due |-> ToSet(subscriptions[TypeOf[e]]), calls |-> <<>>, settled |-> {},
       parent |-> p] \in Publication
  BY <1>1 DEF Publication, Statuses, ToSet
<1>5. stack' \in Seq(Frame)
  BY <1>3 DEF Begin, TypeOK
<1>6. publication' \in [Events -> Publication]
  BY <1>4 DEF Begin, TypeOK
<1>7. eventHistory' \in Seq(Events) /\ published' \in Seq(Events)
  BY <1>2 DEF Begin, TypeOK
<1> QED BY <1>5, <1>6, <1>7 DEF Begin, TypeOK

LEMMA CurrentCallTyped ==
  ASSUME TypeOK, InLoop
  PROVE  CurrentCall \in Events \X Nat
BY TopTyped DEF CurrentCall, TypeOK, Publication

LEMMA PublishTyped ==
  ASSUME TypeOK, PublishNext \/ \E e \in Events : Publish(e)
  PROVE  TypeOK'
<1>1. CASE PublishNext
  <2>1. Head(queue) \in Events /\ Tail(queue) \in Seq(Events)
    BY <1>1 DEF PublishNext, TypeOK
  <2> QED BY <1>1, <2>1, BeginTyped DEF PublishNext
<1>2. ASSUME NEW e \in Events, Publish(e) PROVE TypeOK'
  <2>1. queue' \in Seq(Events)
    BY <1>2 DEF Publish, TypeOK
  <2> QED BY <1>2, <2>1, CurrentCallTyped, BeginTyped DEF Publish
<1> QED BY <1>1, <1>2

LEMMA LoopTyped ==
  ASSUME TypeOK, CallHandler \/ HandlerYields \/ EndLoop
  PROVE  TypeOK'
<1>1. CASE CallHandler
  <2> DEFINE f == [Top EXCEPT !.next = @ + 1, !.inHandler = TRUE]
             p == [publication[Top.event] EXCEPT
                     !.calls = Append(@, Array(Top)[Top.next])]
  <2>1. f \in Frame /\ Array(Top)[Top.next] \in Handlers
    <3>1. Top \in Frame /\ Array(Top) \in Seq(Handlers)
      BY <1>1, TopTyped DEF CallHandler
    <3>2. Top.next \in Nat \ {0} /\ Top.next <= Len(Array(Top))
      BY <1>1, <3>1 DEF CallHandler, Frame
    <3>3. Top.next \in 1 .. Len(Array(Top))
      BY <3>1, <3>2, LenProperties
    <3>4. Array(Top)[Top.next] \in Handlers
      BY <3>1, <3>3, ElementOfSeq
    <3>5. [Top EXCEPT !.next = @ + 1] \in Frame
      <4>1. Top.next + 1 \in Nat \ {0}
        BY <3>2
      <4> QED BY <3>1, <4>1 DEF Frame
    <3>6. [[Top EXCEPT !.next = @ + 1] EXCEPT !.inHandler = TRUE] \in Frame
      BY <3>5 DEF Frame
    <3> QED BY <3>4, <3>6
  <2>2. publication[Top.event] \in Publication
    BY <1>1, TopTyped DEF CallHandler, TypeOK
  <2>3. p \in Publication
    <3>1. Append(publication[Top.event].calls, Array(Top)[Top.next]) \in Seq(Handlers)
      BY <2>1, <2>2 DEF Publication
    <3> QED BY <2>2, <3>1 DEF Publication
  <2>4. stack' = [stack EXCEPT ![Len(stack)] = f]
    BY <1>1 DEF CallHandler, SetTop
  <2>5. publication' = [publication EXCEPT ![Top.event] = p]
    BY <1>1 DEF CallHandler
  <2> HIDE DEF f, p
  <2>6. stack' \in Seq(Frame)
    BY <1>1, <2>1, <2>4 DEF CallHandler, InLoop, TypeOK
  <2> QED BY <1>1, <2>3, <2>5, <2>6 DEF CallHandler, TypeOK
<1>2. CASE HandlerYields
  <2> DEFINE f == [Top EXCEPT !.inHandler = FALSE]
  <2>1. f \in Frame
    BY <1>2, TopTyped DEF HandlerYields, Frame
  <2>2. stack' = [stack EXCEPT ![Len(stack)] = f]
    BY <1>2 DEF HandlerYields, SetTop
  <2> HIDE DEF f
  <2>3. stack' \in Seq(Frame)
    BY <1>2, <2>1, <2>2 DEF HandlerYields, InLoop, TypeOK
  <2> QED BY <1>2, <2>3 DEF HandlerYields, TypeOK
<1>3. CASE EndLoop
  <2> DEFINE p == [publication[Top.event] EXCEPT !.status = "dispatched"]
  <2>1. p \in Publication
    <3>1. publication[Top.event] \in Publication
      BY <1>3, TopTyped DEF EndLoop, TypeOK
    <3> QED BY <3>1 DEF Publication, Statuses
  <2>2. publication' = [publication EXCEPT ![Top.event] = p]
    BY <1>3 DEF EndLoop
  <2>3. stack' \in Seq(Frame)
    BY <1>3, FrontOf DEF EndLoop, InLoop, TypeOK
  <2> HIDE DEF p
  <2> QED BY <1>3, <2>1, <2>2, <2>3 DEF EndLoop, TypeOK
<1> QED BY <1>1, <1>2, <1>3

LEMMA PromiseTyped ==
  ASSUME TypeOK,
         \/ \E es \in Batches : PublishAll(es)
         \/ \E e \in Events : Resolve(e)
         \/ \E e \in Events : \E i \in 1 .. Len(publication[e].calls) : Settle(e, i)
  PROVE  TypeOK'
<1>1. ASSUME NEW es \in Batches, PublishAll(es) PROVE TypeOK'
  <2>1. es \in Seq(Events)
    BY BatchAssumption
  <2>2. \A e \in Events : [publication[e] EXCEPT !.status = "queued"] \in Publication
    BY DEF TypeOK, Publication, Statuses
  <2>3. publication' \in [Events -> Publication]
    BY <1>1, <2>2 DEF PublishAll, TypeOK
  <2> QED BY <1>1, <2>1, <2>3 DEF PublishAll, TypeOK
<1>2. ASSUME NEW e \in Events, Resolve(e) PROVE TypeOK'
  <2>1. [publication[e] EXCEPT !.status = "resolved"] \in Publication
    BY DEF TypeOK, Publication, Statuses
  <2>2. publication' \in [Events -> Publication]
    BY <1>2, <2>1 DEF Resolve, TypeOK
  <2> QED BY <1>2, <2>2 DEF Resolve, TypeOK
<1>3. ASSUME NEW e \in Events, NEW i \in 1 .. Len(publication[e].calls), Settle(e, i)
      PROVE  TypeOK'
  <2>1. i \in Nat
    BY DEF TypeOK, Publication
  <2>2. [publication[e] EXCEPT !.settled = @ \union {i}] \in Publication
    BY <2>1 DEF TypeOK, Publication
  <2>3. publication' \in [Events -> Publication]
    BY <1>3, <2>2 DEF Settle, TypeOK
  <2> QED BY <1>3, <2>3 DEF Settle, TypeOK
<1> QED BY <1>1, <1>2, <1>3

LEMMA DetachedTyped ==
  ASSUME TypeOK, NEW ts \in SUBSET Types, NEW arrays \in [Types -> Seq(Handlers)]
  PROVE  Detached(ts, arrays) \in Seq(Frame) /\ Len(Detached(ts, arrays)) = Len(stack)
<1>1. DOMAIN stack = 1 .. Len(stack) /\ Len(stack) \in Nat
  BY DEF TypeOK
<1>2. ASSUME NEW k \in 1 .. Len(stack)
      PROVE  Detached(ts, arrays)[k] \in Frame
  <2>1. stack[k] \in Frame /\ arrays[TypeOf[stack[k].event]] \in Seq(Handlers)
    <3>1. stack[k] \in Frame
      BY ElementOfSeq DEF TypeOK
    <3>2. TypeOf[stack[k].event] \in Types
      BY <3>1, EventAssumption DEF Frame
    <3> QED BY <3>1, <3>2
  <2>2. [stack[k] EXCEPT !.live = FALSE, !.array = arrays[TypeOf[stack[k].event]]]
          \in Frame
    BY <2>1 DEF Frame
  <2> QED BY <1>1, <2>1, <2>2 DEF Detached
<1>3. Detached(ts, arrays) \in [1 .. Len(stack) -> Frame]
  BY <1>1, <1>2 DEF Detached
<1> QED BY <1>1, <1>3

LEMMA NotDueTyped ==
  ASSUME TypeOK, NEW t \in Types, NEW h \in Handlers
  PROVE  NotDue(t, h) \in [Events -> Publication]
<1>1. \A e \in Events : [publication[e] EXCEPT !.due = @ \ {h}] \in Publication
  BY DEF TypeOK, Publication
<1> QED BY <1>1 DEF NotDue, TypeOK

LEMMA SubscriptionsTyped ==
  ASSUME TypeOK,
         \/ \E t \in Types, h \in Handlers : Subscribe(t, h) \/ Unsubscribe(t, h)
         \/ ClearAllSubscriptions \/ ClearEventHistory
  PROVE  TypeOK'
<1>1. ASSUME NEW t \in Types, NEW h \in Handlers, Subscribe(t, h) PROVE TypeOK'
  BY <1>1, ChangeAssumption DEF Subscribe, TypeOK, Change
<1>2. ASSUME NEW t \in Types, NEW h \in Handlers, Unsubscribe(t, h) PROVE TypeOK'
  <2>1. RemoveAt(subscriptions[t], indexOf(subscriptions[t], h)) \in Seq(Handlers)
    BY <1>2, FoundAt, RemovedAt DEF Unsubscribe, TypeOK
  <2>2. subscriptions' \in [Types -> Seq(Handlers)]
    BY <1>2, <2>1 DEF Unsubscribe, TypeOK
  <2>3. stack' \in Seq(Frame)
    BY <1>2, <2>2, DetachedTyped DEF Unsubscribe, TypeOK
  <2>4. publication' \in [Events -> Publication]
    BY <1>2, NotDueTyped DEF Unsubscribe
  <2>5. changes' \in 0 .. MaxChanges
    BY <1>2, ChangeAssumption DEF Unsubscribe, TypeOK, Change
  <2> QED BY <1>2, <2>2, <2>3, <2>4, <2>5 DEF Unsubscribe, TypeOK
<1>3. CASE ClearAllSubscriptions
  <2>1. stack' \in Seq(Frame)
    BY <1>3, DetachedTyped DEF ClearAllSubscriptions, TypeOK
  <2> QED BY <1>3, <2>1, ChangeAssumption DEF ClearAllSubscriptions, TypeOK, Change
<1>4. CASE ClearEventHistory
  BY <1>4 DEF ClearEventHistory, TypeOK
<1> QED BY <1>1, <1>2, <1>3, <1>4

LEMMA InitTypeOK == Init => TypeOK
BY ChangeAssumption DEF Init, TypeOK, Publication, Statuses

LEMMA NextTypeOK == TypeOK /\ [Next]_vars => TypeOK'
<1> SUFFICES ASSUME TypeOK, [Next]_vars PROVE TypeOK'
  OBVIOUS
<1>1. CASE UNCHANGED vars
  BY <1>1 DEF vars, TypeOK
<1> QED BY <1>1, PublishTyped, LoopTyped, PromiseTyped, SubscriptionsTyped DEF Next

----------------------------------------------------------------------------
(* The history. *)

LEMMA LastOnes ==
  ASSUME NEW S, NEW s \in Seq(S), NEW l \in 0 .. Len(s)
  PROVE  /\ SubSeq(s, Len(s) - l + 1, Len(s)) \in Seq(S)
         /\ Len(SubSeq(s, Len(s) - l + 1, Len(s))) = l
         /\ \A j \in 1 .. l : SubSeq(s, Len(s) - l + 1, Len(s))[j] = s[Len(s) - l + j]
<1> DEFINE n == Len(s)
           u == SubSeq(s, n - l + 1, n)
<1>1. n \in Nat /\ l \in Nat /\ l <= n
  BY LenProperties
<1>2. \A j \in n - l + 1 .. n : s[j] \in S
  BY <1>1, ElementOfSeq
<1>3. n - l + 1 \in Int /\ n \in Int
  BY <1>1
<1> HIDE DEF n
<1>4. /\ u \in Seq(S)
      /\ Len(u) = IF n - l + 1 <= n THEN n - (n - l + 1) + 1 ELSE 0
      /\ \A j \in 1 .. n - (n - l + 1) + 1 : u[j] = s[n - l + 1 + j - 1]
  BY <1>2, <1>3, SubSeqProperties
<1> HIDE DEF u
<1>5. /\ u \in Seq(S) /\ Len(u) = l
      /\ \A j \in 1 .. l : u[j] = s[n - l + j]
  BY <1>1, <1>4
<1> QED BY <1>5 DEF n, u

LEMMA RememberedIsRecent ==
  ASSUME TypeOK, HistoryIsRecent, NEW e \in Events,
         eventHistory' = Remembered(e), published' = Append(published, e)
  PROVE  HistoryIsRecent'
<1> DEFINE n == Len(published)
           l == Len(eventHistory)
           p == published'
           longer == Append(eventHistory, e)
<1>1. /\ published \in Seq(Events) /\ eventHistory \in Seq(Events)
      /\ n \in Nat /\ l \in Nat /\ MaxHistorySize \in Nat
  BY LenProperties, HistoryAssumption DEF TypeOK
<1>2. /\ l = IF n < MaxHistorySize THEN n ELSE MaxHistorySize
      /\ eventHistory = SubSeq(published, n - l + 1, n)
  BY DEF HistoryIsRecent
<1>3. /\ p \in Seq(Events) /\ Len(p) = n + 1
      /\ p[n + 1] = e /\ \A j \in 1 .. n : p[j] = published[j]
  BY <1>1, AppendProperties
<1>4. /\ longer \in Seq(Events) /\ longer # <<>> /\ Len(longer) = l + 1
      /\ longer[l + 1] = e /\ \A j \in 1 .. l : longer[j] = eventHistory[j]
  BY <1>1, AppendProperties
<1>5. eventHistory' = IF Len(longer) > MaxHistorySize THEN Tail(longer) ELSE longer
  BY DEF Remembered
<1>6. \A j \in 1 .. l : eventHistory[j] = published[n - l + j]
  <2>1. l \in 0 .. n
    BY <1>1, <1>2
  <2>2. \A j \in 1 .. l : SubSeq(published, n - l + 1, n)[j] = published[n - l + j]
    BY <1>1, <2>1, LastOnes
  <2> QED BY <1>2, <2>2
<1> HIDE DEF n, l, p, longer
<1>7. ASSUME NEW j \in 1 .. l + 1 PROVE longer[j] = p[n - l + j]
  <2>1. l <= n
    BY <1>1, <1>2
  <2>2. CASE j = l + 1
    <3>1. n - l + j = n + 1
      BY <1>1, <2>2
    <3> QED BY <1>3, <1>4, <2>2, <3>1
  <2>3. CASE j \in 1 .. l
    <3>1. n - l + j \in 1 .. n
      BY <1>1, <2>1, <2>3
    <3> QED BY <1>3, <1>4, <1>6, <2>3, <3>1
  <2> QED BY <1>1, <2>2, <2>3
<1>8. CASE l + 1 > MaxHistorySize
  <2> DEFINE h == Tail(longer)
  <2>1. /\ h \in Seq(Events) /\ Len(h) = l
        /\ \A j \in 1 .. l : h[j] = longer[j + 1]
    BY <1>1, <1>4, HeadTailProperties
  <2> HIDE DEF h
  <2>2. l = MaxHistorySize /\ l \in 0 .. n + 1
    BY <1>1, <1>2, <1>8
  <2> DEFINE u == SubSeq(p, Len(p) - l + 1, Len(p))
  <2>3. /\ u \in Seq(Events) /\ Len(u) = l
        /\ \A j \in 1 .. l : u[j] = p[Len(p) - l + j]
    <3>1. l \in 0 .. Len(p)
      BY <1>3, <2>2
    <3> QED BY <1>3, <3>1, LastOnes
  <2> HIDE DEF u
  <2>4. ASSUME NEW j \in 1 .. l PROVE h[j] = u[j]
    <3>1. h[j] = longer[j + 1] /\ u[j] = p[n + 1 - l + j]
      <4>1. u[j] = p[Len(p) - l + j] /\ h[j] = longer[j + 1]
        BY <2>1, <2>3
      <4>2. Len(p) = n + 1
        BY <1>3
      <4> QED BY <1>1, <4>1, <4>2
    <3>2. j + 1 \in 1 .. l + 1 /\ n - l + (j + 1) = n + 1 - l + j
      BY <1>1
    <3>3. longer[j + 1] = p[n - l + (j + 1)]
      BY <1>7, <3>2
    <3> QED BY <3>1, <3>2, <3>3
  <2>5. h = u
    BY <2>1, <2>3, <2>4, SeqEqual
  <2>6. eventHistory' = h
    BY <1>4, <1>5, <1>8 DEF h
  <2>7. l = IF n + 1 < MaxHistorySize THEN n + 1 ELSE MaxHistorySize
    BY <1>1, <1>2, <2>2
  <2>8. HistoryIsRecent' <=>
          /\ Len(eventHistory') = IF Len(p) < MaxHistorySize THEN Len(p) ELSE MaxHistorySize
          /\ eventHistory' = SubSeq(p, Len(p) - Len(eventHistory') + 1, Len(p))
    BY DEF HistoryIsRecent, p
  <2>9. Len(eventHistory') = l /\ Len(p) = n + 1
    BY <1>3, <2>1, <2>6
  <2>10. u = SubSeq(p, Len(p) - Len(eventHistory') + 1, Len(p))
    BY <2>9 DEF u
  <2> QED BY <2>5, <2>6, <2>7, <2>8, <2>9, <2>10
<1>9. CASE ~(l + 1 > MaxHistorySize)
  <2>1. l = n /\ n + 1 \in 0 .. n + 1
    BY <1>1, <1>2, <1>9
  <2> DEFINE u == SubSeq(p, Len(p) - Len(p) + 1, Len(p))
  <2>2. /\ u \in Seq(Events) /\ Len(u) = Len(p)
        /\ \A j \in 1 .. Len(p) : u[j] = p[Len(p) - Len(p) + j]
    <3>1. Len(p) \in 0 .. Len(p)
      BY <1>1, <1>3
    <3> QED BY <1>3, <3>1, LastOnes
  <2> HIDE DEF u
  <2>3. ASSUME NEW j \in 1 .. n + 1 PROVE longer[j] = u[j]
    <3>1. n + 1 - (n + 1) + j = j /\ n - l + j = j
      BY <1>1, <2>1
    <3>2. u[j] = p[Len(p) - Len(p) + j] /\ longer[j] = p[n - l + j]
      BY <1>3, <1>7, <2>1, <2>2
    <3> QED BY <1>3, <3>1, <3>2
  <2>4. longer = u
    BY <1>3, <1>4, <2>1, <2>2, <2>3, SeqEqual
  <2>5. eventHistory' = longer
    BY <1>1, <1>4, <1>5, <1>9
  <2>6. l + 1 = IF n + 1 < MaxHistorySize THEN n + 1 ELSE MaxHistorySize
    BY <1>1, <1>9, <2>1
  <2>7. HistoryIsRecent' <=>
          /\ Len(eventHistory') = IF Len(p) < MaxHistorySize THEN Len(p) ELSE MaxHistorySize
          /\ eventHistory' = SubSeq(p, Len(p) - Len(eventHistory') + 1, Len(p))
    BY DEF HistoryIsRecent, p
  <2>8. Len(eventHistory') = n + 1 /\ Len(p) = n + 1
    BY <1>3, <1>4, <2>1, <2>5
  <2> QED BY <2>1, <2>4, <2>5, <2>6, <2>7, <2>8 DEF u
<1> QED BY <1>8, <1>9

LEMMA NextHistory == TypeOK /\ HistoryIsRecent /\ [Next]_vars => HistoryIsRecent'
<1> SUFFICES ASSUME TypeOK, HistoryIsRecent, [Next]_vars PROVE HistoryIsRecent'
  OBVIOUS
<1>1. ASSUME NEW e \in Events, NEW p, Begin(e, p) PROVE HistoryIsRecent'
  BY <1>1, RememberedIsRecent DEF Begin
<1>2. CASE PublishNext
  <2>1. Head(queue) \in Events
    BY <1>2 DEF PublishNext, TypeOK
  <2> QED BY <1>1, <1>2, <2>1 DEF PublishNext
<1>3. CASE \E e \in Events : Publish(e)
  BY <1>1, <1>3 DEF Publish
<1>4. CASE ClearEventHistory
  BY <1>4, HistoryAssumption DEF ClearEventHistory, HistoryIsRecent
<1>5. CASE UNCHANGED <<eventHistory, published>>
  BY <1>5 DEF HistoryIsRecent
<1>6. \/ PublishNext \/ (\E e \in Events : Publish(e)) \/ ClearEventHistory
      \/ UNCHANGED <<eventHistory, published>>
  BY DEF Next, vars, PublishAll, CallHandler, HandlerYields, EndLoop, Resolve, Settle,
         Subscribe, Unsubscribe, ClearAllSubscriptions
<1> QED BY <1>2, <1>3, <1>4, <1>5, <1>6

----------------------------------------------------------------------------
(* The steps, element by element. *)

LEMMA StackTyped ==
  ASSUME TypeOK
  PROVE  /\ stack \in Seq(Frame) /\ Len(stack) \in Nat
         /\ \A k \in 1 .. Len(stack) : stack[k] \in Frame /\ stack[k].event \in Events
         /\ InLoop => Len(stack) \in 1 .. Len(stack) /\ Top \in Frame
                      /\ Top.event \in Events
         /\ ~InLoop => Len(stack) = 0
<1>1. stack \in Seq(Frame)
  BY DEF TypeOK
<1>2. Len(stack) \in Nat
  BY <1>1, LenProperties
<1>3. \A k \in 1 .. Len(stack) : stack[k] \in Frame
  BY <1>1, ElementOfSeq
<1>4. \A f \in Frame : f.event \in Events
  BY DEF Frame
<1>5. InLoop => Len(stack) \in Nat \ {0}
  BY <1>1, EmptySeq DEF InLoop
<1>6. InLoop => Len(stack) \in 1 .. Len(stack)
  BY <1>5
<1>7. ~InLoop => Len(stack) = 0
  BY DEF InLoop
<1> QED BY <1>1, <1>2, <1>3, <1>4, <1>6, <1>7 DEF Top

LEMMA SetTopIs ==
  ASSUME TypeOK, InLoop, NEW f \in Frame, SetTop(f)
  PROVE  /\ stack' \in Seq(Frame) /\ Len(stack') = Len(stack)
         /\ \A k \in 1 .. Len(stack) :
              stack'[k] = IF k = Len(stack) THEN f ELSE stack[k]
BY StackTyped, ExceptSeq DEF SetTop

LEMMA PopIs ==
  ASSUME TypeOK, EndLoop
  PROVE  /\ Len(stack') = Len(stack) - 1
         /\ \A k \in 1 .. Len(stack) - 1 : stack'[k] = stack[k]
BY StackTyped, FrontOf DEF EndLoop, InLoop

LEMMA BeginIs ==
  ASSUME TypeOK, NEW e \in Events, NEW p, Begin(e, p)
  PROVE  /\ Len(stack') = Len(stack) + 1
         /\ \A k \in 1 .. Len(stack) : stack'[k] = stack[k]
         /\ stack'[Len(stack) + 1] =
              [event |-> e, next |-> 1, length |-> Len(subscriptions[TypeOf[e]]),
               inHandler |-> FALSE, live |-> TRUE, array |-> <<>>]
         /\ publication'[e] =
              [status |-> "dispatching", initial |-> subscriptions[TypeOf[e]],
               due |-> ToSet(subscriptions[TypeOf[e]]), calls |-> <<>>,
               settled |-> {}, parent |-> p]
         /\ \A d \in Events : d # e => publication'[d] = publication[d]
         /\ UNCHANGED subscriptions
<1> DEFINE f == [event |-> e, next |-> 1, length |-> Len(subscriptions[TypeOf[e]]),
                 inHandler |-> FALSE, live |-> TRUE, array |-> <<>>]
<1>1. f \in Frame
  <2>1. subscriptions[TypeOf[e]] \in Seq(Handlers)
    BY EventAssumption DEF TypeOK
  <2>2. Len(subscriptions[TypeOf[e]]) \in Nat
    BY <2>1, LenProperties
  <2> QED BY <2>2 DEF Frame
<1>2. stack' = Append(stack, f)
  BY DEF Begin
<1> HIDE DEF f
<1>3. /\ Len(stack') = Len(stack) + 1
      /\ \A k \in 1 .. Len(stack) : stack'[k] = stack[k]
      /\ stack'[Len(stack) + 1] = f
  BY <1>1, <1>2, StackTyped, AppendProperties
<1>4. DOMAIN publication = Events
  BY DEF TypeOK
<1> QED BY <1>3, <1>4 DEF Begin, f

LEMMA CallIs ==
  ASSUME TypeOK, CallHandler
  PROVE  /\ Len(stack') = Len(stack)
         /\ \A k \in 1 .. Len(stack) :
              stack'[k] = IF k = Len(stack)
                          THEN [Top EXCEPT !.next = @ + 1, !.inHandler = TRUE]
                          ELSE stack[k]
         /\ publication'[Top.event] =
              [publication[Top.event] EXCEPT
                 !.calls = Append(@, Array(Top)[Top.next])]
         /\ \A d \in Events : d # Top.event => publication'[d] = publication[d]
         /\ UNCHANGED subscriptions
<1> DEFINE f == [Top EXCEPT !.next = @ + 1, !.inHandler = TRUE]
<1>1. InLoop /\ SetTop(f)
  BY DEF CallHandler
<1>2. f \in Frame
  <2>1. Top \in Frame
    BY <1>1, StackTyped
  <2>2. [Top EXCEPT !.next = @ + 1] \in Frame
    <3>1. Top.next + 1 \in Nat \ {0}
      BY <2>1 DEF Frame
    <3> QED BY <2>1, <3>1 DEF Frame
  <2>3. [[Top EXCEPT !.next = @ + 1] EXCEPT !.inHandler = TRUE] \in Frame
    BY <2>2 DEF Frame
  <2> QED BY <2>3
<1> HIDE DEF f
<1>3. /\ Len(stack') = Len(stack)
      /\ \A k \in 1 .. Len(stack) :
           stack'[k] = IF k = Len(stack) THEN f ELSE stack[k]
  BY <1>1, <1>2, SetTopIs
<1>4. DOMAIN publication = Events /\ Top.event \in Events
  BY <1>1, StackTyped DEF TypeOK
<1> QED BY <1>3, <1>4 DEF CallHandler, f

LEMMA YieldIs ==
  ASSUME TypeOK, HandlerYields
  PROVE  /\ Len(stack') = Len(stack)
         /\ \A k \in 1 .. Len(stack) :
              stack'[k] = IF k = Len(stack)
                          THEN [Top EXCEPT !.inHandler = FALSE] ELSE stack[k]
         /\ UNCHANGED <<publication, subscriptions>>
<1> DEFINE f == [Top EXCEPT !.inHandler = FALSE]
<1>1. InLoop /\ SetTop(f)
  BY DEF HandlerYields
<1>2. f \in Frame
  BY <1>1, StackTyped DEF Frame
<1> HIDE DEF f
<1>3. /\ Len(stack') = Len(stack)
      /\ \A k \in 1 .. Len(stack) :
           stack'[k] = IF k = Len(stack) THEN f ELSE stack[k]
  BY <1>1, <1>2, SetTopIs
<1> QED BY <1>3 DEF HandlerYields, f

LEMMA DetachedIs ==
  ASSUME TypeOK, NEW ts \in SUBSET Types, NEW arrays \in [Types -> Seq(Handlers)],
         stack' = Detached(ts, arrays)
  PROVE  /\ Len(stack') = Len(stack)
         /\ \A k \in 1 .. Len(stack) :
              stack'[k] = IF stack[k].live /\ TypeOf[stack[k].event] \in ts
                          THEN [stack[k] EXCEPT !.live = FALSE,
                                  !.array = arrays[TypeOf[stack[k].event]]]
                          ELSE stack[k]
<1>1. DOMAIN stack = 1 .. Len(stack)
  BY StackTyped, LenProperties
<1> QED BY <1>1, DetachedTyped DEF Detached

----------------------------------------------------------------------------
(* Promises. *)

\* The loops under way are those of the events being dispatched, one for each.
StackInv ==
  /\ \A k \in 1 .. Len(stack) : publication[stack[k].event].status = "dispatching"
  /\ \A e \in Events : publication[e].status = "dispatching" =>
       \E k \in 1 .. Len(stack) : stack[k].event = e
  /\ \A j, k \in 1 .. Len(stack) : stack[j].event = stack[k].event => j = k

\* What publishAll has not yet handed on is still queued, each event once.
QueueInv ==
  /\ \A k \in 1 .. Len(queue) : publication[queue[k]].status = "queued"
  /\ \A j, k \in 1 .. Len(queue) : queue[j] = queue[k] => j = k

\* A call that has settled awaits nothing that is not fulfilled, and none
\* settles during the loop it was made in.
SettledInv ==
  \A e \in Events :
    /\ publication[e].status = "dispatching" => publication[e].settled = {}
    /\ \A i \in publication[e].settled : \A c \in Awaited(e, i) :
         publication[c].status = "resolved"
    /\ publication[e].status = "resolved" => AllSettled(e)

PromiseInv == StackInv /\ QueueInv /\ SettledInv

\* A step that neither begins nor ends a loop.
LEMMA SameLoops ==
  ASSUME TypeOK, StackInv, Len(stack') = Len(stack),
         \A k \in 1 .. Len(stack) : stack'[k].event = stack[k].event,
         \A e \in Events : publication'[e].status = "dispatching"
                             <=> publication[e].status = "dispatching"
  PROVE  StackInv'
<1>1. \A k \in 1 .. Len(stack) : stack[k].event \in Events
  BY StackTyped
<1> QED BY <1>1 DEF StackInv

LEMMA BeginPromises ==
  ASSUME TypeOK, StackInv, SettledInv, NEW e \in Events, NEW p, Begin(e, p),
         publication[e].status \in {"unpublished", "queued"},
         \A d \in Events, i \in Nat : p = <<d, i>> => publication[d].status = "dispatching"
  PROVE  StackInv' /\ SettledInv'
<1> DEFINE n == Len(stack)
<1>1. n \in Nat /\ \A k \in 1 .. n : stack[k].event \in Events
  BY StackTyped
<1>2. /\ Len(stack') = n + 1 /\ \A k \in 1 .. n : stack'[k] = stack[k]
      /\ stack'[n + 1].event = e
      /\ publication'[e].status = "dispatching" /\ publication'[e].settled = {}
      /\ publication'[e].parent = p
      /\ \A d \in Events : d # e => publication'[d] = publication[d]
  <2>1. /\ Len(stack') = n + 1 /\ \A k \in 1 .. n : stack'[k] = stack[k]
        /\ \A d \in Events : d # e => publication'[d] = publication[d]
    BY BeginIs
  <2>2. publication'[e] =
          [status |-> "dispatching", initial |-> subscriptions[TypeOf[e]],
           due |-> ToSet(subscriptions[TypeOf[e]]), calls |-> <<>>,
           settled |-> {}, parent |-> p]
    BY BeginIs
  <2>3. stack'[n + 1] =
          [event |-> e, next |-> 1, length |-> Len(subscriptions[TypeOf[e]]),
           inHandler |-> FALSE, live |-> TRUE, array |-> <<>>]
    BY BeginIs
  <2>4. stack'[n + 1].event = e
    BY <2>3
  <2>5. /\ publication'[e].status = "dispatching" /\ publication'[e].settled = {}
        /\ publication'[e].parent = p
    BY <2>2
  <2> QED BY <2>1, <2>4, <2>5
<1>3. \A k \in 1 .. n : stack[k].event # e
  BY <1>1 DEF StackInv
<1> HIDE DEF n
<1>4. 1 .. n + 1 = 1 .. n \union {n + 1}
  BY <1>1
<1>5. StackInv'
  <2>1. \A k \in 1 .. n + 1 : publication'[stack'[k].event].status = "dispatching"
    BY <1>1, <1>2, <1>3, <1>4 DEF StackInv, n
  <2>2. \A d \in Events : publication'[d].status = "dispatching" =>
          \E k \in 1 .. n + 1 : stack'[k].event = d
    BY <1>1, <1>2, <1>4 DEF StackInv, n
  <2>3. \A j, k \in 1 .. n + 1 : stack'[j].event = stack'[k].event => j = k
    BY <1>1, <1>2, <1>3, <1>4 DEF StackInv, n
  <2> QED BY <1>2, <2>1, <2>2, <2>3 DEF StackInv
<1>6. ASSUME NEW d \in Events
      PROVE  /\ publication'[d].status = "dispatching" => publication'[d].settled = {}
             /\ \A i \in publication'[d].settled : \A c \in Events :
                  publication'[c].parent = <<d, i>> => publication'[c].status = "resolved"
             /\ publication'[d].status = "resolved" =>
                  1 .. Len(publication'[d].calls) \subseteq publication'[d].settled
  <2>1. CASE d = e
    BY <1>2, <2>1
  <2>2. CASE d # e
    <3>1. publication'[d] = publication[d]
      BY <1>2, <2>2
    <3>2. ASSUME NEW i \in publication[d].settled, NEW c \in Events,
                 publication'[c].parent = <<d, i>>
          PROVE  publication'[c].status = "resolved"
      <4>1. i \in Nat
        BY DEF TypeOK, Publication
      <4>2. c # e
        <5>1. publication[d].settled # {}
          OBVIOUS
        <5>2. publication[d].status # "dispatching"
          BY <5>1 DEF SettledInv
        <5>3. p # <<d, i>>
          BY <4>1, <5>2
        <5> QED BY <1>2, <3>2, <5>3
      <4> QED BY <1>2, <3>2, <4>2 DEF SettledInv, Awaited
    <3> QED BY <3>1, <3>2 DEF SettledInv, AllSettled
  <2> QED BY <2>1, <2>2
<1> QED BY <1>5, <1>6 DEF SettledInv, Awaited, AllSettled

LEMMA PublishPromises ==
  ASSUME TypeOK, PromiseInv, PublishNext \/ \E e \in Events : Publish(e)
  PROVE  PromiseInv'
<1>1. CASE PublishNext
  <2>1. /\ queue \in Seq(Events) /\ queue # <<>> /\ queue' = Tail(queue)
        /\ Begin(Head(queue), <<>>)
    BY <1>1 DEF PublishNext, TypeOK
  <2>2. Head(queue) \in Events /\ Len(queue) \in Nat \ {0} /\ Head(queue) = queue[1]
    BY <2>1, HeadTailProperties, EmptySeq
  <2>3. publication[Head(queue)].status = "queued"
    BY <2>2 DEF PromiseInv, QueueInv
  <2>4. StackInv' /\ SettledInv'
    <3>1. \A d \in Events, i \in Nat : <<>> # <<d, i>>
      OBVIOUS
    <3> QED BY <2>1, <2>2, <2>3, <3>1, BeginPromises DEF PromiseInv
  <2>5. /\ Len(queue') = Len(queue) - 1
        /\ \A k \in 1 .. Len(queue) - 1 : queue'[k] = queue[k + 1]
    BY <2>1, HeadTailProperties
  <2>6. \A k \in 1 .. Len(queue) - 1 :
          /\ k + 1 \in 1 .. Len(queue) /\ k + 1 # 1
          /\ queue[k + 1] \in Events /\ queue[k + 1] # queue[1]
    BY <2>1, <2>2, ElementOfSeq DEF PromiseInv, QueueInv
  <2>7. \A d \in Events : d # Head(queue) => publication'[d] = publication[d]
    BY <2>1, <2>2, BeginIs
  <2>8. ASSUME NEW k \in 1 .. Len(queue')
        PROVE  publication'[queue'[k]].status = "queued"
    <3>1. publication[queue[k + 1]].status = "queued"
      BY <2>5, <2>6 DEF PromiseInv, QueueInv
    <3> QED BY <2>2, <2>5, <2>6, <2>7, <3>1
  <2>9. ASSUME NEW j \in 1 .. Len(queue'), NEW k \in 1 .. Len(queue'),
               queue'[j] = queue'[k]
        PROVE  j = k
    <3>1. queue[j + 1] = queue[k + 1] /\ j + 1 \in 1 .. Len(queue)
          /\ k + 1 \in 1 .. Len(queue)
      BY <2>5, <2>6, <2>9
    <3>2. j + 1 = k + 1
      BY <3>1 DEF PromiseInv, QueueInv
    <3> QED BY <2>2, <2>5, <3>2
  <2>10. QueueInv'
    BY <2>8, <2>9 DEF QueueInv
  <2> QED BY <2>4, <2>10 DEF PromiseInv
<1>2. ASSUME NEW e \in Events, Publish(e) PROVE PromiseInv'
  <2> DEFINE p == IF InLoop THEN CurrentCall ELSE <<>>
  <2>1. Begin(e, p) /\ queue' = queue /\ publication[e].status = "unpublished"
    BY <1>2 DEF Publish
  <2>2. ASSUME NEW d \in Events, NEW i \in Nat, p = <<d, i>>
        PROVE  publication[d].status = "dispatching"
    <3>1. InLoop /\ d = Top.event
      BY <2>2 DEF CurrentCall
    <3>2. Len(stack) \in 1 .. Len(stack)
      BY <3>1, StackTyped
    <3> QED BY <3>1, <3>2 DEF PromiseInv, StackInv, Top
  <2> HIDE DEF p
  <2>3. StackInv' /\ SettledInv'
    BY <2>1, <2>2, BeginPromises DEF PromiseInv
  <2>4. \A d \in Events : d # e => publication'[d] = publication[d]
    BY <2>1, BeginIs
  <2>5. \A k \in 1 .. Len(queue) : queue[k] \in Events
    BY ElementOfSeq DEF TypeOK
  <2>6. QueueInv'
    BY <2>1, <2>4, <2>5 DEF PromiseInv, QueueInv
  <2> QED BY <2>3, <2>6 DEF PromiseInv
<1> QED BY <1>1, <1>2

\* A step that settles nothing and neither begins nor ends a loop.
LEMMA SamePromises ==
  ASSUME TypeOK, PromiseInv, Len(stack') = Len(stack), queue' = queue,
         \A k \in 1 .. Len(stack) : stack'[k].event = stack[k].event,
         \A e \in Events :
           /\ publication'[e].status = publication[e].status
           /\ publication'[e].settled = publication[e].settled
           /\ publication'[e].parent = publication[e].parent
           /\ publication[e].status = "resolved" =>
                publication'[e].calls = publication[e].calls
  PROVE  PromiseInv'
<1>1. StackInv'
  BY SameLoops DEF PromiseInv
<1>2. \A k \in 1 .. Len(queue) : queue[k] \in Events
  BY ElementOfSeq DEF TypeOK
<1>3. QueueInv'
  BY <1>2 DEF PromiseInv, QueueInv
<1>4. SettledInv'
  BY DEF PromiseInv, SettledInv, Awaited, AllSettled
<1> QED BY <1>1, <1>3, <1>4 DEF PromiseInv

LEMMA EndPromises ==
  ASSUME TypeOK, PromiseInv, EndLoop
  PROVE  PromiseInv'
<1> DEFINE n == Len(stack)
<1>1. /\ n \in 1 .. n /\ n \in Nat /\ Top.event \in Events /\ Top = stack[n]
      /\ \A k \in 1 .. n : stack[k].event \in Events
  BY StackTyped DEF EndLoop, Top
<1>2. Len(stack') = n - 1 /\ \A k \in 1 .. n - 1 : stack'[k] = stack[k]
  BY PopIs
<1>3. \A e \in Events :
        publication'[e] = IF e = Top.event
                          THEN [publication[e] EXCEPT !.status = "dispatched"]
                          ELSE publication[e]
  BY <1>1 DEF EndLoop, TypeOK
<1>4. ASSUME NEW e \in Events
      PROVE  /\ publication'[e].status =
                  IF e = Top.event THEN "dispatched" ELSE publication[e].status
             /\ publication'[e].settled = publication[e].settled
             /\ publication'[e].parent = publication[e].parent
             /\ publication'[e].calls = publication[e].calls
  <2>1. publication[e] \in Publication
    BY DEF TypeOK
  <2> QED BY <1>3, <2>1 DEF Publication
<1>5. publication[Top.event].status = "dispatching"
  BY <1>1 DEF PromiseInv, StackInv
<1>6. queue' = queue
  BY DEF EndLoop
<1> HIDE DEF n
<1>7. StackInv'
  <2>1. \A k \in 1 .. n - 1 : k \in 1 .. n /\ k # n
    BY <1>1
  <2>2. \A k \in 1 .. n - 1 : stack[k].event # Top.event
    BY <1>1, <2>1 DEF PromiseInv, StackInv, n
  <2>3. ASSUME NEW k \in 1 .. n - 1
        PROVE  publication'[stack'[k].event].status = "dispatching"
    <3>1. k \in 1 .. n /\ stack[k].event # Top.event
      BY <2>1, <2>2
    <3>2. stack[k].event \in Events /\ stack'[k] = stack[k]
      BY <1>1, <1>2, <3>1
    <3>3. publication[stack[k].event].status = "dispatching"
      BY <3>1 DEF PromiseInv, StackInv, n
    <3> QED
      BY <1>4, <3>1, <3>2, <3>3
  <2>4. ASSUME NEW e \in Events, publication'[e].status = "dispatching"
        PROVE  \E k \in 1 .. n - 1 : stack'[k].event = e
    <3>1. e # Top.event /\ publication[e].status = "dispatching"
      BY <1>4, <2>4
    <3>2. PICK k \in 1 .. n : stack[k].event = e
      BY <3>1 DEF PromiseInv, StackInv, n
    <3>3. k \in 1 .. n - 1
      BY <1>1, <3>1, <3>2
    <3> QED BY <1>2, <3>2, <3>3
  <2>5. \A j, k \in 1 .. n - 1 : stack'[j].event = stack'[k].event => j = k
    BY <1>2, <2>1 DEF PromiseInv, StackInv, n
  <2> QED BY <1>2, <2>3, <2>4, <2>5 DEF StackInv
<1>8. QueueInv'
  <2>1. \A k \in 1 .. Len(queue) : queue[k] \in Events
    BY ElementOfSeq DEF TypeOK
  <2> QED BY <1>4, <1>5, <1>6, <2>1 DEF PromiseInv, QueueInv
<1>9. SettledInv'
  BY <1>4, <1>5 DEF PromiseInv, SettledInv, Awaited, AllSettled
<1> QED BY <1>7, <1>8, <1>9 DEF PromiseInv

LEMMA PublishAllPromises ==
  ASSUME TypeOK, PromiseInv, NEW es \in Batches, PublishAll(es)
  PROVE  PromiseInv'
<1>1. es \in Seq(Events) /\ IsInjective(es)
  BY BatchAssumption
<1>2. DOMAIN es = 1 .. Len(es)
  BY <1>1, LenProperties
<1>3. ASSUME NEW e \in Events
      PROVE  /\ publication'[e].status =
                  IF e \in ToSet(es) THEN "queued" ELSE publication[e].status
             /\ e \in ToSet(es) => publication[e].status = "unpublished"
             /\ publication'[e].settled = publication[e].settled
             /\ publication'[e].parent = publication[e].parent
             /\ publication'[e].calls = publication[e].calls
  <2>1. publication[e] \in Publication
    BY DEF TypeOK
  <2>2. publication'[e] = IF e \in ToSet(es)
                          THEN [publication[e] EXCEPT !.status = "queued"]
                          ELSE publication[e]
    BY DEF PublishAll
  <2> QED BY <2>1, <2>2 DEF Publication, PublishAll
<1>4. StackInv'
  BY <1>3, SameLoops DEF PromiseInv, PublishAll
<1>5. QueueInv'
  <2>1. queue' = es
    BY DEF PublishAll
  <2>2. \A k \in 1 .. Len(es) : es[k] \in ToSet(es) /\ es[k] \in Events
    BY <1>1, <1>2, ElementOfSeq DEF ToSet
  <2>3. \A j, k \in 1 .. Len(es) : es[j] = es[k] => j = k
    BY <1>1, <1>2 DEF IsInjective
  <2> QED BY <1>3, <2>1, <2>2, <2>3 DEF QueueInv
<1>6. SettledInv'
  BY <1>3 DEF PromiseInv, SettledInv, Awaited, AllSettled
<1> QED BY <1>4, <1>5, <1>6 DEF PromiseInv

LEMMA FulfilPromises ==
  ASSUME TypeOK, PromiseInv, NEW e \in Events,
         \/ Resolve(e)
         \/ \E i \in 1 .. Len(publication[e].calls) : Settle(e, i)
  PROVE  PromiseInv'
<1>1. /\ UNCHANGED <<stack, queue>> /\ ~InLoop
      /\ \A d \in Events : d # e => publication'[d] = publication[d]
  BY DEF Resolve, Settle, TypeOK
<1>2. \A d \in Events : publication[d].status # "dispatching"
  <2>1. Len(stack) = 0
    BY <1>1, StackTyped
  <2> QED BY <2>1 DEF PromiseInv, StackInv
<1>3. \A k \in 1 .. Len(queue) : queue[k] \in Events
  BY ElementOfSeq DEF TypeOK
<1>4. publication[e] \in Publication /\ DOMAIN publication = Events
  BY DEF TypeOK
<1>5. CASE Resolve(e)
  <2>1. publication'[e] = [publication[e] EXCEPT !.status = "resolved"]
    BY <1>4, <1>5 DEF Resolve
  <2>2. /\ publication[e].status = "dispatched" /\ AllSettled(e)
        /\ publication'[e].status = "resolved"
        /\ publication'[e].settled = publication[e].settled
        /\ publication'[e].parent = publication[e].parent
        /\ publication'[e].calls = publication[e].calls
    BY <1>4, <1>5, <2>1 DEF Resolve, Publication
  <2>3. StackInv'
    BY <1>1, <1>2, <2>2, SameLoops DEF PromiseInv
  <2>4. QueueInv'
    BY <1>1, <1>3, <2>2 DEF PromiseInv, QueueInv
  <2>5. SettledInv'
    BY <1>1, <2>2 DEF PromiseInv, SettledInv, Awaited, AllSettled
  <2> QED BY <2>3, <2>4, <2>5 DEF PromiseInv
<1>6. ASSUME NEW i \in 1 .. Len(publication[e].calls), Settle(e, i)
      PROVE  PromiseInv'
  <2>1. publication'[e] = [publication[e] EXCEPT !.settled = @ \union {i}]
    BY <1>4, <1>6 DEF Settle
  <2>2. /\ publication'[e].status = publication[e].status
        /\ publication'[e].settled = publication[e].settled \union {i}
        /\ publication'[e].parent = publication[e].parent
        /\ publication'[e].calls = publication[e].calls
        /\ \A c \in Awaited(e, i) : publication[c].status = "resolved"
    BY <1>4, <1>6, <2>1 DEF Settle, Publication
  <2>3. StackInv'
    BY <1>1, <1>2, <2>2, SameLoops DEF PromiseInv
  <2>4. QueueInv'
    BY <1>1, <1>3, <2>2 DEF PromiseInv, QueueInv
  <2>5. \A d \in Events : publication'[d].status = publication[d].status
                          /\ publication'[d].parent = publication[d].parent
                          /\ publication'[d].calls = publication[d].calls
    BY <1>1, <2>2
  <2>6. SettledInv'
    BY <1>1, <1>2, <2>2, <2>5 DEF PromiseInv, SettledInv, Awaited, AllSettled
  <2> QED BY <2>3, <2>4, <2>6 DEF PromiseInv
<1> QED BY <1>5, <1>6

LEMMA SubscriptionPromises ==
  ASSUME TypeOK, PromiseInv,
         \/ \E t \in Types, h \in Handlers : Subscribe(t, h) \/ Unsubscribe(t, h)
         \/ ClearAllSubscriptions \/ ClearEventHistory
  PROVE  PromiseInv'
<1>1. CASE UNCHANGED <<stack, queue, publication>>
  BY <1>1, SamePromises
<1>2. ASSUME NEW ts \in SUBSET Types, NEW arrays \in [Types -> Seq(Handlers)],
             stack' = Detached(ts, arrays)
      PROVE  /\ Len(stack') = Len(stack)
             /\ \A k \in 1 .. Len(stack) : stack'[k].event = stack[k].event
  <2>1. ASSUME NEW k \in 1 .. Len(stack) PROVE stack'[k].event = stack[k].event
    <3>1. stack[k] \in Frame
      BY StackTyped
    <3>2. stack'[k] = IF stack[k].live /\ TypeOf[stack[k].event] \in ts
                      THEN [stack[k] EXCEPT !.live = FALSE,
                              !.array = arrays[TypeOf[stack[k].event]]]
                      ELSE stack[k]
      BY <1>2, DetachedIs
    <3> QED BY <3>1, <3>2 DEF Frame
  <2> QED BY <1>2, <2>1, DetachedIs
<1>3. ASSUME NEW t \in Types, NEW h \in Handlers, Unsubscribe(t, h)
      PROVE  PromiseInv'
  <2>1. Len(stack') = Len(stack)
        /\ \A k \in 1 .. Len(stack) : stack'[k].event = stack[k].event
    <3>1. subscriptions' \in [Types -> Seq(Handlers)] /\ {t} \in SUBSET Types
      BY <1>3, SubscriptionsTyped DEF TypeOK
    <3> QED BY <1>2, <1>3, <3>1 DEF Unsubscribe
  <2>2. ASSUME NEW e \in Events
        PROVE  /\ publication'[e].status = publication[e].status
               /\ publication'[e].settled = publication[e].settled
               /\ publication'[e].parent = publication[e].parent
               /\ publication'[e].calls = publication[e].calls
    <3>1. publication[e] \in Publication
      BY DEF TypeOK
    <3>2. publication'[e] = publication[e]
          \/ publication'[e] = [publication[e] EXCEPT !.due = @ \ {h}]
      BY <1>3 DEF Unsubscribe, NotDue
    <3> QED BY <3>1, <3>2 DEF Publication
  <2>3. queue' = queue
    BY <1>3 DEF Unsubscribe
  <2> QED BY <2>1, <2>2, <2>3, SamePromises
<1>4. CASE ClearAllSubscriptions
  <2>1. Types \in SUBSET Types /\ subscriptions \in [Types -> Seq(Handlers)]
    BY DEF TypeOK
  <2>2. stack' = Detached(Types, subscriptions) /\ UNCHANGED <<queue, publication>>
    BY <1>4 DEF ClearAllSubscriptions
  <2>3. Len(stack') = Len(stack)
        /\ \A k \in 1 .. Len(stack) : stack'[k].event = stack[k].event
    BY <1>2, <2>1, <2>2
  <2> QED BY <2>2, <2>3, SamePromises
<1>5. CASE ClearEventHistory \/ \E t \in Types, h \in Handlers : Subscribe(t, h)
  BY <1>1, <1>5 DEF ClearEventHistory, Subscribe
<1> QED BY <1>3, <1>4, <1>5

LEMMA NextPromises == TypeOK /\ PromiseInv /\ [Next]_vars => PromiseInv'
<1> SUFFICES ASSUME TypeOK, PromiseInv, [Next]_vars PROVE PromiseInv'
  OBVIOUS
<1>1. CASE CallHandler
  <2>1. \A e \in Events : publication[e] \in Publication
    BY DEF TypeOK
  <2>2. /\ Len(stack) \in 1 .. Len(stack) /\ Top = stack[Len(stack)]
        /\ Top \in Frame /\ Top.event \in Events
    BY <1>1, StackTyped DEF CallHandler, Top
  <2>3. publication[Top.event].status = "dispatching"
    BY <2>2 DEF PromiseInv, StackInv
  <2>4. /\ Len(stack') = Len(stack)
        /\ \A k \in 1 .. Len(stack) : stack'[k].event = stack[k].event
    <3>1. [Top EXCEPT !.next = @ + 1, !.inHandler = TRUE].event = Top.event
      BY <2>2 DEF Frame
    <3> QED BY <1>1, <2>2, <3>1, CallIs
  <2>5. ASSUME NEW e \in Events
        PROVE  /\ publication'[e].status = publication[e].status
               /\ publication'[e].settled = publication[e].settled
               /\ publication'[e].parent = publication[e].parent
               /\ publication[e].status = "resolved" =>
                    publication'[e].calls = publication[e].calls
    BY <1>1, <2>1, <2>3, CallIs DEF Publication
  <2>6. queue' = queue
    BY <1>1 DEF CallHandler
  <2> QED BY <2>4, <2>5, <2>6, SamePromises
<1>2. CASE HandlerYields
  <2>1. /\ Top = stack[Len(stack)] /\ Top \in Frame
    BY <1>2, StackTyped DEF HandlerYields, Top
  <2>2. /\ Len(stack') = Len(stack)
        /\ \A k \in 1 .. Len(stack) : stack'[k].event = stack[k].event
    BY <1>2, <2>1, YieldIs DEF Frame
  <2>3. UNCHANGED <<queue, publication>>
    BY <1>2 DEF HandlerYields
  <2> QED BY <2>2, <2>3, SamePromises
<1>3. CASE UNCHANGED vars
  BY <1>3, SamePromises DEF vars
<1> QED
  BY <1>1, <1>2, <1>3, PublishPromises, EndPromises, PublishAllPromises,
     FulfilPromises, SubscriptionPromises DEF Next

LEMMA PromisesSettle == TypeOK /\ PromiseInv => ResolvedMeansSettled
BY DEF PromiseInv, SettledInv, AllSettled, ResolvedMeansSettled

----------------------------------------------------------------------------
(* Loops. *)

\* How far the loop f of the publication p over the array a has come: unless a
\* handler has left, it has called a first part of the handlers publish found,
\* and these are still the first of the array.
Fits(f, p, a) ==
  /\ f.length = Len(p.initial)
  /\ p.due = ToSet(p.initial) =>
       /\ Len(p.initial) <= Len(a)
       /\ \A j \in 1 .. Len(p.initial) : a[j] = p.initial[j]
       /\ Len(p.calls) = f.next - 1 /\ Len(p.calls) <= Len(p.initial)
       /\ \A j \in 1 .. Len(p.calls) : p.calls[j] = p.initial[j]

FitsInv ==
  \A k \in 1 .. Len(stack) :
    Fits(stack[k], publication[stack[k].event], Array(stack[k]))

\* No handler is subscribed twice, or due in a loop that did not find it.
OnceInv ==
  /\ \A t \in Types : IsInjective(subscriptions[t])
  /\ \A e \in Events : /\ IsInjective(publication[e].initial)
                       /\ publication[e].due \subseteq ToSet(publication[e].initial)

LoopInv == FitsInv /\ OnceInv /\ UndisturbedLoopIsExact

\* A handler that leaves a loop undisturbed was not found by publish, so it
\* stands behind those that were.
LEMMA LeavingKeepsFits ==
  ASSUME NEW f, NEW p \in Publication, NEW a \in Seq(Handlers), NEW h \in Handlers,
         Contains(a, h), p.due \subseteq ToSet(p.initial), Fits(f, p, a)
  PROVE  Fits(f, [p EXCEPT !.due = @ \ {h}], RemoveAt(a, indexOf(a, h)))
<1> DEFINE q == [p EXCEPT !.due = @ \ {h}]
           i == indexOf(a, h)
           b == RemoveAt(a, i)
<1>1. /\ q.initial = p.initial /\ q.calls = p.calls /\ q.due = p.due \ {h}
      /\ p.initial \in Seq(Handlers) /\ Len(p.initial) \in Nat
      /\ DOMAIN p.initial = 1 .. Len(p.initial)
  BY LenProperties DEF Publication
<1>2. i \in 1 .. Len(a) /\ a[i] = h /\ Len(a) \in Nat
  BY FoundAt, LenProperties
<1>3. Len(b) = Len(a) - 1 /\ \A j \in 1 .. i - 1 : b[j] = a[j]
  BY <1>2, RemovedAt
<1> HIDE DEF q, i, b
<1>4. ASSUME q.due = ToSet(q.initial)
      PROVE  p.due = ToSet(p.initial) /\ h \notin ToSet(p.initial)
  BY <1>1, <1>4
<1>5. ASSUME q.due = ToSet(q.initial)
      PROVE  Len(p.initial) < i
  <2>1. h \notin ToSet(p.initial) /\ p.due = ToSet(p.initial)
    BY <1>4, <1>5
  <2>2. \A j \in 1 .. Len(p.initial) : p.initial[j] \in ToSet(p.initial)
    BY <1>1 DEF ToSet
  <2>3. \A j \in 1 .. Len(p.initial) : a[j] = p.initial[j]
    BY <2>1 DEF Fits
  <2>4. i \notin 1 .. Len(p.initial)
    BY <1>2, <2>1, <2>2, <2>3
  <2> QED BY <1>1, <1>2, <2>4
<1>6. ASSUME q.due = ToSet(q.initial)
      PROVE  /\ Len(p.initial) <= Len(b)
             /\ \A j \in 1 .. Len(p.initial) : b[j] = p.initial[j]
             /\ Len(p.calls) = f.next - 1 /\ Len(p.calls) <= Len(p.initial)
             /\ \A j \in 1 .. Len(p.calls) : p.calls[j] = p.initial[j]
  <2>1. Len(p.initial) < i /\ p.due = ToSet(p.initial)
    BY <1>4, <1>5, <1>6
  <2>2. Len(p.initial) <= Len(b)
    BY <1>1, <1>2, <1>3, <2>1
  <2>3. \A j \in 1 .. Len(p.initial) : b[j] = p.initial[j]
    <3>1. \A j \in 1 .. Len(p.initial) : j \in 1 .. i - 1
      BY <1>1, <1>2, <2>1
    <3> QED BY <1>3, <2>1, <3>1 DEF Fits
  <2> QED BY <2>1, <2>2, <2>3 DEF Fits
<1>7. f.length = Len(q.initial)
  BY <1>1 DEF Fits
<1>8. Fits(f, q, b)
  BY <1>1, <1>6, <1>7 DEF Fits
<1> QED BY <1>8 DEF q, b, i

LEMMA JoiningKeepsFits ==
  ASSUME NEW f, NEW p \in Publication, NEW a \in Seq(Handlers), NEW h \in Handlers,
         Fits(f, p, a)
  PROVE  Fits(f, p, Append(a, h))
<1> DEFINE b == Append(a, h)
<1>1. Len(b) = Len(a) + 1 /\ \A j \in 1 .. Len(a) : b[j] = a[j]
  BY AppendProperties
<1>2. Len(a) \in Nat /\ Len(p.initial) \in Nat
  BY LenProperties DEF Publication
<1> HIDE DEF b
<1>3. p.due = ToSet(p.initial) =>
        \A j \in 1 .. Len(p.initial) : b[j] = p.initial[j]
  <2> SUFFICES ASSUME p.due = ToSet(p.initial), NEW j \in 1 .. Len(p.initial)
               PROVE  b[j] = p.initial[j]
    OBVIOUS
  <2>1. j \in 1 .. Len(a) /\ a[j] = p.initial[j]
    BY <1>2 DEF Fits
  <2> QED BY <1>1, <2>1
<1>4. p.due = ToSet(p.initial) => Len(p.initial) <= Len(b)
  BY <1>1, <1>2 DEF Fits
<1>5. Fits(f, p, b)
  BY <1>3, <1>4 DEF Fits
<1> QED BY <1>5 DEF b

\* The loop calls the next handler of its array.
LEMMA CallingKeepsFits ==
  ASSUME NEW f \in Frame, NEW p \in Publication, NEW a \in Seq(Handlers), Fits(f, p, a),
         f.next <= f.length, f.next <= Len(a)
  PROVE  Fits([f EXCEPT !.next = @ + 1, !.inHandler = TRUE],
              [p EXCEPT !.calls = Append(@, a[f.next])], a)
<1> DEFINE n == f.next
           g == [f EXCEPT !.next = @ + 1, !.inHandler = TRUE]
           calls == Append(p.calls, a[n])
           q == [p EXCEPT !.calls = Append(@, a[f.next])]
<1>1. n \in Nat \ {0} /\ g.next = n + 1 /\ g.length = f.length
  BY DEF Frame
<1>2. q.initial = p.initial /\ q.due = p.due /\ q.calls = calls
  BY DEF Publication
<1>3. p.initial \in Seq(Handlers) /\ p.calls \in Seq(Handlers)
  BY DEF Publication
<1>4. Len(p.initial) \in Nat /\ Len(p.calls) \in Nat /\ Len(a) \in Nat
  BY <1>3, LenProperties
<1>5. a[n] \in Handlers
  <2>1. n \in 1 .. Len(a)
    BY <1>1, <1>4
  <2> QED BY <2>1, ElementOfSeq
<1>6. /\ Len(calls) = Len(p.calls) + 1 /\ calls[Len(p.calls) + 1] = a[n]
      /\ \A j \in 1 .. Len(p.calls) : calls[j] = p.calls[j]
  BY <1>3, <1>5, AppendProperties
<1>7. n <= Len(p.initial)
  BY DEF Fits
<1> HIDE DEF n, g, q, calls
<1>8. ASSUME p.due = ToSet(p.initial)
      PROVE  /\ Len(p.initial) <= Len(a)
             /\ \A j \in 1 .. Len(p.initial) : a[j] = p.initial[j]
             /\ Len(calls) = n /\ n <= Len(p.initial)
             /\ \A j \in 1 .. n : calls[j] = p.initial[j]
  <2>1. /\ Len(p.initial) <= Len(a)
        /\ \A j \in 1 .. Len(p.initial) : a[j] = p.initial[j]
        /\ Len(p.calls) = n - 1
        /\ \A j \in 1 .. Len(p.calls) : p.calls[j] = p.initial[j]
    BY <1>8 DEF Fits, n
  <2>2. Len(calls) = n
    BY <1>1, <1>6, <2>1
  <2>3. ASSUME NEW j \in 1 .. n PROVE calls[j] = p.initial[j]
    <3>1. CASE j = n
      <4>1. n \in 1 .. Len(p.initial) /\ Len(p.calls) + 1 = n
        BY <1>1, <1>4, <1>7, <2>1
      <4> QED BY <1>6, <2>1, <3>1, <4>1
    <3>2. CASE j \in 1 .. n - 1
      BY <1>6, <2>1, <3>2
    <3> QED BY <1>1, <3>1, <3>2
  <2> QED BY <1>7, <2>1, <2>2, <2>3
<1>9. g.length = Len(q.initial)
  BY <1>1, <1>2 DEF Fits
<1>10. g.next - 1 = n
  BY <1>1
<1>11. Fits(g, q, a)
  BY <1>2, <1>8, <1>9, <1>10 DEF Fits
<1> QED BY <1>11 DEF g, q

LEMMA ArrayTyped ==
  ASSUME TypeOK, NEW k \in 1 .. Len(stack)
  PROVE  /\ stack[k] \in Frame /\ stack[k].event \in Events
         /\ TypeOf[stack[k].event] \in Types
         /\ publication[stack[k].event] \in Publication
         /\ Array(stack[k]) \in Seq(Handlers)
<1>1. stack[k] \in Frame /\ stack[k].event \in Events
  BY StackTyped
<1>2. TypeOf[stack[k].event] \in Types /\ publication[stack[k].event] \in Publication
  BY <1>1, EventAssumption DEF TypeOK
<1>3. subscriptions[TypeOf[stack[k].event]] \in Seq(Handlers)
  BY <1>2 DEF TypeOK
<1>4. stack[k].array \in Seq(Handlers)
  BY <1>1 DEF Frame
<1> QED BY <1>1, <1>2, <1>3, <1>4 DEF Array

\* A step that leaves loops that have ended as they are.
LEMMA EndedLoopsStay ==
  ASSUME UndisturbedLoopIsExact,
         \A e \in Events : Looped(e)' =>
           /\ Looped(e)
           /\ publication'[e].due = publication[e].due
           /\ publication'[e].initial = publication[e].initial
           /\ publication'[e].calls = publication[e].calls
  PROVE  UndisturbedLoopIsExact'
BY DEF UndisturbedLoopIsExact

LEMMA BeginLoops ==
  ASSUME TypeOK, StackInv, LoopInv, NEW e \in Events, NEW p, Begin(e, p),
         publication[e].status \in {"unpublished", "queued"}
  PROVE  LoopInv'
<1> DEFINE n == Len(stack)
           s == subscriptions[TypeOf[e]]
           f == [event |-> e, next |-> 1, length |-> Len(s),
                 inHandler |-> FALSE, live |-> TRUE, array |-> <<>>]
           q == [status |-> "dispatching", initial |-> s, due |-> ToSet(s),
                 calls |-> <<>>, settled |-> {}, parent |-> p]
<1>1. /\ Len(stack') = n + 1 /\ \A k \in 1 .. n : stack'[k] = stack[k]
      /\ \A d \in Events : d # e => publication'[d] = publication[d]
      /\ UNCHANGED subscriptions
  BY BeginIs
<1>2. stack'[n + 1] = f /\ publication'[e] = q
  BY BeginIs
<1>3. /\ f.event = e /\ f.next = 1 /\ f.length = Len(s) /\ f.live
      /\ q.status = "dispatching" /\ q.initial = s /\ q.due = ToSet(s) /\ q.calls = <<>>
  OBVIOUS
<1>4. /\ n \in Nat /\ \A k \in 1 .. n : stack[k].event \in Events /\ stack[k].event # e
  BY StackTyped DEF StackInv
<1>5. TypeOf[e] \in Types /\ s \in Seq(Handlers) /\ Len(s) \in Nat /\ IsInjective(s)
  <2>1. TypeOf[e] \in Types /\ s \in Seq(Handlers)
    BY EventAssumption DEF TypeOK
  <2> QED BY <2>1, LenProperties DEF LoopInv, OnceInv
<1> HIDE DEF n, s, f, q
<1>6. FitsInv'
  <2>1. ASSUME NEW k \in 1 .. n
        PROVE  Fits(stack'[k], publication'[stack'[k].event], Array(stack[k])')
    <3>1. stack'[k] = stack[k] /\ publication'[stack[k].event] = publication[stack[k].event]
      BY <1>1, <1>4
    <3>2. Array(stack[k])' = Array(stack[k])
      BY <1>1, <3>1 DEF Array
    <3> QED BY <3>1, <3>2 DEF LoopInv, FitsInv, n
  <2>2. Fits(f, q, s)
    <3>1. Len(q.calls) = 0
      BY <1>3
    <3> QED BY <1>3, <1>5, <3>1 DEF Fits
  <2>3. ASSUME NEW k \in 1 .. Len(stack')
        PROVE  Fits(stack[k], publication[stack[k].event], Array(stack[k]))'
    <3>1. CASE k \in 1 .. n
      BY <2>1, <3>1
    <3>2. CASE k = n + 1
      <4>1. Array(stack[k])' = s
        BY <1>1, <1>2, <1>3, <3>2 DEF Array, s
      <4> QED BY <1>2, <1>3, <2>2, <3>2, <4>1
    <3> QED BY <1>1, <1>4, <3>1, <3>2
  <2> QED BY <2>3 DEF FitsInv
<1>7. OnceInv'
  <2>1. \A d \in Events : /\ IsInjective(publication'[d].initial)
                          /\ publication'[d].due \subseteq ToSet(publication'[d].initial)
    <3> SUFFICES ASSUME NEW d \in Events
                 PROVE  /\ IsInjective(publication'[d].initial)
                        /\ publication'[d].due \subseteq ToSet(publication'[d].initial)
      OBVIOUS
    <3>1. CASE d = e
      BY <1>2, <1>3, <1>5, <3>1
    <3>2. CASE d # e
      BY <1>1, <3>2 DEF LoopInv, OnceInv
    <3> QED BY <3>1, <3>2
  <2> QED BY <1>1, <2>1 DEF LoopInv, OnceInv
<1>8. UndisturbedLoopIsExact'
  BY <1>1, <1>2, <1>3, EndedLoopsStay DEF LoopInv, Looped
<1> QED BY <1>6, <1>7, <1>8 DEF LoopInv

\* A step that neither calls a handler nor changes an array.
LEMMA SameArrays ==
  ASSUME TypeOK, LoopInv, OnceInv', Len(stack') = Len(stack),
         \A k \in 1 .. Len(stack) :
           /\ stack'[k].event = stack[k].event /\ stack'[k].next = stack[k].next
           /\ stack'[k].length = stack[k].length
           /\ Array(stack[k])' = Array(stack[k]),
         \A e \in Events :
           /\ Looped(e)' => Looped(e)
           /\ publication'[e].initial = publication[e].initial
           /\ publication'[e].due = publication[e].due
           /\ publication'[e].calls = publication[e].calls
  PROVE  LoopInv'
<1>1. FitsInv'
  <2> SUFFICES ASSUME NEW k \in 1 .. Len(stack)
               PROVE  Fits(stack'[k], publication'[stack'[k].event], Array(stack[k])')
    BY DEF FitsInv
  <2>1. Fits(stack[k], publication[stack[k].event], Array(stack[k]))
        /\ stack[k].event \in Events
    BY StackTyped DEF LoopInv, FitsInv
  <2> QED BY <2>1, ZenonT(30) DEF Fits
<1>2. UndisturbedLoopIsExact'
  BY EndedLoopsStay DEF LoopInv
<1> QED BY <1>1, <1>2 DEF LoopInv

LEMMA CallLoops ==
  ASSUME TypeOK, StackInv, LoopInv, CallHandler
  PROVE  LoopInv'
<1> DEFINE n == Len(stack)
           f == Top
           g == [f EXCEPT !.next = @ + 1, !.inHandler = TRUE]
           p == publication[f.event]
           q == [p EXCEPT !.calls = Append(@, Array(f)[f.next])]
<1>1. n \in 1 .. n /\ n \in Nat /\ f = stack[n] /\ f \in Frame /\ f.event \in Events
  BY StackTyped DEF CallHandler, Top
<1>2. p \in Publication /\ p.status = "dispatching" /\ Array(f) \in Seq(Handlers)
  BY <1>1, ArrayTyped DEF StackInv
<1>3. /\ Len(stack') = n /\ UNCHANGED subscriptions
      /\ \A k \in 1 .. n : stack'[k] = IF k = n THEN g ELSE stack[k]
  BY CallIs
<1>4. publication'[f.event] = q
      /\ \A d \in Events : d # f.event => publication'[d] = publication[d]
  BY CallIs
<1>5. f.next <= f.length /\ f.next <= Len(Array(f))
  BY DEF CallHandler
<1>6. Fits(f, p, Array(f))
  BY <1>1 DEF LoopInv, FitsInv
<1>7. Fits(g, q, Array(f))
  BY <1>1, <1>2, <1>5, <1>6, CallingKeepsFits
<1>8. /\ g.event = f.event /\ g.live = f.live /\ g.array = f.array
      /\ q.initial = p.initial /\ q.due = p.due /\ q.status = "dispatching"
  <2>1. g.event = f.event /\ g.live = f.live /\ g.array = f.array
    BY <1>1 DEF Frame
  <2>2. q.initial = p.initial /\ q.due = p.due /\ q.status = "dispatching"
    BY <1>2 DEF Publication
  <2> QED BY <2>1, <2>2
<1>9. \A k \in 1 .. n : k # n => stack[k].event # f.event
  BY <1>1 DEF StackInv
<1>10. \A k \in 1 .. n : stack[k].event \in Events
  BY StackTyped
<1> HIDE DEF n, f, g, p, q
<1>11. FitsInv'
  <2>1. ASSUME NEW k \in 1 .. n
        PROVE  Fits(stack'[k], publication'[stack'[k].event], Array(stack[k])')
    <3>1. CASE k = n
      <4>1. stack'[k] = g /\ publication'[g.event] = q
        BY <1>3, <1>4, <1>8, <3>1
      <4>2. Array(stack[k])' = Array(f)
        BY <1>3, <1>8, <4>1 DEF Array
      <4> QED BY <1>7, <4>1, <4>2
    <3>2. CASE k # n
      <4>1. stack'[k] = stack[k] /\ publication'[stack[k].event] = publication[stack[k].event]
        BY <1>3, <1>4, <1>9, <1>10, <3>2
      <4>2. Array(stack[k])' = Array(stack[k])
        BY <1>3, <4>1 DEF Array
      <4> QED BY <4>1, <4>2 DEF LoopInv, FitsInv, n
    <3> QED BY <3>1, <3>2
  <2> QED BY <1>3, <2>1 DEF FitsInv
<1>12. OnceInv'
  <2>1. \A d \in Events : /\ publication'[d].initial = publication[d].initial
                          /\ publication'[d].due = publication[d].due
    BY <1>4, <1>8 DEF p
  <2> QED BY <1>3, <2>1 DEF LoopInv, OnceInv
<1>13. UndisturbedLoopIsExact'
  BY <1>4, <1>8, EndedLoopsStay DEF LoopInv, Looped
<1> QED BY <1>11, <1>12, <1>13 DEF LoopInv

LEMMA EndLoops ==
  ASSUME TypeOK, StackInv, LoopInv, EndLoop
  PROVE  LoopInv'
<1> DEFINE n == Len(stack)
           f == Top
           p == publication[f.event]
<1>1. n \in 1 .. n /\ n \in Nat /\ f = stack[n] /\ f \in Frame /\ f.event \in Events
  BY StackTyped DEF EndLoop, Top
<1>2. p \in Publication /\ Array(f) \in Seq(Handlers)
  BY <1>1, ArrayTyped
<1>3. Len(stack') = n - 1 /\ \A k \in 1 .. n - 1 : stack'[k] = stack[k]
  BY PopIs
<1>4. /\ publication'[f.event] = [p EXCEPT !.status = "dispatched"]
      /\ \A d \in Events : d # f.event => publication'[d] = publication[d]
      /\ UNCHANGED subscriptions
  BY <1>1 DEF EndLoop, TypeOK
<1>5. \A d \in Events : /\ publication'[d].initial = publication[d].initial
                        /\ publication'[d].due = publication[d].due
                        /\ publication'[d].calls = publication[d].calls
                        /\ d # f.event => publication'[d].status = publication[d].status
  BY <1>2, <1>4 DEF Publication
<1>6. Fits(f, p, Array(f))
  BY <1>1 DEF LoopInv, FitsInv
<1>7. f.next > f.length \/ f.next > Len(Array(f))
  BY DEF EndLoop, LoopDone
<1>8. f.next \in Nat \ {0} /\ Len(p.initial) \in Nat /\ Len(Array(f)) \in Nat
  <2>1. p.initial \in Seq(Handlers)
    BY <1>2 DEF Publication
  <2> QED BY <1>1, <1>2, <2>1, LenProperties DEF Frame
<1>9. \A k \in 1 .. n - 1 : k \in 1 .. n /\ stack[k].event # f.event /\ stack[k].event \in Events
  <2>1. \A k \in 1 .. n - 1 : k \in 1 .. n /\ k # n
    BY <1>1
  <2> QED BY <1>1, <2>1, StackTyped DEF StackInv
<1>10. ASSUME p.due = ToSet(p.initial)
       PROVE  p.calls = p.initial /\ IsInjective(p.calls)
  <2>1. /\ Len(p.initial) <= Len(Array(f)) /\ f.length = Len(p.initial)
        /\ Len(p.calls) = f.next - 1 /\ Len(p.calls) <= Len(p.initial)
        /\ \A j \in 1 .. Len(p.calls) : p.calls[j] = p.initial[j]
    BY <1>6, <1>10 DEF Fits
  <2>2. Len(p.calls) = Len(p.initial)
    BY <1>7, <1>8, <2>1
  <2>3. p.calls \in Seq(Handlers) /\ p.initial \in Seq(Handlers)
    BY <1>2 DEF Publication
  <2>4. p.calls = p.initial
    BY <2>1, <2>2, <2>3, SeqEqual
  <2> QED BY <1>1, <2>4 DEF LoopInv, OnceInv
<1> HIDE DEF n, f, p
<1>11. FitsInv'
  <2>1. ASSUME NEW k \in 1 .. n - 1
        PROVE  Fits(stack'[k], publication'[stack'[k].event], Array(stack[k])')
    <3>1. stack'[k] = stack[k] /\ publication'[stack[k].event] = publication[stack[k].event]
      BY <1>3, <1>4, <1>9
    <3>2. Array(stack[k])' = Array(stack[k])
      BY <1>4, <3>1 DEF Array
    <3> QED BY <1>9, <3>1, <3>2 DEF LoopInv, FitsInv, n
  <2> QED BY <1>3, <2>1 DEF FitsInv
<1>12. OnceInv'
  BY <1>4, <1>5 DEF LoopInv, OnceInv
<1>13. UndisturbedLoopIsExact'
  <2> SUFFICES ASSUME NEW e \in Events, Looped(e)',
                      publication'[e].due = ToSet(publication'[e].initial)
               PROVE  /\ publication'[e].calls = publication'[e].initial
                      /\ IsInjective(publication'[e].calls)
    BY DEF UndisturbedLoopIsExact
  <2>1. CASE e = f.event
    BY <1>5, <1>10, <2>1 DEF p
  <2>2. CASE e # f.event
    BY <1>5, <2>2 DEF LoopInv, UndisturbedLoopIsExact, Looped
  <2> QED BY <2>1, <2>2
<1> QED BY <1>11, <1>12, <1>13 DEF LoopInv

LEMMA SubscribeLoops ==
  ASSUME TypeOK, StackInv, LoopInv, NEW t \in Types, NEW h \in Handlers, Subscribe(t, h)
  PROVE  LoopInv'
<1> DEFINE s == subscriptions[t]
           b == Append(s, h)
<1>1. /\ s \in Seq(Handlers) /\ ~Contains(s, h) /\ IsInjective(s)
      /\ DOMAIN subscriptions = Types
  BY DEF TypeOK, Subscribe, LoopInv, OnceInv
<1>2. /\ subscriptions' = [subscriptions EXCEPT ![t] = b]
      /\ UNCHANGED <<stack, publication>>
  BY DEF Subscribe
<1>3. /\ b \in Seq(Handlers) /\ Len(b) = Len(s) + 1 /\ b[Len(s) + 1] = h
      /\ \A j \in 1 .. Len(s) : b[j] = s[j]
  BY <1>1, AppendProperties
<1>4. Len(s) \in Nat /\ DOMAIN s = 1 .. Len(s) /\ DOMAIN b = 1 .. Len(b)
  BY <1>1, <1>3, LenProperties
<1>5. \A j \in 1 .. Len(s) : s[j] # h
  BY <1>1, <1>4 DEF Contains
<1> HIDE DEF s, b
<1>6. IsInjective(b)
  <2> SUFFICES ASSUME NEW j \in 1 .. Len(s) + 1, NEW k \in 1 .. Len(s) + 1, b[j] = b[k]
               PROVE  j = k
    BY <1>3, <1>4 DEF IsInjective
  <2>1. CASE j \in 1 .. Len(s) /\ k \in 1 .. Len(s)
    BY <1>1, <1>3, <1>4, <2>1 DEF IsInjective
  <2>2. CASE j = Len(s) + 1 \/ k = Len(s) + 1
    BY <1>3, <1>4, <1>5, <2>2
  <2> QED BY <1>4, <2>1, <2>2
<1>7. FitsInv'
  <2> SUFFICES ASSUME NEW k \in 1 .. Len(stack)
               PROVE  Fits(stack[k], publication[stack[k].event], Array(stack[k])')
    BY <1>2 DEF FitsInv
  <2>1. Fits(stack[k], publication[stack[k].event], Array(stack[k]))
    BY DEF LoopInv, FitsInv
  <2>2. Array(stack[k])' = Array(stack[k]) \/ (Array(stack[k]) = s /\ Array(stack[k])' = b)
    BY <1>1, <1>2, ArrayTyped DEF Array, s
  <2> QED BY <1>1, <2>1, <2>2, ArrayTyped, JoiningKeepsFits DEF b
<1>8. OnceInv'
  BY <1>1, <1>2, <1>6 DEF LoopInv, OnceInv
<1>9. UndisturbedLoopIsExact'
  BY <1>2, EndedLoopsStay DEF LoopInv, Looped
<1> QED BY <1>7, <1>8, <1>9 DEF LoopInv

LEMMA UnsubscribeLoops ==
  ASSUME TypeOK, StackInv, LoopInv, NEW t \in Types, NEW h \in Handlers, Unsubscribe(t, h)
  PROVE  LoopInv'
<1> DEFINE s == subscriptions[t]
           i == indexOf(s, h)
           b == RemoveAt(s, i)
           Left(k) == stack[k].live /\ TypeOf[stack[k].event] = t
<1>1. /\ s \in Seq(Handlers) /\ Contains(s, h) /\ IsInjective(s)
      /\ DOMAIN subscriptions = Types /\ DOMAIN stack = 1 .. Len(stack)
  BY StackTyped, LenProperties DEF TypeOK, Unsubscribe, LoopInv, OnceInv
<1>2. /\ subscriptions' = [subscriptions EXCEPT ![t] = b]
      /\ stack' = IF subscriptions'[t] = <<>> THEN Detached({t}, subscriptions') ELSE stack
      /\ publication' = NotDue(t, h)
  BY DEF Unsubscribe
<1>3. i \in 1 .. Len(s) /\ Len(s) \in Nat
  BY <1>1, FoundAt, LenProperties
<1>4. /\ b \in Seq(Handlers) /\ Len(b) = Len(s) - 1
      /\ \A j \in 1 .. i - 1 : b[j] = s[j]
      /\ \A j \in i .. Len(s) - 1 : b[j] = s[j + 1]
  BY <1>1, <1>3, RemovedAt
<1>5. DOMAIN s = 1 .. Len(s) /\ DOMAIN b = 1 .. Len(b)
  BY <1>1, <1>4, LenProperties
<1>6. subscriptions' \in [Types -> Seq(Handlers)] /\ subscriptions'[t] = b
  BY <1>1, <1>2, <1>4 DEF TypeOK
<1>7. ASSUME NEW e \in Events
      PROVE  /\ publication'[e].initial = publication[e].initial
             /\ publication'[e].calls = publication[e].calls
             /\ publication'[e].status = publication[e].status
             /\ publication'[e].due \subseteq publication[e].due
             /\ publication[e].status # "dispatching" =>
                  publication'[e].due = publication[e].due
  <2>1. publication[e] \in Publication
    BY DEF TypeOK
  <2>2. publication'[e] =
          IF TypeOf[e] = t /\ \E k \in 1 .. Len(stack) : stack[k].live /\ stack[k].event = e
          THEN [publication[e] EXCEPT !.due = @ \ {h}] ELSE publication[e]
    BY <1>1, <1>2 DEF NotDue
  <2>3. publication[e].status # "dispatching" => publication'[e] = publication[e]
    BY <2>2 DEF StackInv
  <2>4. publication'[e] = publication[e]
        \/ publication'[e] = [publication[e] EXCEPT !.due = @ \ {h}]
    BY <2>2
  <2> QED BY <2>1, <2>3, <2>4 DEF Publication
<1>8. Len(stack') = Len(stack)
      /\ \A k \in 1 .. Len(stack) :
           stack'[k] = stack[k]
           \/ /\ Left(k)
              /\ stack'[k] = [stack[k] EXCEPT !.live = FALSE, !.array = b]
  <2>1. CASE subscriptions'[t] = <<>>
    <3>1. {t} \in SUBSET Types /\ stack' = Detached({t}, subscriptions')
      BY <1>2, <2>1
    <3>2. /\ Len(stack') = Len(stack)
          /\ \A k \in 1 .. Len(stack) :
               stack'[k] = IF stack[k].live /\ TypeOf[stack[k].event] \in {t}
                           THEN [stack[k] EXCEPT !.live = FALSE,
                                   !.array = subscriptions'[TypeOf[stack[k].event]]]
                           ELSE stack[k]
      BY <1>6, <3>1, DetachedIs
    <3> QED BY <1>6, <3>2
  <2>2. CASE subscriptions'[t] # <<>>
    BY <1>2, <2>2
  <2> QED BY <2>1, <2>2
<1> HIDE DEF s, i, b
<1>9. FitsInv'
  <2> SUFFICES ASSUME NEW k \in 1 .. Len(stack)
               PROVE  Fits(stack'[k], publication'[stack'[k].event], Array(stack[k])')
    BY <1>8 DEF FitsInv
  <2> DEFINE f == stack[k]
             e == f.event
             p == publication[e]
  <2>1. /\ f \in Frame /\ e \in Events /\ p \in Publication /\ TypeOf[e] \in Types
        /\ Array(f) \in Seq(Handlers) /\ Fits(f, p, Array(f))
        /\ p.due \subseteq ToSet(p.initial)
    BY ArrayTyped DEF LoopInv, FitsInv, OnceInv
  <2>2. CASE Left(k)
    <3>1. Array(f) = s
      BY <2>2 DEF Array, s
    <3>2. /\ stack'[k].event = e /\ stack'[k].next = f.next /\ stack'[k].length = f.length
          /\ (stack'[k].live => stack'[k] = f) /\ (~stack'[k].live => stack'[k].array = b)
      <4>1. CASE stack'[k] = f
        BY <2>2, <4>1
      <4>2. CASE stack'[k] = [f EXCEPT !.live = FALSE, !.array = b]
        BY <2>1, <4>2 DEF Frame
      <4> QED BY <1>8, <4>1, <4>2
    <3>3. Array(stack[k])' = b
      BY <1>6, <2>2, <3>2 DEF Array
    <3>4. publication'[e] = [p EXCEPT !.due = @ \ {h}]
      BY <1>1, <1>2, <2>1, <2>2 DEF NotDue
    <3>5. Fits(f, [p EXCEPT !.due = @ \ {h}], b)
      BY <1>1, <2>1, <3>1, LeavingKeepsFits DEF b, i
    <3> HIDE DEF f, e, p
    <3>6. Fits(stack'[k], [p EXCEPT !.due = @ \ {h}], b)
      BY <3>2, <3>5 DEF Fits
    <3> QED BY <3>2, <3>3, <3>4, <3>6
  <2>3. CASE ~Left(k)
    <3>1. stack'[k] = f
      BY <1>8, <2>3
    <3>2. Array(stack[k])' = Array(f)
      BY <1>1, <1>2, <2>1, <2>3, <3>1 DEF Array
    <3>3. publication'[e] = p
      <4>1. \A j \in 1 .. Len(stack) : stack[j].event = e => j = k
        BY DEF StackInv
      <4> QED BY <1>1, <1>2, <2>1, <2>3, <4>1 DEF NotDue
    <3> QED BY <2>1, <3>1, <3>2, <3>3
  <2> QED BY <2>2, <2>3
<1>10. IsInjective(b)
  <2> SUFFICES ASSUME NEW j \in 1 .. Len(s) - 1, NEW k \in 1 .. Len(s) - 1, b[j] = b[k]
               PROVE  j = k
    BY <1>4, <1>5 DEF IsInjective
  <2> DEFINE to(m) == IF m < i THEN m ELSE m + 1
  <2>1. \A m \in 1 .. Len(s) - 1 : to(m) \in 1 .. Len(s) /\ b[m] = s[to(m)]
    <3> SUFFICES ASSUME NEW m \in 1 .. Len(s) - 1
                 PROVE  to(m) \in 1 .. Len(s) /\ b[m] = s[to(m)]
      OBVIOUS
    <3>1. CASE m < i
      <4>1. m \in 1 .. i - 1 /\ to(m) = m
        BY <1>3, <3>1
      <4> QED BY <1>3, <1>4, <4>1
    <3>2. CASE ~(m < i)
      <4>1. m \in i .. Len(s) - 1 /\ to(m) = m + 1
        BY <1>3, <3>2
      <4> QED BY <1>3, <1>4, <4>1
    <3> QED BY <3>1, <3>2
  <2>2. to(j) = to(k)
    BY <1>1, <1>5, <2>1 DEF IsInjective
  <2> QED BY <1>3, <2>2
<1>11. OnceInv'
  <2>1. \A u \in Types : IsInjective(subscriptions'[u])
    BY <1>1, <1>2, <1>10 DEF LoopInv, OnceInv
  <2>2. \A e \in Events : /\ IsInjective(publication'[e].initial)
                          /\ publication'[e].due \subseteq ToSet(publication'[e].initial)
    BY <1>7 DEF LoopInv, OnceInv
  <2> QED BY <2>1, <2>2 DEF OnceInv
<1>12. UndisturbedLoopIsExact'
  BY <1>7, EndedLoopsStay DEF LoopInv, Looped
<1> QED BY <1>9, <1>11, <1>12 DEF LoopInv

LEMMA ClearLoops ==
  ASSUME TypeOK, LoopInv, ClearAllSubscriptions
  PROVE  LoopInv'
<1>1. /\ subscriptions' = [t \in Types |-> <<>>]
      /\ stack' = Detached(Types, subscriptions) /\ UNCHANGED publication
  BY DEF ClearAllSubscriptions
<1>2. /\ Len(stack') = Len(stack)
      /\ \A k \in 1 .. Len(stack) :
           stack'[k] = IF stack[k].live /\ TypeOf[stack[k].event] \in Types
                       THEN [stack[k] EXCEPT !.live = FALSE,
                               !.array = subscriptions[TypeOf[stack[k].event]]]
                       ELSE stack[k]
  <2>1. Types \in SUBSET Types /\ subscriptions \in [Types -> Seq(Handlers)]
    BY DEF TypeOK
  <2> QED BY <1>1, <2>1, DetachedIs
<1>3. ASSUME NEW k \in 1 .. Len(stack)
      PROVE  /\ stack'[k].event = stack[k].event /\ stack'[k].next = stack[k].next
             /\ stack'[k].length = stack[k].length
             /\ Array(stack[k])' = Array(stack[k])
  <2>1. stack[k] \in Frame /\ TypeOf[stack[k].event] \in Types
    BY ArrayTyped
  <2>2. CASE stack[k].live
    <3>1. stack'[k] = [stack[k] EXCEPT !.live = FALSE,
                         !.array = subscriptions[TypeOf[stack[k].event]]]
      BY <1>2, <2>1, <2>2
    <3>2. /\ stack'[k].event = stack[k].event /\ stack'[k].next = stack[k].next
          /\ stack'[k].length = stack[k].length /\ ~stack'[k].live
          /\ stack'[k].array = subscriptions[TypeOf[stack[k].event]]
      BY <2>1, <3>1 DEF Frame
    <3> QED BY <2>2, <3>2 DEF Array
  <2>3. CASE ~stack[k].live
    <3>1. stack'[k] = stack[k]
      BY <1>2, <2>3
    <3> QED BY <2>3, <3>1 DEF Array
  <2> QED BY <2>2, <2>3
<1>4. IsInjective(<<>>)
  BY DEF IsInjective
<1>5. OnceInv'
  BY <1>1, <1>4 DEF LoopInv, OnceInv
<1> QED BY <1>1, <1>2, <1>3, <1>5, SameArrays DEF Looped

LEMMA NextLoops == TypeOK /\ PromiseInv /\ LoopInv /\ [Next]_vars => LoopInv'
<1> SUFFICES ASSUME TypeOK, StackInv, QueueInv, LoopInv, [Next]_vars PROVE LoopInv'
  BY DEF PromiseInv
<1>1. ASSUME UNCHANGED <<stack, subscriptions>>,
             \A e \in Events :
               /\ Looped(e)' => Looped(e)
               /\ publication'[e].initial = publication[e].initial
               /\ publication'[e].due = publication[e].due
               /\ publication'[e].calls = publication[e].calls
      PROVE  LoopInv'
  <2>1. OnceInv'
    BY <1>1 DEF LoopInv, OnceInv
  <2>2. \A k \in 1 .. Len(stack) : Array(stack[k])' = Array(stack[k])
    BY <1>1 DEF Array
  <2> QED BY <1>1, <2>1, <2>2, SameArrays
<1>2. \A e \in Events : publication[e] \in Publication
  BY DEF TypeOK
<1>3. CASE PublishNext
  <2>1. queue \in Seq(Events) /\ queue # <<>> /\ Begin(Head(queue), <<>>)
    BY <1>3 DEF PublishNext, TypeOK
  <2>2. Head(queue) \in Events /\ Head(queue) = queue[1] /\ 1 \in 1 .. Len(queue)
    BY <2>1, HeadTailProperties, EmptySeq
  <2> QED BY <2>1, <2>2, BeginLoops DEF QueueInv
<1>4. ASSUME NEW e \in Events, Publish(e) PROVE LoopInv'
  BY <1>4, BeginLoops DEF Publish
<1>5. CASE HandlerYields
  <2>1. /\ Top = stack[Len(stack)] /\ Top \in Frame
    BY <1>5, StackTyped DEF HandlerYields, Top
  <2>2. /\ Len(stack') = Len(stack) /\ UNCHANGED <<publication, subscriptions>>
        /\ \A k \in 1 .. Len(stack) :
             stack'[k] = IF k = Len(stack)
                         THEN [Top EXCEPT !.inHandler = FALSE] ELSE stack[k]
    BY <1>5, YieldIs
  <2>3. ASSUME NEW k \in 1 .. Len(stack)
        PROVE  /\ stack'[k].event = stack[k].event /\ stack'[k].next = stack[k].next
               /\ stack'[k].length = stack[k].length
               /\ Array(stack[k])' = Array(stack[k])
    <3>1. /\ stack'[k].event = stack[k].event /\ stack'[k].next = stack[k].next
          /\ stack'[k].length = stack[k].length /\ stack'[k].live = stack[k].live
          /\ stack'[k].array = stack[k].array
      BY <2>1, <2>2 DEF Frame
    <3> QED BY <2>2, <3>1 DEF Array
  <2>4. OnceInv'
    BY <2>2 DEF LoopInv, OnceInv
  <2> QED BY <2>2, <2>3, <2>4, SameArrays DEF Looped
<1>6. ASSUME NEW es \in Batches, PublishAll(es) PROVE LoopInv'
  <2>1. \A e \in Events :
          /\ publication'[e].status \in {"queued", publication[e].status}
          /\ publication'[e].initial = publication[e].initial
          /\ publication'[e].due = publication[e].due
          /\ publication'[e].calls = publication[e].calls
    BY <1>2, <1>6 DEF PublishAll, Publication
  <2> QED BY <1>1, <1>6, <2>1 DEF PublishAll, Looped
<1>7. ASSUME NEW e \in Events,
             Resolve(e) \/ \E i \in 1 .. Len(publication[e].calls) : Settle(e, i)
      PROVE  LoopInv'
  <2>1. ASSUME NEW d \in Events
        PROVE  /\ Looped(d)' => Looped(d)
               /\ publication'[d].initial = publication[d].initial
               /\ publication'[d].due = publication[d].due
               /\ publication'[d].calls = publication[d].calls
    <3>1. publication[d] \in Publication /\ DOMAIN publication = Events
      BY DEF TypeOK
    <3>2. CASE Resolve(e)
      BY <3>1, <3>2 DEF Resolve, Publication, Looped
    <3>3. ASSUME NEW i \in 1 .. Len(publication[e].calls), Settle(e, i)
          PROVE  /\ Looped(d)' => Looped(d)
                 /\ publication'[d].initial = publication[d].initial
                 /\ publication'[d].due = publication[d].due
                 /\ publication'[d].calls = publication[d].calls
      BY <3>1, <3>3 DEF Settle, Publication, Looped
    <3> QED BY <1>7, <3>2, <3>3
  <2>2. UNCHANGED <<stack, subscriptions>>
    BY <1>7 DEF Resolve, Settle
  <2> QED BY <1>1, <2>1, <2>2
<1>8. CASE ClearEventHistory \/ UNCHANGED vars
  BY <1>1, <1>8 DEF ClearEventHistory, vars, Looped
<1> QED
  BY <1>3, <1>4, <1>5, <1>6, <1>7, <1>8, CallLoops, EndLoops, SubscribeLoops,
     UnsubscribeLoops, ClearLoops DEF Next

----------------------------------------------------------------------------
(* The theorems. *)

IInv == TypeOK /\ HistoryIsRecent /\ PromiseInv /\ LoopInv

LEMMA InitIInv == Init => IInv
<1> SUFFICES ASSUME Init PROVE IInv
  OBVIOUS
<1>1. /\ stack = <<>> /\ queue = <<>> /\ published = <<>> /\ eventHistory = <<>>
      /\ Len(stack) = 0 /\ Len(queue) = 0
      /\ \A t \in Types : subscriptions[t] = <<>>
      /\ \A e \in Events :
           publication[e] = [status |-> "unpublished", initial |-> <<>>, due |-> {},
                             calls |-> <<>>, settled |-> {}, parent |-> <<>>]
  BY DEF Init
<1>2. HistoryIsRecent
  BY <1>1, HistoryAssumption DEF HistoryIsRecent
<1>3. PromiseInv
  BY <1>1 DEF PromiseInv, StackInv, QueueInv, SettledInv
<1>4. IsInjective(<<>>)
  BY DEF IsInjective
<1>5. LoopInv
  BY <1>1, <1>4 DEF LoopInv, FitsInv, OnceInv, UndisturbedLoopIsExact, Looped
<1> QED BY <1>2, <1>3, <1>5, InitTypeOK DEF IInv

LEMMA SpecIInv == Spec => []IInv
<1>1. IInv /\ [Next]_vars => IInv'
  BY NextTypeOK, NextHistory, NextPromises, NextLoops DEF IInv
<1> QED BY <1>1, InitIInv, PTL DEF Spec

\* Subscriptions, loops, promises and history keep their types, however deep
\* handlers nest publications.
THEOREM PublisherTypeCorrect == Spec => []TypeOK
  BY SpecIInv, PTL DEF IInv

\* Whatever is published from within loops and batches, the history is the
\* newest events in the order of their publish.
THEOREM HistoryKeepsTheNewest == Spec => []HistoryIsRecent
  BY SpecIInv, PTL DEF IInv

\* Handlers that fail, subscribe, publish or clear the map do not disturb a
\* loop: only a handler that leaves its array does.
THEOREM UndisturbedLoopsAreExact == Spec => []UndisturbedLoopIsExact
  BY SpecIInv, PTL DEF IInv, LoopInv

\* publish is fulfilled after all it called, and all that was published there.
THEOREM NothingResolvesEarly == Spec => []ResolvedMeansSettled
<1>1. IInv => ResolvedMeansSettled
  BY PromisesSettle DEF IInv
<1> QED BY <1>1, SpecIInv, PTL

----------------------------------------------------------------------------
(* Nobody waits in a circle. *)

\* Induction without an operator parameter: a set of numbers has a least one.
LEMMA LeastNumber ==
  ASSUME NEW T \in SUBSET Nat, T # {}
  PROVE  \E n \in T : \A m \in T : n <= m
<1> DEFINE R == {p \in Nat \X Nat : p[1] < p[2]}
<1>1. IsWellFoundedOn(R, Nat)
  BY NatLessThanWellFounded DEF OpToRel
<1>2. ASSUME NEW m \in Nat, NEW n \in Nat, <<m, n>> \notin R
      PROVE  n <= m
  <2>1. <<m, n>> \in Nat \X Nat /\ <<m, n>>[1] = m /\ <<m, n>>[2] = n
    OBVIOUS
  <2>2. ~(m < n)
    BY <1>2, <2>1
  <2> QED BY <2>2
<1> HIDE DEF R
<1>3. \E n \in T : \A m \in T : <<m, n>> \notin R
  BY <1>1, WFMin
<1> QED BY <1>2, <1>3

\* A call of d has published c and awaits it.
Awaits(d, c) == \E i \in Nat : publication[c].parent = <<d, i>>

Begun(e) == publication[e].status \notin {"unpublished", "queued"}

\* Whoever awaits or is awaited has begun, what is queued is in the queue,
\* and publications can be numbered so that each awaits only smaller ones.
WaitInv ==
  /\ \A d, c \in Events : Awaits(d, c) => Begun(d) /\ Begun(c)
  /\ \A e \in Events : publication[e].status = "queued" =>
       \E k \in 1 .. Len(queue) : queue[k] = e
  /\ \E rank \in [Events -> Nat] :
       \A d, c \in Events : Awaits(d, c) => rank[c] < rank[d]

\* A step that begins no loop leaves everybody's parent alone, and what has
\* begun stays so.
LEMMA SameWaits ==
  ASSUME WaitInv,
         \A e \in Events : /\ publication'[e].parent = publication[e].parent
                           /\ Begun(e) => Begun(e)'
                           /\ publication'[e].status = "queued" =>
                                \E k \in 1 .. Len(queue') : queue'[k] = e
  PROVE  WaitInv'
<1>1. \A d, c \in Events : Awaits(d, c)' <=> Awaits(d, c)
  BY DEF Awaits
<1> QED BY <1>1 DEF WaitInv

\* The event that begins awaits nobody yet, and becomes the smallest.
LEMMA BeginWaits ==
  ASSUME TypeOK, WaitInv, NEW e \in Events, NEW p, Begin(e, p), ~Begun(e),
         \A d \in Events, i \in Nat : p = <<d, i>> => Begun(d),
         \A c \in Events \ {e} : publication[c].status = "queued" =>
            \E k \in 1 .. Len(queue') : queue'[k] = c
  PROVE  WaitInv'
<1>1. /\ publication'[e].status = "dispatching" /\ publication'[e].parent = p
      /\ \A d \in Events : d # e => publication'[d] = publication[d]
  <2>1. publication'[e] =
          [status |-> "dispatching", initial |-> subscriptions[TypeOf[e]],
           due |-> ToSet(subscriptions[TypeOf[e]]), calls |-> <<>>,
           settled |-> {}, parent |-> p]
    BY BeginIs
  <2>2. publication'[e].status = "dispatching" /\ publication'[e].parent = p
    BY <2>1
  <2> QED BY <2>2, BeginIs
<1>2. \A d, c \in Events :
        Awaits(d, c)' <=> IF c = e THEN \E i \in Nat : p = <<d, i>> ELSE Awaits(d, c)
  BY <1>1 DEF Awaits
<1>3. \A d, c \in Events : Awaits(d, c)' => Begun(d) /\ d # e
  BY <1>2 DEF WaitInv
<1>4. \A d, c \in Events : Awaits(d, c)' => Begun(d)' /\ Begun(c)'
  BY <1>1, <1>2, <1>3 DEF Begun, WaitInv
<1>5. \A c \in Events : publication'[c].status = "queued" =>
         \E k \in 1 .. Len(queue') : queue'[k] = c
  BY <1>1
<1>6. \E rank \in [Events -> Nat] :
        \A d, c \in Events : Awaits(d, c)' => rank[c] < rank[d]
  <2>1. PICK rank \in [Events -> Nat] :
          \A d, c \in Events : Awaits(d, c) => rank[c] < rank[d]
    BY DEF WaitInv
  <2> DEFINE new == [c \in Events |-> IF c = e THEN 0 ELSE rank[c] + 1]
  <2>2. new \in [Events -> Nat]
    OBVIOUS
  <2>3. ASSUME NEW d \in Events, NEW c \in Events, Awaits(d, c)'
        PROVE  new[c] < new[d]
    <3>1. d # e /\ new[d] = rank[d] + 1 /\ rank[d] \in Nat
      BY <1>3, <2>3
    <3>2. CASE c = e
      BY <3>1, <3>2
    <3>3. CASE c # e
      <4>1. rank[c] < rank[d] /\ new[c] = rank[c] + 1 /\ rank[c] \in Nat
        BY <1>2, <2>1, <2>3, <3>3
      <4> HIDE DEF new
      <4> QED BY <3>1, <4>1
    <3> QED BY <3>2, <3>3
  <2> HIDE DEF new
  <2> QED BY <2>2, <2>3
<1> QED BY <1>4, <1>5, <1>6 DEF WaitInv

LEMMA PublishWaits ==
  ASSUME TypeOK, PromiseInv, WaitInv, PublishNext \/ \E e \in Events : Publish(e)
  PROVE  WaitInv'
<1>1. CASE PublishNext
  <2>1. /\ queue \in Seq(Events) /\ queue # <<>> /\ queue' = Tail(queue)
        /\ Begin(Head(queue), <<>>)
    BY <1>1 DEF PublishNext, TypeOK
  <2>2. Head(queue) \in Events /\ Len(queue) \in Nat \ {0} /\ Head(queue) = queue[1]
    BY <2>1, HeadTailProperties, EmptySeq
  <2>3. ~Begun(Head(queue))
    BY <2>2 DEF PromiseInv, QueueInv, Begun
  <2>4. /\ Len(queue') = Len(queue) - 1
        /\ \A k \in 1 .. Len(queue) - 1 : queue'[k] = queue[k + 1]
    BY <2>1, HeadTailProperties
  <2>5. ASSUME NEW c \in Events \ {Head(queue)}, publication[c].status = "queued"
        PROVE  \E k \in 1 .. Len(queue') : queue'[k] = c
    <3>1. PICK k \in 1 .. Len(queue) : queue[k] = c
      BY <2>5 DEF WaitInv
    <3>2. k # 1
      BY <2>2, <3>1
    <3>3. k - 1 \in 1 .. Len(queue) - 1 /\ (k - 1) + 1 = k
      BY <2>2, <3>2
    <3> QED BY <2>4, <3>1, <3>3
  <2>6. \A d \in Events, i \in Nat : <<>> # <<d, i>>
    OBVIOUS
  <2> QED BY <2>1, <2>2, <2>3, <2>5, <2>6, BeginWaits
<1>2. ASSUME NEW e \in Events, Publish(e) PROVE WaitInv'
  <2> DEFINE p == IF InLoop THEN CurrentCall ELSE <<>>
  <2>1. Begin(e, p) /\ queue' = queue /\ publication[e].status = "unpublished"
    BY <1>2 DEF Publish
  <2>2. ASSUME NEW d \in Events, NEW i \in Nat, p = <<d, i>>
        PROVE  Begun(d)
    <3>1. InLoop /\ d = Top.event
      BY <2>2 DEF CurrentCall
    <3>2. Len(stack) \in 1 .. Len(stack)
      BY <3>1, StackTyped
    <3> QED BY <3>1, <3>2 DEF PromiseInv, StackInv, Top, Begun
  <2>3. ~Begun(e)
    BY <2>1 DEF Begun
  <2>4. \A c \in Events \ {e} : publication[c].status = "queued" =>
          \E k \in 1 .. Len(queue') : queue'[k] = c
    BY <2>1 DEF WaitInv
  <2> HIDE DEF p
  <2> QED BY <2>1, <2>2, <2>3, <2>4, BeginWaits
<1> QED BY <1>1, <1>2

LEMMA NextWaits == TypeOK /\ PromiseInv /\ WaitInv /\ [Next]_vars => WaitInv'
<1> SUFFICES ASSUME TypeOK, PromiseInv, WaitInv, [Next]_vars PROVE WaitInv'
  OBVIOUS
<1>1. \A e \in Events : publication[e] \in Publication
  BY DEF TypeOK
<1>2. ASSUME queue' = queue,
             \A e \in Events : /\ publication'[e].parent = publication[e].parent
                               /\ publication'[e].status = publication[e].status
                                    \/ publication'[e].status \in {"dispatched", "resolved"}
      PROVE  WaitInv'
  BY <1>2, SameWaits DEF WaitInv, Begun
<1>3. ASSUME NEW es \in Batches, PublishAll(es) PROVE WaitInv'
  <2>1. es \in Seq(Events) /\ DOMAIN es = 1 .. Len(es)
    BY BatchAssumption, LenProperties
  <2>2. queue = <<>> /\ queue' = es
    BY <1>3 DEF PublishAll
  <2>3. ASSUME NEW e \in Events
        PROVE  /\ publication'[e].parent = publication[e].parent
               /\ publication'[e].status =
                    IF e \in ToSet(es) THEN "queued" ELSE publication[e].status
               /\ e \in ToSet(es) => publication[e].status = "unpublished"
    <3>1. publication'[e] = IF e \in ToSet(es)
                            THEN [publication[e] EXCEPT !.status = "queued"]
                            ELSE publication[e]
      BY <1>3 DEF PublishAll
    <3> QED BY <1>1, <1>3, <3>1 DEF Publication, PublishAll
  <2>4. \A e \in Events : publication[e].status # "queued"
    BY <2>2 DEF WaitInv
  <2>5. \A e \in ToSet(es) : \E k \in 1 .. Len(es) : es[k] = e
    BY <2>1 DEF ToSet
  <2> QED BY <2>2, <2>3, <2>4, <2>5, SameWaits DEF Begun
<1>4. CASE CallHandler
  <2>1. \A e \in Events : /\ publication'[e].parent = publication[e].parent
                          /\ publication'[e].status = publication[e].status
    BY <1>1, <1>4, CallIs DEF Publication
  <2> QED BY <1>2, <1>4, <2>1 DEF CallHandler
<1>5. CASE EndLoop
  <2>1. DOMAIN publication = Events
    BY DEF TypeOK
  <2>2. \A e \in Events :
          publication'[e] \in {publication[e],
                               [publication[e] EXCEPT !.status = "dispatched"]}
    BY <1>5, <2>1 DEF EndLoop
  <2> QED BY <1>1, <1>2, <1>5, <2>2 DEF EndLoop, Publication
<1>6. ASSUME NEW d \in Events,
             Resolve(d) \/ \E i \in 1 .. Len(publication[d].calls) : Settle(d, i)
      PROVE  WaitInv'
  <2>1. DOMAIN publication = Events /\ queue' = queue
    BY <1>6 DEF TypeOK, Resolve, Settle
  <2>2. CASE Resolve(d)
    <3>1. \A e \in Events :
            publication'[e] \in {publication[e],
                                 [publication[e] EXCEPT !.status = "resolved"]}
      BY <2>1, <2>2 DEF Resolve
    <3> QED BY <1>1, <1>2, <2>1, <3>1 DEF Publication
  <2>3. ASSUME NEW i \in 1 .. Len(publication[d].calls), Settle(d, i)
        PROVE  WaitInv'
    <3>1. \A e \in Events :
            publication'[e] \in {publication[e],
                                 [publication[e] EXCEPT !.settled = @ \union {i}]}
      BY <2>1, <2>3 DEF Settle
    <3> QED BY <1>1, <1>2, <2>1, <3>1 DEF Publication
  <2> QED BY <1>6, <2>2, <2>3
<1>7. ASSUME NEW t \in Types, NEW h \in Handlers, Unsubscribe(t, h)
      PROVE  WaitInv'
  <2>1. \A e \in Events :
          publication'[e] \in {publication[e], [publication[e] EXCEPT !.due = @ \ {h}]}
    BY <1>7 DEF Unsubscribe, NotDue
  <2> QED BY <1>1, <1>2, <1>7, <2>1 DEF Unsubscribe, Publication
<1>8. CASE \/ HandlerYields \/ ClearAllSubscriptions \/ ClearEventHistory
           \/ UNCHANGED vars
           \/ \E t \in Types, h \in Handlers : Subscribe(t, h)
  BY <1>2, <1>8
  DEF HandlerYields, ClearAllSubscriptions, ClearEventHistory, vars, Subscribe
<1> QED
  BY <1>3, <1>4, <1>5, <1>6, <1>7, <1>8, PublishWaits DEF Next

LEMMA SpecWaitInv == Spec => [](IInv /\ WaitInv)
<1>1. Init => WaitInv
  <2> SUFFICES ASSUME Init PROVE WaitInv
    OBVIOUS
  <2>1. \A e \in Events : /\ publication[e].parent = <<>>
                          /\ publication[e].status = "unpublished"
    BY DEF Init
  <2>2. \A d, c \in Events : ~Awaits(d, c)
    BY <2>1 DEF Awaits
  <2>3. [e \in Events |-> 0] \in [Events -> Nat]
    OBVIOUS
  <2> QED BY <2>1, <2>2, <2>3 DEF WaitInv
<1>2. IInv /\ WaitInv /\ [Next]_vars => WaitInv'
  BY NextWaits DEF IInv
<1> QED BY <1>1, <1>2, SpecIInv, PTL DEF Spec

\* Publications nested in handlers, to any depth, never wait in a circle:
\* among any of them, one waits for none of the others.
NoCircularWait ==
  \A S \in SUBSET Events :
    S # {} => \E d \in S : \A c \in S : ~Awaits(d, c)

\* A handler that awaits the publish it calls is never, through others, what
\* that publish waits for: Promise.all never deadlocks.
THEOREM NobodyWaitsInACircle == Spec => []NoCircularWait
<1>1. WaitInv => NoCircularWait
  <2> SUFFICES ASSUME WaitInv, NEW S \in SUBSET Events, S # {}
               PROVE  \E d \in S : \A c \in S : ~Awaits(d, c)
    BY DEF NoCircularWait
  <2>1. PICK rank \in [Events -> Nat] :
          \A d, c \in Events : Awaits(d, c) => rank[c] < rank[d]
    BY DEF WaitInv
  <2> DEFINE T == {rank[d] : d \in S}
  <2>2. T \in SUBSET Nat /\ T # {}
    OBVIOUS
  <2>3. PICK n \in T : \A m \in T : n <= m
    <3> HIDE DEF T
    <3> QED BY <2>2, LeastNumber
  <2>4. PICK d \in S : rank[d] = n
    OBVIOUS
  <2>5. \A c \in S : rank[d] <= rank[c] /\ rank[c] \in Nat /\ rank[d] \in Nat
    BY <2>3, <2>4
  <2> QED BY <2>1, <2>5
<1> QED BY <1>1, SpecWaitInv, PTL

Pending == {e \in Events : publication[e].status \notin {"unpublished", "resolved"}}

\* What Resolve or Settle ask of d.
CanGoOn(d) ==
  /\ publication[d].status = "dispatched"
  /\ \/ AllSettled(d)
     \/ \E i \in 1 .. Len(publication[d].calls) \ publication[d].settled :
          \A c \in Awaited(d, i) : publication[c].status = "resolved"

\* When no loop runs, whatever is not fulfilled is or waits for a publication
\* whose promise, or the promise of one of whose calls, can be settled: this
\* holds of all pending publications and of any part of them that waits for
\* nothing outside it.  So fulfilling every promise needs no more than that
\* handlers settle.
PendingCanGoOn ==
  ~InLoop /\ queue = <<>> =>
    \A S \in SUBSET Pending :
      S # {} /\ (\A d \in S, c \in Pending : Awaits(d, c) => c \in S)
        => \E d \in S : CanGoOn(d)

\* The guards of what settles promises are met whenever something is pending:
\* with handlers that settle, EveryPublicationResolves needs nothing else.
THEOREM PromisesCanSettle == Spec => []PendingCanGoOn
<1>1. IInv /\ WaitInv /\ NoCircularWait => PendingCanGoOn
  <2> SUFFICES ASSUME TypeOK, PromiseInv, WaitInv, NoCircularWait,
                      ~InLoop, queue = <<>>,
                      NEW S \in SUBSET Pending, S # {},
                      \A d \in S, c \in Pending : Awaits(d, c) => c \in S
               PROVE  \E d \in S : CanGoOn(d)
    BY DEF PendingCanGoOn, IInv
  <2>1. PICK d \in S : \A c \in S : ~Awaits(d, c)
    <3>1. S \in SUBSET Events
      BY DEF Pending
    <3> QED BY <3>1 DEF NoCircularWait
  <2>2. d \in Events /\ publication[d] \in Publication
    BY DEF Pending, TypeOK
  <2>3. publication[d].status = "dispatched"
    <3>1. publication[d].status \notin {"unpublished", "resolved"}
      BY DEF Pending
    <3>2. publication[d].status # "dispatching"
      <4>1. Len(stack) = 0
        BY StackTyped
      <4> QED BY <2>2, <4>1 DEF PromiseInv, StackInv
    <3>3. publication[d].status # "queued"
      BY <2>2 DEF WaitInv
    <3> QED BY <2>2, <3>1, <3>2, <3>3 DEF Publication, Statuses
  <2>4. CASE ~AllSettled(d)
    <3>1. PICK i \in 1 .. Len(publication[d].calls) : i \notin publication[d].settled
      BY <2>4 DEF AllSettled
    <3>2. ASSUME NEW c \in Awaited(d, i) PROVE publication[c].status = "resolved"
      <4>1. c \in Events /\ publication[c].parent = <<d, i>> /\ i \in Nat
        BY DEF Awaited
      <4>2. Awaits(d, c) /\ c \notin Pending
        BY <2>1, <4>1 DEF Awaits
      <4>3. Begun(c)
        BY <2>2, <4>1, <4>2 DEF WaitInv
      <4> QED BY <4>1, <4>2, <4>3 DEF Pending, Begun
    <3> QED BY <2>3, <3>1, <3>2 DEF CanGoOn
  <2> QED BY <2>3, <2>4 DEF CanGoOn
<1> QED BY <1>1, NobodyWaitsInACircle, SpecWaitInv, PTL

----------------------------------------------------------------------------
(* No loop is endless. *)

\* A loop is as long as the array publish found, and has called a handler for
\* each index it has passed.
Paced(f, p) ==
  /\ f.length = Len(p.initial)
  /\ f.next = Len(p.calls) + 1
  /\ Len(p.calls) <= Len(p.initial)

\* Handlers that subscribe others from inside a loop do not prolong it: it
\* calls no more handlers than publish found.
LoopsAreBounded ==
  \A e \in Events : Len(publication[e].calls) <= Len(publication[e].initial)

PaceInv ==
  /\ \A k \in 1 .. Len(stack) : Paced(stack[k], publication[stack[k].event])
  /\ LoopsAreBounded

\* A step that calls no handler and begins no loop.
LEMMA SamePace ==
  ASSUME TypeOK, PaceInv, Len(stack') \in Nat, Len(stack') <= Len(stack),
         \A k \in 1 .. Len(stack') :
           /\ stack'[k].event = stack[k].event
           /\ stack'[k].next = stack[k].next
           /\ stack'[k].length = stack[k].length,
         \A e \in Events : /\ publication'[e].calls = publication[e].calls
                           /\ publication'[e].initial = publication[e].initial
  PROVE  PaceInv'
<1>1. \A k \in 1 .. Len(stack') : k \in 1 .. Len(stack) /\ stack[k].event \in Events
  BY StackTyped
<1>2. ASSUME NEW k \in 1 .. Len(stack')
      PROVE  Paced(stack'[k], publication'[stack'[k].event])
  <2>1. Paced(stack[k], publication[stack[k].event])
    BY <1>1 DEF PaceInv
  <2>2. /\ publication'[stack[k].event].calls = publication[stack[k].event].calls
        /\ publication'[stack[k].event].initial = publication[stack[k].event].initial
    BY <1>1
  <2> QED BY <2>1, <2>2 DEF Paced
<1>3. LoopsAreBounded'
  BY DEF PaceInv, LoopsAreBounded
<1> QED BY <1>2, <1>3 DEF PaceInv

LEMMA BeginPace ==
  ASSUME TypeOK, PromiseInv, PaceInv, NEW e \in Events, NEW p, Begin(e, p),
         publication[e].status # "dispatching"
  PROVE  PaceInv'
<1> DEFINE n == Len(stack)
           a == subscriptions[TypeOf[e]]
<1>1. n \in Nat /\ \A k \in 1 .. n : stack[k].event \in Events
  BY StackTyped
<1>2. Len(a) \in Nat
  BY EventAssumption, LenProperties DEF TypeOK
<1>3. /\ Len(stack') = n + 1 /\ \A k \in 1 .. n : stack'[k] = stack[k]
      /\ stack'[n + 1] = [event |-> e, next |-> 1, length |-> Len(a),
                          inHandler |-> FALSE, live |-> TRUE, array |-> <<>>]
      /\ publication'[e] = [status |-> "dispatching", initial |-> a,
                            due |-> ToSet(a), calls |-> <<>>, settled |-> {},
                            parent |-> p]
      /\ \A d \in Events : d # e => publication'[d] = publication[d]
  BY BeginIs
<1> HIDE DEF a
<1>4. /\ stack'[n + 1].event = e /\ publication'[e].calls = <<>>
      /\ publication'[e].initial = a
      /\ stack'[n + 1].next = 1 /\ stack'[n + 1].length = Len(a)
  BY <1>3
<1>5. Paced(stack'[n + 1], publication'[stack'[n + 1].event])
  BY <1>2, <1>4 DEF Paced
<1>6. ASSUME NEW k \in 1 .. n
      PROVE  Paced(stack'[k], publication'[stack'[k].event])
  <2>1. stack[k].event # e
    BY DEF PromiseInv, StackInv
  <2> QED BY <1>1, <1>3, <2>1 DEF PaceInv
<1>7. LoopsAreBounded'
  BY <1>2, <1>3, <1>4 DEF PaceInv, LoopsAreBounded
<1> HIDE DEF n
<1>8. \A k \in 1 .. n + 1 : k \in 1 .. n \/ k = n + 1
  BY <1>1
<1>9. \A k \in 1 .. Len(stack') : Paced(stack'[k], publication'[stack'[k].event])
  BY <1>3, <1>5, <1>6, <1>8
<1> QED BY <1>7, <1>9 DEF PaceInv

LEMMA CallPace ==
  ASSUME TypeOK, PromiseInv, PaceInv, CallHandler
  PROVE  PaceInv'
<1> DEFINE n == Len(stack)
           e == Top.event
<1>1. /\ n \in 1 .. n /\ n \in Nat /\ Top = stack[n] /\ Top \in Frame /\ e \in Events
      /\ \A k \in 1 .. n : stack[k].event \in Events
  BY StackTyped DEF CallHandler, Top
<1>2. Top.next <= Top.length /\ Top.next <= Len(Array(Top))
  BY DEF CallHandler
<1>3. publication[e] \in Publication /\ publication[e].calls \in Seq(Handlers)
      /\ publication[e].initial \in Seq(Handlers)
  BY <1>1 DEF TypeOK, Publication
<1>4. Array(Top)[Top.next] \in Handlers
  <2>1. Array(Top) \in Seq(Handlers)
    BY TopTyped DEF CallHandler
  <2>2. Top.next \in 1 .. Len(Array(Top))
    BY <1>1, <1>2, <2>1, LenProperties DEF Frame
  <2> QED BY <2>1, <2>2, ElementOfSeq
<1>5. /\ publication'[e].calls = Append(publication[e].calls, Array(Top)[Top.next])
      /\ publication'[e].initial = publication[e].initial
      /\ \A d \in Events : d # e => publication'[d] = publication[d]
  BY <1>3, CallIs DEF Publication
<1>6. Len(publication'[e].calls) = Len(publication[e].calls) + 1
  BY <1>3, <1>4, <1>5, AppendProperties
<1>7. /\ Len(stack') = n
      /\ \A k \in 1 .. n : k # n => stack'[k] = stack[k]
      /\ stack'[n] = [Top EXCEPT !.next = @ + 1, !.inHandler = TRUE]
  BY <1>1, CallIs
<1>8. /\ stack'[n].event = e /\ stack'[n].length = Top.length
      /\ stack'[n].next = Top.next + 1
  BY <1>1, <1>7 DEF Frame
<1>9. Paced(Top, publication[e])
  BY <1>1 DEF PaceInv
<1>10. Len(publication[e].calls) \in Nat /\ Len(publication[e].initial) \in Nat
  BY <1>3, LenProperties
<1>11. \A k \in 1 .. n : k # n => stack[k].event # e
  BY <1>1 DEF PromiseInv, StackInv
<1> HIDE DEF n, e
<1>12. Len(publication'[e].calls) <= Len(publication'[e].initial)
  BY <1>2, <1>5, <1>6, <1>9, <1>10 DEF Paced
<1>13. Paced(stack'[n], publication'[stack'[n].event])
  BY <1>5, <1>6, <1>8, <1>9, <1>10, <1>12 DEF Paced
<1>14. \A k \in 1 .. n : k # n => Paced(stack'[k], publication'[stack'[k].event])
  BY <1>1, <1>5, <1>7, <1>11 DEF PaceInv, n
<1>15. LoopsAreBounded'
  BY <1>5, <1>12 DEF PaceInv, LoopsAreBounded
<1> QED BY <1>7, <1>13, <1>14, <1>15 DEF PaceInv

LEMMA NextPace == TypeOK /\ PromiseInv /\ PaceInv /\ [Next]_vars => PaceInv'
<1> SUFFICES ASSUME TypeOK, PromiseInv, PaceInv, [Next]_vars PROVE PaceInv'
  OBVIOUS
<1>1. /\ \A e \in Events : publication[e] \in Publication
      /\ DOMAIN publication = Events /\ Len(stack) \in Nat
      /\ \A k \in 1 .. Len(stack) : stack[k] \in Frame
  BY StackTyped DEF TypeOK
<1>2. ASSUME UNCHANGED stack,
             \A e \in Events : /\ publication'[e].calls = publication[e].calls
                               /\ publication'[e].initial = publication[e].initial
      PROVE  PaceInv'
  BY <1>1, <1>2, SamePace
<1>3. CASE PublishNext
  <2>1. queue \in Seq(Events) /\ queue # <<>> /\ Begin(Head(queue), <<>>)
    BY <1>3 DEF PublishNext, TypeOK
  <2>2. Head(queue) \in Events /\ Head(queue) = queue[1] /\ 1 \in 1 .. Len(queue)
    BY <2>1, HeadTailProperties, EmptySeq
  <2> QED BY <2>1, <2>2, BeginPace DEF PromiseInv, QueueInv
<1>4. ASSUME NEW e \in Events, Publish(e) PROVE PaceInv'
  BY <1>4, BeginPace DEF Publish
<1>5. CASE HandlerYields
  <2>1. /\ Top = stack[Len(stack)] /\ Top \in Frame
    BY <1>5, StackTyped DEF HandlerYields, Top
  <2>2. /\ Len(stack') = Len(stack) /\ UNCHANGED publication
        /\ \A k \in 1 .. Len(stack) :
             stack'[k] = IF k = Len(stack)
                         THEN [Top EXCEPT !.inHandler = FALSE] ELSE stack[k]
    BY <1>5, YieldIs
  <2>3. \A k \in 1 .. Len(stack') : /\ stack'[k].event = stack[k].event
                                    /\ stack'[k].next = stack[k].next
                                    /\ stack'[k].length = stack[k].length
    BY <2>1, <2>2 DEF Frame
  <2> QED BY <1>1, <2>2, <2>3, SamePace
<1>6. CASE EndLoop
  <2>1. Len(stack) \in 1 .. Len(stack)
    BY <1>6, StackTyped DEF EndLoop
  <2>2. Len(stack') = Len(stack) - 1 /\ \A k \in 1 .. Len(stack) - 1 : stack'[k] = stack[k]
    BY <1>6, PopIs
  <2>3. Len(stack') \in Nat /\ Len(stack') <= Len(stack)
    BY <1>1, <2>1, <2>2
  <2>4. \A e \in Events :
          publication'[e] \in {publication[e],
                               [publication[e] EXCEPT !.status = "dispatched"]}
    BY <1>1, <1>6 DEF EndLoop
  <2>5. \A e \in Events : /\ publication'[e].calls = publication[e].calls
                          /\ publication'[e].initial = publication[e].initial
    BY <1>1, <2>4 DEF Publication
  <2> QED BY <2>2, <2>3, <2>5, SamePace
<1>7. ASSUME NEW es \in Batches, PublishAll(es) PROVE PaceInv'
  <2>1. \A e \in Events :
          publication'[e] \in {publication[e],
                               [publication[e] EXCEPT !.status = "queued"]}
    BY <1>7 DEF PublishAll
  <2> QED BY <1>1, <1>2, <1>7, <2>1 DEF PublishAll, Publication
<1>8. ASSUME NEW d \in Events,
             Resolve(d) \/ \E i \in 1 .. Len(publication[d].calls) : Settle(d, i)
      PROVE  PaceInv'
  <2>1. stack' = stack
    BY <1>8 DEF Resolve, Settle
  <2>2. CASE Resolve(d)
    <3>1. \A e \in Events :
            publication'[e] \in {publication[e],
                                 [publication[e] EXCEPT !.status = "resolved"]}
      BY <1>1, <2>2 DEF Resolve
    <3> QED BY <1>1, <1>2, <2>1, <3>1 DEF Publication
  <2>3. ASSUME NEW i \in 1 .. Len(publication[d].calls), Settle(d, i)
        PROVE  PaceInv'
    <3>1. \A e \in Events :
            publication'[e] \in {publication[e],
                                 [publication[e] EXCEPT !.settled = @ \union {i}]}
      BY <1>1, <2>3 DEF Settle
    <3> QED BY <1>1, <1>2, <2>1, <3>1 DEF Publication
  <2> QED BY <1>8, <2>2, <2>3
<1>9. ASSUME NEW ts \in SUBSET Types, NEW arrays \in [Types -> Seq(Handlers)],
             stack' = Detached(ts, arrays)
      PROVE  /\ Len(stack') = Len(stack)
             /\ \A k \in 1 .. Len(stack) : /\ stack'[k].event = stack[k].event
                                           /\ stack'[k].next = stack[k].next
                                           /\ stack'[k].length = stack[k].length
  <2>1. Len(stack') = Len(stack)
    BY <1>9, DetachedIs
  <2>2. ASSUME NEW k \in 1 .. Len(stack)
        PROVE  /\ stack'[k].event = stack[k].event
               /\ stack'[k].next = stack[k].next
               /\ stack'[k].length = stack[k].length
    <3>1. stack'[k] = IF stack[k].live /\ TypeOf[stack[k].event] \in ts
                      THEN [stack[k] EXCEPT !.live = FALSE,
                              !.array = arrays[TypeOf[stack[k].event]]]
                      ELSE stack[k]
      BY <1>9, DetachedIs
    <3>2. stack[k] \in Frame
      BY <1>1
    <3> QED BY <3>1, <3>2 DEF Frame
  <2> QED BY <2>1, <2>2
<1>10. ASSUME NEW t \in Types, NEW h \in Handlers, Unsubscribe(t, h)
       PROVE  PaceInv'
  <2>1. \A e \in Events :
          publication'[e] \in {publication[e], [publication[e] EXCEPT !.due = @ \ {h}]}
    BY <1>10 DEF Unsubscribe, NotDue
  <2>2. \A e \in Events : /\ publication'[e].calls = publication[e].calls
                          /\ publication'[e].initial = publication[e].initial
    BY <1>1, <2>1 DEF Publication
  <2>3. subscriptions' \in [Types -> Seq(Handlers)] /\ {t} \in SUBSET Types
    BY <1>10, SubscriptionsTyped DEF TypeOK
  <2>4. stack' = stack \/ stack' = Detached({t}, subscriptions')
    BY <1>10 DEF Unsubscribe
  <2> QED BY <1>1, <1>2, <1>9, <2>2, <2>3, <2>4, SamePace
<1>11. CASE ClearAllSubscriptions
  <2>1. stack' = Detached(Types, subscriptions) /\ UNCHANGED publication
    BY <1>11 DEF ClearAllSubscriptions
  <2>2. Types \in SUBSET Types /\ subscriptions \in [Types -> Seq(Handlers)]
    BY DEF TypeOK
  <2> QED BY <1>1, <1>9, <2>1, <2>2, SamePace
<1>12. CASE \/ ClearEventHistory \/ UNCHANGED vars
            \/ \E t \in Types, h \in Handlers : Subscribe(t, h)
  BY <1>2, <1>12 DEF ClearEventHistory, vars, Subscribe
<1> QED
  BY <1>3, <1>4, <1>5, <1>6, <1>7, <1>8, <1>10, <1>11, <1>12, CallPace DEF Next

\* Whatever handlers do to the subscriptions during a loop, it ends after as
\* many calls as publish found handlers, or before.
THEOREM LoopsEnd == Spec => []LoopsAreBounded
<1>1. Init => PaceInv
  <2> SUFFICES ASSUME Init PROVE PaceInv
    OBVIOUS
  <2>1. Len(stack) = 0 /\ \A e \in Events : /\ publication[e].calls = <<>>
                                            /\ publication[e].initial = <<>>
    BY DEF Init
  <2> QED BY <2>1 DEF PaceInv, LoopsAreBounded
<1>2. IInv /\ PaceInv /\ [Next]_vars => PaceInv'
  BY NextPace DEF IInv
<1>3. PaceInv => LoopsAreBounded
  BY DEF PaceInv
<1> QED BY <1>1, <1>2, <1>3, SpecIInv, PTL DEF Spec
================================================================================
