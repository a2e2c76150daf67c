------------------------- MODULE SlidingWindowProofs -------------------------
(***************************************************************************)
(* Theorems about SlidingWindowLimiter for every set of clients, every     *)
(* window and every limit.                                                 *)
(***************************************************************************)
EXTENDS SlidingWindowLimiter, FiniteSetTheorems, TLAPS

LEMMA InitIInv == Init => IInv
<1> SUFFICES ASSUME Init PROVE IInv
  OBVIOUS
<1>1. TypeOK
  BY LimiterAssumption DEF Init, TypeOK
<1>2. \A k \in Keys : log[k] = {} /\ requests[k] = {}
  BY DEF Init
<1>3. IsFiniteSet({}) /\ Cardinality({}) = 0
  BY FS_EmptySet
<1>4. AtMostMaxPerWindow
  <2> SUFFICES ASSUME NEW k \in Keys, NEW t \in 0 .. MaxClock
               PROVE  Cardinality(Within(log[k], t)) <= maxRequests
    BY DEF AtMostMaxPerWindow
  <2>1. Within(log[k], t) = {}
    BY <1>2 DEF Within
  <2> QED
    BY <2>1, <1>3, LimiterAssumption
<1>5. StoreIsBounded
  BY <1>2, <1>3, LimiterAssumption DEF StoreIsBounded
<1>6. StoreAgreesWithLog
  BY <1>2 DEF StoreAgreesWithLog, Within
<1> QED
  BY <1>1, <1>2, <1>3, <1>4, <1>5, <1>6 DEF IInv

\* Adding one admission to fewer than maxRequests keeps a set in bounds.
LEMMA OneMore ==
  ASSUME NEW S, NEW T, NEW a, IsFiniteSet(S), Cardinality(S) < maxRequests,
         T \subseteq S \union {a}
  PROVE  IsFiniteSet(T) /\ Cardinality(T) <= maxRequests
<1>0. Cardinality(S) \in Nat
  BY FS_CardinalityType
<1>1. /\ IsFiniteSet(S \union {a})
      /\ Cardinality(S \union {a}) \in {Cardinality(S), Cardinality(S) + 1}
  BY FS_AddElement
<1>2. IsFiniteSet(T) /\ Cardinality(T) <= Cardinality(S \union {a})
  BY <1>1, FS_Subset
<1> QED
  BY <1>0, <1>1, <1>2, FS_CardinalityType, LimiterAssumption

\* The step of an admission: what remains remembered is enough to decide, so
\* the admission that is added is at most the last one of its window.
LEMMA AdmitIInv ==
  ASSUME IInv, NEW k \in Keys, Admit(k)
  PROVE  IInv'
<1> DEFINE new == New(k)
           stored == [requests EXCEPT ![k] = Recent(@) \union {new}]
<1>0. /\ clock \in 0 .. MaxClock
      /\ requests \in [Keys -> SUBSET Admission]
      /\ log \in [Keys -> SUBSET Admission]
      /\ \A j \in Keys : IsFiniteSet(log[j])
      /\ \A j \in Keys : \A a \in log[j] :
           a.at <= clock /\ a.nr < Cardinality(log[j])
  BY DEF IInv, TypeOK
<1>1. \A j \in Keys : IsFiniteSet(requests[j])
  BY FS_Subset DEF IInv, StoreAgreesWithLog
<1>2. IsFiniteSet(Recent(requests[k]))
      /\ Cardinality(Recent(requests[k])) < maxRequests
  <2>1. IsFiniteSet(Recent(requests[k]))
    BY <1>1, FS_Subset DEF Recent
  <2> QED
    BY <2>1, FS_CardinalityType, LimiterAssumption DEF Admit, LimitReached
<1>3. new \in Admission /\ new.at = clock
  <2>1. Cardinality(log[k]) \in Nat
    BY <1>0, FS_CardinalityType
  <2> QED
    BY <1>0, <2>1 DEF New, Admission
<1>4. /\ clock' = clock
      /\ log' = [log EXCEPT ![k] = @ \union {new}]
      /\ requests' = stored \/ requests' = cleanupOldEntries(stored)
  BY DEF Admit
<1>5. /\ \A j \in Keys : requests'[j] \subseteq requests[j] \union {new}
      /\ \A j \in Keys \ {k} : requests'[j] \subseteq requests[j]
      /\ requests'[k] \subseteq Recent(requests[k]) \union {new}
      /\ requests' \in [Keys -> SUBSET Admission]
  BY <1>0, <1>3, <1>4 DEF cleanupOldEntries, Recent
<1>6. TypeOK'
  BY <1>0, <1>3, <1>4, <1>5 DEF TypeOK, Admit, Verdict
<1>7. \A j \in Keys :
        /\ IsFiniteSet(log'[j])
        /\ \A a \in log'[j] : a.at <= clock' /\ a.nr < Cardinality(log'[j])
  <2>1. new \notin log[k] /\ new.nr = Cardinality(log[k])
        /\ Cardinality(log[k]) \in Nat
    BY <1>0, FS_CardinalityType DEF New
  <2>2. /\ IsFiniteSet(log[k] \union {new})
        /\ Cardinality(log[k] \union {new}) = Cardinality(log[k]) + 1
    BY <1>0, <2>1, FS_AddElement
  <2>3. \A a \in log[k] \union {new} :
          a.at <= clock /\ a.nr < Cardinality(log[k] \union {new})
    BY <1>0, <1>3, <2>1, <2>2 DEF Admission
  <2>4. log'[k] = log[k] \union {new} /\ \A j \in Keys \ {k} : log'[j] = log[j]
    BY <1>0, <1>4
  <2> QED
    BY <1>0, <1>4, <2>2, <2>3, <2>4
<1>8. AtMostMaxPerWindow'
  <2> SUFFICES ASSUME NEW j \in Keys, NEW t \in 0 .. MaxClock
               PROVE  Cardinality(Within(log'[j], t)) <= maxRequests
    BY DEF AtMostMaxPerWindow
  <2>1. CASE j # k \/ t < clock
    <3>1. Within(log'[j], t) = Within(log[j], t)
      BY <1>0, <1>3, <1>4, <2>1, LimiterAssumption DEF Within
    <3> QED
      BY <3>1 DEF IInv, AtMostMaxPerWindow
  <2>2. CASE j = k /\ t >= clock
    <3>1. Within(log'[k], t) \subseteq Recent(requests[k]) \union {new}
      <4> SUFFICES ASSUME NEW a \in log[k], t - windowMs < a.at
                   PROVE  a \in Recent(requests[k])
        BY <1>0, <1>4 DEF Within
      <4>1. a \in Within(log[k], clock)
        BY <1>0, <2>2, LimiterAssumption DEF Within, Admission
      <4> QED
        BY <1>0, <2>2, <4>1, LimiterAssumption
        DEF IInv, StoreAgreesWithLog, Recent, windowStart, Admission
    <3> QED
      BY <1>2, <2>2, <3>1, OneMore
  <2> QED
    BY <1>0, <2>1, <2>2, LimiterAssumption
<1>9. StoreIsBounded'
  <2> SUFFICES ASSUME NEW j \in Keys
               PROVE  Cardinality(requests'[j]) <= maxRequests
    BY DEF StoreIsBounded
  <2>1. CASE j = k
    BY <1>2, <1>5, <2>1, OneMore
  <2>2. CASE j # k
    <3>1. Cardinality(requests'[j]) <= Cardinality(requests[j])
      BY <1>1, <1>5, <2>2, FS_Subset
    <3>2. IsFiniteSet(requests'[j])
      BY <1>1, <1>5, <2>2, FS_Subset
    <3> QED
      BY <1>1, <3>1, <3>2, FS_CardinalityType, LimiterAssumption
      DEF IInv, StoreIsBounded
  <2> QED
    BY <2>1, <2>2
<1>10. StoreAgreesWithLog'
  <2> SUFFICES ASSUME NEW j \in Keys
               PROVE  /\ requests'[j] \subseteq log'[j]
                      /\ Within(log'[j], clock') \subseteq requests'[j]
    BY DEF StoreAgreesWithLog
  <2>1. requests[j] \subseteq log[j]
        /\ Within(log[j], clock) \subseteq requests[j]
    BY DEF IInv, StoreAgreesWithLog
  <2>2. requests'[j] \subseteq log'[j]
    BY <1>0, <1>4, <1>5, <2>1 DEF Recent
  <2>3. Within(log'[j], clock) \subseteq Recent(stored[j])
    BY <1>0, <1>3, <1>4, <2>1, LimiterAssumption
    DEF Within, Recent, windowStart, Admission
  <2>4. Recent(stored[j]) \subseteq requests'[j]
    BY <1>0, <1>4 DEF cleanupOldEntries, Recent
  <2> QED
    BY <1>4, <2>2, <2>3, <2>4
<1> QED
  BY <1>6, <1>7, <1>8, <1>9, <1>10 DEF IInv

LEMMA TickIInv == IInv /\ Tick => IInv'
<1> SUFFICES ASSUME IInv, Tick PROVE IInv'
  OBVIOUS
<1>0. /\ clock \in 0 .. MaxClock /\ clock' \in 0 .. MaxClock
      /\ clock' = clock + 1
      /\ log \in [Keys -> SUBSET Admission]
      /\ UNCHANGED <<requests, log, verdict>>
      /\ \A k \in Keys : \A a \in log[k] :
           a.at <= clock /\ a.nr < Cardinality(log[k])
  BY LimiterAssumption DEF IInv, TypeOK, Tick
<1>1. \A k \in Keys : Within(log[k], clock') \subseteq Within(log[k], clock)
  BY <1>0, LimiterAssumption DEF Within, Admission
<1>2. StoreAgreesWithLog'
  BY <1>0, <1>1 DEF IInv, StoreAgreesWithLog
<1>3. \A k \in Keys : \A a \in log'[k] :
        a.at <= clock' /\ a.nr < Cardinality(log'[k])
  BY <1>0 DEF Admission
<1> QED
  BY <1>0, <1>2, <1>3
  DEF IInv, TypeOK, AtMostMaxPerWindow, Within, StoreIsBounded

LEMMA NextIInv == IInv /\ [Next]_vars => IInv'
<1> SUFFICES ASSUME IInv, [Next]_vars PROVE IInv'
  OBVIOUS
<1>1. ASSUME NEW k \in Keys, Reject(k) PROVE IInv'
  <2>1. TypeOK'
    BY <1>1 DEF Reject, IInv, TypeOK, Verdict
  <2> QED
    BY <1>1, <2>1 DEF Reject, IInv, AtMostMaxPerWindow, Within,
       StoreIsBounded, StoreAgreesWithLog
<1>2. CASE UNCHANGED vars
  BY <1>2 DEF vars, IInv, TypeOK, AtMostMaxPerWindow, Within, StoreIsBounded,
     StoreAgreesWithLog
<1> QED
  BY <1>1, <1>2, AdmitIInv, TickIInv DEF Next

LEMMA SpecIInv == Spec => []IInv
  BY InitIInv, NextIInv, PTL DEF Spec

\* No client is let through more than maxRequests times in any window.
THEOREM WindowIsRespected == Spec => []AtMostMaxPerWindow
  BY SpecIInv, PTL DEF IInv

\* No client's array holds more than maxRequests timestamps.
THEOREM StoreStaysBounded == Spec => []StoreIsBounded
  BY SpecIInv, PTL DEF IInv

\* Times, stores and verdicts keep their types: the middleware stores only
\* admissions, with the time and the number it gave them.
THEOREM TypeCorrect == Spec => []TypeOK
  BY SpecIInv, PTL DEF IInv

\* The middleware forgets no admission that still counts.
THEOREM NothingRecentIsForgotten == Spec => []StoreAgreesWithLog
  BY SpecIInv, PTL DEF IInv

\* What the middleware counts is what there is to count.
LEMMA CountIsExact ==
  ASSUME IInv, NEW k \in Keys
  PROVE  Recent(requests[k]) = Unpruned!InWindow(k)
  BY LimiterAssumption
  DEF IInv, TypeOK, StoreAgreesWithLog, Within, Recent, windowStart,
      Unpruned!InWindow, Admission

\* FiniteSets as RequestLog extends it counts as FiniteSets does here.
LEMMA SameCardinality ==
  ASSUME NEW S PROVE Unpruned!Cardinality(S) = Cardinality(S)
  BY DEF Unpruned!Cardinality, Cardinality

\* The middleware decides every request as a limiter that remembers all
\* admissions for ever would.
THEOREM Refinement == Spec => ImplementsRequestLog
<1>1. Init => Unpruned!Init
  BY DEF Init, Unpruned!Init, NoVerdict
<1>2. IInv /\ [Next]_vars => [Unpruned!Next]_Unpruned!logVars
  <2> SUFFICES ASSUME IInv, [Next]_vars
               PROVE  Unpruned!Next \/ UNCHANGED Unpruned!logVars
    OBVIOUS
  <2>1. ASSUME NEW k \in Keys, Admit(k) PROVE Unpruned!Next
    <3>1. Cardinality(Unpruned!InWindow(k)) < maxRequests
      <4>1. Recent(requests[k]) \subseteq log[k]
        BY DEF IInv, StoreAgreesWithLog, Recent
      <4>2. Cardinality(Recent(requests[k])) \in Nat
        BY <4>1, FS_Subset, FS_CardinalityType DEF IInv
      <4> QED
        BY <2>1, <4>2, CountIsExact, LimiterAssumption
        DEF Admit, LimitReached
    <3>2. New(k) \notin log[k] /\ New(k).at = clock
      <4>1. Cardinality(log[k]) \in Nat
        BY FS_CardinalityType DEF IInv
      <4> QED
        BY <4>1 DEF IInv, New
    <3>3. log' = [log EXCEPT ![k] = @ \union {New(k)}]
          /\ New(k) \in log'[k] \ log[k]
      BY <2>1, <3>2 DEF Admit, IInv, TypeOK
    <3>4. Unpruned!Pass(k)
      BY <2>1, <3>1, <3>2, <3>3, SameCardinality DEF Unpruned!Pass, Admit
    <3> QED
      BY <3>4 DEF Unpruned!Next
  <2>2. ASSUME NEW k \in Keys, Reject(k) PROVE Unpruned!Next
    BY <2>2, CountIsExact, SameCardinality
    DEF Reject, LimitReached, Unpruned!Next, Unpruned!Refuse
  <2>3. CASE Tick
    BY <2>3 DEF Tick, IInv, TypeOK, Unpruned!Next, Unpruned!Wait
  <2>4. CASE UNCHANGED vars
    BY <2>4 DEF vars, Unpruned!logVars
  <2> QED
    BY <2>1, <2>2, <2>3, <2>4 DEF Next
<1> QED
  BY <1>1, <1>2, SpecIInv, PTL DEF Spec, ImplementsRequestLog, Unpruned!Spec
=============================================================================
