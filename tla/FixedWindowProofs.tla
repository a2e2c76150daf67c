-------------------------- MODULE FixedWindowProofs --------------------------
(***************************************************************************)
(* Theorems about FixedWindowLimiter for any clients, window and limit, and *)
(* one about DynamicLimiter, which runs the same handler.                   *)
(***************************************************************************)
EXTENDS DynamicLimiter, FiniteSetTheorems, TLAPS

\* When the period of the store began.
Start == resetAt - windowMs

\* How many requests of c have passed since, and which: the last ones.
Passed(c) == IF hits[c] < max THEN hits[c] ELSE max
Current(c) == {a \in log[c] : a.nr >= Cardinality(log[c]) - Passed(c)}
Last(c) == {a \in log[c] \ Current(c) : a.at > Start - windowMs}

\* What is numbered is finite, and numbered and timed in order.
LogInv ==
  \A c \in Clients :
    /\ IsFiniteSet(log[c])
    /\ \A a \in log[c] : a.at <= clock /\ a.nr < Cardinality(log[c])

\* The current requests came in this period, the others before it, and of
\* those only the last period's are less than a window older than its end.
PeriodInv ==
  /\ Start <= clock
  /\ \A c \in Clients :
       /\ Cardinality(Current(c)) = Passed(c)
       /\ \A a \in Current(c) : a.at >= Start
       /\ \A a \in log[c] \ Current(c) : a.at <= Start
       /\ Cardinality(Last(c)) <= max

IInv ==
  /\ TypeOK /\ LogInv /\ PeriodInv
  /\ \A c \in refused : hits[c] > max
  /\ AtMostTwiceMax

\* A window that holds a current request reaches no further back than the last
\* period: it holds some of the current requests and some of the last ones.
LEMMA TwoPeriods ==
  ASSUME NEW L \in SUBSET Admission, NEW C \in SUBSET L, NEW s \in Int, NEW t \in Int,
         NEW x \in C, IsFiniteSet(L), Cardinality(C) <= max,
         \A a \in C : a.at >= s,
         Cardinality({a \in L \ C : a.at > s - windowMs}) <= max,
         t <= x.at, x.at < t + windowMs
  PROVE  Cardinality({a \in L : t <= a.at /\ a.at < t + windowMs}) <= 2 * max
<1> DEFINE W == {a \in L : t <= a.at /\ a.at < t + windowMs}
           D == {a \in L \ C : a.at > s - windowMs}
<1>1. IsFiniteSet(C) /\ IsFiniteSet(D)
  BY FS_Subset
<1>2. W \subseteq C \union D
  BY WindowAssumption DEF Admission
<1>3. /\ Cardinality(C) \in Nat /\ Cardinality(D) \in Nat
      /\ Cardinality(C \intersect D) \in Nat
      /\ IsFiniteSet(C \union D)
      /\ Cardinality(C \union D)
           = Cardinality(C) + Cardinality(D) - Cardinality(C \intersect D)
  BY <1>1, FS_Union, FS_Intersection, FS_CardinalityType
<1>4. IsFiniteSet(W) /\ Cardinality(W) <= Cardinality(C \union D)
  BY <1>2, <1>3, FS_Subset
<1>5. Cardinality(W) \in Nat /\ Cardinality(C \union D) \in Nat
  BY <1>3, <1>4, FS_CardinalityType
<1> HIDE DEF W, D
<1>6. Cardinality(W) <= 2 * max
  BY <1>3, <1>4, <1>5, WindowAssumption DEF D
<1> QED BY <1>6 DEF W

LEMMA InitIInv == Init => IInv
<1> SUFFICES ASSUME Init PROVE IInv
  OBVIOUS
<1>1. IsFiniteSet({}) /\ Cardinality({}) = 0
  BY FS_EmptySet
<1>2. /\ \A c \in Clients : log[c] = {} /\ hits[c] = 0
      /\ clock = 0 /\ refused = {} /\ resetAt \in 1 .. windowMs
  BY DEF Init, EmptyStore
<1>3. TypeOK
  BY WindowAssumption DEF Init, TypeOK, EmptyStore
<1>4. LogInv
  BY <1>1, <1>2 DEF LogInv
<1>5. PeriodInv
  <2>1. Start <= clock
    BY <1>2, WindowAssumption DEF Start
  <2>2. ASSUME NEW c \in Clients
        PROVE  Current(c) = {} /\ Passed(c) = 0 /\ Last(c) = {}
    <3>1. Current(c) = {}
      BY <1>2 DEF Current
    <3>2. Last(c) = {}
      BY <1>2 DEF Last
    <3>3. Passed(c) = 0
      BY <1>2, WindowAssumption DEF Passed
    <3> QED
      BY <3>1, <3>2, <3>3
  <2> QED
    BY <1>1, <1>2, <2>1, <2>2, WindowAssumption DEF PeriodInv
<1>6. AtMostTwiceMax
  <2>1. \A c \in Clients, t \in 0 .. MaxClock : Within(c, t, t + windowMs) = {}
    BY <1>2 DEF Within
  <2> QED
    BY <1>1, <2>1, WindowAssumption DEF AtMostTwiceMax
<1> QED
  BY <1>2, <1>3, <1>4, <1>5, <1>6 DEF IInv

LEMMA TickIInv ==
  ASSUME IInv, Tick
  PROVE  IInv'
<1>1. TypeOK'
  BY WindowAssumption DEF IInv, TypeOK, Tick
<1>2. LogInv'
  BY DEF IInv, TypeOK, LogInv, Tick, Admission
<1>3. /\ Start' = Start /\ clock <= clock'
      /\ \A c \in Clients : /\ Current(c)' = Current(c)
                            /\ Last(c)' = Last(c)
                            /\ Passed(c)' = Passed(c)
  BY DEF Start, Current, Last, Passed, Tick, IInv, TypeOK
<1>4. PeriodInv'
  <2>1. Start \in Int
    BY WindowAssumption DEF Start, IInv, TypeOK
  <2> QED
    BY <1>3, <2>1 DEF IInv, TypeOK, PeriodInv, Tick
<1>5. AtMostTwiceMax'
  BY DEF IInv, AtMostTwiceMax, Within, Tick
<1> QED
  BY <1>1, <1>2, <1>4, <1>5 DEF IInv, Tick

\* What is less than a window older than the new period came in the old one.
LEMMA ResetIInv ==
  ASSUME IInv, ResetAll
  PROVE  IInv'
<1>1. TypeOK'
  BY WindowAssumption DEF IInv, TypeOK, ResetAll, EmptyStore
<1>2. LogInv'
  BY DEF IInv, LogInv, ResetAll
<1>3. Start' = clock /\ Start + windowMs <= clock /\ Start \in Int
  BY WindowAssumption DEF Start, ResetAll, IInv, TypeOK
<1>4. ASSUME NEW c \in Clients
      PROVE  /\ Passed(c)' = 0 /\ Current(c)' = {}
             /\ Cardinality(Last(c)') <= max
             /\ \A a \in log'[c] : a.at <= Start'
  <2>1. log[c] \subseteq Admission /\ IsFiniteSet(log[c])
    BY DEF IInv, TypeOK, LogInv
  <2>2. Cardinality(log[c]) \in Nat /\ \A a \in log[c] : a.nr < Cardinality(log[c])
    BY <2>1, FS_CardinalityType DEF IInv, LogInv
  <2>3. Passed(c)' = 0
    BY WindowAssumption DEF Passed, ResetAll, EmptyStore
  <2>4. Current(c)' = {}
    <3>1. Current(c)' = {a \in log[c] : a.nr >= Cardinality(log[c]) - 0}
      BY <2>3 DEF Current, ResetAll
    <3> QED
      BY <2>1, <2>2, <3>1 DEF Admission
  <2>5. Last(c)' \subseteq Current(c)
    <3>1. Last(c)' = {a \in log[c] : a.at > clock - windowMs}
      BY <1>3, <2>4 DEF Last, ResetAll
    <3>2. \A a \in log[c] : a \notin Current(c) => a.at <= Start
      BY DEF IInv, PeriodInv
    <3>3. \A a \in log[c] : a.at \in Nat
      BY <2>1 DEF Admission
    <3>4. clock \in Int /\ windowMs \in Int
      BY WindowAssumption DEF IInv, TypeOK
    <3> QED
      BY <1>3, <3>1, <3>2, <3>3, <3>4
  <2>6. Cardinality(Last(c)') <= Cardinality(Current(c))
        /\ Cardinality(Last(c)') \in Nat
    <3>1. IsFiniteSet(Current(c))
      BY <2>1, FS_Subset DEF Current
    <3> QED
      BY <2>5, <3>1, FS_Subset, FS_CardinalityType
  <2>7. Cardinality(Current(c)) <= max /\ Cardinality(Current(c)) \in Nat
    BY WindowAssumption DEF IInv, TypeOK, PeriodInv, Passed
  <2>8. \A a \in log'[c] : a.at <= Start'
    BY <1>3 DEF IInv, LogInv, ResetAll
  <2> QED
    BY <2>3, <2>4, <2>6, <2>7, <2>8, WindowAssumption
<1>5. PeriodInv'
  <2>1. Start' <= clock'
    BY <1>3 DEF ResetAll, IInv, TypeOK
  <2> QED
    BY <1>4, <2>1, FS_EmptySet DEF PeriodInv
<1>6. AtMostTwiceMax'
  BY DEF IInv, AtMostTwiceMax, Within, ResetAll
<1> QED
  BY <1>1, <1>2, <1>5, <1>6 DEF IInv, ResetAll

\* A refused request changes the count, which is past the limit already.
LEMMA RefuseIInv ==
  ASSUME IInv, NEW c \in Clients, Request(c), ~WithinMax(hits'[c])
  PROVE  IInv'
<1>1. /\ hits \in [Clients -> 0 .. MaxHits] /\ max \in Nat /\ MaxHits \in Nat
      /\ max < MaxHits
  BY WindowAssumption DEF IInv, TypeOK
<1>2. hits' = [hits EXCEPT ![c] = Count(hits[c])]
      /\ refused' = refused \union {c} /\ UNCHANGED <<clock, resetAt, log>>
  BY DEF Request, Handle
<1>3. Count(hits[c]) \in 0 .. MaxHits /\ hits[c] >= max /\ Count(hits[c]) > max
  BY <1>1, <1>2 DEF Count, WithinMax
<1>4. TypeOK'
  BY <1>2, <1>3 DEF IInv, TypeOK
<1>5. LogInv'
  BY <1>2 DEF IInv, LogInv
<1>6. \A d \in Clients : Passed(d)' = Passed(d)
  BY <1>1, <1>2, <1>3 DEF Passed
<1>7. Start' = Start
      /\ \A d \in Clients : Current(d)' = Current(d) /\ Last(d)' = Last(d)
  BY <1>2, <1>6 DEF Start, Current, Last
<1>8. PeriodInv'
  BY <1>2, <1>6, <1>7 DEF IInv, PeriodInv
<1>9. AtMostTwiceMax'
  BY <1>2 DEF IInv, AtMostTwiceMax, Within
<1>10. \A d \in refused' : hits'[d] > max
  BY <1>1, <1>2, <1>3 DEF IInv, TypeOK
<1> QED
  BY <1>4, <1>5, <1>8, <1>9, <1>10 DEF IInv

\* A request that passes is one more of this period.
LEMMA AdmitIInv ==
  ASSUME IInv, NEW c \in Clients, Request(c), WithinMax(hits'[c])
  PROVE  IInv'
<1>1. /\ hits \in [Clients -> 0 .. MaxHits] /\ max \in Nat /\ MaxHits \in Nat
      /\ max < MaxHits /\ clock \in Nat /\ windowMs \in Nat \ {0}
      /\ log \in [Clients -> SUBSET Admission]
      /\ Start \in Int /\ Start <= clock
  BY WindowAssumption DEF IInv, TypeOK, Start, PeriodInv
<1>2. hits' = [hits EXCEPT ![c] = Count(hits[c])]
      /\ log' = [log EXCEPT ![c] = log[c] \union {New(c)}]
      /\ UNCHANGED <<clock, resetAt, refused>>
  BY DEF Request, Handle
<1>3. hits[c] < max /\ hits'[c] = hits[c] + 1 /\ hits'[c] \in 0 .. MaxHits
  BY <1>1, <1>2 DEF Count, WithinMax
<1>4. /\ IsFiniteSet(log[c]) /\ Cardinality(log[c]) \in Nat
      /\ New(c) \in Admission /\ New(c) \notin log[c]
      /\ New(c).nr = Cardinality(log[c]) /\ New(c).at = clock
  <2>1. IsFiniteSet(log[c]) /\ Cardinality(log[c]) \in Nat
    BY FS_CardinalityType DEF IInv, LogInv
  <2>2. \A a \in log[c] : a.nr < Cardinality(log[c])
    BY DEF IInv, LogInv
  <2> QED
    BY <1>1, <2>1, <2>2 DEF New, Admission
<1>5. /\ log'[c] = log[c] \union {New(c)} /\ IsFiniteSet(log'[c])
      /\ Cardinality(log'[c]) = Cardinality(log[c]) + 1
  BY <1>1, <1>2, <1>4, FS_AddElement
<1>6. TypeOK'
  BY <1>1, <1>2, <1>3, <1>4 DEF IInv, TypeOK
<1>7. LogInv'
  <2> SUFFICES ASSUME NEW d \in Clients
               PROVE  /\ IsFiniteSet(log'[d])
                      /\ \A a \in log'[d] :
                           a.at <= clock' /\ a.nr < Cardinality(log'[d])
    BY DEF LogInv
  <2>1. CASE d = c
    <3>1. \A a \in log[c] : a.nr < Cardinality(log[c]) + 1 /\ a.at <= clock
      BY <1>1, <1>4 DEF IInv, LogInv, Admission
    <3>2. \A a \in log'[c] : a.nr < Cardinality(log[c]) + 1 /\ a.at <= clock
      BY <1>1, <1>4, <1>5, <3>1
    <3> QED
      BY <1>2, <1>5, <2>1, <3>2
  <2>2. CASE d # c
    BY <1>1, <1>2, <2>2 DEF IInv, LogInv
  <2> QED
    BY <2>1, <2>2
<1>8. /\ Start' = Start
      /\ \A d \in Clients \ {c} : /\ log'[d] = log[d] /\ Passed(d)' = Passed(d)
                                 /\ Current(d)' = Current(d)
                                 /\ Last(d)' = Last(d)
  BY <1>1, <1>2 DEF Start, Passed, Current, Last
<1>9. Passed(c)' = Passed(c) + 1 /\ Passed(c) = hits[c] /\ Passed(c) \in Nat
  BY <1>1, <1>3 DEF Passed
<1>10. Current(c)' = Current(c) \union {New(c)}
  <2>1. Cardinality(log'[c]) - Passed(c)' = Cardinality(log[c]) - Passed(c)
    BY <1>4, <1>5, <1>9
  <2>2. Current(c)' = {a \in log[c] \union {New(c)} :
                         a.nr >= Cardinality(log[c]) - Passed(c)}
    BY <1>5, <2>1 DEF Current
  <2>3. New(c).nr >= Cardinality(log[c]) - Passed(c)
    BY <1>4, <1>9
  <2> QED
    BY <2>2, <2>3 DEF Current
<1>11. Last(c)' = Last(c)
  <2>1. log'[c] \ Current(c)' = log[c] \ Current(c)
    BY <1>4, <1>5, <1>10
  <2> QED
    BY <1>8, <2>1 DEF Last
<1>12. /\ IsFiniteSet(Current(c)') /\ Cardinality(Current(c)') = Passed(c)'
       /\ Passed(c)' <= max
  <2>1. IsFiniteSet(Current(c)) /\ New(c) \notin Current(c)
    BY <1>4, FS_Subset DEF Current
  <2>2. Cardinality(Current(c)) = Passed(c)
    BY DEF IInv, PeriodInv
  <2> QED
    BY <1>1, <1>3, <1>9, <1>10, <2>1, <2>2, FS_AddElement
<1>13. /\ \A a \in Current(c)' : a.at >= Start
       /\ \A a \in log'[c] \ Current(c)' : a.at <= Start
       /\ Cardinality(Last(c)') <= max
  BY <1>1, <1>4, <1>5, <1>10, <1>11 DEF IInv, PeriodInv
<1>14. PeriodInv'
  <2>1. Start' <= clock'
    BY <1>1, <1>2, <1>8
  <2>2. ASSUME NEW d \in Clients, d # c
        PROVE  /\ Cardinality(Current(d)') = Passed(d)'
               /\ \A a \in Current(d)' : a.at >= Start'
               /\ \A a \in log'[d] \ Current(d)' : a.at <= Start'
               /\ Cardinality(Last(d)') <= max
    BY <1>8, <2>2 DEF IInv, PeriodInv
  <2> QED
    BY <1>8, <1>12, <1>13, <2>1, <2>2 DEF PeriodInv
<1>15. AtMostTwiceMax'
  <2> SUFFICES ASSUME NEW d \in Clients, NEW t \in 0 .. MaxClock
               PROVE  Cardinality(Within(d, t, t + windowMs)') <= 2 * max
    BY DEF AtMostTwiceMax
  <2>1. Cardinality(Within(d, t, t + windowMs)) <= 2 * max
    BY DEF IInv, AtMostTwiceMax
  <2>2. CASE d # c \/ ~(t <= clock /\ clock < t + windowMs)
    <3>1. Within(d, t, t + windowMs)' = Within(d, t, t + windowMs)
      BY <1>4, <1>5, <1>8, <2>2 DEF Within
    <3> QED
      BY <2>1, <3>1
  <2>3. CASE d = c /\ t <= clock /\ clock < t + windowMs
    <3>1. log'[c] \in SUBSET Admission /\ Current(c)' \in SUBSET log'[c]
      BY <1>6 DEF TypeOK, Current
    <3>2. New(c) \in Current(c)' /\ Cardinality(Current(c)') <= max
      BY <1>10, <1>12
    <3>3. Last(c)' = {a \in log'[c] \ Current(c)' : a.at > Start - windowMs}
      BY <1>8 DEF Last
    <3>4. Cardinality({a \in log'[c] \ Current(c)' : a.at > Start - windowMs}) <= max
      BY <1>13, <3>3
    <3>5. t \in Int /\ t <= New(c).at /\ New(c).at < t + windowMs
      BY <1>4, <2>3
    <3>6. Cardinality({a \in log'[c] : t <= a.at /\ a.at < t + windowMs}) <= 2 * max
      <4> DEFINE L == log'[c]
                 C == Current(c)'
      <4>1. /\ L \in SUBSET Admission /\ C \in SUBSET L /\ New(c) \in C
            /\ IsFiniteSet(L) /\ Cardinality(C) <= max
            /\ \A a \in C : a.at >= Start
            /\ Cardinality({a \in L \ C : a.at > Start - windowMs}) <= max
        BY <1>5, <1>13, <3>1, <3>2, <3>4
      <4>2. Start \in Int
        BY <1>1
      <4> HIDE DEF L, C
      <4>3. Cardinality({a \in L : t <= a.at /\ a.at < t + windowMs}) <= 2 * max
        BY <3>5, <4>1, <4>2, TwoPeriods
      <4> QED
        BY <4>3 DEF L
    <3> QED
      BY <2>3, <3>6 DEF Within
  <2> QED
    BY <2>2, <2>3
<1>16. \A d \in refused' : hits'[d] > max
  <2>1. c \notin refused
    BY <1>1, <1>3 DEF IInv
  <2> QED
    BY <1>1, <1>2, <2>1 DEF IInv, TypeOK
<1> QED
  BY <1>6, <1>7, <1>14, <1>15, <1>16 DEF IInv

LEMMA RequestIInv ==
  ASSUME IInv, NEW c \in Clients, Request(c)
  PROVE  IInv'
  BY RefuseIInv, AdmitIInv

LEMMA StutterIInv == IInv /\ UNCHANGED vars => IInv'
<1> SUFFICES ASSUME IInv, UNCHANGED vars PROVE IInv'
  OBVIOUS
<1>1. TypeOK' /\ LogInv' /\ AtMostTwiceMax'
  BY DEF IInv, vars, TypeOK, LogInv, AtMostTwiceMax, Within
<1>2. Start' = Start
      /\ \A c \in Clients : /\ Passed(c)' = Passed(c) /\ Current(c)' = Current(c)
                            /\ Last(c)' = Last(c)
  BY DEF vars, Start, Passed, Current, Last
<1>3. PeriodInv'
  BY <1>2 DEF IInv, vars, PeriodInv
<1> QED
  BY <1>1, <1>3 DEF IInv, vars

LEMMA NextIInv == IInv /\ [Next]_vars => IInv'
  BY TickIInv, ResetIInv, RequestIInv, StutterIInv DEF Next

LEMMA SpecIInv == Spec => []IInv
  BY InitIInv, NextIInv, PTL DEF Spec

\* What a request does to the logs.
LEMMA LogsGrow ==
  ASSUME IInv, NEW c \in Clients, Request(c)
  PROVE  /\ \A d \in Clients : Cardinality(log[d]) \in Nat
         /\ \A d \in Clients \ {c} : log'[d] = log[d]
         /\ Cardinality(log'[c]) =
              Cardinality(log[c]) + (IF WithinMax(hits'[c]) THEN 1 ELSE 0)
<1>1. \A d \in Clients : IsFiniteSet(log[d]) /\ Cardinality(log[d]) \in Nat
  BY FS_CardinalityType DEF IInv, LogInv
<1>2. New(c) \notin log[c]
  <2>1. \A a \in log[c] : a.nr < Cardinality(log[c])
    BY DEF IInv, LogInv
  <2> QED
    BY <1>1, <2>1 DEF New
<1>3. CASE WithinMax(hits'[c])
  <2>1. log' = [log EXCEPT ![c] = log[c] \union {New(c)}]
    BY <1>3 DEF Request, Handle
  <2> QED
    BY <1>1, <1>2, <1>3, <2>1, FS_AddElement DEF IInv, TypeOK
<1>4. CASE ~WithinMax(hits'[c])
  BY <1>1, <1>4 DEF Request, Handle
<1> QED
  BY <1>1, <1>3, <1>4

\* A client with a 429 is past the limit, so that max of its requests are of
\* this period.
LEMMA RefusedInv == IInv => RefusedOnlyAtMax
<1> SUFFICES ASSUME IInv, NEW c \in refused
             PROVE  Cardinality({a \in log[c] : a.at >= resetAt - windowMs}) >= max
  BY DEF RefusedOnlyAtMax
<1> DEFINE Since == {a \in log[c] : a.at >= resetAt - windowMs}
<1>1. c \in Clients /\ hits[c] > max /\ hits[c] \in Nat
  BY DEF IInv, TypeOK
<1>2. Cardinality(Current(c)) = max
  BY <1>1, WindowAssumption DEF IInv, PeriodInv, Passed
<1>3. Current(c) \subseteq Since
  BY <1>1 DEF IInv, PeriodInv, Current, Start
<1>4. IsFiniteSet(Since)
  BY <1>1, FS_Subset DEF IInv, LogInv
<1>5. Cardinality(Current(c)) <= Cardinality(Since) /\ Cardinality(Since) \in Nat
  BY <1>3, <1>4, FS_Subset, FS_CardinalityType
<1> QED
  BY <1>2, <1>5, WindowAssumption

\* Counts, times and logs keep their types.
THEOREM TypeCorrect == Spec => []TypeOK
  BY SpecIInv, PTL DEF IInv

\* In no interval of a window's length, wherever it begins and however late
\* the timer of the store is, do more than 2 * max requests of a client pass.
THEOREM TwiceTheLimitAtMost == Spec => []AtMostTwiceMax
  BY SpecIInv, PTL DEF IInv

\* Nobody is answered 429 before max requests have passed in the period.
THEOREM NobodyRefusedEarly == Spec => []RefusedOnlyAtMax
  BY SpecIInv, RefusedInv, PTL

\* A new store has counted nothing: the request handed to it is its first, and
\* every limit lets a first request pass.
LEMMA FirstPasses ==
  ASSUME NEW c \in Clients, DynamicRequest(c), log \in [Clients -> SUBSET Admission]
  PROVE  New(c) \in log'[c] /\ UNCHANGED refused
<1>1. hits'[c] = 1
  BY WindowAssumption DEF DynamicRequest, Handle, EmptyStore, Count
<1>2. WithinMax(hits'[c])
  BY <1>1, WindowAssumption DEF WithinMax
<1> QED
  BY <1>2 DEF DynamicRequest, Handle

\* The logs keep their type.
LEMMA DynamicLogs ==
  ASSUME clock \in 0 .. MaxClock, log \in [Clients -> SUBSET Admission],
         \A c \in Clients : IsFiniteSet(log[c]), [DynamicNext]_vars
  PROVE  /\ clock' \in 0 .. MaxClock /\ log' \in [Clients -> SUBSET Admission]
         /\ \A c \in Clients : IsFiniteSet(log'[c])
<1>1. CASE Tick
  BY <1>1, WindowAssumption DEF Tick
<1>2. ASSUME NEW c \in Clients, DynamicRequest(c)
      PROVE  /\ clock' \in 0 .. MaxClock /\ log' \in [Clients -> SUBSET Admission]
             /\ \A d \in Clients : IsFiniteSet(log'[d])
  <2>1. New(c) \in Admission
    BY WindowAssumption, FS_CardinalityType DEF New, Admission
  <2>2. IsFiniteSet(log[c] \union {New(c)})
    BY FS_AddElement
  <2>3. log' = log \/ log' = [log EXCEPT ![c] = @ \union {New(c)}]
    BY <1>2 DEF DynamicRequest, Handle
  <2> QED
    BY <1>2, <2>1, <2>2, <2>3 DEF DynamicRequest
<1>3. CASE UNCHANGED vars
  BY <1>3 DEF vars
<1> QED
  BY <1>1, <1>2, <1>3 DEF DynamicNext

\* dynamicRateLimitMiddleware makes an instance for every request, so that,
\* whatever the limit of the role and however many requests come, each of them
\* passes and nobody is ever answered 429.
THEOREM DynamicNeverRefuses ==
  DynamicSpec =>
    /\ [](refused = {})
    /\ [][\A c \in Clients : DynamicRequest(c) => New(c) \in log'[c]]_vars
<1> DEFINE Inv == /\ clock \in 0 .. MaxClock
                  /\ log \in [Clients -> SUBSET Admission]
                  /\ \A c \in Clients : IsFiniteSet(log[c])
                  /\ refused = {}
<1>1. Init => Inv
  BY WindowAssumption, FS_EmptySet DEF Init
<1>2. Inv /\ [DynamicNext]_vars => Inv'
  <2>1. Inv /\ [DynamicNext]_vars => UNCHANGED refused
    BY FirstPasses DEF DynamicNext, Tick, vars
  <2> QED
    BY <2>1, DynamicLogs
<1>3. Inv => \A c \in Clients : DynamicRequest(c) => New(c) \in log'[c]
  BY FirstPasses
<1>4. Inv => refused = {}
  OBVIOUS
<1> HIDE DEF Inv
<1> QED
  BY <1>1, <1>2, <1>3, <1>4, PTL DEF DynamicSpec
==============================================================================
