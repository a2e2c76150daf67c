------------------------ MODULE SlidingWindowLimiter -------------------------
(***************************************************************************)
(* slidingWindowRateLimiter: a middleware that keeps, for each client      *)
(* address, the timestamps of the requests it let through, and lets a      *)
(* request through if fewer than maxRequests lie in the last windowMs.     *)
(* The code keeps an array of timestamps per key and only ever filters and *)
(* counts it, so it is a set here, of admissions that carry their          *)
(* timestamp and a number that tells equal timestamps apart.  A key that   *)
(* is not in the map has the empty set.  One call is one step: the         *)
(* middleware awaits nothing.  Date.now() is taken to never go back.       *)
(***************************************************************************)
EXTENDS Integers, FiniteSets

CONSTANTS
  Keys,         \* client addresses
  windowMs,     \* length of the window
  maxRequests,  \* requests let through in a window
  MaxClock      \* bound: the latest time

ASSUME LimiterAssumption ==
  /\ windowMs \in Nat \ {0}
  /\ maxRequests \in Nat
  /\ MaxClock \in Nat

VARIABLES
  clock,     \* Date.now()
  requests,  \* requests[k]: the admissions the middleware remembers of k
  log,       \* log[k]: every admission of k since the start
  verdict    \* the last decision: the client and whether it passed

vars == <<clock, requests, log, verdict>>

Admission == [at : Nat, nr : Nat]
Verdict == [key : Keys, passed : BOOLEAN]
NoVerdict == [key |-> {}, passed |-> FALSE]

TypeOK ==
  /\ clock \in 0 .. MaxClock
  /\ requests \in [Keys -> SUBSET Admission]
  /\ log \in [Keys -> SUBSET Admission]
  /\ verdict \in Verdict \union {NoVerdict}

Init ==
  /\ clock = 0
  /\ requests = [k \in Keys |-> {}]
  /\ log = [k \in Keys |-> {}]
  /\ verdict = NoVerdict

----------------------------------------------------------------------------
\* The window that ends at time t is ]t - windowMs, t].
windowStart == clock - windowMs

\* Slip of Recent: the window is taken one tick too short.
RecentTooShort(as) == {a \in as : a.at > windowStart + 1}

\* filter(timestamp => timestamp > windowStart)
Recent(as) == {a \in as : a.at > windowStart}

\* Slip of cleanupOldEntries: the map is emptied.
CleanupAll(stored) == [k \in Keys |-> {}]

\* cleanupOldEntries, after the new admission has been recorded.
cleanupOldEntries(stored) == [k \in Keys |-> Recent(stored[k])]

\* Slip of New: the start of the window is recorded in place of the time.
NewAtStart(k) == [at |-> windowStart, nr |-> Cardinality(log[k])]

\* The number of an admission tells it from the others of the same time.
New(k) == [at |-> clock, nr |-> Cardinality(log[k])]

\* Slip of LimitReached: greater than in place of at least.
LimitExceeded(k) == Cardinality(Recent(requests[k])) > maxRequests

LimitReached(k) == Cardinality(Recent(requests[k])) >= maxRequests

\* 429: the filtered array is not stored.
Reject(k) ==
  /\ LimitReached(k)
  /\ verdict' = [key |-> k, passed |-> FALSE]
  /\ UNCHANGED <<clock, requests, log>>

\* Slip of Admit: the array is stored as it was found.
AdmitUnfiltered(k) ==
  /\ ~LimitReached(k)
  /\ requests' = [requests EXCEPT ![k] = @ \union {New(k)}]
  /\ log' = [log EXCEPT ![k] = @ \union {New(k)}]
  /\ verdict' = [key |-> k, passed |-> TRUE]
  /\ UNCHANGED clock

\* next(); one admission in a hundred, at random, cleans up all keys first.
Admit(k) ==
  /\ ~LimitReached(k)
  /\ LET stored == [requests EXCEPT ![k] = Recent(@) \union {New(k)}]
     IN requests' \in {stored, cleanupOldEntries(stored)}
  /\ log' = [log EXCEPT ![k] = @ \union {New(k)}]
  /\ verdict' = [key |-> k, passed |-> TRUE]
  /\ UNCHANGED clock

\* Time passes between two requests.
Tick ==
  /\ clock < MaxClock
  /\ clock' = clock + 1
  /\ UNCHANGED <<requests, log, verdict>>

Next == Tick \/ \E k \in Keys : Admit(k) \/ Reject(k)

Spec == Init /\ [][Next]_vars

----------------------------------------------------------------------------
(* Properties. *)

Within(as, t) == {a \in as : t - windowMs < a.at /\ a.at <= t}

\* In no interval of length windowMs, wherever it begins, are more than
\* maxRequests requests of one client let through, although the middleware
\* forgets timestamps on every admission and cleans up at random.
AtMostMaxPerWindow ==
  \A k \in Keys, t \in 0 .. MaxClock :
    Cardinality(Within(log[k], t)) <= maxRequests

\* The array of a client never outgrows maxRequests: it is filtered whenever
\* something is added to it.
StoreIsBounded == \A k \in Keys : Cardinality(requests[k]) <= maxRequests

\* What the middleware remembers are admissions, and it has forgotten none
\* that still counts.
StoreAgreesWithLog ==
  \A k \in Keys : requests[k] \subseteq log[k]
                  /\ Within(log[k], clock) \subseteq requests[k]

\* The decisions are those of a limiter that remembers every admission: what
\* the middleware forgets never changes whom it lets through.
Unpruned == INSTANCE RequestLog WITH
  Clients <- Keys, window <- windowMs, max <- maxRequests,
  now <- clock, passed <- log, decision <- verdict
ImplementsRequestLog == Unpruned!Spec

\* The inductive invariant behind the theorems of SlidingWindowProofs.
IInv ==
  /\ TypeOK
  /\ \A k \in Keys :
       /\ IsFiniteSet(log[k])
       /\ \A a \in log[k] : a.at <= clock /\ a.nr < Cardinality(log[k])
  /\ AtMostMaxPerWindow
  /\ StoreIsBounded
  /\ StoreAgreesWithLog
==============================================================================
