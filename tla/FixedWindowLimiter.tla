------------------------- MODULE FixedWindowLimiter --------------------------
(***************************************************************************)
(* rateLimitMiddleware: an instance of express-rate-limit with its default *)
(* in-memory store.  The store counts the requests of each client and a    *)
(* timer empties it every windowMs; a request passes if its number in the  *)
(* window is at most max.  The library is external: it is modelled from    *)
(* the options the middleware hands to it.  The timer may be late, as a    *)
(* busy event loop makes it, but never early, and it counts its next       *)
(* period from when it fired.  The first period began when the limiter was *)
(* made, some time before the server takes its first request.              *)
(***************************************************************************)
EXTENDS Integers, FiniteSets

CONSTANTS
  Clients,   \* what defaultKeyGenerator tells apart
  windowMs,  \* length of the window
  max,       \* requests let through in a window
  MaxClock,  \* bound: the latest time
  MaxHits    \* bound: the store stops counting here

ASSUME WindowAssumption ==
  /\ windowMs \in Nat \ {0}
  /\ max \in Nat \ {0}
  /\ MaxClock \in Nat
  /\ MaxHits \in Nat /\ MaxHits > max

VARIABLES
  clock,    \* Date.now()
  hits,     \* the store: requests counted since it was last emptied
  resetAt,  \* the timer is due from this time on
  log,      \* log[c]: every request of c that passed
  refused   \* the clients answered 429 since the store was last emptied

vars == <<clock, hits, resetAt, log, refused>>

Admission == [at : Nat, nr : Nat]

TypeOK ==
  /\ clock \in 0 .. MaxClock
  /\ hits \in [Clients -> 0 .. MaxHits]
  /\ resetAt \in Nat
  /\ log \in [Clients -> SUBSET Admission]
  /\ refused \subseteq Clients

EmptyStore == [c \in Clients |-> 0]

Init ==
  /\ clock = 0
  /\ hits = EmptyStore
  /\ resetAt \in 1 .. windowMs
  /\ log = [c \in Clients |-> {}]
  /\ refused = {}

----------------------------------------------------------------------------
New(c) == [at |-> clock, nr |-> Cardinality(log[c])]

\* Slip of WithinMax: less than in place of at most.
WithinMaxStrict(n) == n < max

WithinMax(n) == n <= max

\* Slip of Count: the store's decrement in place of its increment.
CountDown(n) == n - 1

\* The store counts the request.
Count(n) == IF n < MaxHits THEN n + 1 ELSE n

\* The middleware with the store s: count the request, then decide.
Handle(c, s) ==
  /\ hits' = [s EXCEPT ![c] = Count(@)]
  /\ \/ /\ WithinMax(hits'[c])
        /\ log' = [log EXCEPT ![c] = @ \union {New(c)}]
        /\ UNCHANGED refused
     \/ /\ ~WithinMax(hits'[c])
        /\ refused' = refused \union {c}
        /\ UNCHANGED log

Request(c) == Handle(c, hits) /\ UNCHANGED <<clock, resetAt>>

\* Slip of ResetAll: the next period is counted from when it was due.
ResetAllCatchesUp ==
  /\ clock >= resetAt
  /\ hits' = EmptyStore
  /\ refused' = {}
  /\ resetAt' = resetAt + windowMs
  /\ UNCHANGED <<clock, log>>

ResetAll ==
  /\ clock >= resetAt
  /\ hits' = EmptyStore
  /\ refused' = {}
  /\ resetAt' = clock + windowMs
  /\ UNCHANGED <<clock, log>>

Tick ==
  /\ clock < MaxClock
  /\ clock' = clock + 1
  /\ UNCHANGED <<hits, resetAt, log, refused>>

Next == Tick \/ ResetAll \/ \E c \in Clients : Request(c)

Spec == Init /\ [][Next]_vars

----------------------------------------------------------------------------
(* Properties. *)

Within(c, from, to) == {a \in log[c] : from <= a.at /\ a.at < to}

\* In no interval of length windowMs, wherever it begins and however late
\* the timer is, do more than 2 * max requests of one client pass: max at the
\* end of one window and max at the beginning of the next is the worst case.
AtMostTwiceMax ==
  \A c \in Clients, t \in 0 .. MaxClock :
    Cardinality(Within(c, t, t + windowMs)) <= 2 * max

\* The limiter turns nobody away early: a client with a 429 since the store
\* was emptied had max requests let through since then.
RefusedOnlyAtMax ==
  \A c \in refused :
    Cardinality({a \in log[c] : a.at >= resetAt - windowMs}) >= max
==============================================================================
