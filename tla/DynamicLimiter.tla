--------------------------- MODULE DynamicLimiter ----------------------------
(***************************************************************************)
(* dynamicRateLimitMiddleware: picks the limits of the user's role, calls  *)
(* rateLimitMiddleware(limits) inside the handler, for every request, and  *)
(* runs the instance so made, whose store is new and empty.  max stands    *)
(* for the limit of the clients' role, which does not change.              *)
(***************************************************************************)
EXTENDS FixedWindowLimiter

\* The store of an instance made for this request, which no other request
\* ever sees; its timer has nothing to empty.
DynamicRequest(c) ==
  /\ Handle(c, EmptyStore)
  /\ UNCHANGED <<clock, resetAt>>

DynamicNext == Tick \/ \E c \in Clients : DynamicRequest(c)

DynamicSpec == Init /\ [][DynamicNext]_vars

\* The comment on dynamicRateLimitMiddleware calls it a rate limiter that
\* adjusts based on user role: whatever the role, no client passes more than
\* twice its limit in one window.
DynamicLimitHolds == AtMostTwiceMax
==============================================================================
