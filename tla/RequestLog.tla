----------------------------- MODULE RequestLog ------------------------------
(***************************************************************************)
(* What a sliding-window limiter promises: with a log that forgets         *)
(* nothing, a request passes if and only if fewer than max requests of its *)
(* client passed in the last window.  SlidingWindowLimiter implements it.  *)
(***************************************************************************)
EXTENDS Integers, FiniteSets

CONSTANTS Clients, window, max
VARIABLES now, passed, decision

logVars == <<now, passed, decision>>

InWindow(c) == {a \in passed[c] : now - window < a.at /\ a.at <= now}

Init ==
  /\ now = 0
  /\ passed = [c \in Clients |-> {}]
  /\ decision = [key |-> {}, passed |-> FALSE]

Pass(c) ==
  /\ Cardinality(InWindow(c)) < max
  /\ \E new \in passed'[c] \ passed[c] :
       /\ new.at = now
       /\ passed' = [passed EXCEPT ![c] = @ \union {new}]
  /\ decision' = [key |-> c, passed |-> TRUE]
  /\ UNCHANGED now

Refuse(c) ==
  /\ Cardinality(InWindow(c)) >= max
  /\ decision' = [key |-> c, passed |-> FALSE]
  /\ UNCHANGED <<now, passed>>

Wait == now' > now /\ UNCHANGED <<passed, decision>>

Next == Wait \/ \E c \in Clients : Pass(c) \/ Refuse(c)

Spec == Init /\ [][Next]_logVars
=============================================================================
