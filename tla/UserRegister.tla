----------------------------- MODULE UserRegister -----------------------------
(***************************************************************************)
(* What save and delete of the repository promise: a user is one register, *)
(* each call sets it as a whole or marks it deleted, at one moment between *)
(* its start and its return, or is refused.  A call that was cut off may   *)
(* still take effect at any later time.  Nothing is promised about the     *)
(* order of two callers: the last to take effect wins.                     *)
(***************************************************************************)

CONSTANTS
  Users,    \* ids
  Callers,  \* who calls save and delete
  Requests, \* the calls there are: records with kind, user and data
  None      \* no user, no call

VARIABLES
  value,    \* value[u]: None, or its data and whether it is deleted
  asked,    \* asked[c]: the call of c that has not returned, or None
  loose     \* calls cut off, which may yet take effect

vars == <<value, asked, loose>>

Init ==
  /\ value = [u \in Users |-> None]
  /\ asked = [c \in Callers |-> None]
  /\ loose = {}

Gone(v) == [data |-> [v.data EXCEPT !.status = "inactive"], deleted |-> TRUE]

\* What the register of r's user becomes.
Effect(r) ==
  CASE r.kind = "delete" -> Gone(value[r.user])
    [] r.kind = "save" /\ value[r.user] = None ->
         [data |-> r.data, deleted |-> FALSE]
    [] r.kind = "save" /\ value[r.user] # None ->
         [value[r.user] EXCEPT !.data = r.data]

\* Only a user that exists can be deleted.
TakesEffect(r) ==
  /\ r.kind = "delete" => value[r.user] # None
  /\ value' = [value EXCEPT ![r.user] = Effect(r)]

Ask(c) ==
  /\ asked[c] = None
  /\ asked'[c] \in Requests
  /\ asked' = [asked EXCEPT ![c] = asked'[c]]
  /\ UNCHANGED <<value, loose>>

Return(c) == asked[c] # None /\ asked' = [asked EXCEPT ![c] = None]

Done(c) == Return(c) /\ TakesEffect(asked[c]) /\ UNCHANGED loose

Refused(c) == Return(c) /\ UNCHANGED <<value, loose>>

\* Calls are cut off, one by one or all at once.
CutOff(C) ==
  /\ asked' = [c \in Callers |-> IF c \in C THEN None ELSE asked[c]]
  /\ \E S \in SUBSET {asked[c] : c \in C} : loose' = loose \union (S \ {None})
  /\ UNCHANGED value

\* A call that was cut off takes effect, or never will.  Equal ones count once.
Late(r) ==
  /\ TakesEffect(r) \/ UNCHANGED value
  /\ loose' \in {loose, loose \ {r}}
  /\ UNCHANGED asked

Next ==
  \/ \E c \in Callers : Ask(c) \/ Done(c) \/ Refused(c)
  \/ \E C \in SUBSET Callers : CutOff(C)
  \/ \E r \in loose : Late(r)

Spec == Init /\ [][Next]_vars
==============================================================================
