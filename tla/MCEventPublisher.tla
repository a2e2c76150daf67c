-------------------------- MODULE MCEventPublisher ---------------------------
(***************************************************************************)
(* EventPublisher for TLC: two events of one type and one of another, a    *)
(* history shorter than the events published, and publishAll with an event *)
(* of each type.                                                           *)
(***************************************************************************)
EXTENDS EventPublisher

CONSTANTS created, roleChanged, e1, e2, e3

TwoTypes == {created, roleChanged}
TwoTypesOf == [e \in Events |-> IF e = e3 THEN roleChanged ELSE created]

BatchOfTwo == {<<e1, e3>>}
=============================================================================
