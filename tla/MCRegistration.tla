--------------------------- MODULE MCRegistration ---------------------------
(***************************************************************************)
(* Registration for TLC: two spellings of one e-mail, a second e-mail, and *)
(* one that the value objects accept and the CHECK constraint rejects.     *)
(***************************************************************************)
EXTENDS RegistrationRefinement

CONSTANTS AnnCapital, ann, ben, obrien

MCAddresses == {AnnCapital, ann, ben, obrien}
MCLower == [a \in MCAddresses |-> IF a = AnnCapital THEN ann ELSE a]
MCDbFormatted == {ann, ben}
=============================================================================
