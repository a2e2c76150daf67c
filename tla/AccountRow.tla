----------------------------- MODULE AccountRow ------------------------------
(***************************************************************************)
(* UserOrmEntity: the helper methods by which a row of users is to lock    *)
(* after failed logins, be confirmed, reset and deleted.  The repository   *)
(* has no login flow yet; the flow around the methods, which loads the     *)
(* entity, calls one of them and has it stored, is external.  Storing it   *)
(* is one UPDATE of the row, which the CHECK of the table may refuse.      *)
(***************************************************************************)
EXTENDS Naturals

CONSTANTS
  Tokens,   \* tokens mailed to the user
  None,     \* no token
  MaxFailed \* bound: failed logins in a row

VARIABLES
  row,   \* the stored row
  failed \* failed logins since the last reset (history)

vars == <<row, failed>>

\* A moment is none (null), still to come, or over.
Moments == {"none", "ahead", "over"}

Init ==
  /\ failed = 0
  /\ row \in
      [status : {"active"}, deleted : {FALSE},
       loginAttempts : {0}, lockedUntil : {"none"},
       emailVerified : {FALSE},
       emailVerificationToken : Tokens \union {None},
       passwordResetToken : {None}, passwordResetExpires : {"none"}]

----------------------------------------------------------------------------
(* What the methods answer. *)

isActive(r) == r.status = "active" /\ ~r.deleted
isLocked(r) == r.lockedUntil = "ahead"
canLogin(r) == isActive(r) /\ ~isLocked(r) /\ r.emailVerified

isValidPasswordResetToken(r, t) ==
  r.passwordResetToken = t /\ r.passwordResetExpires = "ahead"
isValidEmailVerificationToken(r, t) ==
  r.emailVerificationToken = t /\ ~r.emailVerified

(* What they do to the entity. *)

incrementLoginAttempts(r) ==
  [r EXCEPT !.loginAttempts = @ + 1,
            !.lockedUntil = IF r.loginAttempts + 1 >= 5 THEN "ahead" ELSE @]

resetLoginAttempts(r) ==
  [r EXCEPT !.loginAttempts = 0, !.lockedUntil = "none"]

updateLastLogin(r) == resetLoginAttempts(r)

markEmailAsVerified(r) ==
  [r EXCEPT !.emailVerified = TRUE, !.emailVerificationToken = None]

setPasswordResetToken(r, t) ==
  [r EXCEPT !.passwordResetToken = t, !.passwordResetExpires = "ahead"]

clearPasswordResetToken(r) ==
  [r EXCEPT !.passwordResetToken = None, !.passwordResetExpires = "none"]

softDelete(r) == [r EXCEPT !.deleted = TRUE, !.status = "inactive"]
restore(r) == [r EXCEPT !.deleted = FALSE, !.status = "active"]

----------------------------------------------------------------------------
(* CHK_users_login_attempts; a refused UPDATE changes no column. *)

Admitted(r) == r.loginAttempts \in 0..10
Stored(r) == row' = IF Admitted(r) THEN r ELSE row

\* The password is compared only for an account that is not locked.
FailedLogin ==
  /\ isActive(row) /\ ~isLocked(row)
  /\ failed < MaxFailed
  /\ failed' = failed + 1
  /\ Stored(incrementLoginAttempts(row))

Login ==
  /\ canLogin(row)
  /\ failed' = 0
  /\ Stored(updateLastLogin(row))

ConfirmEmail(t) ==
  /\ isValidEmailVerificationToken(row, t)
  /\ Stored(markEmailAsVerified(row))
  /\ UNCHANGED failed

ForgotPassword(t) ==
  Stored(setPasswordResetToken(row, t)) /\ UNCHANGED failed

ResetPassword(t) ==
  /\ isValidPasswordResetToken(row, t)
  /\ Stored(clearPasswordResetToken(row))
  /\ UNCHANGED failed

DeleteOrRestore ==
  /\ Stored(IF row.deleted THEN restore(row) ELSE softDelete(row))
  /\ UNCHANGED failed

\* Time passes: a lock or a reset token runs out.
TimePasses ==
  /\ \/ row.lockedUntil = "ahead" /\ row' = [row EXCEPT !.lockedUntil = "over"]
     \/ /\ row.passwordResetExpires = "ahead"
        /\ row' = [row EXCEPT !.passwordResetExpires = "over"]
  /\ UNCHANGED failed

Next ==
  \/ FailedLogin \/ Login \/ DeleteOrRestore \/ TimePasses
  \/ \E t \in Tokens : ConfirmEmail(t) \/ ForgotPassword(t) \/ ResetPassword(t)

Spec == Init /\ [][Next]_vars

----------------------------------------------------------------------------
\* "Lock account after 5 failed attempts for 30 minutes"
\* (incrementLoginAttempts): the fifth failed login since the last reset, and
\* each one after it, leaves the account locked.
LockedAfterFiveFailures ==
  [][failed' > failed /\ failed' >= 5 => isLocked(row')]_vars
==============================================================================
