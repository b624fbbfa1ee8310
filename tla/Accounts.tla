------------------------------ MODULE Accounts ------------------------------
(***************************************************************************)
(* One users row and the requests that read, compute and write it.  A      *)
(* request loads the row without a lock, awaits (bcrypt, Redis, other      *)
(* statements), derives a new aggregate from what it loaded and writes     *)
(* every column back WHERE version = the version it loaded.  The UPDATE    *)
(* holds the row lock until COMMIT, so the two are one step here.          *)
(*                                                                         *)
(* Credentials are numbered in the order they are issued: passwords,       *)
(* reset tokens, two-factor enrolments, e-mail addresses.  A timestamp is  *)
(* what the clock makes of it, in the row and in every copy: a lock is     *)
(* "locked" and later "elapsed", a reset token "valid" and later           *)
(* "expired", an unverified address "no" and, its token dead, "expired".   *)
(***************************************************************************)
EXTENDS Naturals

CONSTANTS
    Requests,     \* concurrent requests
    Codes,        \* backup codes issued by one enrolment
    MAX_FAILED,   \* MAX_FAILED_ATTEMPTS: wrong passwords that lock the account
    MaxVersion,   \* bound: committed writes of the row
    MaxPassword,  \* bound: passwords
    MaxReset,     \* bound: reset tokens issued
    MaxEnrolment, \* bound: two-factor enrolments
    MaxEmail,     \* bound: e-mail addresses
    MaxSessions   \* bound: sessions created

ASSUME AccountsAssumption ==
    /\ MAX_FAILED \in Nat \ {0}
    /\ MaxVersion \in Nat /\ MaxPassword \in Nat \ {0} /\ MaxReset \in Nat
    /\ MaxEnrolment \in Nat /\ MaxEmail \in Nat \ {0} /\ MaxSessions \in Nat

VARIABLES
    row,      \* the users row
    pc,       \* per request: whether it has loaded the row
    snap,     \* per request: the aggregate it loaded
    guesses,  \* wrong-password answers since the account was last unlocked
    spent,    \* times each backup code of each enrolment was accepted
    resets,   \* times each reset token changed the password
    proved,   \* addresses whose verification token has been presented
    sessions  \* sessions created

history == <<guesses, spent, resets, proved, sessions>>
vars    == <<row, pc, snap, history>>

Locks  == {"open", "locked", "elapsed"}
Tokens == {"none", "valid", "used", "expired"}

User == [version: 0..MaxVersion, password: 0..MaxPassword,
         failed: 0..MAX_FAILED, lock: Locks, status: {"active", "deleted"},
         factor: {"none", "pending", "enabled"}, secret: 0..MaxEnrolment,
         codes: SUBSET Codes, reset: 0..MaxReset, token: Tokens,
         email: 0..MaxEmail, verified: {"no", "yes", "expired"}]

(***************************************************************************)
(* The aggregate: each method returns the new user.                        *)
(***************************************************************************)
create == [version |-> 0, password |-> 1, failed |-> 0, lock |-> "open",
           status |-> "active", factor |-> "none", secret |-> 0, codes |-> {},
           reset |-> 0, token |-> "none", email |-> 1, verified |-> "no"]

is_deleted(u)     == u.status = "deleted"
is_locked(u)      == u.lock = "locked"
has_two_factor(u) == u.factor = "enabled"

\* The counter restarts once a previous lockout has elapsed.
record_failed_login_attempt(u) ==
    LET n == 1 + (IF u.lock = "elapsed" THEN 0 ELSE u.failed)
    IN  [u EXCEPT !.failed = n, !.lock = IF n >= MAX_FAILED THEN "locked" ELSE "open"]

unlock(u) == [u EXCEPT !.failed = 0, !.lock = "open"]

record_successful_login(u) == unlock(u)

\* A backup code: the stored hash is removed from the new aggregate.
consume_backup_code(u, c) == [u EXCEPT !.codes = @ \ {c}]

begin_two_factor_enrolment(u) ==
    [u EXCEPT !.factor = "pending", !.secret = @ + 1, !.codes = Codes]

confirm_two_factor(u) == [u EXCEPT !.factor = "enabled"]

disable_two_factor(u) == [u EXCEPT !.factor = "none", !.codes = {}]

request_password_reset(u) == [u EXCEPT !.reset = @ + 1, !.token = "valid"]

\* Mutant: mark_used is forgotten.
ResetKeepsToken(u) == [unlock(u) EXCEPT !.password = @ + 1]

reset_password(u) == [unlock(u) EXCEPT !.password = @ + 1, !.token = "used"]

change_password(u) == [unlock(u) EXCEPT !.password = @ + 1, !.token = "none"]

mark_email_verified(u) == [u EXCEPT !.verified = "yes"]

\* Mutant: the verification of the old address is kept.
UpdateEmailVerified(u) == [u EXCEPT !.email = @ + 1]

update_email(u) == [u EXCEPT !.email = @ + 1, !.verified = "no"]

delete(u) == [u EXCEPT !.status = "deleted"]

-----------------------------------------------------------------------------
(***************************************************************************)
(* The repository and the transaction of a request.                        *)
(***************************************************************************)
Init ==
    /\ row = create
    /\ pc = [r \in Requests |-> "idle"]
    /\ snap = [r \in Requests |-> create]
    /\ guesses = 0 /\ proved = {} /\ sessions = 0
    /\ spent = [s \in 0..MaxEnrolment |-> [c \in Codes |-> 0]]
    /\ resets = [t \in 0..MaxReset |-> 0]

\* acquire_by_id, acquire_by_username, acquire_by_reset_token, ...: a plain
\* SELECT.  Which rows each finds is a guard of the operation on the copy.
acquire(r) ==
    /\ pc[r] = "idle"
    /\ pc' = [pc EXCEPT ![r] = "loaded"]
    /\ snap' = [snap EXCEPT ![r] = row]
    /\ UNCHANGED <<row, history>>

\* Mutant: UPDATE ... WHERE id = :id.
UpdateBlindly(r, u) ==
    /\ row.version < MaxVersion
    /\ row' = [u EXCEPT !.version = row.version + 1]

\* UPDATE ... WHERE id = :id AND version = :version, one row matched, COMMIT.
update(r, u) ==
    /\ snap[r].version = row.version /\ row.version < MaxVersion
    /\ row' = [u EXCEPT !.version = snap[r].version + 1]

\* The request is over and its copy forgotten.
Done(r) ==
    /\ pc' = [pc EXCEPT ![r] = "idle"]
    /\ snap' = [snap EXCEPT ![r] = create]

\* No row matched: someone else wrote first.
ConcurrentModificationError(r) ==
    /\ pc[r] = "loaded" /\ snap[r].version # row.version
    /\ Done(r)
    /\ UNCHANGED <<row, history>>

\* Every other way a request ends without a write: an early return, a refusal
\* by a rate limiter, a wrong code or token, an error, a dead process.
Rollback(r) ==
    /\ pc[r] = "loaded"
    /\ Done(r)
    /\ UNCHANGED <<row, history>>

-----------------------------------------------------------------------------
(***************************************************************************)
(* Signing in.                                                             *)
(***************************************************************************)
CanAuthenticate(u) == ~is_deleted(u) /\ ~is_locked(u)

\* The password is wrong: the failure is committed, then the caller is told.
LoginFails(r) ==
    /\ pc[r] = "loaded" /\ CanAuthenticate(snap[r])
    /\ update(r, record_failed_login_attempt(snap[r]))
    /\ guesses' = guesses + 1
    /\ Done(r)
    /\ UNCHANGED <<spent, resets, proved, sessions>>

\* The password is right and there is no second factor: the session is added
\* in the transaction that clears the failure counter.
LoginSucceeds(r) ==
    /\ pc[r] = "loaded" /\ CanAuthenticate(snap[r]) /\ ~has_two_factor(snap[r])
    /\ sessions < MaxSessions
    /\ update(r, record_successful_login(snap[r]))
    /\ guesses' = 0
    /\ sessions' = sessions + 1
    /\ Done(r)
    /\ UNCHANGED <<spent, resets, proved>>

\* The password is right and a second factor is on: the cleared counter is
\* committed, and a challenge instead of a session is handed out.
LoginChallenged(r) ==
    /\ pc[r] = "loaded" /\ CanAuthenticate(snap[r]) /\ has_two_factor(snap[r])
    /\ update(r, record_successful_login(snap[r]))
    /\ guesses' = 0
    /\ Done(r)
    /\ UNCHANGED <<spent, resets, proved, sessions>>

\* A backup code is accepted: its removal and the accounting of its use.
Spend(r, c) ==
    /\ pc[r] = "loaded" /\ has_two_factor(snap[r]) /\ c \in snap[r].codes
    /\ update(r, consume_backup_code(snap[r], c))
    /\ spent' = [spent EXCEPT ![snap[r].secret][c] = @ + 1]
    /\ Done(r)
    /\ UNCHANGED <<guesses, resets, proved>>

\* The second step of signing in, with a backup code.
CompleteWithBackupCode(r, c) ==
    /\ CanAuthenticate(snap[r]) /\ sessions < MaxSessions
    /\ Spend(r, c)
    /\ sessions' = sessions + 1

\* The second step of signing in, with a TOTP code: the row is not written.
CompleteWithTotp(r) ==
    /\ pc[r] = "loaded" /\ CanAuthenticate(snap[r]) /\ has_two_factor(snap[r])
    /\ sessions < MaxSessions
    /\ sessions' = sessions + 1
    /\ Done(r)
    /\ UNCHANGED <<row, guesses, spent, resets, proved>>

\* POST /2fa/verify with a backup code; it looks at neither lock nor deletion.
Verify2FA(r, c) == Spend(r, c) /\ UNCHANGED sessions

-----------------------------------------------------------------------------
(***************************************************************************)
(* Managing the account.                                                   *)
(***************************************************************************)

\* A request on behalf of the signed-in user that rewrites the row to u.
Manage(r, u) ==
    /\ pc[r] = "loaded" /\ ~is_deleted(snap[r])
    /\ update(r, u)
    /\ Done(r)
    /\ UNCHANGED <<guesses, spent, resets, proved, sessions>>

\* Mutant: the has_two_factor check is missing.
EnableAgain(r) ==
    /\ snap[r].secret < MaxEnrolment
    /\ Manage(r, begin_two_factor_enrolment(snap[r]))

Enable2FA(r) ==
    /\ ~has_two_factor(snap[r]) /\ snap[r].secret < MaxEnrolment
    /\ Manage(r, begin_two_factor_enrolment(snap[r]))

Confirm2FA(r) ==
    /\ snap[r].factor = "pending"
    /\ Manage(r, confirm_two_factor(snap[r]))

Disable2FA(r) == Manage(r, disable_two_factor(snap[r]))

\* A new user name or nothing at all: the row is written back either way.
UpdateUsername(r) == Manage(r, snap[r])

UpdateEmail(r) ==
    /\ snap[r].email < MaxEmail
    /\ Manage(r, update_email(snap[r]))

DeleteMe(r) == Manage(r, delete(snap[r]))

RequestPasswordReset(r) ==
    /\ snap[r].reset < MaxReset
    /\ Manage(r, request_password_reset(snap[r]))

ChangePassword(r) ==
    /\ pc[r] = "loaded" /\ ~is_deleted(snap[r]) /\ snap[r].password < MaxPassword
    /\ update(r, change_password(snap[r]))
    /\ guesses' = 0
    /\ Done(r)
    /\ UNCHANGED <<spent, resets, proved, sessions>>

\* The token finds the row, deleted or not; its validity is checked after the
\* new password has been hashed.
ResetPassword(r) ==
    /\ pc[r] = "loaded" /\ snap[r].token = "valid" /\ snap[r].password < MaxPassword
    /\ update(r, reset_password(snap[r]))
    /\ guesses' = 0
    /\ resets' = [resets EXCEPT ![snap[r].reset] = @ + 1]
    /\ Done(r)
    /\ UNCHANGED <<spent, proved, sessions>>

\* The token mailed to the address the copy holds, on a deleted row too.
VerifyEmail(r) ==
    /\ pc[r] = "loaded" /\ snap[r].verified = "no"
    /\ update(r, mark_email_verified(snap[r]))
    /\ proved' = proved \cup {snap[r].email}
    /\ Done(r)
    /\ UNCHANGED <<guesses, spent, resets, sessions>>

-----------------------------------------------------------------------------
(***************************************************************************)
(* The clock and the maintenance worker.                                   *)
(***************************************************************************)
Elapse(u) == [u EXCEPT !.lock = IF @ = "locked" THEN "elapsed" ELSE @]

_lock_window_elapsed ==
    /\ is_locked(row)
    /\ row' = Elapse(row)
    /\ snap' = [r \in Requests |-> Elapse(snap[r])]
    /\ guesses' = 0
    /\ UNCHANGED <<pc, spent, resets, proved, sessions>>

Expire(u) == [u EXCEPT !.token = IF @ = "valid" THEN "expired" ELSE @]

\* The hour of the newest reset token is over, and so is that of any older.
ResetTokenExpires ==
    /\ row.token = "valid"
    /\ row' = Expire(row)
    /\ snap' = [r \in Requests |-> Expire(snap[r])]
    /\ UNCHANGED <<pc, history>>

Lapse(u) == [u EXCEPT !.verified = IF @ = "no" THEN "expired" ELSE @]

\* The same for the day of the newest verification token.
VerificationExpires ==
    /\ row.verified = "no"
    /\ row' = Lapse(row)
    /\ snap' = [r \in Requests |-> Lapse(snap[r])]
    /\ UNCHANGED <<pc, history>>

anonymised(u) ==
    [u EXCEPT !.password = 0, !.factor = "none", !.codes = {},
              !.token = "none", !.email = 0]

\* Strip a long-deleted account, with an UPDATE that leaves version alone.
\* The default retention of 30 days outlives every mailed token.
_anonymise_deleted_users ==
    /\ is_deleted(row) /\ row.email # 0
    /\ row.token # "valid" /\ row.verified # "no"
    /\ row' = anonymised(row)
    /\ UNCHANGED <<pc, snap, history>>

RequestNext(r) ==
    \/ acquire(r) \/ ConcurrentModificationError(r) \/ Rollback(r)
    \/ LoginFails(r) \/ LoginSucceeds(r) \/ LoginChallenged(r)
    \/ \E c \in Codes : CompleteWithBackupCode(r, c) \/ Verify2FA(r, c)
    \/ CompleteWithTotp(r)
    \/ Enable2FA(r) \/ Confirm2FA(r) \/ Disable2FA(r)
    \/ UpdateUsername(r) \/ UpdateEmail(r) \/ DeleteMe(r)
    \/ RequestPasswordReset(r) \/ ChangePassword(r) \/ ResetPassword(r)
    \/ VerifyEmail(r)

Next ==
    \/ \E r \in Requests : RequestNext(r)
    \/ _lock_window_elapsed \/ ResetTokenExpires \/ VerificationExpires
    \/ _anonymise_deleted_users

Spec == Init /\ [][Next]_vars

-----------------------------------------------------------------------------
(***************************************************************************)
(* Properties.                                                             *)
(***************************************************************************)

\* The variables have the shapes the code gives them.
TypeOK ==
    /\ row \in User
    /\ pc \in [Requests -> {"idle", "loaded"}]
    /\ snap \in [Requests -> User]
    /\ guesses \in Nat /\ sessions \in 0..MaxSessions
    /\ spent \in [0..MaxEnrolment -> [Codes -> Nat]]
    /\ resets \in [0..MaxReset -> Nat]
    /\ proved \subseteq 0..MaxEmail

\* The brute-force limit survives concurrency: however requests interleave,
\* at most MAX_FAILED wrong-password answers leave the server between two
\* unlocks, and the account is locked exactly when that many have.  The second
\* half is the denial-of-service side: an elapsed lockout does not come back
\* for a single wrong password.
GuessesAreCounted ==
    /\ guesses <= MAX_FAILED
    /\ is_locked(row) <=> guesses = MAX_FAILED

\* A backup code is accepted at most once, over both endpoints that take one.
BackupCodeSpentOnce ==
    \A s \in 0..MaxEnrolment : \A c \in Codes : spent[s][c] <= 1

\* A mailed reset token changes the password at most once.
ResetTokenUsedOnce ==
    \A t \in 0..MaxReset : resets[t] <= 1

\* An address counts as verified only if the token mailed to that address has
\* been presented: a verification never lands on an address set meanwhile.
VerifiedAddressIsProved ==
    row.verified = "yes" /\ row.email # 0 => row.email \in proved

\* A session that a password or a backup code earns is earned against the row
\* as it is when it commits: active, not locked, with the password that was
\* checked, and with the second factor passed if one is enabled by then.
GrantIsCurrent ==
    [][sessions' # sessions /\ row' # row =>
          /\ row.status = "active" /\ row.lock # "locked"
          /\ row.factor = "enabled" => row'.codes # row.codes
          /\ \E r \in Requests :
                pc[r] = "loaded" /\ pc'[r] = "idle" /\ snap[r].password = row.password]_vars

\* The user v undoes nothing of the user u.
Keeps(u, v) ==
    /\ is_deleted(u) => is_deleted(v)
    /\ has_two_factor(u) =>
          v.factor # "pending" /\ v.secret = u.secret /\ v.codes \subseteq u.codes
    /\ u.token = "used" /\ v.token = "valid" => v.reset > u.reset
    /\ u.verified = "yes" /\ v.verified # "yes" => v.email > u.email

\* What no step may undo, however stale the copy it was computed from: a
\* deletion is final, an active factor is not replaced by a new enrolment nor
\* refilled with codes, a used reset token is not revived, and an address
\* loses its verification only by being replaced.
NothingIsUndone == [][Keeps(row, row')]_vars

-----------------------------------------------------------------------------
(***************************************************************************)
(* The inductive invariant.                                                *)
(***************************************************************************)

\* The copies that would win the version check.
Winning(r) == pc[r] = "loaded" /\ snap[r].version = row.version

\* Equal versions mean equal rows, except that the maintenance worker may
\* have stripped a deleted one.
SnapInv ==
    \A r \in Requests :
        /\ pc[r] = "loaded" => snap[r].version <= row.version
        /\ Winning(r) =>
              \/ snap[r] = row
              \/ is_deleted(snap[r]) /\ anonymised(snap[r]) = row

LockInv ==
    /\ row.lock = "open" => row.failed < MAX_FAILED /\ guesses = row.failed
    /\ row.lock = "locked" => row.failed = MAX_FAILED /\ guesses = row.failed
    /\ row.lock = "elapsed" => row.failed = MAX_FAILED /\ guesses = 0

\* What the user u may still spend has not been spent.
Unspent(u) ==
    /\ \A c \in u.codes : spent[u.secret][c] = 0
    /\ \A s \in 0..MaxEnrolment : s > u.secret => \A c \in Codes : spent[s][c] = 0

Unused(u) ==
    /\ u.token = "valid" => resets[u.reset] = 0
    /\ \A t \in 0..MaxReset : t > u.reset => resets[t] = 0

Proved(u) == u.verified = "yes" /\ u.email # 0 => u.email \in proved

Honest(u) == Unspent(u) /\ Unused(u) /\ Proved(u)

CredentialInv == Honest(row) /\ \A r \in Requests : Winning(r) => Honest(snap[r])

AccountsInv ==
    /\ TypeOK /\ SnapInv /\ LockInv /\ CredentialInv
    /\ BackupCodeSpentOnce /\ ResetTokenUsedOnce
=============================================================================
