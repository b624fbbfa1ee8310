--------------------------- MODULE AccountsProofs ---------------------------
(***************************************************************************)
(* The account row keeps its promises for any number of requests, codes    *)
(* and writes.  The core is WriteStep: a write makes every other copy a    *)
(* loser of the version check, so what an action has to show is only that  *)
(* the row it writes is honest, given that the copy it started from is.    *)
(***************************************************************************)
EXTENDS Accounts, TLAPS

\* The part of the invariant that is about the row alone.
RowInv ==
    /\ row \in User
    /\ guesses \in Nat /\ sessions \in 0..MaxSessions
    /\ spent \in [0..MaxEnrolment -> [Codes -> Nat]]
    /\ resets \in [0..MaxReset -> Nat]
    /\ proved \subseteq 0..MaxEmail
    /\ LockInv /\ Honest(row)
    /\ BackupCodeSpentOnce /\ ResetTokenUsedOnce

\* A new account is a user of the table.
LEMMA CreateType == create \in User
BY AccountsAssumption DEF create, User, Locks, Tokens

\* The methods of the aggregate, and the version a write stores, keep a user
\* a user of the table, within the bounds the actions guard.
LEMMA MethodTypes ==
    ASSUME NEW u \in User
    PROVE  /\ (u.failed < MAX_FAILED \/ u.lock = "elapsed") =>
                 record_failed_login_attempt(u) \in User
           /\ unlock(u) \in User /\ record_successful_login(u) \in User
           /\ \A c \in Codes : consume_backup_code(u, c) \in User
           /\ u.secret < MaxEnrolment => begin_two_factor_enrolment(u) \in User
           /\ confirm_two_factor(u) \in User /\ disable_two_factor(u) \in User
           /\ u.email < MaxEmail => update_email(u) \in User
           /\ mark_email_verified(u) \in User /\ delete(u) \in User
           /\ u.reset < MaxReset => request_password_reset(u) \in User
           /\ u.password < MaxPassword =>
                 change_password(u) \in User /\ reset_password(u) \in User
<1>1. \A n : (n < MAX_FAILED /\ n \in Nat) => n \in 0..MAX_FAILED /\ n + 1 \in 0..MAX_FAILED
  BY AccountsAssumption
<1>2. /\ u.failed \in Nat /\ 0 \in Nat /\ 0 < MAX_FAILED /\ 0 \in 0..MAX_FAILED
      /\ u.secret < MaxEnrolment => u.secret + 1 \in 0..MaxEnrolment
      /\ u.email < MaxEmail => u.email + 1 \in 0..MaxEmail
      /\ u.reset < MaxReset => u.reset + 1 \in 0..MaxReset
      /\ u.password < MaxPassword => u.password + 1 \in 0..MaxPassword
  BY AccountsAssumption DEF User
<1>3. (u.failed < MAX_FAILED \/ u.lock = "elapsed") =>
          record_failed_login_attempt(u) \in User
  <2> DEFINE n == 1 + (IF u.lock = "elapsed" THEN 0 ELSE u.failed)
             l == IF n >= MAX_FAILED THEN "locked" ELSE "open"
  <2>1. (u.failed < MAX_FAILED \/ u.lock = "elapsed") => n \in 0..MAX_FAILED
    BY <1>1, <1>2
  <2>2. l \in Locks
    BY DEF Locks
  <2>3. record_failed_login_attempt(u) = [u EXCEPT !.failed = n, !.lock = l]
    BY DEF record_failed_login_attempt
  <2> HIDE DEF n, l
  <2> QED
    BY <2>1, <2>2, <2>3 DEF User
<1>4. unlock(u) \in User /\ record_successful_login(u) \in User
  BY <1>2 DEF unlock, record_successful_login, User, Locks
<1>5. \A c \in Codes : consume_backup_code(u, c) \in User
  BY DEF consume_backup_code, User
<1>6. u.secret < MaxEnrolment => begin_two_factor_enrolment(u) \in User
  <2> DEFINE n == u.secret + 1
  <2>1. begin_two_factor_enrolment(u) =
            [u EXCEPT !.factor = "pending", !.secret = n, !.codes = Codes]
    BY DEF begin_two_factor_enrolment
  <2>2. u.secret < MaxEnrolment => n \in 0..MaxEnrolment
    BY <1>2
  <2> HIDE DEF n
  <2> QED
    BY <2>1, <2>2 DEF User
<1>7. confirm_two_factor(u) \in User /\ disable_two_factor(u) \in User
  BY DEF confirm_two_factor, disable_two_factor, User
<1>8. u.email < MaxEmail => update_email(u) \in User
  <2> DEFINE n == u.email + 1
  <2>1. update_email(u) = [u EXCEPT !.email = n, !.verified = "no"]
    BY DEF update_email
  <2>2. u.email < MaxEmail => n \in 0..MaxEmail
    BY <1>2
  <2> HIDE DEF n
  <2> QED
    BY <2>1, <2>2 DEF User
<1>9. mark_email_verified(u) \in User /\ delete(u) \in User
  BY DEF mark_email_verified, delete, User
<1>10. u.reset < MaxReset => request_password_reset(u) \in User
  <2> DEFINE n == u.reset + 1
  <2>1. request_password_reset(u) = [u EXCEPT !.reset = n, !.token = "valid"]
    BY DEF request_password_reset
  <2>2. u.reset < MaxReset => n \in 0..MaxReset
    BY <1>2
  <2> HIDE DEF n
  <2> QED
    BY <2>1, <2>2 DEF User, Tokens
<1>11. u.password < MaxPassword => change_password(u) \in User /\ reset_password(u) \in User
  <2> DEFINE n == u.password + 1
  <2>1. unlock(u).password = u.password
    BY DEF unlock, User
  <2>2. /\ change_password(u) = [unlock(u) EXCEPT !.password = n, !.token = "none"]
        /\ reset_password(u) = [unlock(u) EXCEPT !.password = n, !.token = "used"]
    BY <1>4, <2>1 DEF change_password, reset_password, User
  <2>3. u.password < MaxPassword => n \in 0..MaxPassword
    BY <1>2
  <2> HIDE DEF n
  <2> QED
    BY <1>4, <2>2, <2>3 DEF User, Tokens
<1> QED
  BY <1>3, <1>4, <1>5, <1>6, <1>7, <1>8, <1>9, <1>10, <1>11

\* What the clock and the maintenance worker do keeps a user a user.
LEMMA StripType ==
    ASSUME NEW u \in User
    PROVE  anonymised(u) \in User /\ Elapse(u) \in User /\ Expire(u) \in User /\ Lapse(u) \in User
<1>1. 0 \in 0..MaxPassword /\ 0 \in 0..MaxEmail
  BY AccountsAssumption
<1>2. anonymised(u) \in User
  BY <1>1 DEF anonymised, User, Tokens
<1>3. Elapse(u) \in User
  BY DEF Elapse, User, Locks
<1>4. Expire(u) \in User
  BY DEF Expire, User, Tokens
<1>5. Lapse(u) \in User
  BY DEF Lapse, User
<1> QED
  BY <1>2, <1>3, <1>4, <1>5

\* The initial state satisfies the inductive invariant.
LEMMA InitInv == Init => AccountsInv
<1> SUFFICES ASSUME Init PROVE AccountsInv
  OBVIOUS
<1>1. TypeOK
  BY CreateType, AccountsAssumption DEF Init, TypeOK
<1>2. SnapInv
  BY DEF Init, SnapInv, Winning
<1>3. LockInv
  BY AccountsAssumption DEF Init, LockInv, create
<1>4. CredentialInv
  BY AccountsAssumption
  DEF Init, CredentialInv, Honest, Unspent, Unused, Proved, Winning, create
<1>5. BackupCodeSpentOnce /\ ResetTokenUsedOnce
  BY AccountsAssumption DEF Init, BackupCodeSpentOnce, ResetTokenUsedOnce
<1> QED
  BY <1>1, <1>2, <1>3, <1>4, <1>5 DEF AccountsInv

\* What a request that wins the version check knows of its copy: it agrees
\* with the row on everything but what the maintenance worker strips.
LEMMA WinnerFacts ==
    ASSUME AccountsInv, NEW r \in Requests, Winning(r)
    PROVE  /\ snap[r] \in User /\ Honest(snap[r])
           /\ snap[r].lock = row.lock /\ snap[r].failed = row.failed
           /\ snap[r].reset = row.reset /\ snap[r].secret = row.secret
           /\ snap[r].status = row.status /\ snap[r].verified = row.verified
           /\ snap[r].status = "active" => snap[r] = row
<1>1. snap[r] \in User /\ Honest(snap[r])
  BY DEF AccountsInv, TypeOK, CredentialInv
<1>2. snap[r] = row \/ (is_deleted(snap[r]) /\ anonymised(snap[r]) = row)
  BY DEF AccountsInv, SnapInv
<1> QED
  BY <1>1, <1>2 DEF anonymised, is_deleted, User

\* After a write no copy wins, and the invariant is a matter of the row.
LEMMA WriteStep ==
    ASSUME AccountsInv, NEW r \in Requests, pc[r] = "loaded",
           NEW u \in User, update(r, u), Done(r), RowInv'
    PROVE  AccountsInv'
<1>1. row.version \in Nat /\ row'.version = row.version + 1
  BY AccountsAssumption DEF AccountsInv, TypeOK, update, User
<1>2. pc' \in [Requests -> {"idle", "loaded"}] /\ snap' \in [Requests -> User]
  BY CreateType DEF AccountsInv, TypeOK, Done
<1>3. \A q \in Requests : pc'[q] = "loaded" => snap'[q].version <= row.version
  BY DEF AccountsInv, TypeOK, SnapInv, Done
<1>4. \A q \in Requests : snap'[q].version \in Nat
  BY <1>2, AccountsAssumption DEF User
<1>5. \A q \in Requests : ~Winning(q)'
  BY <1>1, <1>3, <1>4 DEF Winning
<1>6. SnapInv'
  BY <1>1, <1>3, <1>4, <1>5 DEF SnapInv
<1>7. CredentialInv'
  BY <1>5 DEF CredentialInv, RowInv
<1> QED
  BY <1>2, <1>6, <1>7 DEF AccountsInv, TypeOK, RowInv

LEMMA StripStep ==
    ASSUME AccountsInv, _anonymise_deleted_users
    PROVE  AccountsInv'
<1> USE DEF _anonymise_deleted_users, history
<1>1. TypeOK'
  BY StripType DEF AccountsInv, TypeOK
<1>2. SnapInv'
  <2> SUFFICES ASSUME NEW r \in Requests
               PROVE  /\ pc'[r] = "loaded" => snap'[r].version <= row'.version
                      /\ Winning(r)' =>
                            \/ snap'[r] = row'
                            \/ is_deleted(snap'[r]) /\ anonymised(snap'[r]) = row'
    BY DEF SnapInv
  <2>1. row'.version = row.version /\ snap'[r] = snap[r] /\ pc'[r] = pc[r]
    BY DEF AccountsInv, TypeOK, User, anonymised
  <2>2. ASSUME Winning(r)
        PROVE  is_deleted(snap[r]) /\ anonymised(snap[r]) = row'
    BY <2>2 DEF AccountsInv, SnapInv, TypeOK, User, anonymised, is_deleted
  <2> QED
    BY <2>1, <2>2 DEF AccountsInv, SnapInv, Winning
<1>3. LockInv'
  BY DEF AccountsInv, LockInv, TypeOK, User, anonymised
<1>4. Honest(row)'
  BY DEF AccountsInv, CredentialInv, Honest, Unspent, Unused, Proved, TypeOK, User, anonymised
<1>5. ASSUME NEW r \in Requests, Winning(r)' PROVE Honest(snap[r])'
  <2>1. Winning(r)
    BY <1>5 DEF Winning, AccountsInv, TypeOK, User, anonymised
  <2> QED
    BY <2>1 DEF AccountsInv, CredentialInv, Honest, Unspent, Unused, Proved
<1> QED
  BY <1>1, <1>2, <1>3, <1>4, <1>5
  DEF AccountsInv, CredentialInv, BackupCodeSpentOnce, ResetTokenUsedOnce

\* The numbers of a user are numbers, within the bounds.
LEMMA FieldTypes ==
    ASSUME NEW u \in User
    PROVE  /\ u.failed \in Nat /\ u.secret \in 0..MaxEnrolment /\ u.codes \subseteq Codes
           /\ u.reset \in 0..MaxReset /\ u.reset \in Nat /\ u.email \in 0..MaxEmail
<1>1. /\ u.failed \in 0..MAX_FAILED /\ u.secret \in 0..MaxEnrolment /\ u.codes \subseteq Codes
      /\ u.reset \in 0..MaxReset /\ u.email \in 0..MaxEmail
  BY DEF User
<1> QED
  BY <1>1, AccountsAssumption

\* A winning request writes the row it computed, one version up.
LEMMA WrittenRow ==
    ASSUME AccountsInv, NEW r \in Requests, NEW u \in User, update(r, u)
    PROVE  /\ row' \in User
           /\ row'.failed = u.failed /\ row'.lock = u.lock /\ row'.status = u.status
           /\ row'.factor = u.factor /\ row'.secret = u.secret /\ row'.codes = u.codes
           /\ row'.reset = u.reset /\ row'.token = u.token /\ row'.password = u.password
           /\ row'.email = u.email /\ row'.verified = u.verified
<1> DEFINE n == snap[r].version + 1
<1>1. row' = [u EXCEPT !.version = n]
  BY DEF update
<1>2. row.version \in 0..MaxVersion
  BY DEF AccountsInv, TypeOK, User
<1>3. n \in 0..MaxVersion
  BY <1>2, AccountsAssumption DEF update
<1> HIDE DEF n
<1> QED
  BY <1>1, <1>3 DEF User

\* A wrong password is counted, or starts the count again.
LEMMA LoginFailsStep ==
    ASSUME AccountsInv, NEW r \in Requests, LoginFails(r)
    PROVE  AccountsInv'
<1> DEFINE u == record_failed_login_attempt(snap[r])
<1>1. pc[r] = "loaded" /\ Winning(r) /\ update(r, u) /\ Done(r)
  BY DEF LoginFails, update, Winning
<1>2. /\ snap[r] \in User /\ Honest(snap[r])
      /\ snap[r].lock = row.lock /\ snap[r].failed = row.failed
  BY <1>1, WinnerFacts
<1>3. u \in User
  BY <1>2, MethodTypes DEF LoginFails, AccountsInv, LockInv, CanAuthenticate, is_locked, User, Locks
<1>4. /\ u.failed = 1 + (IF snap[r].lock = "elapsed" THEN 0 ELSE snap[r].failed) /\ u.lock = (IF u.failed >= MAX_FAILED THEN "locked" ELSE "open")
      /\ u.secret = snap[r].secret /\ u.codes = snap[r].codes
      /\ u.reset = snap[r].reset /\ u.token = snap[r].token
      /\ u.email = snap[r].email /\ u.verified = snap[r].verified
  BY <1>2 DEF record_failed_login_attempt, User
<1>5. row' \in User /\ row'.failed \in Nat /\ row.failed \in Nat /\ guesses \in Nat
  <2>1. row' \in User /\ row \in User /\ guesses \in Nat
    BY <1>1, <1>3, WrittenRow DEF AccountsInv, TypeOK
  <2> QED
    BY <2>1, FieldTypes
<1> HIDE DEF u
<1>6. LockInv'
  <2>1. row.lock \in {"open", "elapsed"}
    BY <1>2 DEF LoginFails, CanAuthenticate, is_locked, User, Locks
  <2>2. guesses < MAX_FAILED /\ guesses' = guesses + 1 /\ u.failed = guesses + 1
    BY <1>2, <1>4, <1>5, <2>1, AccountsAssumption DEF AccountsInv, LockInv, LoginFails
  <2>3. /\ row'.failed = u.failed
        /\ row'.lock = IF u.failed >= MAX_FAILED THEN "locked" ELSE "open"
    BY <1>1, <1>3, <1>4, WrittenRow
  <2> QED
    BY <1>5, <2>2, <2>3, AccountsAssumption DEF LockInv
<1>7. Honest(row)'
  BY <1>1, <1>2, <1>3, <1>4, WrittenRow, FieldTypes, AccountsAssumption
  DEF Honest, Unspent, Unused, Proved, LoginFails
<1>8. BackupCodeSpentOnce' /\ ResetTokenUsedOnce'
  BY <1>2, AccountsAssumption
  DEF AccountsInv, TypeOK, BackupCodeSpentOnce, ResetTokenUsedOnce, Honest, Unused, User, LoginFails
<1>9. /\ guesses' \in Nat /\ sessions' \in 0..MaxSessions
      /\ spent' \in [0..MaxEnrolment -> [Codes -> Nat]]
      /\ resets' \in [0..MaxReset -> Nat] /\ proved' \subseteq 0..MaxEmail
  BY <1>2, FieldTypes, AccountsAssumption DEF AccountsInv, TypeOK, LoginFails
<1> QED
  BY <1>1, <1>3, <1>5, <1>6, <1>7, <1>8, <1>9, WriteStep DEF RowInv

\* A completed login clears the counter.
LEMMA LoginSucceedsStep ==
    ASSUME AccountsInv, NEW r \in Requests, LoginSucceeds(r)
    PROVE  AccountsInv'
<1> DEFINE u == record_successful_login(snap[r])
<1>1. pc[r] = "loaded" /\ Winning(r) /\ update(r, u) /\ Done(r)
  BY DEF LoginSucceeds, update, Winning
<1>2. /\ snap[r] \in User /\ Honest(snap[r])
      /\ snap[r].lock = row.lock /\ snap[r].failed = row.failed
  BY <1>1, WinnerFacts
<1>3. u \in User
  BY <1>2, MethodTypes DEF LoginSucceeds
<1>4. /\ u.failed = 0 /\ u.lock = "open"
      /\ u.secret = snap[r].secret /\ u.codes = snap[r].codes
      /\ u.reset = snap[r].reset /\ u.token = snap[r].token
      /\ u.email = snap[r].email /\ u.verified = snap[r].verified
  BY <1>2 DEF record_successful_login, unlock, User
<1>5. row' \in User /\ row'.failed \in Nat /\ row.failed \in Nat /\ guesses \in Nat
  <2>1. row' \in User /\ row \in User /\ guesses \in Nat
    BY <1>1, <1>3, WrittenRow DEF AccountsInv, TypeOK
  <2> QED
    BY <2>1, FieldTypes
<1> HIDE DEF u
<1>6. LockInv'
  BY <1>1, <1>2, <1>3, <1>4, <1>5, WrittenRow, AccountsAssumption
  DEF AccountsInv, LockInv, LoginSucceeds
<1>7. Honest(row)'
  BY <1>1, <1>2, <1>3, <1>4, WrittenRow, FieldTypes, AccountsAssumption
  DEF Honest, Unspent, Unused, Proved, LoginSucceeds
<1>8. BackupCodeSpentOnce' /\ ResetTokenUsedOnce'
  BY <1>2, AccountsAssumption
  DEF AccountsInv, TypeOK, BackupCodeSpentOnce, ResetTokenUsedOnce, Honest, Unused, User, LoginSucceeds
<1>9. /\ guesses' \in Nat /\ sessions' \in 0..MaxSessions
      /\ spent' \in [0..MaxEnrolment -> [Codes -> Nat]]
      /\ resets' \in [0..MaxReset -> Nat] /\ proved' \subseteq 0..MaxEmail
  BY <1>2, FieldTypes, AccountsAssumption DEF AccountsInv, TypeOK, LoginSucceeds
<1> QED
  BY <1>1, <1>3, <1>5, <1>6, <1>7, <1>8, <1>9, WriteStep DEF RowInv

\* So does the password step of a two-factor login.
LEMMA LoginChallengedStep ==
    ASSUME AccountsInv, NEW r \in Requests, LoginChallenged(r)
    PROVE  AccountsInv'
<1> DEFINE u == record_successful_login(snap[r])
<1>1. pc[r] = "loaded" /\ Winning(r) /\ update(r, u) /\ Done(r)
  BY DEF LoginChallenged, update, Winning
<1>2. /\ snap[r] \in User /\ Honest(snap[r])
      /\ snap[r].lock = row.lock /\ snap[r].failed = row.failed
  BY <1>1, WinnerFacts
<1>3. u \in User
  BY <1>2, MethodTypes DEF LoginChallenged
<1>4. /\ u.failed = 0 /\ u.lock = "open"
      /\ u.secret = snap[r].secret /\ u.codes = snap[r].codes
      /\ u.reset = snap[r].reset /\ u.token = snap[r].token
      /\ u.email = snap[r].email /\ u.verified = snap[r].verified
  BY <1>2 DEF record_successful_login, unlock, User
<1>5. row' \in User /\ row'.failed \in Nat /\ row.failed \in Nat /\ guesses \in Nat
  <2>1. row' \in User /\ row \in User /\ guesses \in Nat
    BY <1>1, <1>3, WrittenRow DEF AccountsInv, TypeOK
  <2> QED
    BY <2>1, FieldTypes
<1> HIDE DEF u
<1>6. LockInv'
  BY <1>1, <1>2, <1>3, <1>4, <1>5, WrittenRow, AccountsAssumption
  DEF AccountsInv, LockInv, LoginChallenged
<1>7. Honest(row)'
  BY <1>1, <1>2, <1>3, <1>4, WrittenRow, FieldTypes, AccountsAssumption
  DEF Honest, Unspent, Unused, Proved, LoginChallenged
<1>8. BackupCodeSpentOnce' /\ ResetTokenUsedOnce'
  BY <1>2, AccountsAssumption
  DEF AccountsInv, TypeOK, BackupCodeSpentOnce, ResetTokenUsedOnce, Honest, Unused, User, LoginChallenged
<1>9. /\ guesses' \in Nat /\ sessions' \in 0..MaxSessions
      /\ spent' \in [0..MaxEnrolment -> [Codes -> Nat]]
      /\ resets' \in [0..MaxReset -> Nat] /\ proved' \subseteq 0..MaxEmail
  BY <1>2, FieldTypes, AccountsAssumption DEF AccountsInv, TypeOK, LoginChallenged
<1> QED
  BY <1>1, <1>3, <1>5, <1>6, <1>7, <1>8, <1>9, WriteStep DEF RowInv

\* A password change unlocks and drops the reset token.
LEMMA ChangePasswordStep ==
    ASSUME AccountsInv, NEW r \in Requests, ChangePassword(r)
    PROVE  AccountsInv'
<1> DEFINE u == change_password(snap[r])
<1>1. pc[r] = "loaded" /\ Winning(r) /\ update(r, u) /\ Done(r)
  BY DEF ChangePassword, update, Winning
<1>2. /\ snap[r] \in User /\ Honest(snap[r])
      /\ snap[r].lock = row.lock /\ snap[r].failed = row.failed
  BY <1>1, WinnerFacts
<1>3. u \in User
  BY <1>2, MethodTypes DEF ChangePassword
<1>4. /\ u.failed = 0 /\ u.lock = "open"
      /\ u.secret = snap[r].secret /\ u.codes = snap[r].codes
      /\ u.reset = snap[r].reset /\ u.token = "none"
      /\ u.email = snap[r].email /\ u.verified = snap[r].verified
  BY <1>2 DEF change_password, unlock, User
<1>5. row' \in User /\ row'.failed \in Nat /\ row.failed \in Nat /\ guesses \in Nat
  <2>1. row' \in User /\ row \in User /\ guesses \in Nat
    BY <1>1, <1>3, WrittenRow DEF AccountsInv, TypeOK
  <2> QED
    BY <2>1, FieldTypes
<1> HIDE DEF u
<1>6. LockInv'
  BY <1>1, <1>2, <1>3, <1>4, <1>5, WrittenRow, AccountsAssumption
  DEF AccountsInv, LockInv, ChangePassword
<1>7. Honest(row)'
  BY <1>1, <1>2, <1>3, <1>4, WrittenRow, FieldTypes, AccountsAssumption
  DEF Honest, Unspent, Unused, Proved, ChangePassword
<1>8. BackupCodeSpentOnce' /\ ResetTokenUsedOnce'
  BY <1>2, AccountsAssumption
  DEF AccountsInv, TypeOK, BackupCodeSpentOnce, ResetTokenUsedOnce, Honest, Unused, User, ChangePassword
<1>9. /\ guesses' \in Nat /\ sessions' \in 0..MaxSessions
      /\ spent' \in [0..MaxEnrolment -> [Codes -> Nat]]
      /\ resets' \in [0..MaxReset -> Nat] /\ proved' \subseteq 0..MaxEmail
  BY <1>2, FieldTypes, AccountsAssumption DEF AccountsInv, TypeOK, ChangePassword
<1> QED
  BY <1>1, <1>3, <1>5, <1>6, <1>7, <1>8, <1>9, WriteStep DEF RowInv

\* A reset uses a token that was unused until now.
LEMMA ResetPasswordStep ==
    ASSUME AccountsInv, NEW r \in Requests, ResetPassword(r)
    PROVE  AccountsInv'
<1> DEFINE u == reset_password(snap[r])
<1>1. pc[r] = "loaded" /\ Winning(r) /\ update(r, u) /\ Done(r)
  BY DEF ResetPassword, update, Winning
<1>2. /\ snap[r] \in User /\ Honest(snap[r])
      /\ snap[r].lock = row.lock /\ snap[r].failed = row.failed
  BY <1>1, WinnerFacts
<1>3. u \in User
  BY <1>2, MethodTypes DEF ResetPassword
<1>4. /\ u.failed = 0 /\ u.lock = "open"
      /\ u.secret = snap[r].secret /\ u.codes = snap[r].codes
      /\ u.reset = snap[r].reset /\ u.token = "used"
      /\ u.email = snap[r].email /\ u.verified = snap[r].verified
  BY <1>2 DEF reset_password, unlock, User
<1>5. row' \in User /\ row'.failed \in Nat /\ row.failed \in Nat /\ guesses \in Nat
  <2>1. row' \in User /\ row \in User /\ guesses \in Nat
    BY <1>1, <1>3, WrittenRow DEF AccountsInv, TypeOK
  <2> QED
    BY <2>1, FieldTypes
<1> HIDE DEF u
<1>6. LockInv'
  BY <1>1, <1>2, <1>3, <1>4, <1>5, WrittenRow, AccountsAssumption
  DEF AccountsInv, LockInv, ResetPassword
<1>7. Honest(row)'
  <2>1. Unspent(row)' /\ Proved(row)'
    BY <1>1, <1>2, <1>3, <1>4, WrittenRow DEF ResetPassword, Honest, Unspent, Proved
  <2>2. row'.token = "used" /\ row'.reset = snap[r].reset
    BY <1>1, <1>3, <1>4, WrittenRow
  <2>3. \A t \in 0..MaxReset : t > snap[r].reset => resets'[t] = 0
    BY <1>2, FieldTypes, AccountsAssumption
    DEF AccountsInv, TypeOK, ResetPassword, Honest, Unused
  <2> QED
    BY <2>1, <2>2, <2>3 DEF Honest, Unused
<1>8. BackupCodeSpentOnce' /\ ResetTokenUsedOnce'
  BY <1>2, AccountsAssumption
  DEF AccountsInv, TypeOK, BackupCodeSpentOnce, ResetTokenUsedOnce, Honest, Unused, User, ResetPassword
<1>9. /\ guesses' \in Nat /\ sessions' \in 0..MaxSessions
      /\ spent' \in [0..MaxEnrolment -> [Codes -> Nat]]
      /\ resets' \in [0..MaxReset -> Nat] /\ proved' \subseteq 0..MaxEmail
  BY <1>2, FieldTypes, AccountsAssumption DEF AccountsInv, TypeOK, ResetPassword
<1> QED
  BY <1>1, <1>3, <1>5, <1>6, <1>7, <1>8, <1>9, WriteStep DEF RowInv

\* A verification is for the address the copy holds.
LEMMA VerifyEmailStep ==
    ASSUME AccountsInv, NEW r \in Requests, VerifyEmail(r)
    PROVE  AccountsInv'
<1> DEFINE u == mark_email_verified(snap[r])
<1>1. pc[r] = "loaded" /\ Winning(r) /\ update(r, u) /\ Done(r)
  BY DEF VerifyEmail, update, Winning
<1>2. /\ snap[r] \in User /\ Honest(snap[r])
      /\ snap[r].lock = row.lock /\ snap[r].failed = row.failed
  BY <1>1, WinnerFacts
<1>3. u \in User
  BY <1>2, MethodTypes DEF VerifyEmail
<1>4. /\ u.failed = snap[r].failed /\ u.lock = snap[r].lock
      /\ u.secret = snap[r].secret /\ u.codes = snap[r].codes
      /\ u.reset = snap[r].reset /\ u.token = snap[r].token
      /\ u.email = snap[r].email /\ u.verified = "yes"
  BY <1>2 DEF mark_email_verified, User
<1>5. row' \in User /\ row'.failed \in Nat /\ row.failed \in Nat /\ guesses \in Nat
  <2>1. row' \in User /\ row \in User /\ guesses \in Nat
    BY <1>1, <1>3, WrittenRow DEF AccountsInv, TypeOK
  <2> QED
    BY <2>1, FieldTypes
<1> HIDE DEF u
<1>6. LockInv'
  BY <1>1, <1>2, <1>3, <1>4, <1>5, WrittenRow, AccountsAssumption
  DEF AccountsInv, LockInv, VerifyEmail
<1>7. Honest(row)'
  <2>1. Unspent(row)' /\ Unused(row)'
    BY <1>1, <1>2, <1>3, <1>4, WrittenRow DEF VerifyEmail, Honest, Unspent, Unused
  <2>2. row'.email = snap[r].email /\ snap[r].email \in proved'
    BY <1>1, <1>3, <1>4, WrittenRow DEF VerifyEmail
  <2> QED
    BY <2>1, <2>2 DEF Honest, Proved
<1>8. BackupCodeSpentOnce' /\ ResetTokenUsedOnce'
  BY <1>2, AccountsAssumption
  DEF AccountsInv, TypeOK, BackupCodeSpentOnce, ResetTokenUsedOnce, Honest, Unused, User, VerifyEmail
<1>9. /\ guesses' \in Nat /\ sessions' \in 0..MaxSessions
      /\ spent' \in [0..MaxEnrolment -> [Codes -> Nat]]
      /\ resets' \in [0..MaxReset -> Nat] /\ proved' \subseteq 0..MaxEmail
  BY <1>2, FieldTypes, AccountsAssumption DEF AccountsInv, TypeOK, VerifyEmail
<1> QED
  BY <1>1, <1>3, <1>5, <1>6, <1>7, <1>8, <1>9, WriteStep DEF RowInv

\* A new enrolment has codes nobody has spent.
LEMMA Enable2FAStep ==
    ASSUME AccountsInv, NEW r \in Requests, Enable2FA(r)
    PROVE  AccountsInv'
<1> DEFINE u == begin_two_factor_enrolment(snap[r])
<1>1. pc[r] = "loaded" /\ Winning(r) /\ update(r, u) /\ Done(r)
  BY DEF Enable2FA, Manage, update, Winning
<1>2. /\ snap[r] \in User /\ Honest(snap[r])
      /\ snap[r].lock = row.lock /\ snap[r].failed = row.failed
  BY <1>1, WinnerFacts
<1>3. u \in User
  BY <1>2, MethodTypes DEF Enable2FA, Manage
<1>4. /\ u.failed = snap[r].failed /\ u.lock = snap[r].lock
      /\ u.secret = snap[r].secret + 1 /\ u.codes = Codes
      /\ u.reset = snap[r].reset /\ u.token = snap[r].token
      /\ u.email = snap[r].email /\ u.verified = snap[r].verified
  BY <1>2 DEF begin_two_factor_enrolment, User
<1>5. row' \in User /\ row'.failed \in Nat /\ row.failed \in Nat /\ guesses \in Nat
  <2>1. row' \in User /\ row \in User /\ guesses \in Nat
    BY <1>1, <1>3, WrittenRow DEF AccountsInv, TypeOK
  <2> QED
    BY <2>1, FieldTypes
<1> HIDE DEF u
<1>6. LockInv'
  BY <1>1, <1>2, <1>3, <1>4, <1>5, WrittenRow, AccountsAssumption
  DEF AccountsInv, LockInv, Enable2FA, Manage
<1>7. Honest(row)'
  BY <1>1, <1>2, <1>3, <1>4, WrittenRow, FieldTypes, AccountsAssumption
  DEF Honest, Unspent, Unused, Proved, Enable2FA, Manage
<1>8. BackupCodeSpentOnce' /\ ResetTokenUsedOnce'
  BY <1>2, AccountsAssumption
  DEF AccountsInv, TypeOK, BackupCodeSpentOnce, ResetTokenUsedOnce, Honest, Unused, User, Enable2FA, Manage
<1>9. /\ guesses' \in Nat /\ sessions' \in 0..MaxSessions
      /\ spent' \in [0..MaxEnrolment -> [Codes -> Nat]]
      /\ resets' \in [0..MaxReset -> Nat] /\ proved' \subseteq 0..MaxEmail
  BY <1>2, FieldTypes, AccountsAssumption DEF AccountsInv, TypeOK, Enable2FA, Manage
<1> QED
  BY <1>1, <1>3, <1>5, <1>6, <1>7, <1>8, <1>9, WriteStep DEF RowInv

\* Confirming an enrolment changes no credential.
LEMMA Confirm2FAStep ==
    ASSUME AccountsInv, NEW r \in Requests, Confirm2FA(r)
    PROVE  AccountsInv'
<1> DEFINE u == confirm_two_factor(snap[r])
<1>1. pc[r] = "loaded" /\ Winning(r) /\ update(r, u) /\ Done(r)
  BY DEF Confirm2FA, Manage, update, Winning
<1>2. /\ snap[r] \in User /\ Honest(snap[r])
      /\ snap[r].lock = row.lock /\ snap[r].failed = row.failed
  BY <1>1, WinnerFacts
<1>3. u \in User
  BY <1>2, MethodTypes DEF Confirm2FA, Manage
<1>4. /\ u.failed = snap[r].failed /\ u.lock = snap[r].lock
      /\ u.secret = snap[r].secret /\ u.codes = snap[r].codes
      /\ u.reset = snap[r].reset /\ u.token = snap[r].token
      /\ u.email = snap[r].email /\ u.verified = snap[r].verified
  BY <1>2 DEF confirm_two_factor, User
<1>5. row' \in User /\ row'.failed \in Nat /\ row.failed \in Nat /\ guesses \in Nat
  <2>1. row' \in User /\ row \in User /\ guesses \in Nat
    BY <1>1, <1>3, WrittenRow DEF AccountsInv, TypeOK
  <2> QED
    BY <2>1, FieldTypes
<1> HIDE DEF u
<1>6. LockInv'
  BY <1>1, <1>2, <1>3, <1>4, <1>5, WrittenRow, AccountsAssumption
  DEF AccountsInv, LockInv, Confirm2FA, Manage
<1>7. Honest(row)'
  BY <1>1, <1>2, <1>3, <1>4, WrittenRow, FieldTypes, AccountsAssumption
  DEF Honest, Unspent, Unused, Proved, Confirm2FA, Manage
<1>8. BackupCodeSpentOnce' /\ ResetTokenUsedOnce'
  BY <1>2, AccountsAssumption
  DEF AccountsInv, TypeOK, BackupCodeSpentOnce, ResetTokenUsedOnce, Honest, Unused, User, Confirm2FA, Manage
<1>9. /\ guesses' \in Nat /\ sessions' \in 0..MaxSessions
      /\ spent' \in [0..MaxEnrolment -> [Codes -> Nat]]
      /\ resets' \in [0..MaxReset -> Nat] /\ proved' \subseteq 0..MaxEmail
  BY <1>2, FieldTypes, AccountsAssumption DEF AccountsInv, TypeOK, Confirm2FA, Manage
<1> QED
  BY <1>1, <1>3, <1>5, <1>6, <1>7, <1>8, <1>9, WriteStep DEF RowInv

\* Disabling the factor drops its codes.
LEMMA Disable2FAStep ==
    ASSUME AccountsInv, NEW r \in Requests, Disable2FA(r)
    PROVE  AccountsInv'
<1> DEFINE u == disable_two_factor(snap[r])
<1>1. pc[r] = "loaded" /\ Winning(r) /\ update(r, u) /\ Done(r)
  BY DEF Disable2FA, Manage, update, Winning
<1>2. /\ snap[r] \in User /\ Honest(snap[r])
      /\ snap[r].lock = row.lock /\ snap[r].failed = row.failed
  BY <1>1, WinnerFacts
<1>3. u \in User
  BY <1>2, MethodTypes DEF Disable2FA, Manage
<1>4. /\ u.failed = snap[r].failed /\ u.lock = snap[r].lock
      /\ u.secret = snap[r].secret /\ u.codes = {}
      /\ u.reset = snap[r].reset /\ u.token = snap[r].token
      /\ u.email = snap[r].email /\ u.verified = snap[r].verified
  BY <1>2 DEF disable_two_factor, User
<1>5. row' \in User /\ row'.failed \in Nat /\ row.failed \in Nat /\ guesses \in Nat
  <2>1. row' \in User /\ row \in User /\ guesses \in Nat
    BY <1>1, <1>3, WrittenRow DEF AccountsInv, TypeOK
  <2> QED
    BY <2>1, FieldTypes
<1> HIDE DEF u
<1>6. LockInv'
  BY <1>1, <1>2, <1>3, <1>4, <1>5, WrittenRow, AccountsAssumption
  DEF AccountsInv, LockInv, Disable2FA, Manage
<1>7. Honest(row)'
  BY <1>1, <1>2, <1>3, <1>4, WrittenRow, FieldTypes, AccountsAssumption
  DEF Honest, Unspent, Unused, Proved, Disable2FA, Manage
<1>8. BackupCodeSpentOnce' /\ ResetTokenUsedOnce'
  BY <1>2, AccountsAssumption
  DEF AccountsInv, TypeOK, BackupCodeSpentOnce, ResetTokenUsedOnce, Honest, Unused, User, Disable2FA, Manage
<1>9. /\ guesses' \in Nat /\ sessions' \in 0..MaxSessions
      /\ spent' \in [0..MaxEnrolment -> [Codes -> Nat]]
      /\ resets' \in [0..MaxReset -> Nat] /\ proved' \subseteq 0..MaxEmail
  BY <1>2, FieldTypes, AccountsAssumption DEF AccountsInv, TypeOK, Disable2FA, Manage
<1> QED
  BY <1>1, <1>3, <1>5, <1>6, <1>7, <1>8, <1>9, WriteStep DEF RowInv

\* A row written back unchanged stays honest.
LEMMA UpdateUsernameStep ==
    ASSUME AccountsInv, NEW r \in Requests, UpdateUsername(r)
    PROVE  AccountsInv'
<1> DEFINE u == snap[r]
<1>1. pc[r] = "loaded" /\ Winning(r) /\ update(r, u) /\ Done(r)
  BY DEF UpdateUsername, Manage, update, Winning
<1>2. /\ snap[r] \in User /\ Honest(snap[r])
      /\ snap[r].lock = row.lock /\ snap[r].failed = row.failed
  BY <1>1, WinnerFacts
<1>3. u \in User
  BY <1>2, MethodTypes DEF UpdateUsername, Manage
<1>4. /\ u.failed = snap[r].failed /\ u.lock = snap[r].lock
      /\ u.secret = snap[r].secret /\ u.codes = snap[r].codes
      /\ u.reset = snap[r].reset /\ u.token = snap[r].token
      /\ u.email = snap[r].email /\ u.verified = snap[r].verified
  BY <1>2 DEF User
<1>5. row' \in User /\ row'.failed \in Nat /\ row.failed \in Nat /\ guesses \in Nat
  <2>1. row' \in User /\ row \in User /\ guesses \in Nat
    BY <1>1, <1>3, WrittenRow DEF AccountsInv, TypeOK
  <2> QED
    BY <2>1, FieldTypes
<1> HIDE DEF u
<1>6. LockInv'
  BY <1>1, <1>2, <1>3, <1>4, <1>5, WrittenRow, AccountsAssumption
  DEF AccountsInv, LockInv, UpdateUsername, Manage
<1>7. Honest(row)'
  BY <1>1, <1>2, <1>3, <1>4, WrittenRow, FieldTypes, AccountsAssumption
  DEF Honest, Unspent, Unused, Proved, UpdateUsername, Manage
<1>8. BackupCodeSpentOnce' /\ ResetTokenUsedOnce'
  BY <1>2, AccountsAssumption
  DEF AccountsInv, TypeOK, BackupCodeSpentOnce, ResetTokenUsedOnce, Honest, Unused, User, UpdateUsername, Manage
<1>9. /\ guesses' \in Nat /\ sessions' \in 0..MaxSessions
      /\ spent' \in [0..MaxEnrolment -> [Codes -> Nat]]
      /\ resets' \in [0..MaxReset -> Nat] /\ proved' \subseteq 0..MaxEmail
  BY <1>2, FieldTypes, AccountsAssumption DEF AccountsInv, TypeOK, UpdateUsername, Manage
<1> QED
  BY <1>1, <1>3, <1>5, <1>6, <1>7, <1>8, <1>9, WriteStep DEF RowInv

\* A new address is unverified.
LEMMA UpdateEmailStep ==
    ASSUME AccountsInv, NEW r \in Requests, UpdateEmail(r)
    PROVE  AccountsInv'
<1> DEFINE u == update_email(snap[r])
<1>1. pc[r] = "loaded" /\ Winning(r) /\ update(r, u) /\ Done(r)
  BY DEF UpdateEmail, Manage, update, Winning
<1>2. /\ snap[r] \in User /\ Honest(snap[r])
      /\ snap[r].lock = row.lock /\ snap[r].failed = row.failed
  BY <1>1, WinnerFacts
<1>3. u \in User
  BY <1>2, MethodTypes DEF UpdateEmail, Manage
<1>4. /\ u.failed = snap[r].failed /\ u.lock = snap[r].lock
      /\ u.secret = snap[r].secret /\ u.codes = snap[r].codes
      /\ u.reset = snap[r].reset /\ u.token = snap[r].token
      /\ u.email = snap[r].email + 1 /\ u.verified = "no"
  BY <1>2 DEF update_email, User
<1>5. row' \in User /\ row'.failed \in Nat /\ row.failed \in Nat /\ guesses \in Nat
  <2>1. row' \in User /\ row \in User /\ guesses \in Nat
    BY <1>1, <1>3, WrittenRow DEF AccountsInv, TypeOK
  <2> QED
    BY <2>1, FieldTypes
<1> HIDE DEF u
<1>6. LockInv'
  BY <1>1, <1>2, <1>3, <1>4, <1>5, WrittenRow, AccountsAssumption
  DEF AccountsInv, LockInv, UpdateEmail, Manage
<1>7. Honest(row)'
  BY <1>1, <1>2, <1>3, <1>4, WrittenRow, FieldTypes, AccountsAssumption
  DEF Honest, Unspent, Unused, Proved, UpdateEmail, Manage
<1>8. BackupCodeSpentOnce' /\ ResetTokenUsedOnce'
  BY <1>2, AccountsAssumption
  DEF AccountsInv, TypeOK, BackupCodeSpentOnce, ResetTokenUsedOnce, Honest, Unused, User, UpdateEmail, Manage
<1>9. /\ guesses' \in Nat /\ sessions' \in 0..MaxSessions
      /\ spent' \in [0..MaxEnrolment -> [Codes -> Nat]]
      /\ resets' \in [0..MaxReset -> Nat] /\ proved' \subseteq 0..MaxEmail
  BY <1>2, FieldTypes, AccountsAssumption DEF AccountsInv, TypeOK, UpdateEmail, Manage
<1> QED
  BY <1>1, <1>3, <1>5, <1>6, <1>7, <1>8, <1>9, WriteStep DEF RowInv

\* Deleting changes no credential.
LEMMA DeleteMeStep ==
    ASSUME AccountsInv, NEW r \in Requests, DeleteMe(r)
    PROVE  AccountsInv'
<1> DEFINE u == delete(snap[r])
<1>1. pc[r] = "loaded" /\ Winning(r) /\ update(r, u) /\ Done(r)
  BY DEF DeleteMe, Manage, update, Winning
<1>2. /\ snap[r] \in User /\ Honest(snap[r])
      /\ snap[r].lock = row.lock /\ snap[r].failed = row.failed
  BY <1>1, WinnerFacts
<1>3. u \in User
  BY <1>2, MethodTypes DEF DeleteMe, Manage
<1>4. /\ u.failed = snap[r].failed /\ u.lock = snap[r].lock
      /\ u.secret = snap[r].secret /\ u.codes = snap[r].codes
      /\ u.reset = snap[r].reset /\ u.token = snap[r].token
      /\ u.email = snap[r].email /\ u.verified = snap[r].verified
  BY <1>2 DEF delete, User
<1>5. row' \in User /\ row'.failed \in Nat /\ row.failed \in Nat /\ guesses \in Nat
  <2>1. row' \in User /\ row \in User /\ guesses \in Nat
    BY <1>1, <1>3, WrittenRow DEF AccountsInv, TypeOK
  <2> QED
    BY <2>1, FieldTypes
<1> HIDE DEF u
<1>6. LockInv'
  BY <1>1, <1>2, <1>3, <1>4, <1>5, WrittenRow, AccountsAssumption
  DEF AccountsInv, LockInv, DeleteMe, Manage
<1>7. Honest(row)'
  BY <1>1, <1>2, <1>3, <1>4, WrittenRow, FieldTypes, AccountsAssumption
  DEF Honest, Unspent, Unused, Proved, DeleteMe, Manage
<1>8. BackupCodeSpentOnce' /\ ResetTokenUsedOnce'
  BY <1>2, AccountsAssumption
  DEF AccountsInv, TypeOK, BackupCodeSpentOnce, ResetTokenUsedOnce, Honest, Unused, User, DeleteMe, Manage
<1>9. /\ guesses' \in Nat /\ sessions' \in 0..MaxSessions
      /\ spent' \in [0..MaxEnrolment -> [Codes -> Nat]]
      /\ resets' \in [0..MaxReset -> Nat] /\ proved' \subseteq 0..MaxEmail
  BY <1>2, FieldTypes, AccountsAssumption DEF AccountsInv, TypeOK, DeleteMe, Manage
<1> QED
  BY <1>1, <1>3, <1>5, <1>6, <1>7, <1>8, <1>9, WriteStep DEF RowInv

\* A new reset token is unused.
LEMMA RequestPasswordResetStep ==
    ASSUME AccountsInv, NEW r \in Requests, RequestPasswordReset(r)
    PROVE  AccountsInv'
<1> DEFINE u == request_password_reset(snap[r])
<1>1. pc[r] = "loaded" /\ Winning(r) /\ update(r, u) /\ Done(r)
  BY DEF RequestPasswordReset, Manage, update, Winning
<1>2. /\ snap[r] \in User /\ Honest(snap[r])
      /\ snap[r].lock = row.lock /\ snap[r].failed = row.failed
  BY <1>1, WinnerFacts
<1>3. u \in User
  BY <1>2, MethodTypes DEF RequestPasswordReset, Manage
<1>4. /\ u.failed = snap[r].failed /\ u.lock = snap[r].lock
      /\ u.secret = snap[r].secret /\ u.codes = snap[r].codes
      /\ u.reset = snap[r].reset + 1 /\ u.token = "valid"
      /\ u.email = snap[r].email /\ u.verified = snap[r].verified
  BY <1>2 DEF request_password_reset, User
<1>5. row' \in User /\ row'.failed \in Nat /\ row.failed \in Nat /\ guesses \in Nat
  <2>1. row' \in User /\ row \in User /\ guesses \in Nat
    BY <1>1, <1>3, WrittenRow DEF AccountsInv, TypeOK
  <2> QED
    BY <2>1, FieldTypes
<1> HIDE DEF u
<1>6. LockInv'
  BY <1>1, <1>2, <1>3, <1>4, <1>5, WrittenRow, AccountsAssumption
  DEF AccountsInv, LockInv, RequestPasswordReset, Manage
<1>7. Honest(row)'
  BY <1>1, <1>2, <1>3, <1>4, WrittenRow, FieldTypes, AccountsAssumption
  DEF Honest, Unspent, Unused, Proved, RequestPasswordReset, Manage
<1>8. BackupCodeSpentOnce' /\ ResetTokenUsedOnce'
  BY <1>2, AccountsAssumption
  DEF AccountsInv, TypeOK, BackupCodeSpentOnce, ResetTokenUsedOnce, Honest, Unused, User, RequestPasswordReset, Manage
<1>9. /\ guesses' \in Nat /\ sessions' \in 0..MaxSessions
      /\ spent' \in [0..MaxEnrolment -> [Codes -> Nat]]
      /\ resets' \in [0..MaxReset -> Nat] /\ proved' \subseteq 0..MaxEmail
  BY <1>2, FieldTypes, AccountsAssumption DEF AccountsInv, TypeOK, RequestPasswordReset, Manage
<1> QED
  BY <1>1, <1>3, <1>5, <1>6, <1>7, <1>8, <1>9, WriteStep DEF RowInv

\* An accepted backup code was unspent, and is the only one that is spent now.
LEMMA SpendStep ==
    ASSUME AccountsInv, NEW r \in Requests, NEW c \in Codes, Spend(r, c),
           sessions' \in 0..MaxSessions
    PROVE  AccountsInv'
<1> DEFINE u == consume_backup_code(snap[r], c)
<1>1. pc[r] = "loaded" /\ Winning(r) /\ update(r, u) /\ Done(r)
  BY DEF Spend, update, Winning
<1>2. /\ snap[r] \in User /\ Honest(snap[r])
      /\ snap[r].lock = row.lock /\ snap[r].failed = row.failed
  BY <1>1, WinnerFacts
<1>3. u \in User
  BY <1>2, MethodTypes
<1>4. /\ u.failed = snap[r].failed /\ u.lock = snap[r].lock
      /\ u.secret = snap[r].secret /\ u.codes = snap[r].codes \ {c}
      /\ u.reset = snap[r].reset /\ u.token = snap[r].token
      /\ u.email = snap[r].email /\ u.verified = snap[r].verified
  BY <1>2 DEF consume_backup_code, User
<1>5. snap[r].secret \in 0..MaxEnrolment /\ spent[snap[r].secret][c] = 0
  BY <1>2, FieldTypes DEF Spend, Honest, Unspent
<1> HIDE DEF u
<1>6. /\ row' \in User /\ row'.secret = snap[r].secret
      /\ row'.codes = snap[r].codes \ {c} /\ row'.codes \subseteq Codes
  BY <1>1, <1>2, <1>3, <1>4, WrittenRow, FieldTypes
<1>7. LockInv'
  BY <1>1, <1>2, <1>3, <1>4, WrittenRow DEF AccountsInv, LockInv, Spend
<1>8. Unused(row)' /\ Proved(row)'
  BY <1>1, <1>2, <1>3, <1>4, WrittenRow DEF Spend, Honest, Unused, Proved
<1>9. /\ spent' \in [0..MaxEnrolment -> [Codes -> Nat]]
      /\ \A s \in 0..MaxEnrolment : \A d \in Codes :
            spent'[s][d] = IF s = snap[r].secret /\ d = c THEN 1 ELSE spent[s][d]
  BY <1>5 DEF AccountsInv, TypeOK, Spend
<1>10. Unspent(row)'
  <2>1. \A d \in row'.codes : spent'[row'.secret][d] = 0
    BY <1>2, <1>5, <1>6, <1>9 DEF Honest, Unspent
  <2>2. \A s \in 0..MaxEnrolment : s > row'.secret => \A d \in Codes : spent'[s][d] = 0
    <3> SUFFICES ASSUME NEW s \in 0..MaxEnrolment, s > snap[r].secret, NEW d \in Codes
                 PROVE  spent'[s][d] = 0
      BY <1>6
    <3>1. s # snap[r].secret
      BY <1>5, AccountsAssumption
    <3> QED
      BY <1>2, <1>9, <3>1 DEF Honest, Unspent
  <2> QED
    BY <2>1, <2>2 DEF Unspent
<1>11. BackupCodeSpentOnce' /\ ResetTokenUsedOnce'
  BY <1>9 DEF AccountsInv, BackupCodeSpentOnce, ResetTokenUsedOnce, Spend
<1>12. guesses' \in Nat /\ resets' \in [0..MaxReset -> Nat] /\ proved' \subseteq 0..MaxEmail
  BY DEF AccountsInv, TypeOK, Spend
<1> QED
  BY <1>1, <1>3, <1>6, <1>7, <1>8, <1>9, <1>10, <1>11, <1>12, WriteStep DEF RowInv, Honest

\* Steps that leave the row and what was spent, used and proved alone, and
\* give a request at most a copy of the row.
LEMMA ReadStep ==
    ASSUME AccountsInv, NEW r \in Requests, row' = row, sessions' \in 0..MaxSessions,
           UNCHANGED <<guesses, spent, resets, proved>>,
           \/ pc' = [pc EXCEPT ![r] = "idle"] /\ snap' = [snap EXCEPT ![r] = create]
           \/ pc' = [pc EXCEPT ![r] = "loaded"] /\ snap' = [snap EXCEPT ![r] = row]
    PROVE  AccountsInv'
<1>1. pc \in [Requests -> {"idle", "loaded"}] /\ snap \in [Requests -> User] /\ row \in User
  BY DEF AccountsInv, TypeOK
<1>2. TypeOK'
  BY <1>1, CreateType DEF AccountsInv, TypeOK
<1>3. \A q \in Requests : pc'[q] = "loaded" =>
         (pc[q] = "loaded" /\ snap'[q] = snap[q]) \/ snap'[q] = row
  BY <1>1
<1>4. row.version <= row.version
  BY <1>1, AccountsAssumption DEF User
<1>5. SnapInv'
  BY <1>3, <1>4 DEF AccountsInv, SnapInv, Winning
<1>6. LockInv' /\ BackupCodeSpentOnce' /\ ResetTokenUsedOnce'
  BY DEF AccountsInv, LockInv, BackupCodeSpentOnce, ResetTokenUsedOnce
<1>7. Honest(row)'
  BY DEF AccountsInv, CredentialInv, Honest, Unspent, Unused, Proved
<1>8. ASSUME NEW q \in Requests, Winning(q)' PROVE Honest(snap[q])'
  <2>1. Winning(q) \/ snap'[q] = row
    BY <1>3, <1>8 DEF Winning
  <2>2. Honest(snap'[q])
    BY <1>3, <1>8, <2>1 DEF AccountsInv, CredentialInv, Winning
  <2> QED
    BY <2>2 DEF Honest, Unspent, Unused, Proved
<1> QED
  BY <1>2, <1>5, <1>6, <1>7, <1>8 DEF AccountsInv, CredentialInv

\* The clock leaves what a user may spend alone, and makes no token valid.
LEMMA ClockFacts ==
    ASSUME NEW u \in User
    PROVE  /\ Elapse(u).version = u.version /\ Expire(u).version = u.version
           /\ Lapse(u).version = u.version
           /\ is_deleted(u) => is_deleted(Elapse(u)) /\ is_deleted(Lapse(u))
           /\ anonymised(Elapse(u)) = Elapse(anonymised(u))
           /\ anonymised(Lapse(u)) = Lapse(anonymised(u))
           /\ anonymised(u).token # "valid"
           /\ Honest(u) => Honest(Elapse(u)) /\ Honest(Expire(u)) /\ Honest(Lapse(u))
<1>1. /\ Elapse(u).version = u.version /\ Expire(u).version = u.version
      /\ Lapse(u).version = u.version /\ anonymised(u).token # "valid"
      /\ is_deleted(u) => is_deleted(Elapse(u)) /\ is_deleted(Lapse(u))
  BY DEF Elapse, Expire, Lapse, anonymised, is_deleted, User
<1>2. anonymised(Elapse(u)) = Elapse(anonymised(u))
  BY DEF Elapse, anonymised, User
<1>3. anonymised(Lapse(u)) = Lapse(anonymised(u))
  BY DEF Lapse, anonymised, User
<1>4. Honest(u) => Honest(Elapse(u))
  BY DEF Elapse, User, Honest, Unspent, Unused, Proved
<1>5. Honest(u) => Honest(Expire(u))
  BY DEF Expire, User, Honest, Unspent, Unused, Proved
<1>6. Honest(u) => Honest(Lapse(u))
  BY DEF Lapse, User, Honest, Unspent, Unused, Proved
<1> QED
  BY <1>1, <1>2, <1>3, <1>4, <1>5, <1>6

\* A lockout that elapses elapses in the row and in every copy.
LEMMA ElapseStep ==
    ASSUME AccountsInv, _lock_window_elapsed
    PROVE  AccountsInv'
<1>1. row \in User /\ snap \in [Requests -> User]
  BY DEF AccountsInv, TypeOK
<1>2. TypeOK'
  BY StripType DEF AccountsInv, TypeOK, _lock_window_elapsed
<1>3. /\ pc' = pc /\ row' = Elapse(row) /\ row'.version = row.version
      /\ \A r \in Requests :
            snap[r] \in User /\ snap'[r] = Elapse(snap[r]) /\ snap'[r].version = snap[r].version
  BY <1>1, ClockFacts DEF _lock_window_elapsed
<1>4. \A r \in Requests : Winning(r)' => Winning(r)
  BY <1>3 DEF Winning
<1>5. SnapInv'
  BY <1>3, <1>4, ClockFacts DEF AccountsInv, SnapInv
<1>6. LockInv'
  BY <1>1 DEF AccountsInv, LockInv, _lock_window_elapsed, Elapse, is_locked, User
<1>7. Honest(Elapse(row)) /\ \A r \in Requests : Winning(r)' => Honest(Elapse(snap[r]))
  BY <1>1, <1>3, <1>4, ClockFacts DEF AccountsInv, CredentialInv
<1>8. CredentialInv'
  BY <1>3, <1>7
  DEF CredentialInv, Honest, Unspent, Unused, Proved, _lock_window_elapsed
<1> QED
  BY <1>2, <1>5, <1>6, <1>8
  DEF AccountsInv, BackupCodeSpentOnce, ResetTokenUsedOnce, _lock_window_elapsed

\* So does a reset token.  The row has a valid one, so it was not stripped.
LEMMA ExpireStep ==
    ASSUME AccountsInv, ResetTokenExpires
    PROVE  AccountsInv'
<1>1. row \in User /\ snap \in [Requests -> User]
  BY DEF AccountsInv, TypeOK
<1>2. TypeOK'
  BY StripType DEF AccountsInv, TypeOK, ResetTokenExpires, history
<1>3. /\ pc' = pc /\ row' = Expire(row) /\ row'.version = row.version
      /\ \A r \in Requests :
            snap[r] \in User /\ snap'[r] = Expire(snap[r]) /\ snap'[r].version = snap[r].version
  BY <1>1, ClockFacts DEF ResetTokenExpires
<1>4. \A r \in Requests : Winning(r)' => Winning(r)
  BY <1>3 DEF Winning
<1>5. \A r \in Requests : Winning(r) => snap[r] = row
  BY <1>3, ClockFacts DEF AccountsInv, SnapInv, ResetTokenExpires
<1>6. SnapInv'
  BY <1>3, <1>4, <1>5 DEF AccountsInv, SnapInv
<1>7. LockInv'
  BY <1>1 DEF AccountsInv, LockInv, ResetTokenExpires, history, Expire, User
<1>8. Honest(Expire(row)) /\ \A r \in Requests : Winning(r)' => Honest(Expire(snap[r]))
  BY <1>1, <1>3, <1>4, ClockFacts DEF AccountsInv, CredentialInv
<1>9. CredentialInv'
  BY <1>3, <1>8
  DEF CredentialInv, Honest, Unspent, Unused, Proved, ResetTokenExpires, history
<1> QED
  BY <1>2, <1>6, <1>7, <1>9
  DEF AccountsInv, BackupCodeSpentOnce, ResetTokenUsedOnce, ResetTokenExpires, history

\* And a verification token.
LEMMA LapseStep ==
    ASSUME AccountsInv, VerificationExpires
    PROVE  AccountsInv'
<1>1. row \in User /\ snap \in [Requests -> User]
  BY DEF AccountsInv, TypeOK
<1>2. TypeOK'
  BY StripType DEF AccountsInv, TypeOK, VerificationExpires, history
<1>3. /\ pc' = pc /\ row' = Lapse(row) /\ row'.version = row.version
      /\ \A r \in Requests :
            snap[r] \in User /\ snap'[r] = Lapse(snap[r]) /\ snap'[r].version = snap[r].version
  BY <1>1, ClockFacts DEF VerificationExpires
<1>4. \A r \in Requests : Winning(r)' => Winning(r)
  BY <1>3 DEF Winning
<1>5. SnapInv'
  BY <1>3, <1>4, ClockFacts DEF AccountsInv, SnapInv
<1>6. LockInv'
  BY <1>1 DEF AccountsInv, LockInv, VerificationExpires, history, Lapse, User
<1>7. Honest(Lapse(row)) /\ \A r \in Requests : Winning(r)' => Honest(Lapse(snap[r]))
  BY <1>1, <1>3, <1>4, ClockFacts DEF AccountsInv, CredentialInv
<1>8. CredentialInv'
  BY <1>3, <1>7
  DEF CredentialInv, Honest, Unspent, Unused, Proved, VerificationExpires, history
<1> QED
  BY <1>2, <1>5, <1>6, <1>8
  DEF AccountsInv, BackupCodeSpentOnce, ResetTokenUsedOnce, VerificationExpires, history

\* No step of the specification breaks the invariant.
LEMMA NextInv == AccountsInv /\ [Next]_vars => AccountsInv'
<1> SUFFICES ASSUME AccountsInv, [Next]_vars PROVE AccountsInv'
  OBVIOUS
<1>1. ASSUME NEW r \in Requests, RequestNext(r) PROVE AccountsInv'
  <2>1. sessions \in 0..MaxSessions
    BY DEF AccountsInv, TypeOK
  <2>2. CASE acquire(r)
    BY <2>1, <2>2, ReadStep DEF acquire, history
  <2>3. CASE ConcurrentModificationError(r) \/ Rollback(r)
    BY <2>1, <2>3, ReadStep DEF ConcurrentModificationError, Rollback, Done, history
  <2>4. CASE LoginFails(r) \/ LoginSucceeds(r) \/ LoginChallenged(r)
    BY <2>4, LoginFailsStep, LoginSucceedsStep, LoginChallengedStep
  <2>5. ASSUME NEW c \in Codes, CompleteWithBackupCode(r, c) PROVE AccountsInv'
    <3>1. Spend(r, c) /\ sessions' \in 0..MaxSessions
      BY <2>1, <2>5, AccountsAssumption DEF CompleteWithBackupCode
    <3> QED
      BY <3>1, SpendStep
  <2>6. ASSUME NEW c \in Codes, Verify2FA(r, c) PROVE AccountsInv'
    BY <2>1, <2>6, SpendStep DEF Verify2FA
  <2>7. CASE CompleteWithTotp(r)
    <3>1. sessions' \in 0..MaxSessions
      BY <2>1, <2>7, AccountsAssumption DEF CompleteWithTotp
    <3> QED
      BY <2>7, <3>1, ReadStep DEF CompleteWithTotp, Done
  <2>8. CASE Enable2FA(r) \/ Confirm2FA(r) \/ Disable2FA(r)
    BY <2>8, Enable2FAStep, Confirm2FAStep, Disable2FAStep
  <2>9. CASE UpdateUsername(r) \/ UpdateEmail(r) \/ DeleteMe(r)
    BY <2>9, UpdateUsernameStep, UpdateEmailStep, DeleteMeStep
  <2>10. CASE RequestPasswordReset(r) \/ ChangePassword(r) \/ ResetPassword(r) \/ VerifyEmail(r)
    BY <2>10, RequestPasswordResetStep, ChangePasswordStep, ResetPasswordStep, VerifyEmailStep
  <2> QED
    BY <1>1, <2>2, <2>3, <2>4, <2>5, <2>6, <2>7, <2>8, <2>9, <2>10 DEF RequestNext
<1>2. CASE _lock_window_elapsed
  BY <1>2, ElapseStep
<1>3. CASE ResetTokenExpires
  BY <1>3, ExpireStep
<1>4. CASE VerificationExpires
  BY <1>4, LapseStep
<1>5. CASE _anonymise_deleted_users
  BY <1>5, StripStep
<1>6. CASE UNCHANGED vars
  BY <1>6
  DEF vars, history, AccountsInv, TypeOK, SnapInv, LockInv, CredentialInv, Winning, Honest,
      Unspent, Unused, Proved, BackupCodeSpentOnce, ResetTokenUsedOnce
<1> QED
  BY <1>1, <1>2, <1>3, <1>4, <1>5, <1>6 DEF Next

\* The inductive invariant holds of every reachable state.
THEOREM AccountsInvariance == Spec => []AccountsInv
  BY InitInv, NextInv, PTL DEF Spec

\* The brute-force limit: authenticate() and the conditional UPDATE together
\* let out at most MAX_FAILED wrong-password answers per unlock, for any
\* number of parallel requests.
THEOREM GuessesAreCountedHolds == Spec => []GuessesAreCounted
<1>1. AccountsInv => GuessesAreCounted
  BY AccountsAssumption
  DEF AccountsInv, TypeOK, LockInv, GuessesAreCounted, is_locked, User, Locks
<1> QED
  BY <1>1, AccountsInvariance, PTL

\* A recovery code is accepted once, whatever races for it.
THEOREM BackupCodeSpentOnceHolds == Spec => []BackupCodeSpentOnce
<1>1. AccountsInv => BackupCodeSpentOnce
  BY DEF AccountsInv
<1> QED
  BY <1>1, AccountsInvariance, PTL

\* A reset token is used once.
THEOREM ResetTokenUsedOnceHolds == Spec => []ResetTokenUsedOnce
<1>1. AccountsInv => ResetTokenUsedOnce
  BY DEF AccountsInv
<1> QED
  BY <1>1, AccountsInvariance, PTL

\* A verified address has been proved.
THEOREM VerifiedAddressIsProvedHolds == Spec => []VerifiedAddressIsProved
<1>1. AccountsInv => VerifiedAddressIsProved
  BY DEF AccountsInv, CredentialInv, Honest, Proved, VerifiedAddressIsProved
<1> QED
  BY <1>1, AccountsInvariance, PTL

\* A session that changes the row is granted against the current row.
THEOREM GrantIsCurrentHolds == Spec => GrantIsCurrent
<1> DEFINE Current ==
      sessions' # sessions /\ row' # row =>
          /\ row.status = "active" /\ row.lock # "locked"
          /\ row.factor = "enabled" => row'.codes # row.codes
          /\ \E r \in Requests :
                pc[r] = "loaded" /\ pc'[r] = "idle" /\ snap[r].password = row.password
<1>1. ASSUME AccountsInv, NEW r \in Requests, pc[r] = "loaded", CanAuthenticate(snap[r]),
             snap[r].version = row.version, Done(r)
      PROVE  /\ snap[r] = row /\ row.status = "active" /\ row.lock # "locked"
             /\ pc'[r] = "idle"
  <2>1. snap[r].status # "deleted" /\ snap[r].lock # "locked" /\ snap[r] \in User
    BY <1>1 DEF CanAuthenticate, is_deleted, is_locked, AccountsInv, TypeOK
  <2>2. snap[r].status = "active"
    BY <2>1 DEF User
  <2>3. snap[r] = row
    BY <1>1, <2>2, WinnerFacts DEF Winning
  <2> QED
    BY <1>1, <2>1, <2>2, <2>3 DEF Done, AccountsInv, TypeOK
<1>2. ASSUME AccountsInv, NEW r \in Requests, LoginSucceeds(r) PROVE Current
  BY <1>1, <1>2 DEF LoginSucceeds, update, has_two_factor
<1>3. ASSUME AccountsInv, NEW r \in Requests, NEW c \in Codes, CompleteWithBackupCode(r, c)
      PROVE  Current
  <2>1. /\ pc[r] = "loaded" /\ CanAuthenticate(snap[r]) /\ snap[r].version = row.version
        /\ Done(r) /\ c \in snap[r].codes /\ update(r, consume_backup_code(snap[r], c))
    BY <1>3 DEF CompleteWithBackupCode, Spend, update
  <2>2. snap[r] \in User
    BY <1>3 DEF AccountsInv, TypeOK
  <2>3. c \notin consume_backup_code(snap[r], c).codes /\ consume_backup_code(snap[r], c) \in User
    BY <2>2, MethodTypes DEF consume_backup_code, User
  <2>4. row'.codes # snap[r].codes
    BY <1>3, <2>1, <2>3, WrittenRow
  <2> QED
    BY <1>1, <1>3, <2>1, <2>4
<1>4. AccountsInv /\ [Next]_vars => [Current]_vars
  <2> SUFFICES ASSUME AccountsInv, Next PROVE Current
    BY DEF vars
  <2>1. ASSUME NEW r \in Requests, RequestNext(r) PROVE Current
    BY <1>2, <1>3, <2>1
    DEF RequestNext, acquire, ConcurrentModificationError, Rollback, LoginFails,
        LoginChallenged, Verify2FA, CompleteWithTotp, Enable2FA, Confirm2FA, Disable2FA,
        UpdateUsername, UpdateEmail, DeleteMe, RequestPasswordReset, ChangePassword,
        ResetPassword, VerifyEmail, Manage, history
  <2> QED
    BY <2>1
    DEF Next, _lock_window_elapsed, ResetTokenExpires, VerificationExpires,
        _anonymise_deleted_users, history
<1> QED
  BY <1>4, AccountsInvariance, PTL DEF Spec, GrantIsCurrent

\* No method of the aggregate undoes anything of the user it starts from.
LEMMA MethodsKeep ==
    ASSUME NEW u \in User
    PROVE  /\ Keeps(u, u) /\ Keeps(u, record_failed_login_attempt(u))
           /\ Keeps(u, record_successful_login(u))
           /\ \A c \in Codes : Keeps(u, consume_backup_code(u, c))
           /\ ~has_two_factor(u) => Keeps(u, begin_two_factor_enrolment(u))
           /\ Keeps(u, confirm_two_factor(u)) /\ Keeps(u, disable_two_factor(u))
           /\ Keeps(u, update_email(u)) /\ Keeps(u, mark_email_verified(u)) /\ Keeps(u, delete(u))
           /\ Keeps(u, request_password_reset(u))
           /\ Keeps(u, change_password(u)) /\ Keeps(u, reset_password(u))
           /\ Keeps(u, anonymised(u)) /\ Keeps(u, Elapse(u)) /\ Keeps(u, Expire(u))
           /\ Keeps(u, Lapse(u))
<1>1. u.email + 1 > u.email /\ u.reset + 1 > u.reset
  BY AccountsAssumption, FieldTypes
<1> USE DEF Keeps, is_deleted, has_two_factor, User
<1>2. Keeps(u, u) /\ Keeps(u, record_failed_login_attempt(u)) /\ Keeps(u, record_successful_login(u))
  BY DEF record_failed_login_attempt, record_successful_login, unlock
<1>3. \A c \in Codes : Keeps(u, consume_backup_code(u, c))
  BY DEF consume_backup_code
<1>4. ~has_two_factor(u) => Keeps(u, begin_two_factor_enrolment(u))
  BY DEF begin_two_factor_enrolment
<1>5. Keeps(u, confirm_two_factor(u)) /\ Keeps(u, disable_two_factor(u))
  BY DEF confirm_two_factor, disable_two_factor
<1>6. Keeps(u, update_email(u)) /\ Keeps(u, request_password_reset(u))
  BY <1>1 DEF update_email, request_password_reset
<1>7. Keeps(u, mark_email_verified(u)) /\ Keeps(u, delete(u))
  BY DEF mark_email_verified, delete
<1>8. Keeps(u, change_password(u)) /\ Keeps(u, reset_password(u))
  BY DEF change_password, reset_password, unlock
<1>9. Keeps(u, anonymised(u)) /\ Keeps(u, Elapse(u)) /\ Keeps(u, Expire(u)) /\ Keeps(u, Lapse(u))
  BY DEF anonymised, Elapse, Expire, Lapse
<1> QED
  BY <1>2, <1>3, <1>4, <1>5, <1>6, <1>7, <1>8, <1>9

\* A winner's write undoes nothing of the row, even of a stripped one.
LEMMA WriteKeeps ==
    ASSUME AccountsInv, NEW r \in Requests, pc[r] = "loaded",
           NEW u \in User, update(r, u), Keeps(snap[r], u)
    PROVE  Keeps(row, row')
<1>1. Winning(r)
  BY DEF Winning, update
<1>2. Keeps(snap[r], row')
  BY WrittenRow DEF Keeps, is_deleted, has_two_factor
<1>3. snap[r] = row \/ (is_deleted(snap[r]) /\ anonymised(snap[r]) = row)
  BY <1>1 DEF AccountsInv, SnapInv
<1>4. CASE is_deleted(snap[r]) /\ anonymised(snap[r]) = row
  <2>1. snap[r] \in User /\ row' \in User
    BY WrittenRow DEF AccountsInv, TypeOK
  <2>2. /\ row.factor = "none" /\ row.token = "none" /\ row.email = 0
        /\ row.verified = snap[r].verified
    BY <1>4, <2>1 DEF anonymised, User
  <2>3. snap[r].email \in Nat /\ row'.email \in Nat
    BY <2>1, FieldTypes, AccountsAssumption
  <2> QED
    BY <1>2, <1>4, <2>2, <2>3 DEF Keeps, has_two_factor
<1> QED
  BY <1>2, <1>3, <1>4

\* The methods the guards of the actions allow stay within the table.
LEMMA WinnerType ==
    ASSUME AccountsInv, NEW r \in Requests, LoginFails(r)
    PROVE  record_failed_login_attempt(snap[r]) \in User
<1>1. Winning(r) /\ ~is_locked(snap[r])
  BY DEF LoginFails, CanAuthenticate, Winning, update
<1>2. snap[r] \in User /\ snap[r].lock = row.lock /\ snap[r].failed = row.failed
  BY <1>1, WinnerFacts
<1> QED
  BY <1>1, <1>2, MethodTypes DEF AccountsInv, LockInv, is_locked, User, Locks

\* No step undoes a deletion, an active factor, a used reset token or the
\* verification of an address.
THEOREM NothingIsUndoneHolds == Spec => NothingIsUndone
<1>1. ASSUME AccountsInv, NEW r \in Requests, RequestNext(r) PROVE Keeps(row, row')
  <2>1. snap[r] \in User /\ row \in User
    BY <1>1 DEF AccountsInv, TypeOK
  <2>2. ASSUME row' = row PROVE Keeps(row, row')
    BY <2>1, <2>2, MethodsKeep
  <2>3. CASE acquire(r) \/ ConcurrentModificationError(r) \/ Rollback(r) \/ CompleteWithTotp(r)
    BY <2>2, <2>3 DEF acquire, ConcurrentModificationError, Rollback, CompleteWithTotp
  <2>4. CASE LoginFails(r)
    BY <1>1, <2>1, <2>4, WinnerType, WriteKeeps, MethodsKeep DEF LoginFails
  <2>5. CASE LoginSucceeds(r) \/ LoginChallenged(r)
    BY <1>1, <2>1, <2>5, MethodTypes, WriteKeeps, MethodsKeep DEF LoginSucceeds, LoginChallenged
  <2>6. ASSUME NEW c \in Codes, Spend(r, c) PROVE Keeps(row, row')
    BY <1>1, <2>1, <2>6, MethodTypes, WriteKeeps, MethodsKeep DEF Spend
  <2>7. CASE Enable2FA(r) \/ Confirm2FA(r) \/ Disable2FA(r)
    BY <1>1, <2>1, <2>7, MethodTypes, WriteKeeps, MethodsKeep
    DEF Enable2FA, Confirm2FA, Disable2FA, Manage
  <2>8. CASE UpdateUsername(r) \/ UpdateEmail(r) \/ DeleteMe(r) \/ RequestPasswordReset(r)
    BY <1>1, <2>1, <2>8, MethodTypes, WriteKeeps, MethodsKeep
    DEF UpdateUsername, UpdateEmail, DeleteMe, RequestPasswordReset, Manage
  <2>9. CASE ChangePassword(r) \/ ResetPassword(r) \/ VerifyEmail(r)
    BY <1>1, <2>1, <2>9, MethodTypes, WriteKeeps, MethodsKeep
    DEF ChangePassword, ResetPassword, VerifyEmail
  <2> QED
    BY <1>1, <2>3, <2>4, <2>5, <2>6, <2>7, <2>8, <2>9
    DEF RequestNext, CompleteWithBackupCode, Verify2FA
<1>2. AccountsInv /\ [Next]_vars => [Keeps(row, row')]_vars
  <2> SUFFICES ASSUME AccountsInv, Next PROVE Keeps(row, row')
    BY DEF vars
  <2>1. row \in User
    BY DEF AccountsInv, TypeOK
  <2> QED
    BY <1>1, <2>1, MethodsKeep
    DEF Next, _lock_window_elapsed, ResetTokenExpires, VerificationExpires,
        _anonymise_deleted_users
<1> QED
  BY <1>2, AccountsInvariance, PTL DEF Spec, NothingIsUndone
=============================================================================
