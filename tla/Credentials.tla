---------------------------- MODULE Credentials -----------------------------
(***************************************************************************)
(* One account and its sessions together: what a password change, a reset  *)
(* or a deletion does to sessions that logins, second factors and          *)
(* refreshes are writing at the same time.  Accounts and Sessions model    *)
(* the rows one by one; here are the transactions that span both, with     *)
(* their row locks.                                                        *)
(*                                                                         *)
(* Transactions are PostgreSQL's, at READ COMMITTED: a statement sees what *)
(* is committed when it starts, an UPDATE locks its row until the end of   *)
(* the transaction and waits for whoever holds it, and of transactions     *)
(* that wait for each other one is aborted.                                *)
(***************************************************************************)
EXTENDS Naturals, FiniteSets

CONSTANTS
    Sessions,   \* session ids
    Requests    \* concurrent requests for the account

VARIABLES
    deleted,     \* users.deleted_at is set
    table,       \* sessions: the rows committed
    revoked,     \* sessions: is_revoked
    userLock,    \* who has updated the users row, as a set
    sessionLock, \* per session: who has updated its row, as a set
    kind,        \* per request: what it does
    pc,          \* per request: the next statement it executes
    stale,       \* requests whose copy of the users row has an old version
    todo,        \* per request: the sessions it has still to write
    target,      \* per request: the one its UPDATE is for, as a set
    written,     \* per request: the sessions it has written
    behind,      \* requests that read credentials that were replaced since
    outdated,    \* sessions that rest on credentials that were replaced since
    overlapped,  \* requests that ran beside a credential change
    raced        \* sessions inserted without the users row, or refreshed, by one of these

rowVars     == <<deleted, table, revoked>>
lockVars    == <<userLock, sessionLock>>
requestVars == <<kind, pc, stale, todo, target, written>>
history     == <<behind, outdated, overlapped, raced>>
vars        == <<rowVars, lockVars, requestVars, history>>

Changing == {"change_password", "delete_user"}
Kinds == Changing \cup {"login", "complete_two_factor", "refresh", "revoke_all"}

Init ==
    /\ deleted = FALSE /\ table = {} /\ revoked = {}
    /\ userLock = {} /\ sessionLock = [s \in Sessions |-> {}]
    /\ kind = [r \in Requests |-> "login"] /\ pc = [r \in Requests |-> "idle"]
    /\ stale = {}
    /\ todo = [r \in Requests |-> {}] /\ target = [r \in Requests |-> {}]
    /\ written = [r \in Requests |-> {}]
    /\ behind = {} /\ outdated = {} /\ overlapped = {} /\ raced = {}

-----------------------------------------------------------------------------
(***************************************************************************)
(* The beginning of a request: it loads the account, or a session.         *)
(***************************************************************************)
Running == {r \in Requests : pc[r] # "idle"}
Changers == {r \in Running : kind[r] \in Changing}

Begin(r, k, step, S) ==
    /\ pc[r] = "idle"
    /\ kind' = [kind EXCEPT ![r] = k]
    /\ pc' = [pc EXCEPT ![r] = step]
    /\ todo' = [todo EXCEPT ![r] = S]
    /\ overlapped' = overlapped \cup (IF k \in Changing THEN Running ELSE {})
                                \cup (IF Changers # {} THEN {r} ELSE {})
    /\ UNCHANGED <<rowVars, lockVars, stale, target, written, behind, outdated, raced>>

\* A bound: an id is left for every session under way.
Room == Cardinality({r \in Running : kind[r] \in {"login", "complete_two_factor"}})
            < Cardinality(Sessions \ table)

\* LoginUseCase, and a second factor by backup code: the users row is written
\* before the session is.
authenticate(r) == ~deleted /\ Room /\ Begin(r, "login", "user", {})

\* A second factor by TOTP code writes no users row.
complete_two_factor(r) == ~deleted /\ Room /\ Begin(r, "complete_two_factor", "commit", {})

\* The token's session is read, then the account.
refresh_session(r, s) ==
    /\ s \in table \ revoked /\ ~deleted
    /\ Begin(r, "refresh", "sessions", {s})

change_password(r) == ~deleted /\ Begin(r, "change_password", "user", {})

\* A reset takes the same steps; its token finds a deleted account too.
reset_password(r) == Begin(r, "change_password", "user", {})

delete_user(r) == ~deleted /\ Begin(r, "delete_user", "select", {})

revoke_all_sessions(r) == Begin(r, "revoke_all", "select", {})

-----------------------------------------------------------------------------
(***************************************************************************)
(* Its statements.                                                         *)
(***************************************************************************)
Go(r, step) == pc' = [pc EXCEPT ![r] = step]

\* Mutant: the UPDATE matches on the id alone.
UpdateWithoutVersion(r) ==
    /\ pc[r] = "user" /\ userLock = {}
    /\ userLock' = {r}
    /\ Go(r, IF kind[r] = "change_password" THEN "select" ELSE "commit")
    /\ UNCHANGED <<rowVars, sessionLock, kind, stale, todo, target, written, history>>

\* UserRepository.update: WHERE version = the copy's.
update_user(r) ==
    /\ pc[r] = "user" /\ r \notin stale /\ userLock = {}
    /\ userLock' = {r}
    /\ Go(r, IF kind[r] = "change_password" THEN "select" ELSE "commit")
    /\ UNCHANGED <<rowVars, sessionLock, kind, stale, todo, target, written, history>>

\* The sessions not revoked, in whatever order the table gives them.
acquire_by_user_id(r) ==
    /\ pc[r] = "select"
    /\ todo' = [todo EXCEPT ![r] = table \ revoked]
    /\ Go(r, "sessions")
    /\ UNCHANGED <<rowVars, lockVars, kind, stale, target, written, history>>

\* The UPDATE of one session is sent, and then takes its lock.
Send(r, s) ==
    /\ pc[r] = "sessions" /\ target[r] = {} /\ s \in todo[r]
    /\ target' = [target EXCEPT ![r] = {s}]
    /\ UNCHANGED <<rowVars, lockVars, kind, pc, stale, todo, written, history>>

update_session(r, s) ==
    /\ pc[r] = "sessions" /\ target[r] = {s} /\ sessionLock[s] = {}
    /\ sessionLock' = [sessionLock EXCEPT ![s] = {r}]
    /\ target' = [target EXCEPT ![r] = {}]
    /\ todo' = [todo EXCEPT ![r] = @ \ {s}]
    /\ written' = [written EXCEPT ![r] = @ \cup {s}]
    /\ UNCHANGED <<rowVars, userLock, kind, pc, stale, history>>

\* All are written; a deletion comes to the users row last.
SessionsDone(r) ==
    /\ pc[r] = "sessions" /\ todo[r] = {}
    /\ Go(r, IF kind[r] = "delete_user" THEN "user" ELSE "commit")
    /\ UNCHANGED <<rowVars, lockVars, kind, stale, todo, target, written, history>>

-----------------------------------------------------------------------------
(***************************************************************************)
(* The end of a transaction.                                               *)
(***************************************************************************)
Release(r) ==
    /\ userLock' = userLock \ {r}
    /\ sessionLock' = [s \in Sessions |-> sessionLock[s] \ {r}]

Reset(r) ==
    /\ pc' = [pc EXCEPT ![r] = "idle"]
    /\ kind' = [kind EXCEPT ![r] = "login"]
    /\ todo' = [todo EXCEPT ![r] = {}] /\ target' = [target EXCEPT ![r] = {}]
    /\ written' = [written EXCEPT ![r] = {}]
    /\ overlapped' = overlapped \ {r}

\* Mutant: the transaction stays open.
Forget(r) == Reset(r) /\ stale' = stale \ {r} /\ UNCHANGED lockVars

rollback(r) == Reset(r) /\ stale' = stale \ {r} /\ Release(r)

Aborted(r) == rollback(r) /\ behind' = behind \ {r} /\ UNCHANGED <<rowVars, outdated, raced>>

\* ConcurrentModificationError: the row's version is another by now.
ConcurrentModification(r) == pc[r] = "user" /\ r \in stale /\ Aborted(r)

\* A wrong password, an error, the end of the process.
Die(r) == pc[r] # "idle" /\ Aborted(r)

\* Who holds the lock its statement waits for.
WaitsFor(r) == ((IF pc[r] = "user" /\ r \notin stale THEN userLock ELSE {})
                \cup UNION {sessionLock[s] : s \in target[r]}) \ {r}

\* PostgreSQL finds r in a ring of transactions that wait for each other.
deadlock_detected(r) ==
    /\ \E S \in SUBSET Requests :
           /\ r \in S
           /\ \A q \in S : WaitsFor(q) \cap S # {} /\ \E p \in S : q \in WaitsFor(p)
    /\ Aborted(r)

\* What every commit does.  A write of the users row makes the copies of all
\* others stale.
Commit(r) ==
    /\ pc[r] = "commit"
    /\ Reset(r) /\ Release(r)
    /\ stale' = (IF r \in userLock THEN stale \cup Running ELSE stale) \ {r}

\* A login commits its session; raced only where no users row was written.
CommitSession(r, s) ==
    /\ kind[r] \in {"login", "complete_two_factor"} /\ s \notin table
    /\ Commit(r)
    /\ table' = table \cup {s}
    /\ behind' = behind \ {r}
    /\ outdated' = IF r \in behind THEN outdated \cup {s} ELSE outdated
    /\ raced' = IF kind[r] = "complete_two_factor" /\ r \in overlapped
                THEN raced \cup {s} ELSE raced
    /\ UNCHANGED <<deleted, revoked>>

\* A refresh writes back what it loaded: not revoked.
CommitRefresh(r) ==
    /\ kind[r] = "refresh" /\ written[r] \subseteq table
    /\ Commit(r)
    /\ revoked' = revoked \ written[r]
    /\ behind' = behind \ {r}
    /\ raced' = IF r \in overlapped THEN raced \cup written[r] ELSE raced
    /\ UNCHANGED <<deleted, table, outdated>>

CommitRevoked(r) ==
    /\ kind[r] = "revoke_all"
    /\ Commit(r)
    /\ revoked' = revoked \cup (written[r] \cap table)
    /\ behind' = behind \ {r}
    /\ UNCHANGED <<deleted, table, outdated, raced>>

\* New credentials, or none.
CommitChange(r) ==
    /\ kind[r] \in Changing
    /\ Commit(r)
    /\ deleted' = (deleted \/ kind[r] = "delete_user")
    /\ revoked' = revoked \cup (written[r] \cap table)
    /\ behind' = (behind \cup Running) \ {r}
    /\ outdated' = table
    /\ raced' = raced \ written[r]
    /\ UNCHANGED table

\* The maintenance worker purges an expired session that nobody is writing.
delete_expired(s) ==
    /\ s \in table /\ \A r \in Requests : s \notin todo[r] \cup written[r]
    /\ table' = table \ {s} /\ revoked' = revoked \ {s}
    /\ outdated' = outdated \ {s} /\ raced' = raced \ {s}
    /\ UNCHANGED <<deleted, lockVars, requestVars, behind, overlapped>>

-----------------------------------------------------------------------------
\* The next statement of a request, once it can go ahead.
Step(r) ==
    \/ update_user(r) \/ ConcurrentModification(r)
    \/ acquire_by_user_id(r) \/ SessionsDone(r)
    \/ \E s \in Sessions : Send(r, s) \/ update_session(r, s) \/ CommitSession(r, s)
    \/ CommitRefresh(r) \/ CommitRevoked(r) \/ CommitChange(r)

Next ==
    \/ \E r \in Requests :
           \/ authenticate(r) \/ complete_two_factor(r) \/ change_password(r)
           \/ delete_user(r) \/ reset_password(r) \/ revoke_all_sessions(r)
           \/ \E s \in Sessions : refresh_session(r, s)
           \/ Step(r) \/ Die(r) \/ deadlock_detected(r)
    \/ \E s \in Sessions : delete_expired(s)

\* A request runs until it waits; PostgreSQL's lock queues are fair, and it
\* looks for deadlocks.
Fairness == \A r \in Requests : SF_vars(Step(r)) /\ WF_vars(deadlock_detected(r))

Spec == Init /\ [][Next]_vars /\ Fairness

-----------------------------------------------------------------------------
(***************************************************************************)
(* Properties.                                                             *)
(***************************************************************************)

\* The variables have the shapes the code gives them, and a lock is held by
\* one running transaction at most.
TypeOK ==
    /\ deleted \in BOOLEAN /\ table \subseteq Sessions /\ revoked \subseteq table
    /\ userLock \subseteq Running /\ Cardinality(userLock) <= 1
    /\ sessionLock \in [Sessions -> {T \in SUBSET Running : Cardinality(T) <= 1}]
    /\ kind \in [Requests -> Kinds]
    /\ pc \in [Requests -> {"idle", "user", "select", "sessions", "commit"}]
    /\ stale \subseteq Running /\ behind \subseteq Running /\ overlapped \subseteq Running
    /\ todo \in [Requests -> SUBSET Sessions] /\ written \in [Requests -> SUBSET Sessions]
    /\ \A r \in Requests : target[r] \subseteq todo[r] /\ Cardinality(target[r]) <= 1
    /\ outdated \subseteq table /\ raced \subseteq table

\* "A password change or deletion revokes every session" holds but for races:
\* a session that rests on replaced credentials is live only if a second
\* factor or a refresh that ran beside the change wrote it.  A password login
\* never slips through: whichever of the two writes the users row first, the
\* other fails.
OnlyRacersSurvive == outdated \ revoked \subseteq raced

\* Lock orders clash (a deletion locks sessions and then the account, a
\* password change the other way round, and sessions come in any order), yet
\* every request comes to an end.
NobodyWaitsForever == \A r \in Requests : pc[r] # "idle" ~> pc[r] = "idle"
=============================================================================
