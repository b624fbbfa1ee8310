# TLA+ verification of the FastStream template

The repository is an identity service: accounts with passwords, lockout, e-mail
verification, password reset and a second factor; sessions with rotating refresh
tokens; roles; an OAuth2 login bridge to Ory Hydra; and a transactional outbox that
relays domain events to RabbitMQ and mails tokens. Requests run concurrently, in one
asyncio process and across replicas, against PostgreSQL (READ COMMITTED) and Redis.
Paths below are relative to `src/src/`.

## 1. Inventory

| Component | State | Operations | Hard behaviour | What makes it correct |
|---|---|---|---|---|
| Outbox (`db/sqlalchemy/uow.py`, `repositories/outbox.py`, `queue/`) | `outbox_events` rows, the worker's batch, the exchange, the mailbox | register, commit, rollback; claim, publish, mail, mark, reschedule; replay; retention | replicas, crashes between publish and commit, lost confirms, retries, poison messages | atomic with the state change, exclusive claims, at-least-once, bounded duplicates, credentials confined, nothing starves |
| User account (`entities/user.py`, `repositories/user.py`, `services.py`, `commands/`) | one `users` row with a `version`; a copy per request | login, second factor, enrolment, profile, password change and reset, verification, deletion | the copy is stale after every await; one-shot credentials; the clock | the version check makes each write a compare-and-set; no credential is accepted twice, no lockout increment lost |
| Sessions (`entities/session.py`, `repositories/session.py`) | `sessions` and `refresh_tokens` rows; a copy per request | start, refresh, revoke one or all, expire, purge | whole-aggregate writes without a version; transactions that lock account and sessions in opposite orders | rotation, replay detection, lasting revocation, no session outlives the credentials it rests on |
| Maintenance worker (`maintenance/worker.py`) | none of its own | prune outbox, purge sessions, prune audit log, anonymise users | runs beside live requests | deletes only what is finished, strips for good, releases names |
| Two-factor challenges, used codes (`two_factor_challenge_store.py`, `replay_guard.py`) | cache entries with a TTL | issue, read, record_failure, discard; was_used, remember | read-modify-write on a cache | one-shot, five guesses, no code twice |
| Rate limiters (`security/`) | per-key time stamps in memory, or counters in Redis | check, record_failed_login, is_locked, reset, clean-up | check-then-count; INCR then EXPIRE; eviction at `max_keys` | the limit is overshot by what is in flight at most, and nobody is shut out for good |
| Registration and idempotency (`create_user.py`, `idempotency.py`, `repositories/user.py`) | unique names and addresses, cached answers | register, replay, rename, delete, release on anonymise | pre-check races, retries, lost answers, deleted rows that keep names | one account per name, safe retries, names come back |
| Roles (`rbac_service.py`, `repositories/rbac.py`) | roles, permissions, assignments | create, delete, assign, revoke, add, remove, seed | unversioned set write-back, three-transaction seeding | grants are not undone, the admin role stays |
| Hydra bridge (`controllers/hydra_bridge.py`, `hydra/client.py`) | login and consent requests at Hydra, pending challenges | login form and submit, second factor, consent, logout | two entry points share challenges; a form and a challenge may name different flows | a grant matches an authentication made for it |
| Bearer authentication (`http/security.py`, `guards.py`) | introspection answers in the cache | introspect, cache, scope guards, revoke at Hydra | stale answers, partial failure after commit | revocation takes effect; success means done |

Components interact through the database (`services.py` calls the user and the session
repository in one transaction and registers both with the unit of work), the cache, Hydra,
and the outbox (every aggregate's events are drained by `commit()`). AMQP consumers only
log; wiring, metrics, mail transport and migrations keep no state the properties are
about. `PROJECT.json` lists all components and every hazard with its line.

## 2. Modules

| Module | Models | Proofs |
|---|---|---|
| `Outbox` | unit of work, worker replicas, broker, mail, operator, retention | `OnboardingProofs` |
| `ReliableRelay` | what the outbox promises, seen from outside: events are accepted, delivered, settled or parked | refinement in `OnboardingProofs` |
| `Accounts` | one `users` row, any number of requests, the clock, anonymisation | `AccountsProofs` |
| `Sessions` | the sessions of one account, their tokens, any number of requests | `SessionsProofs` |
| `Credentials` | an account and its sessions together: the transactions that write both, statement by statement, with row locks | `CredentialsProofs` |
| `TwoFactor` | challenges, used codes, TOTP windows and the transaction that completes a login | `TwoFactorProofs` |
| `Rbac` | roles, grants, assignments, the admin guard, the start-up seeding | `RbacProofs` |
| `Throttle` | both rate limiters over both back ends, as a login calls them | `LoginProofs` |
| `Registration` | names and addresses of all accounts, registration, the idempotency store, rename, deletion, release | `OnboardingProofs` |
| `Bridge` | the pages Hydra sends browsers to, the JSON logins that share their challenges, and Hydra's flows | `LoginProofs` |
| `Gateway` | bearer tokens: introspection, cache, scopes, and the revocations that reach Hydra | `GatewayProofs` |
| `MC...` | small instances and their symmetry | |

Two proof modules each extend two models: `LoginProofs` those that guard a login (`Throttle`,
`Bridge`), `OnboardingProofs` those of a new account and its events (`Registration`,
`Outbox`). So that they can stand side by side, `Throttle` and `Registration` carry names
of their own where others say `Init`, `Next`, `Spec`, `TypeOK`, `vars` (`ThrottleInit`,
`RegistrationInit`, ...) and `Requests` (`Logins`, `Calls`); in `Registration`, `at` is the
program counter, and `RegisterBegins` the handler `register`, a name `Outbox` needs for the
method of the unit of work.

**Outbox.** Rows are sets and functions over event ids: `processed`, `failed`, `waiting`
are the columns `processed_at`, `failed_at`, `next_attempt_at > now()`. One poll of
`_process_batch` is the path `Claim`, then `publish_event`, `PublishFails` or
`ConfirmLost` per row, `PublishDone`, `send_email` or `SendFails` per mail, `Finish`: one
database transaction, so its row changes appear at `Finish` and `Crash` drops them while
what the broker and the SMTP server took stays taken. `Hang` is a publish that neither
returns nor raises: its worker, and the rows it has locked, wait until the process ends.
`BatchSizes` holds the values of `batch_size` a poll may have; replicas need not agree on
one. `commit()` is split at its awaits
into `Flush` (rows stamped, in creation order) and `Commit`, which also writes the audit
entries of the events `handle_many` knows. The broker, the SMTP server
and the clock are environment. `replay` has no caller in the repository besides an
operator's shell; it is modelled because rows must survive it.

**Accounts.** `acquire` copies the row; each operation derives a new user from the copy
with the aggregate's method of the same name and `update` writes it when the versions
match. UPDATE and COMMIT are one step because the UPDATE keeps the row lock to COMMIT.
Time stamps are what the clock makes of them ("locked" then "elapsed"), and the clock
actions change the row and all copies at once, since both compare the same stamp with the
same clock. A refusal by a rate limiter, the challenge store or the used-code registry is
a `Rollback`. The variables `guesses`, `spent`, `resets`, `proved`, `sessions` are
history: what clients have been answered. Anonymisation waits for the tokens to expire,
as the default retention of 30 days does.

**Sessions.** The same shape without a version: `FindToken` is the first statement of
`acquire_by_token_hash`, `LoadSession` the rest with the validity checks, and
`refresh_session` and `revoke` the unconditional write-back. `RefreshTokenReuseError`
leaves the rows alone because the use case raises before its commit. The revocations
inside password change, reset and deletion are `acquire_by_user_id` and `revoke`.

**Credentials.** The composition of the two. A request is a transaction of several
statements: a login and a backup code write the `users` row, then insert the session; a
TOTP completion inserts the session only; a refresh updates one session; a password change
or reset writes the `users` row, selects the sessions and updates them one by one (a reset
on a deleted account too, which its token still finds); a deletion does it the other way
round. `userLock` and `sessionLock` are PostgreSQL's row
locks, held to the end of the transaction; `deadlock_detected` aborts a transaction on a
ring of waiters. Versions are the set `stale` of requests whose copy of the row is old.
Tokens, lockout and the second factor's own state are in the modules above. A session is
purged when nobody is writing it: a purge under a writer makes its write fail, which is
`Die` followed by the purge. `behind`, `outdated`, `overlapped`, `raced` are history.

**TwoFactor.** One account. `CompleteTwoFactorUseCase` is a path of one action per await:
`read`, `acquire_by_id`, `Verified` or `Refused`, `update` (backup codes only, with row
lock and version check), `remember`, `DiscardUsed`, `commit`; `record_failure` writes back
the count that `read` returned. Time runs in TOTP steps of 30 s; `ttl` and `memory` count
down what Redis expires, and an entry is taken to be gone for the whole step in which it
runs out, which is the worst case for the memory of used codes. `wrong`, `completed` and
`accepted` are histories that stop counting just past the limit a property compares them
with. Browser and JSON flow share the use case, so one model covers both.

**Rbac.** A process is an administrator's request, which passes `require_admin` first, or
a replica running `seed_admin_role`. Both run the same use cases; the replica strings
three of them together, each with its own commit (`Committed`), and is down when one
fails. `acquire_by_id` takes the copy, the operation's own action writes and commits.
`References` stands for the foreign keys, the second look-up in `add` and
`permission_add` for the unique indexes. Role ids are not used twice (uuid4), users
exist throughout (accounts are never deleted from the table), permissions only
accumulate. `INITIAL_ADMIN_USER_ID` is taken to be set and to name an existing user.

**Throttle.** `backend` is chosen once. In memory a limiter call never suspends, so the
rate limit and the lockout are checked in one step (`CheckRefuses`, `CheckAllows`); on
Redis every command is a step (`incr`, `expire`, `ttl`, `IsLocked`), and a process may die
between two. The password check lies between `is_locked` and `record_failed_login` or
`reset` on either. Time stamps are kept as ages up to the age past which the code cannot
tell them apart, Redis keys as remaining life, so the clock is unbounded. A list of stamps
is in order of time, so the filter of the code drops a prefix, and `Recent` is written as the
rest (`OldComeFirst` and `RecentFacts` in `LoginProofs`: exactly the young stamps stay, in order). `promised`
remembers the `reset_at` of a key's last refusal with its slack, the time by which it comes
before the end of the window. In memory the slack is 0. On Redis `check()` reads the clock,
sends its commands and adds the TTL to the time it read: the slack is the time in between, which
`incr` draws for the first command and `elapsed` counts from there. `misled` has the keys
refused although `reset_at` and its slack had passed.
Other users of the rate limiter (registration, reset, verification) call `check` with keys
of their own and have no lockout.

**Registration.** A client wants one account and retries with the same key and body.
`RegisterBegins` stops at the idempotency store, `create` makes the pre-checks over live rows,
`add` is INSERT and COMMIT under the unique indexes over all rows, `cache_response` stores
and sends the answer; `Die` in between loses it. `update_user` and `update` are the
profile update with its own pre-check and write. The placeholder that the maintenance
worker puts in place of a name is the empty set: it is made from the row's id and cannot
be in anyone's way.

**Bridge.** A flow is one authorization at Hydra. `login_form`, `login_submit`,
`_submit_two_factor`, `consent_form`, `consent_submit` and `logout` are the handlers; the
call to Hydra that ends each is a step of its own (`accept_login_request`,
`accept_consent_request`, `reject_consent_request`), before which the request may die and
the browser may submit again. `pending` is the challenge store seen from outside: who must
still show a second factor, and for which flow. Passwords and codes are taken to be right
or the request dies; counting them is `Accounts`, `TwoFactor` and `Throttle`. `entered`
records the flow whose form took the password.

**Gateway.** `authenticate_token` looks into the cache, `introspect_token` asks Hydra and
`StoreAnswer` writes the answer after the await, under the time to live of its kind; the
scope guard and the handler follow. What routes read or write elsewhere is left out;
`delete_me`, `change_password`, `reset_password`, `revoke_session` and
`revoke_all_sessions` change sessions, and only the last goes on to Hydra. A refresh loads
its session (`acquire_by_token_hash`) and later writes the whole row back as not revoked
(`refresh_session`), or fails; `refreshing` holds the sessions loaded by one that has not
written yet. So `revoked` may shrink, and revoke-all reads the sessions and commits them in
two steps (`CommitRevoked`) between which refreshes run. Only access
tokens are in the model: a refresh token presented as a bearer is refused by its
`token_use`, whatever is cached.

## 3. Runs

| Run | Checks | Shows |
|---|---|---|
| `outbox` | `ClaimExclusive`, `Transactional`, `DuplicatesNeedAFault`, `SecretsConfined`, `RowLifecycle`, `ImplementsRelay`, `EventuallySettled` | atomic commit, exclusive claims, at least once, duplicates bounded by faults, credentials confined, refinement, no starvation behind a poison message that a poll's limit takes first |
| `accounts` | `GuessesAreCounted`, `BackupCodeSpentOnce`, `ResetTokenUsedOnce`, `VerifiedAddressIsProved`, `GrantIsCurrent`, `NothingIsUndone` | optimistic locking does what the docs say of it |
| `sessions` | `TypeOK`, `SerialRotation`, `RevocationSettles` | no orphans; rotation is right while requests do not overlap; a revocation is final once no older refresh is in flight |
| `sessions_replay` (violation) | `ReplayRevokes` | replay detection never revokes |
| `credentials` | `TypeOK`, `OnlyRacersSurvive`, `NobodyWaitsForever` | a password change or deletion ends every session but those a TOTP completion or refresh writes beside it; a password login never slips through; clashing lock orders cost an aborted transaction and nothing more |
| `two_factor` | `TypeOK`, `SerialChallenge`, `GoneStaysGone` | uncontested challenges are one-shot and bounded; a finished one can only be revived by a request that had read it |
| `two_factor_time` | `SerialCode` | 120 s of memory outlast the 90 s in which a code verifies |
| `rbac` | `TypeOK`, `SeedRepairs`, `SerialGrants`, `AdminIsKept` | names stay unique and nothing dangles under any race; an uncrossed edit changes one permission; the start-up hook repairs what its own failures leave behind |
| `throttle` | `ThrottleTypeOK`, `GuessBound`, `RefusalIsHonest`, `CleanupSparesCounting`, `Relents` | the lockout is overshot by the logins in flight and no more; who waits for `reset_at`, on Redis plus the time `check()` took, is let in; a counting key is forgotten only for want of room; every lockout ends, but for a key whose EXPIRE was lost |
| `registration` | `RegistrationTypeOK`, `RetryIsSafe`, `NamesAreReleased` | names and addresses are unique under any race; retries create one account and answer with it; a stripped account's name comes back |
| `bridge` | `TypeOK`, `LoginIsEarned` | whatever forms, challenges, skips and retries are mixed, a flow's subject, session and claims belong together and the password was entered for that flow |
| `gateway` | `TypeOK`, `RevokeAllIsComplete`, `RevocationTakesHold` | a revoke-all that reports success is complete but for sessions that a refresh held when it committed; no cached answer renews itself or shuts out a good token; a revoked token is refused in the end |

Where a type invariant is a run's property it carries the run's relational invariants too: the
foreign keys (`Sessions`, `Rbac`), uniqueness (`Rbac`, `Registration`), the challenge count
(`TwoFactor`), counters without a life (`Throttle`), lock ownership (`Credentials`),
cached refusals (`Gateway`).

**Bounds.** Outbox: two events (one with a credential, one audited), two requests, two
workers, polls of one row or of two, two attempts, two faults, one replay. Two workers and
two rows are what a contested claim needs; a limit of one leaves a due row behind an older
one that may fail for ever, a limit of two mixes rows of different fates in one batch, and
a run in which every poll has the same limit is among those checked; a second attempt separates retry from dead letter; the
second fault lets a duplicate follow a duplicate. Accounts: two requests (the version
check is between a pair), six writes (enough to enrol, confirm, lock, change and delete in
one behaviour), three passwords and two of every other credential, so that an old and a
new one meet and a token can be tried twice. Sessions: two sessions and three tokens, so
that two rotations, or a rotation and another session, fit. Credentials: two requests and
two sessions, which is what a lock cycle and a missed session need; `Room` keeps an id for
every login under way. Two-factor: the races need two requests, two challenges and no
clock; the clock needs one request and the real proportion of window (3 steps) to memory
(4 steps), with the time to live scaled to 5 steps. Rbac: two administrators and one
replica, three role ids, two names and two permissions, so that two requests can create,
edit or delete one role at a time beside the admin role. Throttle: two keys where the
memory back end keeps one, two logins, two requests per window of two ticks, a lockout
of one tick after one failure: small enough that limit, eviction and edge meet, and long enough
for a refusal to be computed while the window runs out. Registration: two clients after
one name, one with a key and an address; two ids and two names. Bridge: two users, flows,
sessions and requests; `MaxPending` bounds the open challenges to one at a time, which another flow's
form can still claim. Gateway: two tokens of one user, one of them without the write
scopes, one session, which is refreshed and revoked at once, two requests, lives of 2 and 1
ticks; several sessions are covered by the proof. Requests are unbounded in number everywhere:
a finished one starts again.

**Fairness.** *Outbox*: each worker's loop is weakly fair, because `start()` polls for
ever, catches every exception and mails under aiosmtplib's timeout; `BackoffElapses`
because clocks advance. Not every await has a timeout: `exchange.publish`
(`event_publisher.py:72`) has none, so a worker may hang there, and `EventuallySettled`
excepts an event while every worker, or the one that claimed it, does (`HeldUp`). The
worker's database connection has none either; that PostgreSQL answers or drops the
connection is an assumption. Nothing is assumed of requests, operators, retention, faults,
restarts, or of publishes ever succeeding. *Throttle*: time passes, and a request
that owes an EXPIRE sends it or dies. *Registration*: the maintenance worker runs on a
schedule and retention periods end. *Gateway*: time passes, and a request goes on or
fails, because calls to Hydra and to the database have timeouts; that Redis, whose client
has none, answers or drops the connection is an assumption. Refreshes owe nothing. *Credentials*: a statement that can
proceed again and again does (strong fairness), because PostgreSQL's lock queues are
first in, first out; deadlock detection is weakly fair (`deadlock_timeout`).
`CHECK_DEADLOCK FALSE` in the outbox, two-factor and bridge runs: with all events handled,
all challenges over or all flows ended, the modelled system is at rest.

## 4. Proofs

Eight modules `...Proofs` are checked by TLAPS for every value of the constants that
satisfies the component's named assumption: whatever the number of requests, sessions,
roles, tokens, keys or events. Every safety property that a passing run checks, invariant,
action property or refinement, is a theorem. Each component has the same plan: an
inductive invariant as a conjunction of named parts, checked by TLC on the run's
instance first; one lemma per action; `Invariance`; then the properties, each from the
invariant or, for action properties, from the invariant and one step.

The assumptions are about identity, not size: ids of different kinds differ where the
model compares them (`Sessions` and `Tokens` in `Gateway`, which `seen` and `swept` mix;
`Wrong` and the challenges in `TwoFactor`, which `contested` mixes; requests and replicas
in `Rbac`), `None` is no id, and limits are positive. `Throttle` also takes the logins that run at a
time to be finitely many, or its bound would not be a number. One theorem has a hypothesis of its
own: `CodesAreSerial` needs `CODE_MEMORY >= 3`.

*Outbox.* None of the listed properties is inductive alone: exclusivity needs that a
worker's loops stay inside its batch (`BatchInv`), atomicity that an event belongs to one
request and that its row exists only if that request committed (`OriginInv`), and the
bound on duplicates that the copy not paid for by a fault is the one a worker is about to
mark (`CopiesInv`). `OutboxInv` is their conjunction, with `TypeOK`, `RetryBudget` and
`ProcessedWasPublished`; each action is a lemma; `RowLifecycleHolds` and
`RelayRefinement` follow step by step from it.

*Accounts.* The argument is optimistic locking itself: `SnapInv` says that a copy whose
version equals the row's equals the row, except for what the maintenance worker stripped.
So every successful write is computed from the current row, up to that exception,
and what is true of the row (`LockInv` ties the counter to the answers given;
`CredentialInv` says that what can still be spent has not been) carries over.
`WriteKeeps` does this once for all methods; `GrantIsCurrentHolds` and
`NothingIsUndoneHolds` use the same invariant for pairs of states. The exception is real:
section 5 says what comes of it, and `Honest` of a winning copy is in the
invariant because such a copy may be written.

*Sessions.* Writes carry no version, so the proof follows what a request has loaded:
never tokens of another session, and all that is stored as long as nobody else has held
the session meanwhile (`LoadInv`, `OverlapInv`). `SerialRotation` alone is not inductive:
a refresh about to write would be free to hold a token that is dead or a family that is
not the session's. `RevocationIsFinal` needs no such proviso: whoever loads after the
revocation sees it.

*Credentials.* A password change or deletion that commits holds the users row, so each
login under way has lost its version by then (`PhaseInv`, `LoginInv`); its list of
sessions misses only what raced, or its own version is lost (`ListInv`); and a refresh that
met no change writes no outdated session (`RefreshInv`). `OnlyRacersLive` follows, and
`LoginsAreCurrent`: the race is open to second factors and refreshes, not to passwords.

*TwoFactor.* `EntryInv` ties the cache entry of an uncontested challenge to its history
and to what its reader has in hand: all its wrong codes, none of its sessions.
`ApartInv` says that a second reader is noticed. Backup codes need none of this:
`RequestInv` has whoever accepted one hold the row lock with the code still on the row.
For TOTP codes, `CodeInv` weighs memory against window: what the registry has left plus
the clock stays beyond the last step in which the code verifies. `verify_code` accepts
a code from one step early, `remember` starts then at the earliest, hence three steps;
`CODE_MEMORY_SECONDS = 120` is four.

*Rbac.* Each process acts on an earlier look-up; `ProcessInv` and `SeedInv` say which ones
are still true. `Steady` is what every step leaves to the others: the admin role, its
holders, its permission unless `stripped` says otherwise, and grants that only a process
found by `CrossInv` may have changed. `SeedingRepairs` then is how far `SeedInv` has come
at the end of the start-up hook; `AdminRoleIsKept` holds because no role becomes the admin
role after `Protected` looked at it; `GrantsAreSerial` because the copy of a process
that met no other is the role's grants.

*Throttle.* `GuessBound` alone is not inductive: a login that has passed `is_locked` may
count a failure whatever the counter says by then. `GuessInv` adds those logins to the
failures: together they stay below limit plus logins, because a login joins them only when
the failures are below the limit, and trades its place for a failure later. The rest of
the invariant is about time. `RefusalIsHonest` needs that a promise is kept at every
instant until it is due (`PromiseInv`): in memory the oldest stamp and the time left to
`reset_at` add up to a window at least, on Redis the counter's life is the
time left plus the slack, which starts as the time since the login read the clock
(`SlackInv`). For the latter, a counter is without a life only while one login, never two, owes it the EXPIRE
(`ExpireInv`), so no EXPIRE lengthens a life that was promised. In memory all
rests on stamps being in order: `OldComeFirst` says that the old ones of an
ordered list are as many as it begins with, so that `Recent` is the code's filter
(`RecentFacts`), that filtering, appending, ageing and evicting keep order, and that who
is refused has the oldest live stamp first. `CleanUp` says what eviction may drop;
`CleanupsSpareCounting` follows from one step.

*Registration.* Uniqueness comes from the indexes alone (`TableInv`): the pre-checks play
no part in the proof, and the empty placeholder conflicts with nobody. That a client with
two accounts has lost a name follows from it. `Waits` is what is true of a client with
a key that waits and retries in time: one attempt at most, which has created nothing
before its INSERT; and once it has an account and no attempt, the cache knows. So whoever
gets past the cache has no account that could be in the way. Each of the three ways out
(an overlap, a lost answer, an expired entry) breaks one of these and is what `excused` records.

*Bridge.* A login takes several calls, so `Deserves`, which is `LoginIsEarned` of a single
acceptance, is carried through requests under way (`RequestInv`) and by pending
challenges (`ChallengeInv`) to the grant (`FlowInv`).

*Gateway.* That swept sessions are revoked is not inductive: a refresh with an older copy
takes a session out of `revoked`. `Final`, the revoked sessions no refresh holds, only grows,
because a refresh never loads a revoked session; and tokens that have ended stay so
(`Onward`). So what a revoke-all has seen, less what a refresh holds when it commits, and
what the cache says only have to be right when written (`Fits`, `CacheInv`).

*Only model-checked.* Liveness (`EventuallySettled`, `Relents`, `NamesAreReleased`,
`RevocationTakesHold`, `NobodyWaitsForever`) is outside the prover, which has no rules for
fairness and ENABLED. That the stamps of `Recent`, as a sequence, equal `SelectSeq` of the
list is not proved either (it needs induction over data); `RecentFacts` says the same
position by position.

## 5. Finding and observations

One run ends in a violation that a document of the repository rules out: `sessions_replay`
(a replayed refresh token does not revoke its session); `PROJECT.json` quotes the line.

Met while modelling, and left in the models as the code has it:

- *Outbox.* An SMTP error of one mail is logged and swallowed (`outbox_worker.py:147`): the
  row is marked processed, its token scrubbed, the mail lost, against the comment at line
  125. A row that waits for a retry, is dead-lettered or is held by a hung worker keeps its
  token, where `ARCHITECTURE.md:107-110` has it live "only for as long as it takes the worker
  to render the email". A publish that never returns holds its worker, its transaction
  and its rows until the process ends.
- *Accounts.* `_anonymise_deleted_users` neither checks nor bumps `version`, so a request
  that loaded the deleted account earlier writes the personal data back.
- *Sessions.* A refresh that loaded its session before a revocation writes
  `is_revoked = false` back (`RevocationSettles`, `OnlyRacersSurvive` and, for
  revoke-all, `RevokeAllIsComplete` say how far that goes). `acquire_by_user_id` has no ORDER BY, so two revocations of the same sessions can
  deadlock, beside the opposite lock orders of `delete_user` and `change_password`.
- *Two-factor.* Two overlapping requests can complete two challenges with one TOTP code,
  share one count of wrong codes, or both complete one challenge. A wrong code renews the
  challenge's five minutes. The registry of used codes keys on the string as sent
  (`replay_guard.py:25`), while pyotp compares normalised strings; the model takes the two
  for the same code.
- *Roles.* Crossed edits of a role undo each other; taking the permission `admin` from the
  admin role is allowed and locks every administrator out until a replica starts again.
- *Limiters.* A key whose EXPIRE was lost stays without a life and shuts its client out
  until someone deletes it. The memory back end at `max_keys` may forget a key that still
  counts. `retry_after_seconds` truncates to whole seconds, so a client that obeys the
  header may come back up to a second before `reset_at`, of which `RefusalIsHonest` speaks.
  On Redis `reset_at` itself is early by the time between the clock read at
  `redis_rate_limiter.py:22` and the TTL at line 31 (and TTL counts whole seconds), so a
  client that comes back exactly then may be refused again; and for a key without a TTL it is a guess.
- *Registration.* A deleted account without an address is never stripped
  (`email IS NOT NULL`), so its user name is never released, although the docstring says
  that names are. A name still held by a deleted account passes the pre-check and fails at
  the INSERT.
- *Hydra.* Deletion, password change and reset revoke sessions and leave Hydra's tokens
  and remembered logins alone; a remembered browser of a deleted account is still logged
  in by `skip`, with name and address in the ID token until the account is stripped.
  `/2fa/verify` has no scope guard although it may spend a backup code. `seed_oauth_clients`
  looks up, then creates: of two replicas that start together one fails and starts again.

## 6. Not modelled

OAuth client administration (pass-through calls to Hydra); AMQP consumers (they log);
the audit log's reads and prune, dry runs of the maintenance worker; request shapes,
security headers, HTTPS redirect and health checks; metrics, logging and tracing;
configuration and wiring; cryptographic primitives (hashes, TOTP arithmetic below the
step, encryption at rest); SMTP and template rendering; schema migrations. None of these
keeps state that two steps could disagree on, or it is the library's and not the
repository's. Values of user agents, descriptions, scopes beyond the three guards, and
the texts of answers are abstracted away throughout.

## 7. Plan

Every component in reach has its module, its runs and its proofs. To keep with the code:
when a handler changes, change its action, run its configuration, then the proof module
of section 2; the lemma named after the action is the one to redo. What would extend the
project: a model of the cache shared by two-factor challenges, idempotency and
introspection when Redis evicts keys under memory pressure, and one of the AMQP consumers once
they keep state.
