------------------------------ MODULE Throttle ------------------------------
(***************************************************************************)
(* Rate limiting and lockout of logins, over either back end.  A login     *)
(* asks the rate limiter, then the lockout, then checks the password, and  *)
(* only then counts a failure: whatever is in flight in between has passed *)
(* both checks.                                                            *)
(*                                                                         *)
(* In memory, a limiter call never suspends, so check and is_locked are    *)
(* one step.  On Redis every command is a step of its own.  Time is        *)
(* relative: a stamp is kept as its age, counted to the age past which the *)
(* code cannot tell stamps apart, and a Redis key as its remaining life.   *)
(***************************************************************************)
EXTENDS Naturals, Sequences, FiniteSets

CONSTANTS
    Keys,                     \* (client ip, identifier) pairs
    Logins,                   \* concurrent logins
    max_requests,             \* RateLimitConfig, and its fields below
    window_seconds,
    max_login_attempts,
    lockout_seconds,
    cleanup_interval_seconds,
    max_keys

\* The settings are positive: with max_requests = 0 the code takes the
\* minimum of an empty list.  Finitely many logins run at a time.
ASSUME ThrottleAssumption ==
    /\ IsFiniteSet(Logins)
    /\ {max_requests, window_seconds, max_login_attempts} \subseteq Nat \ {0}
    /\ {lockout_seconds, cleanup_interval_seconds, max_keys} \subseteq Nat \ {0}

VARIABLES
    backend,     \* RATE_LIMIT_BACKEND, read at boot
    buckets,     \* InMemoryRateLimiter._buckets: key -> ages, oldest first
    attempts,    \* InMemoryLoginAttemptLimiter._attempts: likewise
    rateIdle,    \* time since each limiter's _last_cleanup
    lockIdle,
    hits,        \* Redis ratelimit:{key}, 0 when there is none
    hitsTtl,     \* its remaining life, 0 when it has no TTL
    fails,       \* Redis login_failed:{key}
    failsTtl,
    pc,          \* per request: the next call it makes
    target,      \* per request: its key, as a set
    refused,     \* requests whose INCR came out above the limit
    elapsed,     \* per refused request: the time since its check() read the clock
    promised,    \* per key: the reset_at of the last refusal, as a set
    misled,      \* keys refused again although reset_at and its slack had passed
    orphaned     \* keys whose EXPIRE was lost with its process

memoryVars   == <<buckets, attempts, rateIdle, lockIdle>>
redisVars    == <<hits, hitsTtl, fails, failsTtl>>
requestVars  == <<pc, target, refused, elapsed>>
history      == <<promised, misled, orphaned>>
throttleVars == <<backend, memoryVars, redisVars, requestVars, history>>

Empty == [k \in {} |-> <<>>]

ThrottleInit ==
    /\ backend \in {"memory", "redis"}
    /\ buckets = Empty /\ attempts = Empty /\ rateIdle = 0 /\ lockIdle = 0
    /\ hits = [k \in Keys |-> 0] /\ hitsTtl = [k \in Keys |-> 0]
    /\ fails = [k \in Keys |-> 0] /\ failsTtl = [k \in Keys |-> 0]
    /\ pc = [r \in Logins |-> "idle"] /\ target = [r \in Logins |-> {}]
    /\ refused = {} /\ elapsed = [r \in Logins |-> 0]
    /\ promised = [k \in Keys |-> {}] /\ misled = {} /\ orphaned = {}

-----------------------------------------------------------------------------
(***************************************************************************)
(* Dictionaries of time stamps.                                            *)
(***************************************************************************)
Only(store, S) == [k \in S |-> store[k]]
Stamps(store, k) == IF k \in DOMAIN store THEN store[k] ELSE <<>>
Put(store, k, ages) ==
    [j \in DOMAIN store \cup {k} |-> IF j = k THEN ages ELSE store[j]]

\* Mutant: ts >= window_start.
RecentAndEdge(ages, window) ==
    LET old == Cardinality({i \in DOMAIN ages : ages[i] > window}) IN
    SubSeq(ages, old + 1, Len(ages))

\* [ts for ts in bucket if ts > window_start].  Stamps are appended as time
\* goes on, so the old ones, which the filter drops, come first.
Recent(ages, window) ==
    LET old == Cardinality({i \in DOMAIN ages : ages[i] >= window}) IN
    SubSeq(ages, old + 1, Len(ages))

\* The order of Python's lists: the stamps a sort before the stamps b.
SortsBefore(a, b) ==
    \/ \E i \in DOMAIN a \cap DOMAIN b : a[i] > b[i] /\ \A j \in 1..(i - 1) : a[j] = b[j]
    \/ Len(a) < Len(b) /\ \A j \in DOMAIN a : a[j] = b[j]

\* Mutant: one key less than max_keys is kept.
EvictedEarly(store) ==
    IF Cardinality(DOMAIN store) < max_keys THEN {store}
    ELSE {Only(store, S) : S \in {S \in SUBSET DOMAIN store : Cardinality(S) = max_keys - 1}}

\* The first keys in that order go until max_keys remain.  Among equal stamps
\* the order of insertion decides; here, any.
Evicted(store) ==
    IF Cardinality(DOMAIN store) <= max_keys THEN {store}
    ELSE {Only(store, S) : S \in
             {S \in SUBSET DOMAIN store :
                 /\ Cardinality(S) = max_keys
                 /\ \A k \in S, v \in DOMAIN store \ S : ~SortsBefore(store[k], store[v])}}

\* What a store may be after the clean-up.
_maybe_cleanup(store, idle, window) ==
    IF idle < cleanup_interval_seconds THEN {store}
    ELSE Evicted(Only(store, {k \in DOMAIN store : \E i \in DOMAIN store[k] : store[k][i] <= 2 * window}))

\* _last_cleanup after it.
Cleaned(idle) == IF idle < cleanup_interval_seconds THEN idle ELSE 0

-----------------------------------------------------------------------------
(***************************************************************************)
(* A login over the limiters in memory.                                    *)
(***************************************************************************)
Go(r, step, T) ==
    /\ pc' = [pc EXCEPT ![r] = step]
    /\ target' = [target EXCEPT ![r] = T]

\* Mutant: one wrong password too many.
LockedLate(n) == n > max_login_attempts

\* len(recent) >= max_login_attempts, and the same of the Redis counter.
is_locked(n) == n >= max_login_attempts

\* A reset_at: the time left until then, and its slack, the time by which it
\* comes before the end of the window it was read from.
Promise(left, slack) == [left |-> left, slack |-> slack]
Until(p) == p.left + p.slack

\* A refusal breaks a promise that lies back by more than its slack.
Misled(k) == IF \E p \in promised[k] : Until(p) = 0 THEN misled \cup {k} ELSE misled

\* check() refuses: the oldest stamp says until when.
CheckRefuses(r, k) ==
    /\ backend = "memory" /\ pc[r] = "idle"
    /\ \E B \in _maybe_cleanup(buckets, rateIdle, window_seconds) :
           LET live == Recent(Stamps(B, k), window_seconds) IN
           /\ Len(live) >= max_requests
           /\ buckets' = Put(B, k, live)
           /\ promised' = [promised EXCEPT ![k] = {Promise(window_seconds - live[1], 0)}]
    /\ rateIdle' = Cleaned(rateIdle)
    /\ misled' = Misled(k)
    /\ UNCHANGED <<backend, attempts, lockIdle, redisVars, requestVars, orphaned>>

\* check() allows; the login goes on unless the key is locked.
CheckAllows(r, k) ==
    /\ backend = "memory" /\ pc[r] = "idle"
    /\ \E B \in _maybe_cleanup(buckets, rateIdle, window_seconds) :
           LET live == Recent(Stamps(B, k), window_seconds) IN
           /\ Len(live) < max_requests
           /\ buckets' = Put(B, k, Append(live, 0))
    /\ rateIdle' = Cleaned(rateIdle)
    /\ promised' = [promised EXCEPT ![k] = {}]
    /\ IF is_locked(Len(Recent(Stamps(attempts, k), lockout_seconds)))
       THEN UNCHANGED <<pc, target>>
       ELSE Go(r, "authenticate", {k})
    /\ UNCHANGED <<backend, attempts, lockIdle, redisVars, refused, elapsed, misled, orphaned>>

\* authenticate() found no user or a wrong password.
MemoryRecordFailedLogin(r) ==
    /\ backend = "memory" /\ pc[r] = "authenticate"
    /\ \E k \in target[r], A \in _maybe_cleanup(attempts, lockIdle, lockout_seconds) :
           attempts' = Put(A, k, Recent(Append(Stamps(A, k), 0), lockout_seconds))
    /\ lockIdle' = Cleaned(lockIdle)
    /\ Go(r, "idle", {})
    /\ UNCHANGED <<backend, buckets, rateIdle, redisVars, refused, elapsed, history>>

\* The password was right.
MemoryReset(r) ==
    /\ backend = "memory" /\ pc[r] = "authenticate"
    /\ attempts' = Only(attempts, DOMAIN attempts \ target[r])
    /\ Go(r, "idle", {})
    /\ UNCHANGED <<backend, buckets, rateIdle, lockIdle, redisVars, refused, elapsed, history>>

-----------------------------------------------------------------------------
(***************************************************************************)
(* The same over Redis.                                                    *)
(***************************************************************************)
Least(a, b) == IF a < b THEN a ELSE b

\* Mutant: no EXPIRE follows the first INCR.
IncrOnly(r, k) ==
    /\ backend = "redis" /\ pc[r] = "idle"
    /\ hits' = [hits EXCEPT ![k] = Least(hits[k] + 1, max_requests + 1)]
    /\ Go(r, "ttl", {k})
    /\ refused' = IF hits[k] < max_requests THEN refused ELSE refused \cup {r}
    /\ UNCHANGED <<backend, memoryVars, hitsTtl, fails, failsTtl, elapsed, history>>

\* check() reads the clock and sends INCR, which Redis runs some time later.
\* The first of a window sets its TTL next.  Counts above the limit are all
\* alike, and so are delays of a window and more.
incr(r, k) ==
    /\ backend = "redis" /\ pc[r] = "idle"
    /\ hits' = [hits EXCEPT ![k] = Least(hits[k] + 1, max_requests + 1)]
    /\ Go(r, IF hits[k] = 0 THEN "expire" ELSE "ttl", {k})
    /\ IF hits[k] < max_requests
       THEN /\ promised' = [promised EXCEPT ![k] = {}]
            /\ UNCHANGED <<refused, elapsed, misled>>
       ELSE /\ refused' = refused \cup {r}
            /\ \E delay \in 0..window_seconds : elapsed' = [elapsed EXCEPT ![r] = delay]
            /\ misled' = Misled(k)
            /\ UNCHANGED promised
    /\ UNCHANGED <<backend, memoryVars, hitsTtl, fails, failsTtl, orphaned>>

expire(r) ==
    /\ pc[r] = "expire"
    /\ hitsTtl' = [k \in Keys |-> IF k \in target[r] THEN window_seconds ELSE hitsTtl[k]]
    /\ Go(r, "ttl", target[r])
    /\ UNCHANGED <<backend, memoryVars, hits, fails, failsTtl, refused, elapsed, history>>

\* reset_at = now + ttl, where `now` is the time check() read before INCR: it
\* comes before the end of the window by the time elapsed since, or has come
\* already.  Where the key has no TTL, a window from `now` is a guess and no
\* promise.
ResetAt(life, delay) ==
    IF life = 0 THEN {} ELSE {Promise(life - Least(delay, life), Least(delay, life))}

\* TTL, and the verdict on the count INCR returned.
ttl(r) ==
    /\ pc[r] = "ttl"
    /\ \/ /\ r \in refused
          /\ promised' = [k \in Keys |->
                IF k \in target[r] THEN ResetAt(hitsTtl[k], elapsed[r]) ELSE promised[k]]
          /\ refused' = refused \ {r} /\ elapsed' = [elapsed EXCEPT ![r] = 0]
          /\ Go(r, "idle", {})
       \/ /\ r \notin refused
          /\ Go(r, "is_locked", target[r])
          /\ UNCHANGED <<refused, elapsed, promised>>
    /\ UNCHANGED <<backend, memoryVars, redisVars, misled, orphaned>>

\* GET login_failed:{key}.
IsLocked(r) ==
    /\ pc[r] = "is_locked"
    /\ \E k \in target[r] :
           IF is_locked(fails[k]) THEN Go(r, "idle", {}) ELSE Go(r, "authenticate", {k})
    /\ UNCHANGED <<backend, memoryVars, redisVars, refused, elapsed, history>>

\* Mutant: the EXPIRE of the pipeline is missing.
RecordWithoutExpire(r) ==
    /\ backend = "redis" /\ pc[r] = "authenticate"
    /\ fails' = [k \in Keys |-> IF k \in target[r] THEN fails[k] + 1 ELSE fails[k]]
    /\ Go(r, "idle", {})
    /\ UNCHANGED <<backend, memoryVars, hits, hitsTtl, failsTtl, refused, elapsed, history>>

\* One transaction: INCR and EXPIRE NX.
record_failed_login(r) ==
    /\ backend = "redis" /\ pc[r] = "authenticate"
    /\ fails' = [k \in Keys |-> IF k \in target[r] THEN fails[k] + 1 ELSE fails[k]]
    /\ failsTtl' = [k \in Keys |->
           IF k \in target[r] /\ failsTtl[k] = 0 THEN lockout_seconds ELSE failsTtl[k]]
    /\ Go(r, "idle", {})
    /\ UNCHANGED <<backend, memoryVars, hits, hitsTtl, refused, elapsed, history>>

reset(r) ==
    /\ backend = "redis" /\ pc[r] = "authenticate"
    /\ fails' = [k \in Keys |-> IF k \in target[r] THEN 0 ELSE fails[k]]
    /\ failsTtl' = [k \in Keys |-> IF k \in target[r] THEN 0 ELSE failsTtl[k]]
    /\ Go(r, "idle", {})
    /\ UNCHANGED <<backend, memoryVars, hits, hitsTtl, refused, elapsed, history>>

-----------------------------------------------------------------------------
(***************************************************************************)
(* The environment.                                                        *)
(***************************************************************************)

\* The login dies: its process, Redis or the database fails under it.
LoginDies(r) ==
    /\ pc[r] # "idle"
    /\ orphaned' = IF pc[r] = "expire" THEN orphaned \cup target[r] ELSE orphaned
    /\ refused' = refused \ {r} /\ elapsed' = [elapsed EXCEPT ![r] = 0]
    /\ Go(r, "idle", {})
    /\ UNCHANGED <<backend, memoryVars, redisVars, promised, misled>>

Older(store, window) ==
    [k \in DOMAIN store |-> [i \in DOMAIN store[k] |-> Least(store[k][i] + 1, 2 * window + 1)]]
OneLess(n) == IF n > 0 THEN n - 1 ELSE 0

\* reset_at draws nearer, then its slack runs out.
Nearer(p) == IF p.left > 0 THEN Promise(p.left - 1, p.slack) ELSE Promise(0, OneLess(p.slack))

Tick ==
    /\ buckets' = Older(buckets, window_seconds)
    /\ attempts' = Older(attempts, lockout_seconds)
    /\ rateIdle' = Least(rateIdle + 1, cleanup_interval_seconds)
    /\ lockIdle' = Least(lockIdle + 1, cleanup_interval_seconds)
    /\ hits' = [k \in Keys |-> IF hitsTtl[k] = 1 THEN 0 ELSE hits[k]]
    /\ hitsTtl' = [k \in Keys |-> OneLess(hitsTtl[k])]
    /\ fails' = [k \in Keys |-> IF failsTtl[k] = 1 THEN 0 ELSE fails[k]]
    /\ failsTtl' = [k \in Keys |-> OneLess(failsTtl[k])]
    /\ elapsed' = [r \in Logins |-> IF r \in refused THEN Least(elapsed[r] + 1, window_seconds) ELSE 0]
    /\ promised' = [k \in Keys |-> {Nearer(p) : p \in promised[k]}]
    /\ UNCHANGED <<backend, pc, target, refused, misled, orphaned>>

\* What a request goes on with once it has begun.
Continue(r) ==
    \/ MemoryRecordFailedLogin(r) \/ MemoryReset(r)
    \/ expire(r) \/ ttl(r) \/ IsLocked(r) \/ record_failed_login(r) \/ reset(r)

ThrottleNext ==
    \/ \E r \in Logins, k \in Keys : CheckRefuses(r, k) \/ CheckAllows(r, k) \/ incr(r, k)
    \/ \E r \in Logins : Continue(r) \/ LoginDies(r)
    \/ Tick

\* Time passes, and a request that owes an EXPIRE sends it or dies.
Fairness ==
    /\ WF_throttleVars(Tick)
    /\ \A r \in Logins : WF_throttleVars(expire(r) \/ (pc[r] = "expire" /\ LoginDies(r)))

ThrottleSpec == ThrottleInit /\ [][ThrottleNext]_throttleVars /\ Fairness

-----------------------------------------------------------------------------
(***************************************************************************)
(* Properties.                                                             *)
(***************************************************************************)
StoreOK(store, window) ==
    /\ DOMAIN store \subseteq Keys
    /\ \A k \in DOMAIN store :
          /\ store[k] \in Seq(0..(2 * window + 1))
          /\ \A i, j \in DOMAIN store[k] : i < j => store[k][i] >= store[k][j]

\* The variables have the shapes the code gives them; stamps stay sorted, so
\* the first of a list is its minimum; only the back end in use holds data;
\* a counter without a life is one whose EXPIRE is to come or was lost; and a
\* reset_at from the limiter in memory has no slack.
ThrottleTypeOK ==
    /\ StoreOK(buckets, window_seconds) /\ StoreOK(attempts, lockout_seconds)
    /\ {rateIdle, lockIdle} \subseteq 0..cleanup_interval_seconds
    /\ hits \in [Keys -> 0..(max_requests + 1)] /\ hitsTtl \in [Keys -> 0..window_seconds]
    /\ fails \in [Keys -> Nat] /\ failsTtl \in [Keys -> 0..lockout_seconds]
    /\ pc \in [Logins -> {"idle", "expire", "ttl", "is_locked", "authenticate"}]
    /\ target \in [Logins -> SUBSET Keys]
    /\ \A r \in Logins : Cardinality(target[r]) = (IF pc[r] = "idle" THEN 0 ELSE 1)
    /\ refused \subseteq {r \in Logins : pc[r] = "ttl"}
    /\ elapsed \in [Logins -> 0..window_seconds] /\ \A r \in Logins \ refused : elapsed[r] = 0
    /\ promised \in [Keys -> SUBSET [left : 0..window_seconds, slack : 0..window_seconds]]
    /\ misled \cup orphaned \subseteq Keys
    /\ backend = "memory" => \A k \in Keys : hits[k] = 0 /\ fails[k] = 0 /\ \A p \in promised[k] : p.slack = 0
    /\ backend = "redis" => buckets = Empty /\ attempts = Empty
    /\ \A k \in Keys : fails[k] > 0 <=> failsTtl[k] > 0
    /\ \A k \in Keys : hitsTtl[k] = 0 /\ hits[k] > 0 =>
          k \in orphaned \/ \E r \in Logins : pc[r] = "expire" /\ k \in target[r]

\* The failures counted against a key.
Failures(k) ==
    IF backend = "memory" THEN Len(Recent(Stamps(attempts, k), lockout_seconds)) ELSE fails[k]

\* The lockout bounds guessing: is_locked is read before the password check
\* and written after it, so logins in flight overshoot the limit, each by one
\* and no more.
GuessBound ==
    \A k \in Keys : Failures(k) < max_login_attempts + Cardinality(Logins)

\* reset_at is honest up to its slack.  In memory there is none: a client that
\* comes back once reset_at has come, and before anyone else with its key was
\* let in, is let in.  On Redis reset_at is early by the time check() took
\* from reading the clock to reading the TTL, and no earlier: a client that
\* allows for that time is let in.  A reset_at given for a key without a TTL
\* is not covered.
RefusalIsHonest == misled = {}

\* The clean-up forgets a key that still counts only to make room: when more
\* than max_keys keys are younger than twice the window.
Young(store, window) == {k \in DOMAIN store : \E i \in DOMAIN store[k] : store[k][i] <= 2 * window}
Counting(store, window) == {k \in DOMAIN store : Recent(store[k], window) # <<>>}
CleanupSparesCounting ==
    [][/\ Counting(buckets, window_seconds) \subseteq DOMAIN buckets'
             \/ Cardinality(Young(buckets, window_seconds)) > max_keys
       /\ Counting(attempts, lockout_seconds) \subseteq DOMAIN attempts' \cup UNION {target[r] : r \in Logins}
             \/ Cardinality(Young(attempts, lockout_seconds)) > max_keys]_throttleVars

Limited(k) == hits[k] >= max_requests \/ Len(Recent(Stamps(buckets, k), window_seconds)) >= max_requests

\* Nobody is shut out for good: a key at its limit or locked out is admitted
\* again in the end, unless its EXPIRE was lost.
Relents ==
    /\ \A k \in Keys : []<>(~Limited(k) \/ k \in orphaned)
    /\ \A k \in Keys : []<>(~is_locked(Failures(k)))
=============================================================================
