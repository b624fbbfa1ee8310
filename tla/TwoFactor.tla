----------------------------- MODULE TwoFactor -----------------------------
(***************************************************************************)
(* The second step of signing in to one account.  A correct password       *)
(* leaves a challenge in the cache; a request presents the challenge with  *)
(* a code and, if the code is right, gets the session.  Challenge, account *)
(* row and registry of used codes are read and written one await at a      *)
(* time, and the cache has neither transactions nor versions.              *)
(*                                                                         *)
(* Time runs in TOTP steps of 30 seconds, and the TOTP codes are the steps *)
(* they belong to.  A time-to-live counts steps down, and an entry with    *)
(* none left is gone.  Nothing else writes the account row here, so its    *)
(* version is the set of backup codes spent; that the account is deleted   *)
(* or locked may turn out whenever it is loaded.                           *)
(***************************************************************************)
EXTENDS Naturals

CONSTANTS
    Requests,      \* concurrent requests
    Challenges,    \* challenge tokens
    Totp,          \* TOTP codes: the time steps they are generated for
    Backup,        \* backup codes of the account
    Wrong,         \* a code that matches nothing
    MAX_ATTEMPTS,  \* wrong codes that burn a challenge
    CHALLENGE_TTL, \* CHALLENGE_TTL_SECONDS, in steps
    CODE_MEMORY,   \* CODE_MEMORY_SECONDS, in steps
    None,          \* no challenge, no request
    MaxClock       \* bound: time steps

ASSUME TwoFactorAssumption ==
    /\ Totp \subseteq Nat \ {0} /\ Totp \cap Backup = {}
    /\ Wrong \notin Totp \cup Backup \cup Challenges
    /\ None \notin Requests \cup Challenges
    /\ MAX_ATTEMPTS \in Nat \ {0}
    /\ CHALLENGE_TTL \in Nat \ {0} /\ CODE_MEMORY \in Nat /\ MaxClock \in Nat

Codes == Totp \cup Backup

VARIABLES
    clock,      \* the current time step
    ttl,        \* pending_2fa: steps the entry of each challenge has left
    attempts,   \* pending_2fa: wrong codes that entry counts
    memory,     \* used_2fa_code: steps the entry of each code has left
    spent,      \* backup codes removed from the account row
    writer,     \* the request that holds the lock of the account row
    pc,         \* per request: where it stands
    challenge,  \* per request: the challenge it presents
    code,       \* per request: the code it presents
    seen,       \* per request: the wrong codes it read with the challenge
    known,      \* per request: backup codes spent in its copy of the row
    issued,     \* challenges handed out
    wrong,      \* per challenge: codes refused, counted to one past the limit
    completed,  \* per challenge: sessions it became, counted to two
    accepted,   \* per code: sessions it earned, counted to two
    contested   \* challenges and codes two requests presented at a time

cacheVars   == <<ttl, attempts, memory>>
rowVars     == <<spent, writer>>
requestVars == <<challenge, code, seen, known>>
history     == <<issued, wrong, completed, accepted, contested>>
vars        == <<clock, cacheVars, rowVars, pc, requestVars, history>>

Init ==
    /\ clock = 0
    /\ spent = {} /\ issued = {} /\ contested = {}
    /\ attempts = [h \in Challenges |-> 0]
    /\ ttl = [h \in Challenges |-> 0]
    /\ memory = [c \in Codes |-> 0]
    /\ writer = None
    /\ pc = [r \in Requests |-> "idle"]
    /\ challenge = [r \in Requests |-> None]
    /\ code = [r \in Requests |-> Wrong]
    /\ seen = [r \in Requests |-> 0]
    /\ known = [r \in Requests |-> {}]
    /\ wrong = [h \in Challenges |-> 0]
    /\ completed = [h \in Challenges |-> 0]
    /\ accepted = [c \in Codes |-> 0]

-----------------------------------------------------------------------------
(***************************************************************************)
(* The cache and the aggregate.                                            *)
(***************************************************************************)
Present(h) == ttl[h] > 0

\* SET with a time-to-live: the entry of h counts n wrong codes from now on.
Put(h, n) ==
    /\ attempts' = [attempts EXCEPT ![h] = n]
    /\ ttl' = [ttl EXCEPT ![h] = CHALLENGE_TTL]

\* Mutant: the entry is not deleted.
KeepEntry(h) == UNCHANGED <<attempts, ttl>>

discard(h) ==
    /\ attempts' = [attempts EXCEPT ![h] = 0]
    /\ ttl' = [ttl EXCEPT ![h] = 0]

\* One more, counted to a limit.
CountTo(n, limit) == IF n < limit THEN n + 1 ELSE n

\* Mutant: one wrong code too many.
ExhaustedLate(n) == n > MAX_ATTEMPTS

is_exhausted(n) == n >= MAX_ATTEMPTS

was_used(c) == c \in Codes /\ memory[c] > 0

\* Mutant: valid_window = 2.
VerifyWideWindow(c) == c \in Totp /\ c <= clock + 2 /\ clock <= c + 2

\* valid_window = 1: the steps next to the code's own are tolerated.
verify_code(c) == c \in Totp /\ c <= clock + 1 /\ clock <= c + 1

verify_two_factor(r) == verify_code(code[r]) \/ code[r] \in Backup \ known[r]

-----------------------------------------------------------------------------
(***************************************************************************)
(* The requests.                                                           *)
(***************************************************************************)

\* The password was right: LoginUseCase stores a fresh challenge.
issue(h) ==
    /\ h \notin issued
    /\ Put(h, 0)
    /\ issued' = issued \cup {h}
    /\ UNCHANGED <<clock, memory, rowVars, pc, requestVars, wrong, completed, accepted, contested>>

\* What r presents while another request is presenting it.
Contested(r, h, c) ==
    {x \in {h, c} : \E q \in Requests \ {r} : x \in {challenge[q], code[q]}}

Enter(r, h, c, n) ==
    /\ pc[r] = "idle"
    /\ pc' = [pc EXCEPT ![r] = "read"]
    /\ challenge' = [challenge EXCEPT ![r] = h]
    /\ code' = [code EXCEPT ![r] = c]
    /\ seen' = [seen EXCEPT ![r] = n]
    /\ contested' = contested \cup (Contested(r, h, c) \ {Wrong})
    /\ UNCHANGED <<clock, cacheVars, rowVars, known, issued, wrong, completed, accepted>>

\* Mutant: a missing entry is read as a challenge without wrong codes.
ReadMissing(r, h, c) ==
    /\ h \in issued
    /\ Enter(r, h, c, IF Present(h) THEN attempts[h] ELSE 0)

\* Without an entry the request ends at once.
read(r, h, c) == Present(h) /\ Enter(r, h, c, attempts[h])

\* The request is over: with it go its row lock and what it knew.
Done(r) ==
    /\ pc' = [pc EXCEPT ![r] = "idle"]
    /\ challenge' = [challenge EXCEPT ![r] = None]
    /\ code' = [code EXCEPT ![r] = Wrong]
    /\ seen' = [seen EXCEPT ![r] = 0]
    /\ known' = [known EXCEPT ![r] = {}]
    /\ writer' = IF writer = r THEN None ELSE writer

acquire_by_id(r) ==
    /\ pc[r] = "read"
    /\ pc' = [pc EXCEPT ![r] = "loaded"]
    /\ known' = [known EXCEPT ![r] = spent]
    /\ UNCHANGED <<clock, cacheVars, rowVars, challenge, code, seen, history>>

\* A deleted or locked account: the challenge is thrown away.
AccountGone(r) ==
    /\ pc[r] = "read"
    /\ discard(challenge[r])
    /\ Done(r)
    /\ UNCHANGED <<clock, memory, spent, history>>

Goto(r, label) ==
    /\ pc' = [pc EXCEPT ![r] = label]
    /\ UNCHANGED <<clock, cacheVars, rowVars, requestVars, history>>

\* A backup code has to be taken off the row; a TOTP code leaves it alone.
Verified(r) ==
    /\ pc[r] = "loaded" /\ ~was_used(code[r]) /\ verify_two_factor(r)
    /\ Goto(r, IF verify_code(code[r]) THEN "remember" ELSE "update")

Refused(r) ==
    /\ pc[r] = "loaded" /\ (was_used(code[r]) \/ ~verify_two_factor(r))
    /\ Goto(r, "failing")

\* The count read with the challenge, plus one: written back or, when that
\* exhausts it, the challenge thrown away.
record_failure(r) ==
    LET h == challenge[r]
        n == seen[r] + 1
    IN  /\ pc[r] = "failing"
        /\ \/ is_exhausted(n) /\ discard(h)
           \/ ~is_exhausted(n) /\ Put(h, n)
        /\ wrong' = [wrong EXCEPT ![h] = CountTo(@, MAX_ATTEMPTS + 1)]
        /\ Done(r)
        /\ UNCHANGED <<clock, memory, spent, issued, completed, accepted, contested>>

\* UPDATE ... WHERE version: waits for the row lock and keeps it.
update(r) ==
    /\ pc[r] = "update" /\ writer = None /\ known[r] = spent
    /\ pc' = [pc EXCEPT ![r] = "remember"]
    /\ writer' = r
    /\ UNCHANGED <<clock, cacheVars, spent, requestVars, history>>

remember(r) ==
    /\ pc[r] = "remember"
    /\ memory' = [memory EXCEPT ![code[r]] = CODE_MEMORY]
    /\ pc' = [pc EXCEPT ![r] = "discard"]
    /\ UNCHANGED <<clock, ttl, attempts, rowVars, requestVars, history>>

DiscardUsed(r) ==
    /\ pc[r] = "discard"
    /\ discard(challenge[r])
    /\ pc' = [pc EXCEPT ![r] = "commit"]
    /\ UNCHANGED <<clock, memory, rowVars, requestVars, history>>

\* The session is added and the transaction commits.
commit(r) ==
    /\ pc[r] = "commit"
    /\ spent' = IF writer = r THEN spent \cup {code[r]} ELSE spent
    /\ completed' = [completed EXCEPT ![challenge[r]] = CountTo(@, 2)]
    /\ accepted' = [accepted EXCEPT ![code[r]] = CountTo(@, 2)]
    /\ Done(r)
    /\ UNCHANGED <<clock, cacheVars, issued, wrong, contested>>

\* A lost version check, an error, a dead process: the transaction is gone,
\* what the cache was told stays.
Rollback(r) ==
    /\ pc[r] # "idle"
    /\ Done(r)
    /\ UNCHANGED <<clock, cacheVars, spent, history>>

OneLess(left) == [x \in DOMAIN left |-> IF left[x] > 0 THEN left[x] - 1 ELSE 0]

Tick ==
    /\ clock < MaxClock
    /\ clock' = clock + 1
    /\ ttl' = OneLess(ttl)
    /\ attempts' = [h \in Challenges |-> IF ttl[h] > 1 THEN attempts[h] ELSE 0]
    /\ memory' = OneLess(memory)
    /\ UNCHANGED <<rowVars, pc, requestVars, issued, wrong, completed, accepted, contested>>

RequestNext(r) ==
    \/ \E h \in Challenges, c \in Codes \cup {Wrong} : read(r, h, c)
    \/ acquire_by_id(r) \/ AccountGone(r)
    \/ Verified(r) \/ Refused(r) \/ record_failure(r)
    \/ update(r) \/ remember(r) \/ DiscardUsed(r) \/ commit(r) \/ Rollback(r)

Next ==
    \/ \E h \in Challenges : issue(h)
    \/ \E r \in Requests : RequestNext(r)
    \/ Tick

Spec == Init /\ [][Next]_vars

-----------------------------------------------------------------------------
(***************************************************************************)
(* Properties.                                                             *)
(***************************************************************************)

\* The variables have the shapes the code gives them: an entry in the cache
\* never counts as many wrong codes as burn it.
TypeOK ==
    /\ clock \in 0..MaxClock
    /\ issued \subseteq Challenges /\ \A h \in Challenges \ issued : ttl[h] = 0
    /\ ttl \in [Challenges -> 0..CHALLENGE_TTL]
    /\ attempts \in [Challenges -> 0..(MAX_ATTEMPTS - 1)]
    /\ memory \in [Codes -> 0..CODE_MEMORY]
    /\ spent \subseteq Backup /\ writer \in Requests \cup {None}
    /\ pc \in [Requests -> {"idle", "read", "loaded", "failing", "update",
                            "remember", "discard", "commit"}]
    /\ challenge \in [Requests -> issued \cup {None}]
    /\ code \in [Requests -> Codes \cup {Wrong}]
    /\ seen \in [Requests -> 0..(MAX_ATTEMPTS - 1)]
    /\ known \in [Requests -> SUBSET Backup]
    /\ wrong \in [Challenges -> 0..(MAX_ATTEMPTS + 1)]
    /\ completed \in [Challenges -> 0..2] /\ accepted \in [Codes -> 0..2]
    /\ contested \subseteq Challenges \cup Codes

InFlight(h) == \E r \in Requests : challenge[r] = h

\* A challenge no two requests presented at a time is what the documentation
\* says of every challenge: it becomes one session at most, takes at most
\* MAX_ATTEMPTS wrong codes, and is gone after either.  A backup code earns
\* one session at most whatever overlaps and whatever the cache forgets: the
\* row's version decides.
SerialChallenge ==
    /\ \A h \in issued \ contested :
          /\ completed[h] <= 1 /\ wrong[h] <= MAX_ATTEMPTS
          /\ completed[h] = 1 \/ wrong[h] = MAX_ATTEMPTS => ~Present(h)
    /\ \A c \in Backup : accepted[c] <= 1

\* The memory of used codes outlasts the window in which a code verifies: a
\* TOTP code no two requests presented at a time earns one session at most,
\* over all challenges.
SerialCode == \A c \in Totp \ contested : accepted[c] <= 1

\* A challenge that is gone, by use, exhaustion or age, comes back only
\* through a request that had read it before: without one it becomes no
\* session and takes no more guesses.
GoneStaysGone ==
    [][\A h \in issued : ~Present(h) /\ ~InFlight(h) =>
          /\ ~Present(h)' /\ ~InFlight(h)'
          /\ completed'[h] = completed[h] /\ wrong'[h] = wrong[h]]_vars
=============================================================================
