------------------------------ MODULE Sessions ------------------------------
(***************************************************************************)
(* The sessions of one account and their rotating refresh tokens.  Every   *)
(* request loads a session with all its tokens, computes a new aggregate   *)
(* and writes the session and each token it loaded back unconditionally:   *)
(* there is no version column here.  A write starts by updating the        *)
(* session row and holds that row lock until COMMIT, so it is one step.    *)
(*                                                                         *)
(* A session or token expires when the clock says so.  Whether the account *)
(* still exists and is not locked is the environment's: it makes a refresh *)
(* roll back.                                                              *)
(***************************************************************************)
EXTENDS Naturals, FiniteSets

CONSTANTS
    Sessions, \* session ids
    Tokens,   \* refresh tokens
    Requests  \* concurrent requests

VARIABLES
    table,      \* sessions: the rows present
    revoked,    \* rows with is_revoked
    expired,    \* rows whose expires_at has passed
    family,     \* refresh_tokens: the rows of each session
    dead,       \* token rows with is_revoked
    stale,      \* token rows whose expires_at has passed
    pc,         \* per request: where it stands
    presented,  \* per request: the token it presents, as a set
    held,       \* per request: the sessions it has loaded
    seen,       \* per request: the tokens it has loaded
    seenDead,   \* per request: those it loaded with is_revoked
    issued,     \* tokens handed to a client
    started,    \* sessions ever started
    exchanged,  \* tokens a client has exchanged for a new one
    ended,      \* sessions ever revoked
    replayed,   \* sessions for which an exchanged token was presented again
    overlapped  \* sessions two requests have held at the same time

rowVars     == <<table, revoked, expired, family, dead, stale>>
requestVars == <<pc, presented, held, seen, seenDead>>
clientVars  == <<issued, started, exchanged, ended, replayed, overlapped>>
vars        == <<rowVars, requestVars, clientVars>>

Init ==
    /\ table = {} /\ revoked = {} /\ expired = {} /\ dead = {} /\ stale = {}
    /\ family = [s \in Sessions |-> {}]
    /\ pc = [r \in Requests |-> "idle"]
    /\ presented = [r \in Requests |-> {}]
    /\ held = [r \in Requests |-> {}]
    /\ seen = [r \in Requests |-> {}]
    /\ seenDead = [r \in Requests |-> {}]
    /\ issued = {} /\ started = {} /\ exchanged = {} /\ ended = {}
    /\ replayed = {} /\ overlapped = {}

-----------------------------------------------------------------------------
(***************************************************************************)
(* The repository.                                                         *)
(***************************************************************************)

\* Every token row of the sessions S.
_refresh_tokens_for(S) == UNION {family[s] : s \in S}

\* The request now holds the sessions S with their tokens, as kind k.
Hold(r, k, S) ==
    /\ pc' = [pc EXCEPT ![r] = k]
    /\ held' = [held EXCEPT ![r] = S]
    /\ seen' = [seen EXCEPT ![r] = _refresh_tokens_for(S)]
    /\ seenDead' = [seenDead EXCEPT ![r] = _refresh_tokens_for(S) \cap dead]
    /\ overlapped' = overlapped \cup (S \cap UNION {held[q] : q \in Requests \ {r}})

Done(r) ==
    /\ pc' = [pc EXCEPT ![r] = "idle"]
    /\ presented' = [presented EXCEPT ![r] = {}]
    /\ held' = [held EXCEPT ![r] = {}]
    /\ seen' = [seen EXCEPT ![r] = {}]
    /\ seenDead' = [seenDead EXCEPT ![r] = {}]

\* Mutant: no foreign key from refresh_tokens to sessions.
UpdateWithoutForeignKey(r, T, D) == dead' = (dead \ T) \cup D

\* Upsert the tokens T a request loaded, the ones in D with is_revoked set.
\* Without its session row a token cannot be inserted: the write fails.
update(r, T, D) ==
    /\ held[r] \subseteq table
    /\ dead' = (dead \ T) \cup D

-----------------------------------------------------------------------------
(***************************************************************************)
(* The requests.                                                           *)
(***************************************************************************)

\* A login adds a session with its first token.
start_session(s, t) ==
    /\ s \notin started /\ t \notin issued
    /\ table' = table \cup {s}
    /\ family' = [family EXCEPT ![s] = {t}]
    /\ started' = started \cup {s}
    /\ issued' = issued \cup {t}
    /\ UNCHANGED <<revoked, expired, dead, stale, requestVars, exchanged, ended, replayed, overlapped>>

\* The sessions in which presenting the token t again is a replay.
ReplayedIn(t) == {s \in table : t \in family[s] \cap exchanged}

\* acquire_by_token_hash, first statement: the row of a token that is not
\* revoked.
FindToken(r, t) ==
    /\ pc[r] = "idle" /\ t \in _refresh_tokens_for(table) \ dead
    /\ pc' = [pc EXCEPT ![r] = "found"]
    /\ presented' = [presented EXCEPT ![r] = {t}]
    /\ UNCHANGED <<rowVars, held, seen, seenDead, clientVars>>

\* The same with no such row: InvalidCredentialsError, nothing is written.
TokenNotFound(t) ==
    /\ t \in issued \ (_refresh_tokens_for(table) \ dead)
    /\ replayed' = replayed \cup ReplayedIn(t)
    /\ UNCHANGED <<rowVars, requestVars, issued, started, exchanged, ended, overlapped>>

\* The session of the presented token.
Owner(r) == {s \in table : presented[r] \subseteq family[s]}

\* find_valid_refresh_token, over the tokens loaded with the session: it finds
\* the presented one, revoked or not, and looks at its validity.
find_valid_refresh_token(r) == presented[r] \cap (dead \cup stale) = {}

\* Mutant: the session's is_revoked is not looked at.
LoadRevokedToo(r) ==
    /\ pc[r] = "found"
    /\ Owner(r) # {} /\ Owner(r) \cap expired = {}
    /\ find_valid_refresh_token(r)
    /\ Hold(r, "refresh", Owner(r))
    /\ UNCHANGED <<rowVars, presented, issued, started, exchanged, ended, replayed>>

\* Mutant: the loaded token's validity is not checked again.
LoadWithoutValidity(r) ==
    /\ pc[r] = "found"
    /\ Owner(r) # {} /\ Owner(r) \cap (revoked \cup expired) = {}
    /\ Hold(r, "refresh", Owner(r))
    /\ UNCHANGED <<rowVars, presented, issued, started, exchanged, ended, replayed>>

\* Second and third statement: the session, if not revoked, and its tokens.
\* The session must not have expired, and the token still be valid.
LoadSession(r) ==
    /\ pc[r] = "found"
    /\ Owner(r) # {} /\ Owner(r) \cap (revoked \cup expired) = {}
    /\ find_valid_refresh_token(r)
    /\ Hold(r, "refresh", Owner(r))
    /\ UNCHANGED <<rowVars, presented, issued, started, exchanged, ended, replayed>>

\* The token was revoked since the first statement, or has expired: the
\* session is revoked in a transaction that the error then rolls back.
RefreshTokenReuseError(r) ==
    /\ pc[r] = "found"
    /\ Owner(r) # {} /\ Owner(r) \cap (revoked \cup expired) = {}
    /\ ~find_valid_refresh_token(r)
    /\ replayed' = replayed \cup UNION {ReplayedIn(t) : t \in presented[r]}
    /\ Done(r)
    /\ UNCHANGED <<rowVars, issued, started, exchanged, ended, overlapped>>

\* The presented token is revoked, a new one added, the session extended and
\* all of it written back as loaded: is_revoked = false included.
refresh_session(r, t) ==
    /\ pc[r] = "refresh" /\ t \notin issued
    /\ update(r, seen[r], seenDead[r] \cup presented[r])
    /\ family' = [s \in Sessions |-> IF s \in held[r] THEN family[s] \cup {t} ELSE family[s]]
    /\ revoked' = revoked \ held[r]
    /\ expired' = expired \ held[r]
    /\ issued' = issued \cup {t}
    /\ exchanged' = exchanged \cup presented[r]
    /\ Done(r)
    /\ UNCHANGED <<table, stale, started, ended, replayed, overlapped>>

\* DELETE /sessions/{id}: revoked or expired, the session is loaded.
LoadForRevoke(r, s) ==
    /\ pc[r] = "idle" /\ s \in table
    /\ Hold(r, "revoke", {s})
    /\ UNCHANGED <<rowVars, presented, issued, started, exchanged, ended, replayed>>

\* revoke_all_sessions: the account's sessions that are not yet revoked.
acquire_by_user_id(r) ==
    /\ pc[r] = "idle" /\ table \ revoked # {}
    /\ Hold(r, "revoke", table \ revoked)
    /\ UNCHANGED <<rowVars, presented, issued, started, exchanged, ended, replayed>>

\* session.revoke() of each, and the write: every token loaded is revoked.
revoke(r) ==
    /\ pc[r] = "revoke"
    /\ update(r, seen[r], seen[r])
    /\ revoked' = revoked \cup held[r]
    /\ ended' = ended \cup held[r]
    /\ Done(r)
    /\ UNCHANGED <<table, expired, family, stale, issued, started, exchanged, replayed, overlapped>>

\* Any other end: an expired or missing session, a deleted or locked account,
\* a foreign-key error, a deadlock victim, a dead process.
Rollback(r) ==
    /\ pc[r] # "idle"
    /\ Done(r)
    /\ UNCHANGED <<rowVars, clientVars>>

-----------------------------------------------------------------------------
(***************************************************************************)
(* The clock and the maintenance worker.                                   *)
(***************************************************************************)
SessionExpires(s) ==
    /\ s \in table \ expired
    /\ expired' = expired \cup {s}
    /\ UNCHANGED <<table, revoked, family, dead, stale, requestVars, clientVars>>

TokenExpires(t) ==
    /\ t \in _refresh_tokens_for(table) \ stale
    /\ stale' = stale \cup {t}
    /\ UNCHANGED <<table, revoked, expired, family, dead, requestVars, clientVars>>

\* Sessions past their grace period go, and their tokens with them.
_purge_expired_sessions(S) ==
    /\ S # {} /\ S \subseteq table \cap expired
    /\ table' = table \ S
    /\ revoked' = revoked \ S
    /\ expired' = expired \ S
    /\ family' = [s \in Sessions |-> IF s \in S THEN {} ELSE family[s]]
    /\ dead' = dead \ _refresh_tokens_for(S)
    /\ stale' = stale \ _refresh_tokens_for(S)
    /\ UNCHANGED <<requestVars, clientVars>>

RequestNext(r) ==
    \/ \E t \in Tokens : FindToken(r, t) \/ refresh_session(r, t)
    \/ LoadSession(r) \/ RefreshTokenReuseError(r)
    \/ \E s \in Sessions : LoadForRevoke(r, s)
    \/ acquire_by_user_id(r) \/ revoke(r) \/ Rollback(r)

Next ==
    \/ \E s \in Sessions, t \in Tokens : start_session(s, t)
    \/ \E t \in Tokens : TokenNotFound(t) \/ TokenExpires(t)
    \/ \E r \in Requests : RequestNext(r)
    \/ \E s \in Sessions : SessionExpires(s)
    \/ \E S \in SUBSET Sessions : _purge_expired_sessions(S)

Spec == Init /\ [][Next]_vars

-----------------------------------------------------------------------------
(***************************************************************************)
(* Properties.                                                             *)
(***************************************************************************)

\* The variables have the shapes the code gives them, and the foreign keys
\* of the tables hold.
TypeOK ==
    /\ revoked \cup expired \subseteq table /\ table \subseteq started
    /\ started \subseteq Sessions
    /\ family \in [Sessions -> SUBSET issued] /\ issued \subseteq Tokens
    /\ \A s \in Sessions \ table : family[s] = {}
    /\ dead \cup stale \subseteq _refresh_tokens_for(table)
    /\ pc \in [Requests -> {"idle", "found", "refresh", "revoke"}]
    /\ presented \in [Requests -> SUBSET issued]
    /\ held \in [Requests -> SUBSET started]
    /\ seen \in [Requests -> SUBSET issued]
    /\ seenDead \in [Requests -> SUBSET issued]
    /\ exchanged \subseteq issued
    /\ ended \cup replayed \cup overlapped \subseteq started

\* Some refresh has loaded the session and has not yet written it.
Refreshing(s) == \E r \in Requests : pc[r] = "refresh" /\ s \in held[r]

\* A revocation is final once no refresh that began before it is in flight:
\* from then on the session is never loaded for a refresh, gains no token,
\* and stays revoked until it is purged.
RevocationSettles ==
    [][\A s \in revoked : ~Refreshing(s) =>
          /\ ~Refreshing(s)'
          /\ family'[s] \subseteq family[s]
          /\ s \in revoked' \cup (Sessions \ table')]_vars

\* Rotation.  While no two requests hold a session at the same time, it has
\* one live token at most and no token that was exchanged is accepted again;
\* and however refreshes interleave, no client loses its token to another's:
\* a token of a session nobody has revoked is dead only if it was exchanged.
SerialRotation ==
    /\ \A s \in table \ overlapped :
          /\ Cardinality(family[s] \ dead) <= 1
          /\ family[s] \cap exchanged \subseteq dead
          /\ s \in revoked => family[s] \subseteq dead
    /\ \A s \in table \ ended : family[s] \cap dead \subseteq exchanged

\* CHANGELOG.md: "replaying one that was already exchanged revokes the
\* session".
ReplayRevokes == replayed \cap table \subseteq revoked
=============================================================================
