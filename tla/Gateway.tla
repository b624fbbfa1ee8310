------------------------------ MODULE Gateway -------------------------------
(***************************************************************************)
(* The service as resource server of the tokens Hydra issues: the          *)
(* introspection cache in front of every API call, the scope guards, the   *)
(* routes behind them, and revoke-all, which revokes here and at Hydra.    *)
(*                                                                         *)
(* Where a token comes from is Bridge's matter; its scopes are those its   *)
(* client asked for.  Bearers that are not a user's access token are       *)
(* refused on every path and are left out, and so are the columns that     *)
(* Accounts, TwoFactor and Registration model.  Hydra is external.         *)
(***************************************************************************)
EXTENDS Naturals

CONSTANTS
    Users, Tokens, Sessions, Requests,
    subject,   \* per token: its user
    scope,     \* per token: the scopes granted
    introspection_cache_ttl_seconds,
    introspection_negative_cache_ttl_seconds

SCOPE_PROFILE == "profile"
SCOPE_ACCOUNT_WRITE == "account:write"
SCOPE_SESSIONS_WRITE == "sessions:write"
Scopes == {SCOPE_PROFILE, SCOPE_ACCOUNT_WRITE, SCOPE_SESSIONS_WRITE}

ASSUME GatewayAssumption ==
    /\ subject \in [Tokens -> Users] /\ scope \in [Tokens -> SUBSET Scopes]
    /\ Sessions \cap Tokens = {}
    /\ introspection_cache_ttl_seconds \in Nat \ {0}
    /\ introspection_negative_cache_ttl_seconds \in Nat \ {0}

VARIABLES
    deleted,     \* accounts with deleted_at
    owner,       \* per session: its user, as a set; {} before it is created
    revoked,     \* sessions with is_revoked
    refreshing,  \* sessions that a refresh has loaded and not yet written
    active,      \* Hydra: the tokens it reports as active
    ended,       \* Hydra: the tokens that were, and are so no more
    remembered,  \* Hydra: subjects with a login session
    cache,       \* hydra:introspect:{token}: the answer and its remaining life
    req,         \* per request: where it stands
    swept        \* what revoke-alls that succeeded have put an end to

appVars   == <<deleted, owner, revoked, refreshing>>
hydraVars == <<active, ended, remembered>>
vars      == <<appVars, hydraVars, cache, req, swept>>

AtMostOne(S) == {{}} \cup {{x} : x \in S}
Idle == [pc |-> "idle", token |-> {}, answer |-> FALSE, seen |-> {}]
NoEntry == [life |-> 0, answer |-> FALSE]

Init ==
    /\ deleted = {} /\ owner = [s \in Sessions |-> {}] /\ revoked = {} /\ refreshing = {}
    /\ active = {} /\ ended = {} /\ remembered = {}
    /\ cache = [t \in Tokens |-> NoEntry]
    /\ req = [r \in Requests |-> Idle] /\ swept = {}

-----------------------------------------------------------------------------
(***************************************************************************)
(* Logins, tokens and time.                                                *)
(***************************************************************************)

Unused == {s \in Sessions : owner[s] = {}}

\* A login, on any path, creates a session; which uuid4 it draws is all one.
login(u) ==
    /\ u \notin deleted /\ Unused # {}
    /\ LET s == CHOOSE x \in Unused : TRUE IN owner' = [owner EXCEPT ![s] = {u}]
    /\ UNCHANGED <<deleted, revoked, refreshing, hydraVars, cache, req, swept>>

\* A refresh loads its session, by one of its refresh tokens, and its user.
\* One that will be refused, for its token or its user, changes nothing.
acquire_by_token_hash(s) ==
    /\ owner[s] # {} /\ owner[s] \cap deleted = {} /\ s \notin revoked
    /\ refreshing' = refreshing \cup {s}
    /\ UNCHANGED <<deleted, owner, revoked, hydraVars, cache, req, swept>>

\* It writes the whole row back as it was loaded, is_revoked = FALSE included,
\* and commits.  Another refresh of the session may still be under way.
refresh_session(s) ==
    /\ s \in refreshing
    /\ revoked' = revoked \ {s}
    /\ refreshing' \in {refreshing, refreshing \ {s}}
    /\ UNCHANGED <<deleted, owner, hydraVars, cache, req, swept>>

\* The refresh dies before its commit.
RefreshFails(s) ==
    /\ s \in refreshing
    /\ refreshing' = refreshing \ {s}
    /\ UNCHANGED <<deleted, owner, revoked, hydraVars, cache, req, swept>>

\* At the end of an authorization Hydra issues a token and remembers the
\* browser; a deleted account's browser, remembered earlier, is no exception.
Issue(t) ==
    /\ t \notin active \cup ended
    /\ subject[t] \notin deleted \/ subject[t] \in remembered
    /\ active' = active \cup {t}
    /\ remembered' = remembered \cup {subject[t]}
    /\ UNCHANGED <<appVars, ended, cache, req, swept>>

\* The token reaches its exp.  (A cached answer carries exp, and building the
\* library's Token from it then fails: Die.  That it may be admitted until
\* the entry is gone is more than the code allows.)
Expire(t) ==
    /\ t \in active
    /\ active' = active \ {t} /\ ended' = ended \cup {t}
    /\ UNCHANGED <<appVars, remembered, cache, req, swept>>

\* Time passes for the cache.
Tick ==
    /\ cache' = [t \in Tokens |-> IF cache[t].life <= 1 THEN NoEntry
                                  ELSE [cache[t] EXCEPT !.life = @ - 1]]
    /\ UNCHANGED <<appVars, hydraVars, req, swept>>

-----------------------------------------------------------------------------
(***************************************************************************)
(* Authentication of an API call: HydraIntrospectionMiddleware.            *)
(***************************************************************************)
Done(r) == req' = [req EXCEPT ![r] = Idle]
Token(r) == CHOOSE t \in Tokens : req[r].token = {t}
Caller(r) == subject[Token(r)]

To(r, step, t, answer) ==
    req' = [req EXCEPT ![r] = [pc |-> step, token |-> {t}, answer |-> answer, seen |-> {}]]

\* Mutant: the answer is stored again whether or not it came from the cache.
StoreOnHit(r, t) ==
    /\ req[r].pc = "idle" /\ t \in active \cup ended
    /\ IF cache[t] # NoEntry THEN To(r, "store", t, cache[t].answer)
                             ELSE To(r, "introspect", t, FALSE)
    /\ UNCHANGED <<appVars, hydraVars, cache, swept>>

\* A bearer arrives, and the cache is read.
authenticate_token(r, t) ==
    /\ req[r].pc = "idle" /\ t \in active \cup ended
    /\ IF cache[t] # NoEntry THEN To(r, "route", t, cache[t].answer)
                             ELSE To(r, "introspect", t, FALSE)
    /\ UNCHANGED <<appVars, hydraVars, cache, swept>>

introspect_token(r) ==
    /\ req[r].pc = "introspect"
    /\ To(r, "store", Token(r), Token(r) \in active)
    /\ UNCHANGED <<appVars, hydraVars, cache, swept>>

\* Mutant: one TTL for both answers.
OneTtl(answer) == introspection_cache_ttl_seconds

Ttl(answer) == IF answer THEN introspection_cache_ttl_seconds
                         ELSE introspection_negative_cache_ttl_seconds

\* cache.set, whatever is there by now.
StoreAnswer(r) ==
    /\ req[r].pc = "store"
    /\ cache' = [cache EXCEPT ![Token(r)] = [life |-> Ttl(req[r].answer), answer |-> req[r].answer]]
    /\ To(r, "route", Token(r), req[r].answer)
    /\ UNCHANGED <<appVars, hydraVars, swept>>

NotAuthorized(r) ==
    /\ req[r].pc = "route" /\ ~req[r].answer
    /\ Done(r)
    /\ UNCHANGED <<appVars, hydraVars, cache, swept>>

\* Every error a handler does not catch, and the end of a process.
Die(r) ==
    /\ req[r].pc # "idle"
    /\ Done(r)
    /\ UNCHANGED <<appVars, hydraVars, cache, swept>>

-----------------------------------------------------------------------------
(***************************************************************************)
(* The routes.  Each acts for the token's subject.                         *)
(***************************************************************************)
Admitted(r) == req[r].pc = "route" /\ req[r].answer
require_scope(r, S) == Admitted(r) /\ S \subseteq scope[Token(r)]

PermissionDenied(r) ==
    /\ Admitted(r) /\ scope[Token(r)] # Scopes
    /\ Done(r)
    /\ UNCHANGED <<appVars, hydraVars, cache, swept>>

\* What the route reads or writes is not of this module.
Serve(r, S) ==
    /\ require_scope(r, S)
    /\ Done(r)
    /\ UNCHANGED <<appVars, hydraVars, cache, swept>>

get_me(r)         == Serve(r, {SCOPE_PROFILE})
update_profile(r) == Serve(r, {SCOPE_PROFILE})
get_sessions(r)   == Serve(r, {SCOPE_PROFILE})
enable_2fa(r)     == Serve(r, {SCOPE_ACCOUNT_WRITE})
confirm_2fa(r)    == Serve(r, {SCOPE_ACCOUNT_WRITE})
disable_2fa(r)    == Serve(r, {SCOPE_ACCOUNT_WRITE})
verify_2fa(r)     == Serve(r, {})

Own(u) == {s \in Sessions : u \in owner[s]}
Issued(u) == {t \in active : subject[t] = u}

\* Three routes revoke every session and leave Hydra's tokens alone.  What
\* runs between their reads and their commits is Credentials' matter.
delete_me(r) ==
    /\ require_scope(r, {SCOPE_ACCOUNT_WRITE}) /\ Caller(r) \notin deleted
    /\ deleted' = deleted \cup {Caller(r)}
    /\ revoked' = revoked \cup Own(Caller(r))
    /\ Done(r)
    /\ UNCHANGED <<owner, refreshing, hydraVars, cache, swept>>

change_password(r) ==
    /\ require_scope(r, {SCOPE_ACCOUNT_WRITE}) /\ Caller(r) \notin deleted
    /\ revoked' = revoked \cup Own(Caller(r))
    /\ Done(r)
    /\ UNCHANGED <<deleted, owner, refreshing, hydraVars, cache, swept>>

reset_password(u) ==
    /\ revoked' = revoked \cup Own(u)
    /\ UNCHANGED <<deleted, owner, refreshing, hydraVars, cache, req, swept>>

revoke_session(r, s) ==
    /\ require_scope(r, {SCOPE_SESSIONS_WRITE}) /\ s \in Own(Caller(r))
    /\ revoked' = revoked \cup {s}
    /\ Done(r)
    /\ UNCHANGED <<deleted, owner, refreshing, hydraVars, cache, swept>>

-----------------------------------------------------------------------------
(***************************************************************************)
(* RevokeAllSessionsUseCase: a transaction, then two calls to Hydra, any   *)
(* of which may fail (Die) and leave the rest undone.                      *)
(***************************************************************************)

\* The sessions that are not revoked are loaded.
revoke_all_sessions(r) ==
    /\ require_scope(r, {SCOPE_SESSIONS_WRITE})
    /\ req' = [req EXCEPT ![r].pc = "revoke_sessions",
                          ![r].seen = (Own(Caller(r)) \ revoked) \cup Issued(Caller(r))]
    /\ UNCHANGED <<appVars, hydraVars, cache, swept>>

\* They are written back as revoked, and committed.  A refresh that has loaded
\* one of them by now is going to undo that.
CommitRevoked(r) ==
    /\ req[r].pc = "revoke_sessions"
    /\ revoked' = revoked \cup (req[r].seen \cap Sessions)
    /\ req' = [req EXCEPT ![r].pc = "revoke_consent", ![r].seen = @ \ refreshing]
    /\ UNCHANGED <<deleted, owner, refreshing, hydraVars, cache, swept>>

\* Mutant: any error is taken for the 404 of a subject without sessions.
ErrorsIgnored(r) ==
    /\ req[r].pc = "revoke_consent"
    /\ \E S \in {{}, Issued(Caller(r))} : active' = active \ S /\ ended' = ended \cup S
    /\ req' = [req EXCEPT ![r].pc = "revoke_login"]
    /\ UNCHANGED <<appVars, remembered, cache, swept>>

revoke_consent_sessions(r) ==
    /\ req[r].pc = "revoke_consent"
    /\ active' = active \ Issued(Caller(r)) /\ ended' = ended \cup Issued(Caller(r))
    /\ req' = [req EXCEPT ![r].pc = "revoke_login"]
    /\ UNCHANGED <<appVars, remembered, cache, swept>>

revoke_login_sessions(r) ==
    /\ req[r].pc = "revoke_login"
    /\ remembered' = remembered \ {Caller(r)}
    /\ swept' = swept \cup req[r].seen
    /\ Done(r)
    /\ UNCHANGED <<appVars, active, ended, cache>>

-----------------------------------------------------------------------------
\* The steps a request takes once it has begun.
Continue(r) ==
    \/ introspect_token(r) \/ StoreAnswer(r) \/ NotAuthorized(r) \/ PermissionDenied(r)
    \/ get_me(r) \/ update_profile(r) \/ get_sessions(r)
    \/ enable_2fa(r) \/ confirm_2fa(r) \/ disable_2fa(r) \/ verify_2fa(r)
    \/ delete_me(r) \/ change_password(r) \/ \E s \in Sessions : revoke_session(r, s)
    \/ revoke_all_sessions(r) \/ CommitRevoked(r)
    \/ revoke_consent_sessions(r) \/ revoke_login_sessions(r)
    \/ Die(r)

Next ==
    \/ \E r \in Requests, t \in Tokens : authenticate_token(r, t)
    \/ \E r \in Requests : Continue(r)
    \/ \E u \in Users : login(u) \/ reset_password(u)
    \/ \E s \in Sessions : acquire_by_token_hash(s) \/ refresh_session(s) \/ RefreshFails(s)
    \/ \E t \in Tokens : Issue(t) \/ Expire(t)
    \/ Tick

\* A request ends: calls to the database and to Hydra have timeouts, and Redis,
\* whose client has none, is assumed to answer or to drop the connection.  And
\* time passes.  Users, refreshes and Hydra owe nothing.
Fairness == WF_vars(Tick) /\ \A r \in Requests : WF_vars(Continue(r))

Spec == Init /\ [][Next]_vars /\ Fairness

-----------------------------------------------------------------------------
(***************************************************************************)
(* Properties.                                                             *)
(***************************************************************************)

\* The variables have the shapes the code gives them.  A refusal is cached
\* only of a token that has ended: no answer taken too early shuts out a
\* token that is good.
TypeOK ==
    /\ deleted \subseteq Users /\ remembered \subseteq Users
    /\ owner \in [Sessions -> AtMostOne(Users)]
    /\ \A s \in revoked \cup refreshing : s \in Sessions /\ owner[s] # {}
    /\ active \subseteq Tokens /\ ended \subseteq Tokens \ active
    /\ cache \in [Tokens ->
           [life : 1..introspection_cache_ttl_seconds, answer : {TRUE}]
           \cup [life : 0..introspection_negative_cache_ttl_seconds, answer : {FALSE}]]
    /\ \A t \in Tokens : cache[t].life > 0 /\ ~cache[t].answer => t \in ended
    /\ req \in [Requests -> [pc : {"idle", "introspect", "store", "route",
                                   "revoke_sessions", "revoke_consent", "revoke_login"},
                             token : AtMostOne(active \cup ended), answer : BOOLEAN,
                             seen : SUBSET (Sessions \cup Tokens)]]
    /\ swept \subseteq Sessions \cup Tokens

\* A revoke-all that reports success has put an end to every live token and
\* every live session its user had when it began, except a session that a
\* refresh had loaded and not written when the revoke-all committed: whatever
\* runs in between, refreshes that begin later included, they stay ended.
\* One that fails at Hydra has revoked these sessions for good too.
RevokeAllIsComplete ==
    /\ swept \cap Sessions \subseteq revoked /\ swept \cap Tokens \subseteq ended
    /\ \A r \in Requests : req[r].pc \in {"revoke_consent", "revoke_login"} =>
          req[r].seen \cap Sessions \subseteq revoked

\* Someone may still act on the answer that the token is active.
Usable(t) ==
    \/ cache[t].answer
    \/ \E r \in Requests : req[r].token = {t} /\ req[r].answer

\* A token that expired or was revoked at Hydra is refused in the end, and
\* from then on: no cached answer outlives its TTL or renews itself.
RevocationTakesHold == \A t \in Tokens : <>[](t \in ended => ~Usable(t))
=============================================================================
