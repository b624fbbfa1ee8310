---------------------------- MODULE GatewayProofs ---------------------------
(***************************************************************************)
(* The introspection cache and revoke-all, for any number of users,        *)
(* tokens, sessions, requests and refreshes and any time-to-live.  A token *)
(* that has ended stays so, and a session stays revoked unless a refresh   *)
(* holds a copy of it from before; a refresh never loads a revoked one.    *)
(* So what a request has seen, and what the cache holds, only has to be    *)
(* right when it is written.                                               *)
(***************************************************************************)
EXTENDS Gateway, TLAPS

Places == {"idle", "introspect", "store", "route",
           "revoke_sessions", "revoke_consent", "revoke_login"}
Record(A, E) == [pc : Places, token : AtMostOne(A \cup E), answer : BOOLEAN,
                 seen : SUBSET (Sessions \cup Tokens)]
Entries == [life : 1..introspection_cache_ttl_seconds, answer : {TRUE}]
           \cup [life : 0..introspection_negative_cache_ttl_seconds, answer : {FALSE}]

\* The sessions that are revoked for good: no refresh is about to write them
\* back as they were.
Final == revoked \ refreshing

\* The sessions that logins have created.
Created == {s \in Sessions : owner[s] # {}}

\* The rows: a session that is revoked, or is being refreshed, was created.
RowInv ==
    /\ deleted \subseteq Users /\ owner \in [Sessions -> AtMostOne(Users)]
    /\ \A s \in revoked \cup refreshing : s \in Sessions /\ owner[s] # {}

\* Hydra's tokens: one that has ended is active no more.
TokenInv ==
    /\ remembered \subseteq Users
    /\ active \subseteq Tokens /\ ended \subseteq Tokens \ active

\* The cache: a refusal is of a token that has ended.
CacheInv ==
    /\ cache \in [Tokens -> Entries]
    /\ \A t \in Tokens : cache[t].life > 0 /\ ~cache[t].answer => t \in ended

\* A request of the state q is in order, when the tokens A are active, E have
\* ended, the sessions C were created and V of them are revoked for good: it
\* has a token, a refusal it carries is of a token that has ended, and what a
\* revoke-all has seen is revoked as far as the revoke-all has come.
Fits(q, A, E, V, C) ==
    /\ q \in Record(A, E) /\ q.seen \subseteq C \cup Tokens
    /\ q.pc \notin {"revoke_sessions", "revoke_consent", "revoke_login"} => q.seen = {}
    /\ q.pc \in {"revoke_consent", "revoke_login"} => q.seen \cap Sessions \subseteq V
    /\ q.pc = "revoke_login" => q.seen \cap Tokens \subseteq E
    /\ q.pc # "idle" =>
          \E t \in A \cup E :
              /\ q.token = {t}
              /\ q.pc \in {"store", "route"} /\ ~q.answer => t \in E
              /\ q.pc \in {"revoke_sessions", "revoke_consent"} =>
                    \A x \in q.seen \cap Tokens : x \in A \cup E /\ subject[x] = subject[t]

RequestInv ==
    /\ req \in [Requests -> Record(active, ended)]
    /\ \A r \in Requests : Fits(req[r], active, ended, Final, Created)

\* What a revoke-all that succeeded had seen is gone for good.
SweptInv ==
    /\ swept \subseteq Sessions \cup Tokens
    /\ swept \cap Sessions \subseteq Final /\ swept \cap Tokens \subseteq ended

Inv == RowInv /\ TokenInv /\ CacheInv /\ RequestInv /\ SweptInv

-----------------------------------------------------------------------------
(***************************************************************************)
(* What is never undone.                                                   *)
(***************************************************************************)

\* A step only ends tokens, and takes no session that is revoked for good.
Onward ==
    /\ active \cup ended \subseteq active' \cup ended'
    /\ ended \subseteq ended' /\ Final \subseteq Final' /\ Created \subseteq Created'

\* The sets of at most one member.
LEMMA AtMostOneFacts ==
    ASSUME NEW S
    PROVE  /\ {} \in AtMostOne(S) /\ \A x \in S : {x} \in AtMostOne(S)
           /\ \A T : S \subseteq T => AtMostOne(S) \subseteq AtMostOne(T)
BY DEF AtMostOne

\* A request in order stays so while tokens end and sessions are revoked.
LEMMA FitsKept ==
    ASSUME NEW q, Fits(q, active, ended, Final, Created), Onward
    PROVE  Fits(q, active', ended', Final', Created')
<1>1. AtMostOne(active \cup ended) \subseteq AtMostOne(active' \cup ended')
  BY AtMostOneFacts DEF Onward
<1>2. q \in Record(active', ended')
  BY <1>1 DEF Fits, Record
<1> QED
  BY <1>2 DEF Fits, Onward

\* A request that waits for nothing is in order.
LEMMA IdleFits ==
    ASSUME NEW A, NEW E, NEW V, NEW C
    PROVE  Fits(Idle, A, E, V, C)
<1>1. Idle \in Record(A, E)
  BY AtMostOneFacts DEF Idle, Record, Places
<1> QED
  BY <1>1 DEF Fits, Idle

\* Of one request that moves to a state in order, and others that stay.
LEMMA RequestKept ==
    ASSUME RequestInv, Onward,
           \/ UNCHANGED req
           \/ \E r \in Requests : \E q :
                 req' = [req EXCEPT ![r] = q] /\ Fits(q, active', ended', Final', Created')
    PROVE  RequestInv'
<1>1. \A r \in Requests : Fits(req[r], active', ended', Final', Created')
  BY FitsKept DEF RequestInv
<1>2. \A q : Fits(q, active', ended', Final', Created') => q \in Record(active', ended')
  BY DEF Fits
<1>3. CASE UNCHANGED req
  <2>1. req' \in [Requests -> Record(active', ended')]
    BY <1>1, <1>2, <1>3 DEF RequestInv
  <2> QED
    BY <1>1, <1>3, <2>1 DEF RequestInv
<1>4. ASSUME NEW r \in Requests, NEW q,
             req' = [req EXCEPT ![r] = q], Fits(q, active', ended', Final', Created')
      PROVE  RequestInv'
  <2>1. \A x \in Requests : req'[x] = IF x = r THEN q ELSE req[x]
    BY <1>4 DEF RequestInv
  <2>2. \A x \in Requests : Fits(req'[x], active', ended', Final', Created')
    BY <1>1, <1>4, <2>1
  <2>3. req' \in [Requests -> Record(active', ended')]
    BY <1>1, <1>2, <1>4 DEF RequestInv
  <2> QED
    BY <2>2, <2>3 DEF RequestInv
<1> QED
  BY <1>3, <1>4

\* The cache and the success of earlier revoke-alls stay in order too.
LEMMA OthersKept ==
    ASSUME Inv, Onward
    PROVE  /\ UNCHANGED cache => CacheInv'
           /\ UNCHANGED swept => SweptInv'
BY DEF Inv, Onward, CacheInv, SweptInv

\* A request under way has its token.
LEMMA TokenFacts ==
    ASSUME Inv, NEW r \in Requests, req[r].pc # "idle"
    PROVE  /\ Token(r) \in active \cup ended /\ Token(r) \in Tokens /\ Caller(r) \in Users
           /\ req[r].token = {Token(r)}
           /\ req[r].pc \in {"store", "route"} /\ ~req[r].answer => Token(r) \in ended
           /\ req[r].pc \in {"revoke_sessions", "revoke_consent"} =>
                 \A x \in req[r].seen \cap Tokens :
                     x \in active \cup ended /\ subject[x] = Caller(r)
<1>1. Fits(req[r], active, ended, Final, Created)
  BY DEF Inv, RequestInv
<1>2. PICK t \in active \cup ended :
         /\ req[r].token = {t}
         /\ req[r].pc \in {"store", "route"} /\ ~req[r].answer => t \in ended
         /\ req[r].pc \in {"revoke_sessions", "revoke_consent"} =>
               \A x \in req[r].seen \cap Tokens : x \in active \cup ended /\ subject[x] = subject[t]
  BY <1>1 DEF Fits
<1>3. t \in Tokens
  BY DEF Inv, TokenInv
<1>4. \A m \in Tokens : req[r].token = {m} => m = t
  BY <1>2
<1>5. Token(r) = t
  BY <1>2, <1>3, <1>4 DEF Token
<1>6. subject[t] \in Users
  BY <1>3, GatewayAssumption
<1> QED
  BY <1>2, <1>3, <1>5, <1>6 DEF Caller

-----------------------------------------------------------------------------
(***************************************************************************)
(* The initial state, and the steps.                                       *)
(***************************************************************************)

\* Everything starts empty.
LEMMA InitInv == Init => Inv
<1> SUFFICES ASSUME Init PROVE Inv
  OBVIOUS
<1>1. RowInv /\ TokenInv /\ SweptInv
  BY AtMostOneFacts DEF Init, RowInv, TokenInv, SweptInv, Final
<1>2. CacheInv
  BY GatewayAssumption DEF Init, CacheInv, Entries, NoEntry
<1>3. Fits(Idle, active, ended, Final, Created) /\ Idle \in Record(active, ended)
  BY IdleFits DEF Fits
<1>4. RequestInv
  BY <1>3 DEF Init, RequestInv
<1> QED
  BY <1>1, <1>2, <1>4 DEF Inv

\* A request ends, or is refused, and nothing else happens: an error, a
\* refusal, or a route whose effects are of other modules.
LEMMA EndSteps ==
    ASSUME Inv, NEW r \in Requests, Done(r), UNCHANGED <<appVars, hydraVars, cache, swept>>
    PROVE  Inv'
<1>1. Onward /\ RowInv' /\ TokenInv'
  BY DEF Inv, Onward, Final, Created, RowInv, TokenInv, appVars, hydraVars
<1>2. Fits(Idle, active', ended', Final', Created')
  BY IdleFits
<1>3. RequestInv'
  BY <1>1, <1>2, RequestKept DEF Inv, Done
<1> QED
  BY <1>1, <1>3, OthersKept DEF Inv

\* Sessions are revoked, by a request that then ends or by nobody's: a
\* deletion, a password change or reset, one session, or all at once.
LEMMA RevokeSteps ==
    ASSUME Inv, NEW u \in Users,
           \/ \E s \in Own(u) : revoked' = revoked \cup {s}
           \/ revoked' = revoked \cup Own(u),
           deleted' \subseteq Users,
           UNCHANGED req \/ \E r \in Requests : Done(r),
           UNCHANGED <<owner, refreshing, hydraVars, cache, swept>>
    PROVE  Inv'
<1>1. Onward /\ TokenInv'
  BY DEF Inv, Onward, Final, Created, TokenInv, hydraVars
<1>2. \A s \in Own(u) : s \in Sessions /\ owner[s] # {}
  BY DEF Own
<1>3. RowInv'
  BY <1>2 DEF Inv, RowInv
<1>4. Fits(Idle, active', ended', Final', Created')
  BY IdleFits
<1>5. RequestInv'
  BY <1>1, <1>4, RequestKept DEF Inv, Done
<1> QED
  BY <1>1, <1>3, <1>5, OthersKept DEF Inv

\* A bearer arrives, and Hydra or the cache is asked about it.  A cached
\* refusal is of a token that has ended; and whatever Hydra answers, a token
\* that it does not know as active has ended, since it was issued.
LEMMA AuthenticationSteps ==
    ASSUME Inv, NEW r \in Requests,
           (\E t \in Tokens : authenticate_token(r, t)) \/ introspect_token(r)
    PROVE  Inv'
<1>1. UNCHANGED <<appVars, hydraVars, cache, swept>>
  BY DEF authenticate_token, introspect_token
<1>2. Onward /\ RowInv' /\ TokenInv' /\ UNCHANGED <<active, ended, Final, Created>>
  BY <1>1 DEF Inv, Onward, Final, Created, RowInv, TokenInv, appVars, hydraVars
<1> DEFINE At(step, t, answer) ==
               [pc |-> step, token |-> {t}, answer |-> answer, seen |-> {}]
<1>3. ASSUME NEW step \in {"introspect", "store", "route"}, NEW t \in active \cup ended,
             NEW answer \in BOOLEAN, step # "introspect" /\ ~answer => t \in ended
      PROVE  Fits(At(step, t, answer), active, ended, Final, Created)
  <2>1. At(step, t, answer) \in Record(active, ended)
    BY AtMostOneFacts DEF Record, Places
  <2> QED
    BY <2>1, <1>3 DEF Fits
<1>4. \A step, t, answer : To(r, step, t, answer) => req' = [req EXCEPT ![r] = At(step, t, answer)]
  BY DEF To
<1> HIDE DEF At
<1>5. ASSUME NEW t \in Tokens, authenticate_token(r, t) PROVE RequestInv'
  <2>1. t \in active \cup ended /\ cache[t] \in Entries
    BY <1>5 DEF authenticate_token, Inv, CacheInv
  <2>2. CASE cache[t] # NoEntry
    <3>1. cache[t].answer \in BOOLEAN /\ (~cache[t].answer => t \in ended)
      <4>1. cache[t].answer \in BOOLEAN
        BY <2>1 DEF Entries
      <4>2. ASSUME ~cache[t].answer PROVE cache[t].life > 0
        <5>1. cache[t] \in [life : 0..introspection_negative_cache_ttl_seconds, answer : {FALSE}]
          BY <2>1, <4>2 DEF Entries
        <5>2. cache[t] = [life |-> cache[t].life, answer |-> FALSE]
          BY <5>1
        <5>3. cache[t].life # 0
          BY <5>2, <2>2 DEF NoEntry
        <5>4. cache[t].life \in 0..introspection_negative_cache_ttl_seconds
          BY <5>1
        <5> QED
          BY <5>3, <5>4, GatewayAssumption
      <4> QED
        BY <4>1, <4>2 DEF Inv, CacheInv
    <3>2. req' = [req EXCEPT ![r] = At("route", t, cache[t].answer)]
      BY <1>4, <1>5, <2>2 DEF authenticate_token
    <3>3. Fits(At("route", t, cache[t].answer), active, ended, Final, Created)
      BY <1>3, <2>1, <3>1
    <3> QED
      BY <1>2, <3>2, <3>3, RequestKept DEF Inv
  <2>3. CASE cache[t] = NoEntry
    <3>1. req' = [req EXCEPT ![r] = At("introspect", t, FALSE)]
      BY <1>4, <1>5, <2>3 DEF authenticate_token
    <3>2. Fits(At("introspect", t, FALSE), active, ended, Final, Created)
      BY <1>3, <2>1
    <3> QED
      BY <1>2, <3>1, <3>2, RequestKept DEF Inv
  <2> QED
    BY <2>2, <2>3
<1>6. ASSUME introspect_token(r) PROVE RequestInv'
  <2>1. Token(r) \in active \cup ended
    BY <1>6, TokenFacts DEF introspect_token
  <2>2. req' = [req EXCEPT ![r] = At("store", Token(r), Token(r) \in active)]
    BY <1>4, <1>6 DEF introspect_token
  <2>3. Fits(At("store", Token(r), Token(r) \in active), active, ended, Final, Created)
    <3>1. (Token(r) \in active) \in BOOLEAN
      OBVIOUS
    <3> QED
      BY <1>3, <2>1, <3>1, Zenon
  <2> QED
    BY <1>2, <2>2, <2>3, RequestKept DEF Inv
<1> QED
  BY <1>1, <1>2, <1>5, <1>6, OthersKept DEF Inv

\* The answer is cached, over whatever the cache holds by now: a refusal that
\* was true when Hydra gave it is true still.
LEMMA StoreStep ==
    ASSUME Inv, NEW r \in Requests, StoreAnswer(r)
    PROVE  Inv'
<1> DEFINE q == [pc |-> "route", token |-> {Token(r)}, answer |-> req[r].answer, seen |-> {}]
           e == [life |-> Ttl(req[r].answer), answer |-> req[r].answer]
<1>1. /\ req[r].pc = "store" /\ UNCHANGED <<appVars, hydraVars, swept>>
      /\ cache' = [cache EXCEPT ![Token(r)] = e] /\ req' = [req EXCEPT ![r] = q]
  BY DEF StoreAnswer, To
<1>2. /\ Token(r) \in active \cup ended /\ Token(r) \in Tokens
      /\ ~req[r].answer => Token(r) \in ended
  BY <1>1, TokenFacts
<1>3. req[r].answer \in BOOLEAN
  BY DEF Inv, RequestInv, Record
<1>4. Onward /\ RowInv' /\ TokenInv' /\ UNCHANGED <<active, ended, Final, Created>>
  BY <1>1 DEF Inv, Onward, Final, Created, RowInv, TokenInv, appVars, hydraVars
<1>5. e \in Entries /\ e.answer = req[r].answer
  <2>1. CASE req[r].answer = TRUE
    <3>1. Ttl(req[r].answer) \in 1..introspection_cache_ttl_seconds
      BY <2>1, GatewayAssumption DEF Ttl
    <3> QED
      BY <2>1, <3>1 DEF Entries
  <2>2. CASE req[r].answer = FALSE
    <3>1. Ttl(req[r].answer) \in 0..introspection_negative_cache_ttl_seconds
      BY <2>2, GatewayAssumption DEF Ttl
    <3> QED
      BY <2>2, <3>1 DEF Entries
  <2> QED
    BY <1>3, <2>1, <2>2
<1>6. Fits(q, active, ended, Final, Created)
  <2>1. q \in Record(active, ended)
    BY <1>2, <1>3, AtMostOneFacts DEF Record, Places
  <2> QED
    BY <2>1, <1>2 DEF Fits
<1> HIDE DEF q, e
<1>7. CacheInv'
  <2>1. cache' \in [Tokens -> Entries]
    BY <1>1, <1>2, <1>5 DEF Inv, CacheInv
  <2> SUFFICES ASSUME NEW t \in Tokens, cache'[t].life > 0, ~cache'[t].answer
               PROVE  t \in ended
    BY <1>4, <2>1 DEF CacheInv
  <2>2. CASE t = Token(r)
    BY <2>2, <1>1, <1>2, <1>5 DEF Inv, CacheInv
  <2>3. CASE t # Token(r)
    BY <2>3, <1>1 DEF Inv, CacheInv
  <2> QED
    BY <2>2, <2>3
<1>8. RequestInv'
  BY <1>1, <1>4, <1>6, RequestKept DEF Inv
<1> QED
  BY <1>1, <1>4, <1>7, <1>8, OthersKept DEF Inv

\* A revoke-all begins: the tokens it has seen are its caller's.
LEMMA RevokeAllStep ==
    ASSUME Inv, NEW r \in Requests, revoke_all_sessions(r)
    PROVE  Inv'
<1> DEFINE c == Caller(r)
           q == [req[r] EXCEPT !.pc = "revoke_sessions",
                               !.seen = (Own(c) \ revoked) \cup Issued(c)]
<1>1. req[r].pc = "route" /\ UNCHANGED <<appVars, hydraVars, cache, swept>>
  BY DEF revoke_all_sessions, require_scope, Admitted
<1>2. req[r] \in [pc : Places, token : AtMostOne(active \cup ended), answer : BOOLEAN,
                  seen : SUBSET (Sessions \cup Tokens)]
  BY DEF Inv, RequestInv, Record
<1>3. req' = [req EXCEPT ![r] = q]
  BY <1>2 DEF revoke_all_sessions, Inv, RequestInv
<1>4. /\ Token(r) \in active \cup ended /\ c = subject[Token(r)] /\ req[r].token = {Token(r)}
  BY <1>1, TokenFacts DEF Caller
<1>5. /\ Own(c) \subseteq Sessions /\ Issued(c) \subseteq active
      /\ \A t \in Issued(c) : subject[t] = c
  BY DEF Own, Issued
<1>6. active \cup ended \subseteq Tokens
  BY DEF Inv, TokenInv
<1>7. Onward /\ RowInv' /\ TokenInv' /\ UNCHANGED <<active, ended, Final, Created>>
  BY <1>1 DEF Inv, Onward, Final, Created, RowInv, TokenInv, appVars, hydraVars
<1> HIDE DEF c
<1>8. /\ q.pc = "revoke_sessions" /\ q.token = req[r].token
      /\ q.seen = (Own(c) \ revoked) \cup Issued(c) /\ q \in Record(active, ended)
  BY <1>2, <1>5, <1>6 DEF Record, Places
<1> HIDE DEF q
<1>9. Fits(q, active, ended, Final, Created)
  <2>1. \A x \in q.seen \cap Tokens : x \in active \cup ended /\ subject[x] = subject[Token(r)]
    BY <1>4, <1>5, <1>8, GatewayAssumption
  <2>2. q.seen \subseteq Created \cup Tokens
    BY <1>5, <1>6, <1>8 DEF Created, Own
  <2> QED
    BY <1>4, <1>8, <2>1, <2>2 DEF Fits
<1>10. RequestInv'
  BY <1>3, <1>7, <1>9, RequestKept DEF Inv
<1> QED
  BY <1>1, <1>7, <1>10, OthersKept DEF Inv

\* Its transaction commits.  The sessions it has seen are revoked, and those
\* that no refresh holds at that moment are so for good.
LEMMA CommitRevokedStep ==
    ASSUME Inv, NEW r \in Requests, CommitRevoked(r)
    PROVE  Inv'
<1> DEFINE q == [req[r] EXCEPT !.pc = "revoke_consent", !.seen = @ \ refreshing]
<1>1. /\ req[r].pc = "revoke_sessions" /\ revoked' = revoked \cup (req[r].seen \cap Sessions)
      /\ UNCHANGED <<deleted, owner, refreshing, hydraVars, cache, swept>>
  BY DEF CommitRevoked
<1>2. /\ req[r] \in [pc : Places, token : AtMostOne(active \cup ended), answer : BOOLEAN,
                     seen : SUBSET (Sessions \cup Tokens)]
      /\ Fits(req[r], active, ended, Final, Created)
  BY DEF Inv, RequestInv, Record
<1>3. req' = [req EXCEPT ![r] = q]
  BY <1>2 DEF CommitRevoked, Inv, RequestInv
<1>4. /\ Token(r) \in active \cup ended /\ req[r].token = {Token(r)}
      /\ \A x \in req[r].seen \cap Tokens : x \in active \cup ended /\ subject[x] = subject[Token(r)]
  BY <1>1, TokenFacts DEF Caller
<1>5. Onward /\ TokenInv' /\ UNCHANGED <<active, ended>>
  BY <1>1 DEF Inv, Onward, Final, Created, TokenInv, hydraVars
<1>6. /\ q.pc = "revoke_consent" /\ q.token = req[r].token /\ q.seen = req[r].seen \ refreshing
      /\ q \in Record(active, ended)
  BY <1>2 DEF Record, Places
<1> HIDE DEF q
<1>7. Fits(q, active', ended', Final', Created')
  <2>1. q.seen \cap Sessions \subseteq Final'
    BY <1>1, <1>6 DEF Final
  <2>2. \A x \in q.seen \cap Tokens : x \in active \cup ended /\ subject[x] = subject[Token(r)]
    BY <1>4, <1>6
  <2>3. q.seen \subseteq Created' \cup Tokens
    BY <1>2, <1>5, <1>6 DEF Fits, Onward
  <2> QED
    BY <1>4, <1>5, <1>6, <2>1, <2>2, <2>3 DEF Fits
<1>8. RowInv'
  BY <1>1, <1>2, GatewayAssumption DEF Inv, RowInv, Fits, Created
<1>9. RequestInv'
  BY <1>3, <1>5, <1>7, RequestKept DEF Inv
<1> QED
  BY <1>1, <1>5, <1>8, <1>9, OthersKept DEF Inv

\* Refreshes.  One begins on a session that is not revoked, and what it then
\* undoes was not revoked for good.
LEMMA RefreshSteps ==
    ASSUME Inv, NEW s \in Sessions,
           acquire_by_token_hash(s) \/ refresh_session(s) \/ RefreshFails(s)
    PROVE  Inv'
<1>1. UNCHANGED <<deleted, owner, active, ended, remembered, cache, req, swept>>
  BY DEF acquire_by_token_hash, refresh_session, RefreshFails, hydraVars
<1>2. Final \subseteq Final' /\ revoked' \cup refreshing' \subseteq revoked \cup refreshing \cup {s}
  BY DEF acquire_by_token_hash, refresh_session, RefreshFails, Final
<1>3. owner[s] # {}
  BY DEF acquire_by_token_hash, refresh_session, RefreshFails, Inv, RowInv
<1>4. Onward /\ RowInv' /\ TokenInv'
  BY <1>1, <1>2, <1>3 DEF Inv, Onward, Created, RowInv, TokenInv
<1> QED
  BY <1>1, <1>4, RequestKept, OthersKept DEF Inv

\* The first call to Hydra: every token of the caller ends, those seen among
\* them.
LEMMA RevokeConsentStep ==
    ASSUME Inv, NEW r \in Requests, revoke_consent_sessions(r)
    PROVE  Inv'
<1> DEFINE q == [req[r] EXCEPT !.pc = "revoke_login"]
<1>1. /\ req[r].pc = "revoke_consent"
      /\ active' = active \ Issued(Caller(r)) /\ ended' = ended \cup Issued(Caller(r))
      /\ UNCHANGED <<deleted, owner, revoked, refreshing, remembered, cache, swept>>
  BY DEF revoke_consent_sessions, appVars
<1>2. /\ req[r] \in [pc : Places, token : AtMostOne(active \cup ended), answer : BOOLEAN,
                     seen : SUBSET (Sessions \cup Tokens)]
      /\ Fits(req[r], active, ended, Final, Created)
  BY DEF Inv, RequestInv, Record
<1>3. req' = [req EXCEPT ![r] = q]
  BY <1>2 DEF revoke_consent_sessions, Inv, RequestInv
<1>4. /\ Token(r) \in active \cup ended /\ req[r].token = {Token(r)}
      /\ \A x \in req[r].seen \cap Tokens : x \in active \cup ended /\ subject[x] = Caller(r)
  BY <1>1, TokenFacts
<1>5. Issued(Caller(r)) = {t \in active : subject[t] = Caller(r)}
  BY DEF Issued
<1>6. Onward /\ TokenInv' /\ RowInv' /\ active' \cup ended' = active \cup ended
  BY <1>1, <1>5 DEF Inv, Onward, Final, Created, TokenInv, RowInv
<1>7. /\ q.pc = "revoke_login" /\ q.token = req[r].token /\ q.seen = req[r].seen
      /\ q \in Record(active, ended)
  BY <1>2 DEF Record, Places
<1> HIDE DEF q
<1>8. Fits(q, active', ended', Final', Created')
  <2>1. q.seen \cap Tokens \subseteq ended'
    BY <1>1, <1>4, <1>5, <1>7
  <2>2. q.seen \cap Sessions \subseteq Final' /\ q.seen \subseteq Created' \cup Tokens
    BY <1>1, <1>2, <1>6, <1>7 DEF Fits, Onward
  <2>3. q \in Record(active', ended')
    BY <1>6, <1>7 DEF Record
  <2> QED
    BY <1>4, <1>6, <1>7, <2>1, <2>2, <2>3 DEF Fits
<1>9. RequestInv'
  BY <1>3, <1>6, <1>8, RequestKept DEF Inv
<1> QED
  BY <1>1, <1>6, <1>9, OthersKept DEF Inv

\* The second call to Hydra, and success.
LEMMA RevokeLoginStep ==
    ASSUME Inv, NEW r \in Requests, revoke_login_sessions(r)
    PROVE  Inv'
<1>1. /\ req[r].pc = "revoke_login" /\ remembered' = remembered \ {Caller(r)}
      /\ swept' = swept \cup req[r].seen /\ req' = [req EXCEPT ![r] = Idle]
      /\ UNCHANGED <<deleted, owner, revoked, refreshing, active, ended, cache>>
  BY DEF revoke_login_sessions, appVars, Done
<1>2. Fits(req[r], active, ended, Final, Created) /\ req[r].seen \subseteq Sessions \cup Tokens
  BY DEF Inv, RequestInv, Record
<1>3. Onward /\ RowInv' /\ TokenInv'
  BY <1>1 DEF Inv, Onward, Final, Created, RowInv, TokenInv
<1>4. SweptInv'
  BY <1>1, <1>2 DEF Inv, SweptInv, Fits, Final
<1>5. RequestInv'
  BY <1>1, <1>3, IdleFits, RequestKept DEF Inv
<1> QED
  BY <1>1, <1>3, <1>4, <1>5, OthersKept DEF Inv

\* Logins, tokens and time.
LEMMA OutsideSteps ==
    ASSUME Inv,
           \/ \E u \in Users : login(u)
           \/ \E t \in Tokens : Issue(t) \/ Expire(t)
           \/ Tick
    PROVE  Inv'
<1>1. ASSUME NEW u \in Users, login(u) PROVE Inv'
  <2> DEFINE s == CHOOSE x \in Unused : TRUE
  <2>1. s \in Unused
    BY <1>1 DEF login
  <2>2. s \in Sessions /\ owner[s] = {}
    BY <2>1 DEF Unused
  <2>3. /\ owner' = [owner EXCEPT ![s] = {u}]
        /\ UNCHANGED <<deleted, revoked, refreshing, active, ended, remembered, cache, req, swept>>
    BY <1>1 DEF login, hydraVars
  <2> HIDE DEF s
  <2>4. RowInv'
    BY <2>2, <2>3, AtMostOneFacts DEF Inv, RowInv
  <2>5. Onward /\ TokenInv'
    BY <2>2, <2>3 DEF Inv, Onward, Final, Created, TokenInv, RowInv
  <2> QED
    BY <2>3, <2>4, <2>5, RequestKept, OthersKept DEF Inv
<1>2. ASSUME NEW t \in Tokens, Issue(t) \/ Expire(t) PROVE Inv'
  <2>1. UNCHANGED <<deleted, owner, revoked, refreshing, cache, req, swept>>
    BY <1>2 DEF Issue, Expire, appVars
  <2>2. Onward /\ TokenInv' /\ RowInv'
    BY <1>2, <2>1, GatewayAssumption DEF Inv, Onward, Final, Created, TokenInv, RowInv,
                                       Issue, Expire
  <2> QED
    BY <2>1, <2>2, RequestKept, OthersKept DEF Inv
<1>3. ASSUME Tick PROVE Inv'
  <2>1. UNCHANGED <<deleted, owner, revoked, refreshing, active, ended, remembered, req, swept>>
    BY <1>3 DEF Tick, appVars, hydraVars
  <2>2. Onward /\ TokenInv' /\ RowInv'
    BY <2>1 DEF Inv, Onward, Final, Created, TokenInv, RowInv
  <2>3. CacheInv'
    <3> DEFINE Next1(e) == IF e.life <= 1 THEN NoEntry ELSE [e EXCEPT !.life = @ - 1]
    <3>1. ASSUME NEW e \in Entries
          PROVE  /\ Next1(e) \in Entries
                 /\ Next1(e).life > 0 => e.life > 0 /\ Next1(e).answer = e.answer
      <4>1. CASE e.life <= 1
        <5>1. Next1(e) = NoEntry
          BY <4>1
        <5>2. NoEntry \in Entries /\ ~(NoEntry.life > 0)
          BY GatewayAssumption DEF Entries, NoEntry
        <5> QED
          BY <5>1, <5>2
      <4>2. CASE ~(e.life <= 1)
        <5> DEFINE n == e.life - 1
        <5>1. Next1(e) = [e EXCEPT !.life = n]
          BY <4>2
        <5>2. /\ e.life \in 1..introspection_cache_ttl_seconds =>
                    n \in 1..introspection_cache_ttl_seconds /\ e.life > 0
              /\ e.life \in 0..introspection_negative_cache_ttl_seconds =>
                    n \in 0..introspection_negative_cache_ttl_seconds /\ e.life > 0
          BY <4>2, GatewayAssumption
        <5> HIDE DEF n, Next1
        <5> QED
          BY <5>1, <5>2 DEF Entries
      <4> QED
        BY <4>1, <4>2
    <3>2. cache' = [t \in Tokens |-> Next1(cache[t])]
      BY <1>3 DEF Tick
    <3> HIDE DEF Next1
    <3>3. cache' \in [Tokens -> Entries]
      BY <3>1, <3>2 DEF Inv, CacheInv
    <3> QED
      BY <2>1, <3>1, <3>2, <3>3 DEF Inv, CacheInv
  <2> QED
    BY <2>1, <2>2, <2>3, RequestKept, OthersKept DEF Inv
<1> QED
  BY <1>1, <1>2, <1>3

\* Every step keeps the invariant.
LEMMA StepInv == Inv /\ [Next]_vars => Inv'
<1> SUFFICES ASSUME Inv, [Next]_vars PROVE Inv'
  OBVIOUS
<1>1. ASSUME NEW r \in Requests, NEW t \in Tokens, authenticate_token(r, t) PROVE Inv'
  BY <1>1, AuthenticationSteps
<1>2. ASSUME NEW r \in Requests, Continue(r) PROVE Inv'
  <2>1. CASE introspect_token(r)
    BY <2>1, AuthenticationSteps
  <2>2. CASE StoreAnswer(r)
    BY <2>2, StoreStep
  <2>3. CASE \/ NotAuthorized(r) \/ PermissionDenied(r) \/ Die(r)
             \/ get_me(r) \/ update_profile(r) \/ get_sessions(r)
             \/ enable_2fa(r) \/ confirm_2fa(r) \/ disable_2fa(r) \/ verify_2fa(r)
    BY <2>3, EndSteps DEF NotAuthorized, PermissionDenied, Die, Serve, get_me, update_profile,
                          get_sessions, enable_2fa, confirm_2fa, disable_2fa, verify_2fa
  <2>4. CASE \/ delete_me(r) \/ change_password(r) \/ \E s \in Sessions : revoke_session(r, s)
    <3>1. req[r].pc # "idle"
      BY <2>4 DEF delete_me, change_password, revoke_session, require_scope, Admitted
    <3>2. Caller(r) \in Users
      BY <3>1, TokenFacts
    <3>3. deleted' \subseteq Users
      BY <2>4, <3>2 DEF delete_me, change_password, revoke_session, Inv, RowInv
    <3>4. /\ \/ \E s \in Own(Caller(r)) : revoked' = revoked \cup {s}
             \/ revoked' = revoked \cup Own(Caller(r))
          /\ Done(r) /\ UNCHANGED <<owner, refreshing, hydraVars, cache, swept>>
      BY <2>4 DEF delete_me, change_password, revoke_session
    <3> QED
      BY <3>2, <3>3, <3>4, RevokeSteps
  <2>5. CASE revoke_all_sessions(r)
    BY <2>5, RevokeAllStep
  <2>6. CASE revoke_consent_sessions(r)
    BY <2>6, RevokeConsentStep
  <2>7. CASE revoke_login_sessions(r)
    BY <2>7, RevokeLoginStep
  <2>8. CASE CommitRevoked(r)
    BY <2>8, CommitRevokedStep
  <2> QED
    BY <1>2, <2>1, <2>2, <2>3, <2>4, <2>5, <2>6, <2>7, <2>8 DEF Continue
<1>3. ASSUME NEW u \in Users, reset_password(u) PROVE Inv'
  <2>1. deleted' \subseteq Users
    BY <1>3 DEF reset_password, Inv, RowInv
  <2> QED
    BY <1>3, <2>1, RevokeSteps DEF reset_password
<1>4. ASSUME \/ \E u \in Users : login(u)
             \/ \E t \in Tokens : Issue(t) \/ Expire(t)
             \/ Tick
      PROVE  Inv'
  BY <1>4, OutsideSteps
<1>5. ASSUME NEW s \in Sessions,
             acquire_by_token_hash(s) \/ refresh_session(s) \/ RefreshFails(s)
      PROVE  Inv'
  BY <1>5, RefreshSteps
<1>6. CASE UNCHANGED vars
  <2>1. Onward /\ RowInv' /\ TokenInv' /\ UNCHANGED <<cache, req, swept>>
    BY <1>6 DEF vars, appVars, hydraVars, Onward, Final, Created, Inv, RowInv, TokenInv
  <2> QED
    BY <2>1, RequestKept, OthersKept DEF Inv
<1> QED
  BY <1>1, <1>2, <1>3, <1>4, <1>5, <1>6 DEF Next

-----------------------------------------------------------------------------
(***************************************************************************)
(* The theorems.                                                           *)
(***************************************************************************)

\* Requests, cache and history are in order in every reachable state.
THEOREM Invariance == Spec => []Inv
BY InitInv, StepInv, PTL DEF Spec

\* The variables keep their shapes, and the cache never refuses a token that
\* is good: a refusal is cached only of one that has ended.
THEOREM TypeCorrect == Spec => []TypeOK
<1>1. Inv => TypeOK
  BY DEF Inv, RowInv, TokenInv, CacheInv, RequestInv, SweptInv, TypeOK, Record, Places, Entries
<1> QED
  BY <1>1, Invariance, PTL

\* A revoke-all that reports success leaves no token alive at Hydra, and no
\* session at the service, that was alive when it began, whatever other
\* requests and refreshes do meanwhile and later; excepted are the sessions
\* that a refresh had loaded, and not yet written, when it committed.  One that
\* failed half-way at Hydra has still revoked these sessions for good.
THEOREM RevokeAllCompletes == Spec => []RevokeAllIsComplete
<1>1. Inv => RevokeAllIsComplete
  BY DEF Inv, RequestInv, SweptInv, Fits, Final, RevokeAllIsComplete
<1> QED
  BY <1>1, Invariance, PTL
=============================================================================
