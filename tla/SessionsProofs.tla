--------------------------- MODULE SessionsProofs ---------------------------
(***************************************************************************)
(* Rotation and revocation, for any number of sessions, tokens and         *)
(* requests.  Nothing but the row lock orders the writes, so the proof     *)
(* follows what a request has loaded: it is never about another session,   *)
(* and it is what the tables still hold as long as nobody else has loaded  *)
(* the session too.                                                        *)
(***************************************************************************)
EXTENDS Sessions, FiniteSetTheorems, TLAPS

\* At most one member.
Lone(T) == \A x, y \in T : x = y

\* A token belongs to one session.
FamilyInv == \A s, x \in Sessions : s # x => family[s] \cap family[x] = {}

\* What a request has loaded is about the sessions it holds.  Of a session
\* that was never revoked it has loaded no dead token but exchanged ones, and
\* of one that nobody else has held meanwhile, all that is there.
LoadInv(r) ==
    /\ pc[r] \in {"idle", "found"} => held[r] = {} /\ seen[r] = {}
    /\ seenDead[r] \subseteq seen[r]
    /\ held[r] \subseteq table => seen[r] \subseteq _refresh_tokens_for(held[r])
    /\ \A s \in table \ held[r] : seen[r] \cap family[s] = {}
    /\ \A s \in (held[r] \cap table) \ ended : seenDead[r] \cap family[s] \subseteq exchanged
    /\ \A s \in (held[r] \cap table) \ overlapped :
          family[s] \subseteq seen[r] /\ seenDead[r] \cap family[s] = dead \cap family[s]

\* A refresh holds the session of the one token it presents; if nobody else
\* has held that meanwhile, it is not revoked and the token not dead.
RefreshInv(r) ==
    /\ pc[r] = "found" => \E t \in issued : presented[r] = {t}
    /\ pc[r] = "refresh" =>
          \E s \in Sessions, t \in issued :
              /\ held[r] = {s} /\ presented[r] = {t}
              /\ s \in table => t \in family[s] \cap seen[r]
              /\ s \in table \ overlapped => s \notin revoked /\ t \notin dead

\* Two requests that hold a session at the same time are found out.
OverlapInv == \A r, q \in Requests : r # q => held[r] \cap held[q] \subseteq overlapped

RotationInv(s) ==
    /\ s \notin overlapped => /\ Lone(family[s] \ dead)
                              /\ family[s] \cap exchanged \subseteq dead
                              /\ s \in revoked => family[s] \subseteq dead
    /\ s \notin ended => family[s] \cap dead \subseteq exchanged

Inv ==
    /\ TypeOK /\ FamilyInv /\ OverlapInv
    /\ \A r \in Requests : LoadInv(r) /\ RefreshInv(r)
    /\ \A s \in table : RotationInv(s)

-----------------------------------------------------------------------------
\* A set of at most one member has a cardinality of at most one.
LEMMA LoneCardinality ==
    ASSUME NEW T, Lone(T)
    PROVE  Cardinality(T) <= 1
<1>1. CASE T = {}
  BY <1>1, FS_EmptySet
<1>2. CASE \E x : T = {x}
  BY <1>2, FS_Singleton
<1> QED
  BY <1>1, <1>2 DEF Lone

\* Nothing is stored and nobody holds anything at first.
LEMMA InitInv == Init => Inv
BY DEF Init, Inv, TypeOK, FamilyInv, OverlapInv, LoadInv, RefreshInv, RotationInv,
       _refresh_tokens_for

\* Steps that change neither what is stored about a token's or a session's
\* revocation nor what anybody holds.
LEMMA AsideSteps ==
    ASSUME Inv,
           \/ \E t \in Tokens : TokenNotFound(t) \/ TokenExpires(t)
           \/ \E s \in Sessions : SessionExpires(s)
    PROVE  Inv'
<1>1. UNCHANGED <<table, revoked, family, dead, pc, presented, held, seen, seenDead,
                  issued, started, exchanged, ended, overlapped>>
  BY DEF TokenNotFound, TokenExpires, SessionExpires, rowVars, requestVars, clientVars
<1>2. /\ expired' \subseteq table /\ stale' \subseteq _refresh_tokens_for(table)
      /\ replayed' \subseteq started
  BY DEF Inv, TypeOK, TokenNotFound, TokenExpires, SessionExpires, rowVars, clientVars, ReplayedIn
<1>3. TypeOK'
  BY <1>1, <1>2 DEF Inv, TypeOK, _refresh_tokens_for
<1> QED
  BY <1>1, <1>3 DEF Inv, FamilyInv, OverlapInv, LoadInv, RefreshInv, RotationInv,
                    _refresh_tokens_for

\* The row of a token is found.
LEMMA FindStep ==
    ASSUME Inv, NEW r \in Requests, NEW t \in Tokens, FindToken(r, t)
    PROVE  Inv'
<1>1. /\ pc[r] = "idle" /\ t \in _refresh_tokens_for(table) \ dead
      /\ pc' = [pc EXCEPT ![r] = "found"] /\ presented' = [presented EXCEPT ![r] = {t}]
      /\ UNCHANGED <<table, revoked, expired, family, dead, stale, held, seen, seenDead,
                     issued, started, exchanged, ended, replayed, overlapped>>
  BY DEF FindToken, rowVars, clientVars
<1>2. t \in issued
  BY <1>1 DEF Inv, TypeOK, _refresh_tokens_for
<1>3. TypeOK'
  BY <1>1, <1>2 DEF Inv, TypeOK, _refresh_tokens_for
<1>4. FamilyInv' /\ OverlapInv' /\ \A s \in table' : RotationInv(s)'
  BY <1>1 DEF Inv, FamilyInv, OverlapInv, RotationInv
<1>5. \A q \in Requests : LoadInv(q)'
  BY <1>1 DEF Inv, TypeOK, LoadInv, _refresh_tokens_for
<1>6. \A q \in Requests : RefreshInv(q)'
  BY <1>1, <1>2 DEF Inv, TypeOK, RefreshInv
<1> QED
  BY <1>3, <1>4, <1>5, <1>6 DEF Inv

\* A request ends and has written nothing.
LEMMA EndSteps ==
    ASSUME Inv, NEW r \in Requests, Rollback(r) \/ RefreshTokenReuseError(r)
    PROVE  Inv'
<1>1. /\ Done(r) /\ UNCHANGED <<table, revoked, expired, family, dead, stale,
                                issued, started, exchanged, ended, overlapped>>
  BY DEF Rollback, RefreshTokenReuseError, rowVars, clientVars
<1>2. replayed' \subseteq started
  BY DEF Inv, TypeOK, Rollback, RefreshTokenReuseError, clientVars, ReplayedIn
<1>3. TypeOK'
  BY <1>1, <1>2 DEF Inv, TypeOK, Done, _refresh_tokens_for
<1>4. FamilyInv' /\ \A s \in table' : RotationInv(s)'
  BY <1>1 DEF Inv, FamilyInv, RotationInv
<1>5. OverlapInv'
  BY <1>1 DEF Inv, TypeOK, OverlapInv, Done
<1>6. \A q \in Requests : LoadInv(q)'
  BY <1>1 DEF Inv, TypeOK, LoadInv, Done, _refresh_tokens_for
<1>7. \A q \in Requests : RefreshInv(q)'
  BY <1>1 DEF Inv, TypeOK, RefreshInv, Done
<1> QED
  BY <1>3, <1>4, <1>5, <1>6, <1>7 DEF Inv

\* A request loads the sessions S with their tokens.  What it presents, if it
\* is to refresh, is a token of the one session it loads.
LEMMA HoldStep ==
    ASSUME Inv, NEW r \in Requests, NEW k \in {"refresh", "revoke"}, NEW S \in SUBSET table,
           Hold(r, k, S), UNCHANGED <<rowVars, presented, issued, started, exchanged, ended, replayed>>,
           k = "refresh" =>
               \E s \in table, t \in issued :
                   /\ S = {s} /\ presented[r] = {t} /\ t \in family[s]
                   /\ s \notin revoked /\ t \notin dead
    PROVE  Inv'
<1> DEFINE T == _refresh_tokens_for(S)
<1>1. /\ pc' = [pc EXCEPT ![r] = k] /\ held' = [held EXCEPT ![r] = S]
      /\ seen' = [seen EXCEPT ![r] = T] /\ seenDead' = [seenDead EXCEPT ![r] = T \cap dead]
      /\ overlapped' = overlapped \cup (S \cap UNION {held[q] : q \in Requests \ {r}})
      /\ UNCHANGED <<table, revoked, expired, family, dead, stale, presented, issued, started,
                     exchanged, ended, replayed>>
  BY DEF Hold, rowVars
<1>2. /\ \A s \in S : family[s] \subseteq T
      /\ \A t \in T : \E s \in S : t \in family[s]
      /\ \A s \in table \ S : T \cap family[s] = {}
      /\ T \subseteq issued /\ S \subseteq started /\ table \subseteq Sessions
  BY DEF _refresh_tokens_for, Inv, TypeOK, FamilyInv
<1>3. TypeOK'
  BY <1>1, <1>2 DEF Inv, TypeOK, _refresh_tokens_for
<1>4. \A q \in Requests \ {r} : S \cap held[q] \subseteq overlapped'
  BY <1>1
<1>5. overlapped \subseteq overlapped'
  BY <1>1
<1>6. /\ \A q \in Requests \ {r} : /\ pc'[q] = pc[q] /\ held'[q] = held[q]
                                   /\ seen'[q] = seen[q] /\ seenDead'[q] = seenDead[q]
      /\ pc'[r] = k /\ held'[r] = S /\ seen'[r] = T /\ seenDead'[r] = T \cap dead
      /\ T = _refresh_tokens_for(S)'
  BY <1>1 DEF Inv, TypeOK, _refresh_tokens_for
<1> HIDE DEF T
<1>7. FamilyInv' /\ \A s \in table' : RotationInv(s)'
  BY <1>1, <1>5 DEF Inv, FamilyInv, RotationInv
<1>8. OverlapInv'
  BY <1>4, <1>5, <1>6 DEF Inv, OverlapInv
<1>9. ASSUME NEW q \in Requests PROVE LoadInv(q)'
  <2>1. CASE q = r
    <3>1. \A s \in S \ ended : T \cap dead \cap family[s] \subseteq exchanged
      BY DEF Inv, RotationInv
    <3> QED
      BY <2>1, <1>1, <1>2, <1>6, <3>1 DEF LoadInv
  <2>2. CASE q # r
    BY <2>2, <1>1, <1>5, <1>6 DEF Inv, LoadInv, _refresh_tokens_for
  <2> QED
    BY <2>1, <2>2
<1>10. ASSUME NEW q \in Requests PROVE RefreshInv(q)'
  <2>1. CASE q = r
    BY <2>1, <1>1, <1>2, <1>6 DEF RefreshInv
  <2>2. CASE q # r
    BY <2>2, <1>1, <1>5, <1>6 DEF Inv, RefreshInv
  <2> QED
    BY <2>1, <2>2
<1> QED
  BY <1>3, <1>7, <1>8, <1>9, <1>10 DEF Inv

\* The three ways to load a session.
LEMMA LoadSteps ==
    ASSUME Inv, NEW r \in Requests,
           \/ LoadSession(r) \/ acquire_by_user_id(r)
           \/ \E s \in Sessions : LoadForRevoke(r, s)
    PROVE  Inv'
<1>1. CASE LoadSession(r)
  <2>1. /\ pc[r] = "found" /\ Owner(r) # {} /\ Owner(r) \cap (revoked \cup expired) = {}
        /\ presented[r] \cap (dead \cup stale) = {} /\ Hold(r, "refresh", Owner(r))
        /\ UNCHANGED <<rowVars, presented, issued, started, exchanged, ended, replayed>>
    BY <1>1 DEF LoadSession, find_valid_refresh_token
  <2>2. PICK t \in issued : presented[r] = {t}
    BY <2>1 DEF Inv, RefreshInv
  <2>3. PICK s \in Owner(r) : TRUE
    BY <2>1
  <2>4. /\ Owner(r) \subseteq table /\ s \in table /\ t \in family[s]
        /\ \A x \in Owner(r) : x \in Sessions /\ t \in family[x]
    BY <2>2, <2>3 DEF Owner, Inv, TypeOK
  <2>5. Owner(r) = {s}
    BY <2>3, <2>4 DEF Inv, FamilyInv
  <2>6. s \notin revoked /\ t \notin dead
    BY <2>1, <2>2, <2>5
  <2> QED
    BY <2>1, <2>2, <2>4, <2>5, <2>6, HoldStep
<1>2. CASE acquire_by_user_id(r)
  BY <1>2, HoldStep DEF acquire_by_user_id
<1>3. CASE \E s \in Sessions : LoadForRevoke(r, s)
  BY <1>3, HoldStep DEF LoadForRevoke
<1> QED
  BY <1>1, <1>2, <1>3

\* A login starts a session with a token nobody has seen.
LEMMA StartStep ==
    ASSUME Inv, NEW s \in Sessions, NEW t \in Tokens, start_session(s, t)
    PROVE  Inv'
<1>1. /\ s \notin started /\ t \notin issued
      /\ table' = table \cup {s} /\ family' = [family EXCEPT ![s] = {t}]
      /\ started' = started \cup {s} /\ issued' = issued \cup {t}
      /\ UNCHANGED <<revoked, expired, dead, stale, pc, presented, held, seen, seenDead,
                     exchanged, ended, replayed, overlapped>>
  BY DEF start_session, requestVars
<1>2. /\ s \notin table /\ family[s] = {} /\ s \notin revoked \cup ended \cup overlapped
      /\ \A r \in Requests : s \notin held[r] /\ t \notin seen[r]
      /\ t \notin dead /\ t \notin exchanged /\ table \subseteq Sessions
  BY <1>1 DEF Inv, TypeOK, _refresh_tokens_for
<1>3. /\ family'[s] = {t} /\ \A x \in Sessions \ {s} : family'[x] = family[x]
      /\ \A x \in Sessions : t \notin family[x]
  BY <1>1 DEF Inv, TypeOK
<1>4. TypeOK'
  <2>1. dead' \cup stale' \subseteq _refresh_tokens_for(table)'
    BY <1>1, <1>2, <1>3 DEF Inv, TypeOK, _refresh_tokens_for
  <2>2. family' \in [Sessions -> SUBSET issued'] /\ \A x \in Sessions \ table' : family'[x] = {}
    BY <1>1, <1>2 DEF Inv, TypeOK
  <2> QED
    BY <1>1, <2>1, <2>2 DEF Inv, TypeOK
<1>5. FamilyInv' /\ OverlapInv'
  BY <1>1, <1>3 DEF Inv, FamilyInv, OverlapInv
<1>6. \A x \in table' : RotationInv(x)'
  BY <1>1, <1>2, <1>3 DEF Inv, RotationInv, Lone
<1>7. ASSUME NEW r \in Requests PROVE LoadInv(r)' /\ RefreshInv(r)'
  <2>1. held[r] \subseteq table' => held[r] \subseteq table
    BY <1>1, <1>2
  <2>2. held[r] \subseteq table => _refresh_tokens_for(held[r])' = _refresh_tokens_for(held[r])
    BY <1>1, <1>2, <1>3 DEF _refresh_tokens_for
  <2>3. LoadInv(r)'
    BY <1>1, <1>2, <1>3, <2>1, <2>2 DEF Inv, LoadInv
  <2>4. RefreshInv(r)'
    BY <1>1, <1>2, <1>3 DEF Inv, RefreshInv
  <2> QED
    BY <2>3, <2>4
<1> QED
  BY <1>4, <1>5, <1>6, <1>7 DEF Inv

\* The maintenance worker purges sessions with their tokens: what was loaded
\* of them can no longer be written.
LEMMA PurgeStep ==
    ASSUME Inv, NEW S \in SUBSET Sessions, _purge_expired_sessions(S)
    PROVE  Inv'
<1> DEFINE T == _refresh_tokens_for(S)
<1>1. /\ S \subseteq table /\ table' = table \ S /\ revoked' = revoked \ S /\ expired' = expired \ S
      /\ family' = [s \in Sessions |-> IF s \in S THEN {} ELSE family[s]]
      /\ dead' = dead \ T /\ stale' = stale \ T
      /\ UNCHANGED <<pc, presented, held, seen, seenDead,
                     issued, started, exchanged, ended, replayed, overlapped>>
  BY DEF _purge_expired_sessions, requestVars, clientVars
<1>2. /\ \A s \in table \ S : T \cap family[s] = {} /\ family'[s] = family[s]
      /\ \A t : t \in T <=> \E s \in S : t \in family[s]
      /\ table \subseteq Sessions
  BY <1>1 DEF _refresh_tokens_for, Inv, TypeOK, FamilyInv
<1> HIDE DEF T
<1>3. TypeOK'
  <2>1. dead' \cup stale' \subseteq _refresh_tokens_for(table)'
    BY <1>1, <1>2 DEF Inv, TypeOK, _refresh_tokens_for
  <2>2. family' \in [Sessions -> SUBSET issued'] /\ \A x \in Sessions \ table' : family'[x] = {}
    BY <1>1 DEF Inv, TypeOK
  <2> QED
    BY <1>1, <2>1, <2>2 DEF Inv, TypeOK
<1>4. FamilyInv' /\ OverlapInv'
  BY <1>1 DEF Inv, FamilyInv, OverlapInv
<1>5. \A x \in table' : RotationInv(x)'
  BY <1>1, <1>2 DEF Inv, RotationInv, Lone
<1>6. ASSUME NEW r \in Requests PROVE LoadInv(r)' /\ RefreshInv(r)'
  <2>1. held[r] \subseteq table' => held[r] \subseteq table
    BY <1>1
  <2>2. held[r] \subseteq table' => _refresh_tokens_for(held[r])' = _refresh_tokens_for(held[r])
    BY <1>1, <1>2 DEF _refresh_tokens_for
  <2>3. LoadInv(r)'
    BY <1>1, <1>2, <2>1, <2>2 DEF Inv, LoadInv
  <2>4. RefreshInv(r)'
    BY <1>1, <1>2 DEF Inv, RefreshInv
  <2> QED
    BY <2>3, <2>4
<1> QED
  BY <1>3, <1>4, <1>5, <1>6 DEF Inv

\* Facts about a request that writes the sessions S back with the tokens T it
\* loaded, D of them dead from now on: only its own sessions change.
LEMMA WriteFacts ==
    ASSUME Inv, NEW r \in Requests, NEW D, update(r, seen[r], D), D \subseteq seen[r]
    PROVE  /\ held[r] \subseteq table /\ dead' = (dead \ seen[r]) \cup D
           /\ seen[r] \subseteq _refresh_tokens_for(held[r])
           /\ \A s \in table \ held[r] : dead' \cap family[s] = dead \cap family[s]
           /\ dead' \subseteq _refresh_tokens_for(table)
           /\ \A q \in Requests \ {r} : \A s \in table \ overlapped :
                 s \in held[q] => dead' \cap family[s] = dead \cap family[s]
<1>1. held[r] \subseteq table /\ dead' = (dead \ seen[r]) \cup D
  BY DEF update
<1>2. /\ seen[r] \subseteq _refresh_tokens_for(held[r])
      /\ \A s \in table \ held[r] : seen[r] \cap family[s] = {}
  BY <1>1 DEF Inv, LoadInv
<1>3. _refresh_tokens_for(held[r]) \subseteq _refresh_tokens_for(table)
  BY <1>1 DEF _refresh_tokens_for
<1>4. \A q \in Requests \ {r} : \A s \in table \ overlapped : s \in held[q] => s \notin held[r]
  BY DEF Inv, OverlapInv
<1> QED
  BY <1>1, <1>2, <1>3, <1>4 DEF Inv, TypeOK

\* revoke: of a session nobody else holds, all tokens were loaded.
LEMMA RevokeStep ==
    ASSUME Inv, NEW r \in Requests, revoke(r)
    PROVE  Inv'
<1>1. /\ pc[r] = "revoke" /\ update(r, seen[r], seen[r])
      /\ revoked' = revoked \cup held[r] /\ ended' = ended \cup held[r] /\ Done(r)
      /\ UNCHANGED <<table, expired, family, stale, issued, started, exchanged, replayed, overlapped>>
  BY DEF revoke
<1>2. /\ held[r] \subseteq table /\ dead' = (dead \ seen[r]) \cup seen[r]
      /\ \A s \in table \ held[r] : dead' \cap family[s] = dead \cap family[s]
      /\ dead' \subseteq _refresh_tokens_for(table)
      /\ \A q \in Requests \ {r} : \A s \in table \ overlapped :
            s \in held[q] => dead' \cap family[s] = dead \cap family[s]
  BY <1>1, WriteFacts
<1>3. /\ \A q \in Requests \ {r} :
            /\ pc'[q] = pc[q] /\ presented'[q] = presented[q] /\ held'[q] = held[q]
            /\ seen'[q] = seen[q] /\ seenDead'[q] = seenDead[q]
      /\ pc'[r] = "idle" /\ presented'[r] = {} /\ held'[r] = {} /\ seen'[r] = {} /\ seenDead'[r] = {}
  BY <1>1 DEF Inv, TypeOK, Done
<1>4. TypeOK'
  BY <1>1, <1>2 DEF Inv, TypeOK, Done, _refresh_tokens_for
<1>5. FamilyInv' /\ OverlapInv'
  BY <1>1, <1>3 DEF Inv, FamilyInv, OverlapInv
<1>6. ASSUME NEW s \in table PROVE RotationInv(s)'
  <2>1. CASE s \in held[r]
    <3>1. s \notin overlapped => family[s] \subseteq dead'
      BY <2>1, <1>2 DEF Inv, LoadInv
    <3> QED
      BY <2>1, <3>1, <1>1 DEF RotationInv, Lone
  <2>2. CASE s \notin held[r]
    <3>1. dead' \cap family[s] = dead \cap family[s]
      BY <2>2, <1>2
    <3>2. family[s] \ dead' = family[s] \ dead
      BY <3>1
    <3> QED
      BY <2>2, <3>1, <3>2, <1>1 DEF Inv, RotationInv
  <2> QED
    BY <2>1, <2>2
<1>7. ASSUME NEW q \in Requests PROVE LoadInv(q)' /\ RefreshInv(q)'
  <2>1. CASE q = r
    BY <2>1, <1>3 DEF LoadInv, RefreshInv
  <2>2. CASE q # r
    <3>1. LoadInv(q)'
      BY <2>2, <1>1, <1>2, <1>3 DEF Inv, LoadInv, _refresh_tokens_for
    <3>2. RefreshInv(q)'
      <4> SUFFICES ASSUME pc[q] = "refresh"
                   PROVE  RefreshInv(q)'
        BY <2>2, <1>1, <1>3 DEF Inv, RefreshInv
      <4>1. PICK s \in Sessions, t \in issued :
               /\ held[q] = {s} /\ presented[q] = {t}
               /\ s \in table => t \in family[s] \cap seen[q]
               /\ s \in table \ overlapped => s \notin revoked /\ t \notin dead
        BY DEF Inv, RefreshInv
      <4>2. s \in table \ overlapped => s \notin revoked' /\ t \notin dead'
        BY <2>2, <4>1, <1>1, <1>2 DEF Inv, OverlapInv
      <4> QED
        BY <2>2, <4>1, <4>2, <1>1, <1>3 DEF RefreshInv
    <3> QED
      BY <3>1, <3>2
  <2> QED
    BY <2>1, <2>2
<1> QED
  BY <1>1, <1>4, <1>5, <1>6, <1>7 DEF Inv

\* refresh_session: of a session nobody else holds, the presented token was
\* the live one, and the new one takes its place.
LEMMA RefreshStep ==
    ASSUME Inv, NEW r \in Requests, NEW t \in Tokens, refresh_session(r, t)
    PROVE  Inv'
<1>1. /\ pc[r] = "refresh" /\ t \notin issued
      /\ update(r, seen[r], seenDead[r] \cup presented[r])
      /\ family' = [s \in Sessions |-> IF s \in held[r] THEN family[s] \cup {t} ELSE family[s]]
      /\ revoked' = revoked \ held[r] /\ expired' = expired \ held[r]
      /\ issued' = issued \cup {t} /\ exchanged' = exchanged \cup presented[r] /\ Done(r)
      /\ UNCHANGED <<table, stale, started, ended, replayed, overlapped>>
  BY DEF refresh_session
<1>2. held[r] \subseteq table
  BY <1>1 DEF update
<1>3. PICK o \in Sessions, p \in issued :
         /\ held[r] = {o} /\ presented[r] = {p} /\ o \in table /\ p \in family[o] \cap seen[r]
         /\ o \notin overlapped => o \notin revoked /\ p \notin dead
  BY <1>1, <1>2 DEF Inv, RefreshInv
<1>4. /\ seenDead[r] \cup {p} \subseteq seen[r] /\ seen[r] \subseteq issued
      /\ dead \subseteq issued /\ exchanged \subseteq issued /\ table \subseteq Sessions
      /\ \A s \in Sessions : t \notin family[s]
      /\ \A q \in Requests : t \notin seen[q]
  BY <1>1, <1>3 DEF Inv, LoadInv, TypeOK, _refresh_tokens_for
<1>5. /\ dead' = (dead \ seen[r]) \cup (seenDead[r] \cup {p})
      /\ \A s \in table \ {o} : dead' \cap family[s] = dead \cap family[s]
      /\ dead' \subseteq _refresh_tokens_for(table)
      /\ \A q \in Requests \ {r} : \A s \in table \ overlapped :
            s \in held[q] => dead' \cap family[s] = dead \cap family[s]
  BY <1>1, <1>3, <1>4, WriteFacts
<1>6. /\ family'[o] = family[o] \cup {t}
      /\ \A s \in Sessions \ {o} : family'[s] = family[s] /\ p \notin family[s]
      /\ t \notin dead' /\ t \notin exchanged'
  BY <1>1, <1>3, <1>4, <1>5 DEF Inv, FamilyInv
<1>7. /\ \A q \in Requests \ {r} :
            /\ pc'[q] = pc[q] /\ presented'[q] = presented[q] /\ held'[q] = held[q]
            /\ seen'[q] = seen[q] /\ seenDead'[q] = seenDead[q]
      /\ pc'[r] = "idle" /\ presented'[r] = {} /\ held'[r] = {} /\ seen'[r] = {} /\ seenDead'[r] = {}
  BY <1>1 DEF Inv, TypeOK, Done
<1>8. TypeOK'
  <2>1. family' \in [Sessions -> SUBSET issued'] /\ \A s \in Sessions \ table' : family'[s] = {}
    BY <1>1, <1>3 DEF Inv, TypeOK
  <2>2. _refresh_tokens_for(table) \subseteq _refresh_tokens_for(table)'
    BY <1>1 DEF _refresh_tokens_for, Inv, TypeOK
  <2>3. /\ pc' \in [Requests -> {"idle", "found", "refresh", "revoke"}]
        /\ presented' \in [Requests -> SUBSET issued']
        /\ held' \in [Requests -> SUBSET started'] /\ seen' \in [Requests -> SUBSET issued']
        /\ seenDead' \in [Requests -> SUBSET issued']
    BY <1>1 DEF Inv, TypeOK, Done
  <2> QED
    BY <1>1, <1>3, <1>5, <2>1, <2>2, <2>3 DEF Inv, TypeOK
<1>9. FamilyInv' /\ OverlapInv'
  <2>1. FamilyInv'
    BY <1>4, <1>6 DEF Inv, FamilyInv
  <2>2. UNCHANGED overlapped
    BY <1>1
  <2> QED
    BY <1>7, <2>1, <2>2 DEF Inv, OverlapInv
<1>10. ASSUME NEW s \in table PROVE RotationInv(s)'
  <2>1. CASE s = o
    <3>1. o \notin ended => family'[o] \cap dead' \subseteq exchanged'
      <4>1. o \notin ended => family[o] \cap dead \subseteq exchanged
        BY <1>3 DEF Inv, RotationInv
      <4>2. o \notin ended => seenDead[r] \cap family[o] \subseteq exchanged
        BY <1>3 DEF Inv, LoadInv
      <4> QED
        BY <1>1, <1>3, <1>5, <1>6, <4>1, <4>2
    <3>2. ASSUME o \notin overlapped
          PROVE  /\ Lone(family'[o] \ dead') /\ family'[o] \cap exchanged' \subseteq dead'
                 /\ o \notin revoked'
      <4>1. /\ family[o] \subseteq seen[r] /\ seenDead[r] \cap family[o] = dead \cap family[o]
            /\ Lone(family[o] \ dead) /\ family[o] \cap exchanged \subseteq dead
            /\ p \in family[o] \ dead
        BY <1>3, <3>2 DEF Inv, LoadInv, RotationInv
      <4>2. dead' \cap family[o] = (dead \cap family[o]) \cup {p}
        BY <1>3, <1>5, <4>1
      <4>3. family[o] \ dead = {p}
        BY <4>1 DEF Lone
      <4>4. family'[o] \ dead' = {t}
        BY <1>4, <1>6, <4>2, <4>3
      <4> QED
        BY <1>1, <1>3, <1>6, <4>1, <4>2, <4>4 DEF Lone
    <3> QED
      BY <2>1, <3>1, <3>2, <1>1 DEF RotationInv
  <2>2. CASE s # o
    <3>1. /\ dead' \cap family[s] = dead \cap family[s] /\ family'[s] = family[s]
          /\ family[s] \ dead' = family[s] \ dead /\ p \notin family[s]
      BY <2>2, <1>4, <1>5, <1>6
    <3> QED
      BY <2>2, <3>1, <1>1, <1>3 DEF Inv, RotationInv
  <2> QED
    BY <2>1, <2>2
<1>11. ASSUME NEW q \in Requests PROVE LoadInv(q)' /\ RefreshInv(q)'
  <2>1. CASE q = r
    BY <2>1, <1>7 DEF LoadInv, RefreshInv
  <2>2. CASE q # r
    <3>1. o \in held[q] => o \in overlapped
      BY <2>2, <1>3 DEF Inv, OverlapInv
    <3>2. LoadInv(q)'
      <4>1. \A s \in table \ held[q] : seen[q] \cap family'[s] = {}
        BY <1>3, <1>4, <1>6 DEF Inv, LoadInv
      <4>2. held[q] \subseteq table => seen[q] \subseteq UNION {family'[s] : s \in held[q]}
        <5>1. held[q] \subseteq table =>
                 _refresh_tokens_for(held[q]) \subseteq UNION {family'[s] : s \in held[q]}
          BY <1>3, <1>4, <1>6 DEF _refresh_tokens_for
        <5> QED
          BY <5>1 DEF Inv, LoadInv
      <4>3. \A s \in (held[q] \cap table) \ ended : seenDead[q] \cap family'[s] \subseteq exchanged'
        BY <1>1, <1>4, <1>6 DEF Inv, LoadInv
      <4>4. \A s \in (held[q] \cap table) \ overlapped :
               /\ family'[s] \subseteq seen[q]
               /\ seenDead[q] \cap family'[s] = dead' \cap family'[s]
        BY <2>2, <3>1, <1>4, <1>5, <1>6 DEF Inv, LoadInv
      <4> QED
        <5>1. UNCHANGED <<table, ended, overlapped>>
          BY <1>1
        <5> QED
          BY <2>2, <5>1, <1>7, <4>1, <4>2, <4>3, <4>4 DEF Inv, LoadInv, _refresh_tokens_for
    <3>3. RefreshInv(q)'
      <4> SUFFICES ASSUME pc[q] = "refresh"
                   PROVE  RefreshInv(q)'
        BY <2>2, <1>1, <1>7 DEF Inv, RefreshInv
      <4>1. PICK s \in Sessions, u \in issued :
               /\ held[q] = {s} /\ presented[q] = {u}
               /\ s \in table => u \in family[s] \cap seen[q]
               /\ s \in table \ overlapped => s \notin revoked /\ u \notin dead
        BY DEF Inv, RefreshInv
      <4>2. s \in table \ overlapped => s \notin revoked' /\ u \notin dead'
        BY <2>2, <4>1, <1>1, <1>5
      <4>3. s \in table => u \in family'[s]
        BY <4>1, <1>6
      <4> QED
        BY <2>2, <4>1, <4>2, <4>3, <1>1, <1>7 DEF RefreshInv
    <3> QED
      BY <3>2, <3>3
  <2> QED
    BY <2>1, <2>2
<1> QED
  BY <1>1, <1>8, <1>9, <1>10, <1>11 DEF Inv

\* Every step keeps the invariant.
LEMMA StepInv == Inv /\ [Next]_vars => Inv'
<1> SUFFICES ASSUME Inv, [Next]_vars PROVE Inv'
  OBVIOUS
<1>1. ASSUME NEW s \in Sessions, NEW t \in Tokens, start_session(s, t) PROVE Inv'
  BY <1>1, StartStep
<1>2. ASSUME \/ \E t \in Tokens : TokenNotFound(t) \/ TokenExpires(t)
             \/ \E s \in Sessions : SessionExpires(s)
      PROVE  Inv'
  BY <1>2, AsideSteps
<1>3. ASSUME NEW r \in Requests, RequestNext(r) PROVE Inv'
  <2>1. ASSUME NEW t \in Tokens, FindToken(r, t) \/ refresh_session(r, t) PROVE Inv'
    BY <2>1, FindStep, RefreshStep
  <2>2. CASE \/ LoadSession(r) \/ acquire_by_user_id(r)
             \/ \E s \in Sessions : LoadForRevoke(r, s)
    BY <2>2, LoadSteps
  <2>3. CASE Rollback(r) \/ RefreshTokenReuseError(r)
    BY <2>3, EndSteps
  <2>4. CASE revoke(r)
    BY <2>4, RevokeStep
  <2> QED
    BY <1>3, <2>1, <2>2, <2>3, <2>4 DEF RequestNext
<1>4. ASSUME NEW S \in SUBSET Sessions, _purge_expired_sessions(S) PROVE Inv'
  BY <1>4, PurgeStep
<1>5. CASE UNCHANGED vars
  <2>1. UNCHANGED <<table, revoked, expired, family, dead, stale, pc, presented, held, seen, seenDead,
                    issued, started, exchanged, ended, replayed, overlapped>>
    BY <1>5 DEF vars, rowVars, requestVars, clientVars
  <2>2. TypeOK' /\ FamilyInv' /\ OverlapInv'
    BY <2>1 DEF Inv, TypeOK, FamilyInv, OverlapInv, _refresh_tokens_for
  <2>3. \A r \in Requests : LoadInv(r)' /\ RefreshInv(r)'
    BY <2>1 DEF Inv, LoadInv, RefreshInv, _refresh_tokens_for
  <2> QED
    BY <2>1, <2>2, <2>3 DEF Inv, RotationInv
<1> QED
  BY <1>1, <1>2, <1>3, <1>4, <1>5 DEF Next

-----------------------------------------------------------------------------
(***************************************************************************)
(* The theorems.                                                           *)
(***************************************************************************)

\* What is stored and what is loaded agree, as far as the code makes them, in
\* every reachable state.
THEOREM Invariance == Spec => []Inv
BY InitInv, StepInv, PTL DEF Spec

\* The variables keep their shapes and the foreign keys hold.
THEOREM TypeCorrect == Spec => []TypeOK
<1>1. Inv => TypeOK
  BY DEF Inv
<1> QED
  BY <1>1, Invariance, PTL

\* Rotation: while requests take turns at a session it has one live token at
\* most and accepts no exchanged one; however they overlap, a session that
\* nobody revoked has no dead token but exchanged ones.
THEOREM RotationIsSerial == Spec => []SerialRotation
<1>1. Inv => SerialRotation
  <2> SUFFICES ASSUME Inv PROVE SerialRotation
    OBVIOUS
  <2>1. \A s \in table \ overlapped : Cardinality(family[s] \ dead) <= 1
    BY LoneCardinality DEF Inv, RotationInv
  <2> QED
    BY <2>1 DEF Inv, RotationInv, SerialRotation
<1> QED
  BY <1>1, Invariance, PTL

\* A revocation that no refresh in flight can undo is final: the session is
\* not loaded for a refresh again, gains no token and stays revoked until it
\* is purged.
THEOREM RevocationIsFinal == Spec => RevocationSettles
<1> DEFINE Settles(s) == ~Refreshing(s) =>
               /\ ~Refreshing(s)'
               /\ family'[s] \subseteq family[s]
               /\ s \in revoked' \cup (Sessions \ table')
<1>1. ASSUME Inv, Next, NEW s \in revoked PROVE Settles(s)
  <2> SUFFICES ASSUME ~Refreshing(s)
               PROVE  /\ \A r \in Requests : pc'[r] = "refresh" => s \notin held'[r]
                      /\ family'[s] \subseteq family[s]
                      /\ s \in revoked' \cup (Sessions \ table')
    BY DEF Refreshing
  <2>1. s \in table /\ s \in started /\ s \in Sessions
    BY <1>1 DEF Inv, TypeOK
  <2>2. \A r \in Requests : pc[r] = "refresh" => s \notin held[r]
    BY DEF Refreshing
  <2>3. CASE \/ \E t \in Tokens : TokenNotFound(t) \/ TokenExpires(t)
             \/ \E x \in Sessions : SessionExpires(x)
    <3>1. UNCHANGED <<pc, held, family, revoked>>
      BY <2>3 DEF TokenNotFound, TokenExpires, SessionExpires, rowVars, requestVars, clientVars
    <3> QED
      BY <1>1, <2>2, <3>1
  <2>4. ASSUME NEW x \in Sessions, NEW t \in Tokens, start_session(x, t)
        PROVE  UNCHANGED <<pc, held, revoked>> /\ family'[s] = family[s]
    BY <1>1, <2>1, <2>4 DEF start_session, requestVars, Inv, TypeOK
  <2>5. ASSUME NEW S \in SUBSET Sessions, _purge_expired_sessions(S)
        PROVE  /\ UNCHANGED <<pc, held>> /\ family'[s] \subseteq family[s]
               /\ s \in revoked' \cup (Sessions \ table')
    BY <1>1, <2>1, <2>5 DEF _purge_expired_sessions, requestVars, Inv, TypeOK
  <2>6. ASSUME NEW r \in Requests, RequestNext(r)
        PROVE  /\ \A q \in Requests : pc'[q] = "refresh" => s \notin held'[q]
               /\ family'[s] \subseteq family[s]
               /\ s \in revoked'
    <3>1. CASE \E t \in Tokens : FindToken(r, t)
      BY <1>1, <2>2, <3>1 DEF FindToken, rowVars, Inv, TypeOK
    <3>2. CASE \E t \in Tokens : refresh_session(r, t)
      <4>1. /\ s \notin held[r] /\ Done(r)
            /\ \A x \in Sessions \ held[r] : family'[x] = family[x]
            /\ revoked' = revoked \ held[r]
        BY <2>2, <3>2 DEF refresh_session
      <4> QED
        BY <1>1, <2>1, <2>2, <4>1 DEF Done, Inv, TypeOK
    <3>3. CASE LoadSession(r)
      BY <1>1, <2>2, <3>3 DEF LoadSession, Hold, rowVars, Inv, TypeOK
    <3>4. CASE acquire_by_user_id(r) \/ \E x \in Sessions : LoadForRevoke(r, x)
      BY <1>1, <2>2, <3>4 DEF acquire_by_user_id, LoadForRevoke, Hold, rowVars, Inv, TypeOK
    <3>5. CASE revoke(r) \/ Rollback(r) \/ RefreshTokenReuseError(r)
      BY <1>1, <2>2, <3>5 DEF revoke, Rollback, RefreshTokenReuseError, Done, rowVars, Inv, TypeOK
    <3> QED
      BY <2>6, <3>1, <3>2, <3>3, <3>4, <3>5 DEF RequestNext
  <2> QED
    BY <1>1, <2>2, <2>3, <2>4, <2>5, <2>6 DEF Next
<1>2. Inv /\ [Next]_vars => [\A s \in revoked : Settles(s)]_vars
  BY <1>1
<1> QED
  BY <1>2, Invariance, PTL DEF Spec, RevocationSettles
=============================================================================
