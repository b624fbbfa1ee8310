-------------------------- MODULE CredentialsProofs -------------------------
(***************************************************************************)
(* What survives a password change or a deletion, for any number of        *)
(* sessions and requests.  Two facts carry the proof: a change that        *)
(* commits holds the users row, so every login under way has lost its      *)
(* version by then; and its list of sessions misses only what raced, or    *)
(* else its own version is lost.                                           *)
(***************************************************************************)
EXTENDS Credentials, FiniteSetTheorems, TLAPS

Steps == {"idle", "user", "select", "sessions", "commit"}

\* At most one member.
Lone(T) == \A x, y \in T : x = y

\* The shapes of the variables, but for who is running.
ShapeInv ==
    /\ deleted \in BOOLEAN /\ table \subseteq Sessions /\ revoked \subseteq table
    /\ kind \in [Requests -> Kinds] /\ pc \in [Requests -> Steps]
    /\ todo \in [Requests -> SUBSET Sessions] /\ written \in [Requests -> SUBSET Sessions]
    /\ target \in [Requests -> SUBSET Sessions]
    /\ outdated \subseteq table /\ raced \subseteq table

\* Row locks are held by one running transaction each.
LockInv ==
    /\ userLock \subseteq Running /\ Lone(userLock)
    /\ sessionLock \in [Sessions -> SUBSET Running] /\ \A s \in Sessions : Lone(sessionLock[s])

\* Only running requests have a past.
RunningInv == stale \subseteq Running /\ behind \subseteq Running /\ overlapped \subseteq Running

\* Where a request of each kind may stand, and what it has by then.
PhaseInv ==
    \A r \in Requests :
        /\ Lone(target[r]) /\ target[r] \subseteq todo[r]
        /\ pc[r] # "sessions" => target[r] = {}
        /\ pc[r] = "idle" => todo[r] = {} /\ written[r] = {} /\ kind[r] = "login"
        /\ kind[r] = "login" => pc[r] \in {"idle", "user", "commit"}
        /\ kind[r] \in {"login", "delete_user"} /\ pc[r] = "commit" => r \in userLock
        /\ kind[r] = "change_password" /\ pc[r] \in {"select", "sessions", "commit"} => r \in userLock
        /\ kind[r] = "complete_two_factor" => pc[r] = "commit"
        /\ kind[r] = "refresh" => pc[r] \in {"sessions", "commit"}
                                  /\ todo[r] \cup written[r] \subseteq table
        /\ kind[r] = "delete_user" /\ pc[r] = "user" => todo[r] = {}
        /\ kind[r] \in Changing /\ pc[r] = "commit" => todo[r] = {}
        /\ r \in userLock => r \notin stale

\* The request has listed the sessions it is to revoke.
Listed(r) ==
    /\ kind[r] \in Changing
    /\ \/ pc[r] \in {"sessions", "commit"}
       \/ kind[r] = "delete_user" /\ pc[r] = "user"

\* Whoever runs beside a change is known to, and so is whoever a change has
\* left behind.
OverlapInv ==
    /\ \A r \in Changers : Running \ {r} \subseteq overlapped
    /\ behind \subseteq overlapped

\* A login that a change has left behind has still to write the users row,
\* with a version that is lost.
LoginInv == \A r \in behind : kind[r] = "login" => r \in stale /\ pc[r] = "user"

\* A refresh that met no change writes no outdated session, but one that raced.
RefreshInv ==
    \A r \in Requests \ overlapped :
        kind[r] = "refresh" => (todo[r] \cup written[r]) \cap outdated \subseteq raced

\* A change with a good version has on its list every session that is live,
\* but for those that raced.
ListInv ==
    \A r \in Requests \ stale :
        Listed(r) => table \ revoked \subseteq todo[r] \cup written[r] \cup raced

RaceInv == OverlapInv /\ LoginInv /\ RefreshInv /\ ListInv /\ OnlyRacersSurvive

Inv == ShapeInv /\ LockInv /\ RunningInv /\ PhaseInv /\ RaceInv

-----------------------------------------------------------------------------
(***************************************************************************)
(* What the steps have in common.                                          *)
(***************************************************************************)

\* All requests but r stay as they are.
Others(r) ==
    \A q \in Requests \ {r} :
        /\ pc'[q] = pc[q] /\ kind'[q] = kind[q]
        /\ todo'[q] = todo[q] /\ target'[q] = target[q] /\ written'[q] = written[q]

\* A set of at most one member has a cardinality of at most one.
LEMMA LoneCardinality ==
    ASSUME NEW T, Lone(T)
    PROVE  Cardinality(T) <= 1
<1>1. CASE T = {}
  BY <1>1, FS_EmptySet
<1>2. CASE \E x : T = {x}
  BY <1>2, FS_Singleton
<1> QED
  BY <1>1, <1>2 DEF Lone

\* Everything starts empty and idle.
LEMMA InitInv == Init => Inv
<1> SUFFICES ASSUME Init PROVE Inv
  OBVIOUS
<1>1. Running = {} /\ Changers = {}
  BY DEF Init, Running, Changers
<1>2. ShapeInv
  BY DEF Init, ShapeInv, Kinds, Steps
<1>3. LockInv /\ RunningInv
  BY <1>1 DEF Init, LockInv, RunningInv, Lone
<1>4. PhaseInv
  BY DEF Init, PhaseInv, Changing, Lone
<1>5. RaceInv
  BY <1>1 DEF Init, RaceInv, OverlapInv, LoginInv, RefreshInv, ListInv, Listed, Changing,
              OnlyRacersSurvive
<1> QED
  BY <1>2, <1>3, <1>4, <1>5 DEF Inv

\* A transaction ends, for better or worse: its locks are free and the others
\* keep theirs.
LEMMA EndFrame ==
    ASSUME Inv, NEW r \in Requests, Reset(r), Release(r),
           stale' \subseteq Running \ {r}, \A q \in userLock \ {r} : q \notin stale',
           behind' \subseteq Running \ {r}, table \subseteq table'
    PROVE  /\ Running' = Running \ {r} /\ Changers' = Changers \ {r}
           /\ Others(r) /\ pc'[r] = "idle" /\ kind'[r] = "login"
           /\ todo'[r] = {} /\ written'[r] = {}
           /\ kind' \in [Requests -> Kinds] /\ pc' \in [Requests -> Steps]
           /\ todo' \in [Requests -> SUBSET Sessions]
           /\ written' \in [Requests -> SUBSET Sessions]
           /\ target' \in [Requests -> SUBSET Sessions]
           /\ LockInv' /\ RunningInv' /\ PhaseInv'
<1>1. /\ kind' \in [Requests -> Kinds] /\ pc' \in [Requests -> Steps]
      /\ todo' \in [Requests -> SUBSET Sessions]
      /\ written' \in [Requests -> SUBSET Sessions]
      /\ target' \in [Requests -> SUBSET Sessions]
  BY DEF Inv, ShapeInv, Reset, Kinds, Steps
<1>2. /\ Others(r) /\ pc'[r] = "idle" /\ kind'[r] = "login"
      /\ todo'[r] = {} /\ written'[r] = {} /\ target'[r] = {}
  BY DEF Inv, ShapeInv, Reset, Others
<1>3. Running' = Running \ {r} /\ Changers' = Changers \ {r}
  BY <1>2 DEF Running, Changers, Others
<1>4. LockInv'
  BY <1>3 DEF Inv, LockInv, Release, Lone
<1>5. RunningInv'
  BY <1>3 DEF Inv, RunningInv, Reset
<1>6. PhaseInv'
  <2> SUFFICES ASSUME NEW q \in Requests
               PROVE  PhaseInv!(q)'
    BY DEF PhaseInv
  <2>1. CASE q = r
    BY <2>1, <1>2 DEF Release, Lone, Changing
  <2>2. CASE q # r
    BY <2>2, <1>2 DEF Inv, PhaseInv, Others, Release
  <2> QED
    BY <2>1, <2>2
<1> QED
  BY <1>1, <1>2, <1>3, <1>4, <1>5, <1>6

\* A request is aborted: the rows stay, and what ran beside it ran beside it.
LEMMA AbortStep ==
    ASSUME Inv, NEW r \in Requests, Aborted(r)
    PROVE  Inv'
<1>1. /\ Reset(r) /\ Release(r) /\ stale' = stale \ {r} /\ behind' = behind \ {r}
      /\ overlapped' = overlapped \ {r}
      /\ UNCHANGED <<deleted, table, revoked, outdated, raced>>
  BY DEF Aborted, rollback, rowVars, Reset
<1>2. /\ stale' \subseteq Running \ {r} /\ behind' \subseteq Running \ {r}
      /\ \A q \in userLock \ {r} : q \notin stale'
  BY <1>1 DEF Inv, RunningInv, PhaseInv, LockInv, Running
<1>3. /\ Running' = Running \ {r} /\ Changers' = Changers \ {r}
      /\ Others(r) /\ kind'[r] = "login"
      /\ LockInv' /\ RunningInv' /\ PhaseInv'
  BY <1>1, <1>2, EndFrame
<1>4. ShapeInv'
  BY <1>1, <1>2, EndFrame DEF Inv, ShapeInv
<1>5. OverlapInv' /\ OnlyRacersSurvive'
  BY <1>1, <1>3 DEF Inv, RaceInv, OverlapInv, RunningInv, OnlyRacersSurvive
<1>6. LoginInv'
  BY <1>1, <1>3 DEF Inv, RaceInv, LoginInv, RunningInv, Running, Others
<1>7. RefreshInv'
  BY <1>1, <1>3 DEF Inv, RaceInv, RefreshInv, Others
<1>8. ListInv'
  BY <1>1, <1>3 DEF Inv, RaceInv, ListInv, Listed, Changing, Others
<1> QED
  BY <1>3, <1>4, <1>5, <1>6, <1>7, <1>8 DEF Inv, RaceInv

\* What every commit does to the versions of the others: they are lost if it
\* wrote the users row, and who holds that row then is nobody else.
LEMMA CommitFacts ==
    ASSUME Inv, NEW r \in Requests, Commit(r)
    PROVE  /\ Reset(r) /\ Release(r) /\ pc[r] = "commit" /\ r \in Running
           /\ overlapped' = overlapped \ {r}
           /\ stale' \subseteq Running \ {r} /\ \A q \in userLock \ {r} : q \notin stale'
           /\ stale \ {r} \subseteq stale'
           /\ r \in userLock => Running \ {r} \subseteq stale'
<1>1. /\ Reset(r) /\ Release(r) /\ pc[r] = "commit"
      /\ stale' = (IF r \in userLock THEN stale \cup Running ELSE stale) \ {r}
      /\ overlapped' = overlapped \ {r}
  BY DEF Commit, Reset
<1>2. \A q \in userLock \ {r} : q \notin stale'
  BY <1>1 DEF Inv, PhaseInv, LockInv, Lone, Running
<1> QED
  BY <1>1, <1>2 DEF Inv, RunningInv, Running

\* A login commits its session.  One that a change has left behind is no
\* password login, and is known to have raced; and if a change has made its
\* list, the session has raced or the change's version is lost.
LEMMA CommitSessionStep ==
    ASSUME Inv, NEW r \in Requests, NEW s \in Sessions, CommitSession(r, s)
    PROVE  Inv'
<1>1. /\ kind[r] \in {"login", "complete_two_factor"} /\ s \notin table
      /\ table' = table \cup {s} /\ behind' = behind \ {r}
      /\ outdated' = IF r \in behind THEN outdated \cup {s} ELSE outdated
      /\ raced' = IF kind[r] = "complete_two_factor" /\ r \in overlapped
                  THEN raced \cup {s} ELSE raced
      /\ UNCHANGED <<deleted, revoked>>
  BY DEF CommitSession
<1>2. /\ Reset(r) /\ Release(r) /\ pc[r] = "commit" /\ r \in Running
      /\ overlapped' = overlapped \ {r} /\ stale' \subseteq Running \ {r}
      /\ \A q \in userLock \ {r} : q \notin stale'
      /\ stale \ {r} \subseteq stale'
      /\ r \in userLock => Running \ {r} \subseteq stale'
  BY CommitFacts DEF CommitSession
<1>3. behind' \subseteq Running \ {r} /\ table \subseteq table'
  BY <1>1 DEF Inv, RunningInv
<1>4. /\ Running' = Running \ {r} /\ Changers' = Changers \ {r}
      /\ Others(r) /\ kind'[r] = "login"
      /\ LockInv' /\ RunningInv' /\ PhaseInv'
  BY <1>2, <1>3, EndFrame
<1>5. ShapeInv'
  BY <1>1, <1>2, <1>3, EndFrame DEF Inv, ShapeInv
<1>6. OverlapInv'
  BY <1>1, <1>2, <1>4 DEF Inv, RaceInv, OverlapInv, RunningInv
<1>7. LoginInv'
  BY <1>1, <1>2, <1>4 DEF Inv, RaceInv, LoginInv, RunningInv, Running, Others
<1>8. RefreshInv'
  <2>1. \A q \in Requests : kind[q] = "refresh" => s \notin todo[q] \cup written[q]
    BY <1>1 DEF Inv, PhaseInv
  <2> QED
    BY <1>1, <1>2, <1>4, <2>1 DEF Inv, RaceInv, RefreshInv, Others
<1>9. ListInv'
  <2> SUFFICES ASSUME NEW q \in Requests, q \notin stale', Listed(q)'
               PROVE  table' \ revoked' \subseteq todo'[q] \cup written'[q] \cup raced'
    BY DEF ListInv
  <2>1. q # r /\ Listed(q) /\ todo'[q] = todo[q] /\ written'[q] = written[q]
    BY <1>4 DEF Listed, Changing, Others
  <2>2. q \in Changers /\ q \in Running \ {r} /\ q \notin stale
    BY <1>2, <2>1 DEF Listed, Changers, Running
  <2>3. kind[r] = "complete_two_factor"
    BY <1>1, <1>2, <2>2 DEF Inv, PhaseInv
  <2>4. r \in overlapped
    BY <1>2, <2>2 DEF Inv, RaceInv, OverlapInv
  <2> QED
    BY <1>1, <2>1, <2>2, <2>3, <2>4 DEF Inv, RaceInv, ListInv
<1>10. OnlyRacersSurvive'
  <2>1. r \in behind => kind[r] = "complete_two_factor" /\ r \in overlapped
    BY <1>1, <1>2 DEF Inv, RaceInv, OverlapInv, LoginInv
  <2> QED
    BY <1>1, <2>1 DEF Inv, RaceInv, OnlyRacersSurvive
<1> QED
  BY <1>4, <1>5, <1>6, <1>7, <1>8, <1>9, <1>10 DEF Inv, RaceInv

\* A refresh writes its session back, not revoked.  If a change was near, it
\* has raced; if not, the session was not outdated, or raced already.
LEMMA CommitRefreshStep ==
    ASSUME Inv, NEW r \in Requests, CommitRefresh(r)
    PROVE  Inv'
<1>1. /\ kind[r] = "refresh" /\ written[r] \subseteq table
      /\ revoked' = revoked \ written[r] /\ behind' = behind \ {r}
      /\ raced' = IF r \in overlapped THEN raced \cup written[r] ELSE raced
      /\ UNCHANGED <<deleted, table, outdated>>
  BY DEF CommitRefresh
<1>2. /\ Reset(r) /\ Release(r) /\ pc[r] = "commit" /\ r \in Running
      /\ overlapped' = overlapped \ {r} /\ stale' \subseteq Running \ {r}
      /\ \A q \in userLock \ {r} : q \notin stale'
      /\ stale \ {r} \subseteq stale'
  BY CommitFacts DEF CommitRefresh
<1>3. behind' \subseteq Running \ {r} /\ table \subseteq table'
  BY <1>1 DEF Inv, RunningInv
<1>4. /\ Running' = Running \ {r} /\ Changers' = Changers \ {r}
      /\ Others(r) /\ kind'[r] = "login"
      /\ LockInv' /\ RunningInv' /\ PhaseInv'
  BY <1>2, <1>3, EndFrame
<1>5. ShapeInv'
  BY <1>1, <1>2, <1>3, EndFrame DEF Inv, ShapeInv
<1>6. OverlapInv'
  BY <1>1, <1>2, <1>4 DEF Inv, RaceInv, OverlapInv, RunningInv
<1>7. LoginInv'
  BY <1>1, <1>2, <1>4 DEF Inv, RaceInv, LoginInv, RunningInv, Running, Others
<1>8. RefreshInv'
  BY <1>1, <1>2, <1>4 DEF Inv, RaceInv, RefreshInv, Others
<1>9. ListInv'
  <2> SUFFICES ASSUME NEW q \in Requests, q \notin stale', Listed(q)'
               PROVE  table' \ revoked' \subseteq todo'[q] \cup written'[q] \cup raced'
    BY DEF ListInv
  <2>1. q # r /\ Listed(q) /\ todo'[q] = todo[q] /\ written'[q] = written[q]
    BY <1>4 DEF Listed, Changing, Others
  <2>2. q \in Changers /\ q \in Running \ {r} /\ q \notin stale
    BY <1>2, <2>1 DEF Listed, Changers, Running
  <2>3. r \in overlapped
    BY <1>2, <2>2 DEF Inv, RaceInv, OverlapInv
  <2> QED
    BY <1>1, <2>1, <2>2, <2>3 DEF Inv, RaceInv, ListInv
<1>10. OnlyRacersSurvive'
  BY <1>1 DEF Inv, RaceInv, RefreshInv, OnlyRacersSurvive
<1> QED
  BY <1>4, <1>5, <1>6, <1>7, <1>8, <1>9, <1>10 DEF Inv, RaceInv

\* Revoking every session only revokes.
LEMMA CommitRevokedStep ==
    ASSUME Inv, NEW r \in Requests, CommitRevoked(r)
    PROVE  Inv'
<1>1. /\ revoked' = revoked \cup (written[r] \cap table) /\ behind' = behind \ {r}
      /\ UNCHANGED <<deleted, table, outdated, raced>>
  BY DEF CommitRevoked
<1>2. /\ Reset(r) /\ Release(r) /\ pc[r] = "commit" /\ r \in Running
      /\ overlapped' = overlapped \ {r} /\ stale' \subseteq Running \ {r}
      /\ \A q \in userLock \ {r} : q \notin stale'
      /\ stale \ {r} \subseteq stale'
  BY CommitFacts DEF CommitRevoked
<1>3. behind' \subseteq Running \ {r} /\ table \subseteq table'
  BY <1>1 DEF Inv, RunningInv
<1>4. /\ Running' = Running \ {r} /\ Changers' = Changers \ {r}
      /\ Others(r) /\ kind'[r] = "login"
      /\ LockInv' /\ RunningInv' /\ PhaseInv'
  BY <1>2, <1>3, EndFrame
<1>5. ShapeInv'
  BY <1>1, <1>2, <1>3, EndFrame DEF Inv, ShapeInv
<1>6. OverlapInv' /\ OnlyRacersSurvive'
  BY <1>1, <1>2, <1>4 DEF Inv, RaceInv, OverlapInv, RunningInv, OnlyRacersSurvive
<1>7. LoginInv'
  BY <1>1, <1>2, <1>4 DEF Inv, RaceInv, LoginInv, RunningInv, Running, Others
<1>8. RefreshInv'
  BY <1>1, <1>2, <1>4 DEF Inv, RaceInv, RefreshInv, Others
<1>9. ListInv'
  BY <1>1, <1>2, <1>4 DEF Inv, RaceInv, ListInv, Listed, Changing, Others
<1> QED
  BY <1>4, <1>5, <1>6, <1>7, <1>8, <1>9 DEF Inv, RaceInv

\* New credentials: the change holds the users row, so its list was complete
\* but for what raced, no login is left that could still commit, and whoever
\* runs is known to have met it.
LEMMA CommitChangeStep ==
    ASSUME Inv, NEW r \in Requests, CommitChange(r)
    PROVE  Inv'
<1>1. /\ kind[r] \in Changing
      /\ deleted' = (deleted \/ kind[r] = "delete_user")
      /\ revoked' = revoked \cup (written[r] \cap table)
      /\ behind' = (behind \cup Running) \ {r} /\ outdated' = table
      /\ raced' = raced \ written[r] /\ UNCHANGED table
  BY DEF CommitChange
<1>2. /\ Reset(r) /\ Release(r) /\ pc[r] = "commit" /\ r \in Running
      /\ overlapped' = overlapped \ {r} /\ stale' \subseteq Running \ {r}
      /\ \A q \in userLock \ {r} : q \notin stale'
      /\ stale \ {r} \subseteq stale'
      /\ r \in userLock => Running \ {r} \subseteq stale'
  BY CommitFacts DEF CommitChange
<1>3. behind' \subseteq Running \ {r} /\ table \subseteq table'
  BY <1>1 DEF Inv, RunningInv
<1>4. /\ Running' = Running \ {r} /\ Changers' = Changers \ {r}
      /\ Others(r) /\ kind'[r] = "login"
      /\ LockInv' /\ RunningInv' /\ PhaseInv'
  BY <1>2, <1>3, EndFrame
<1>5. ShapeInv'
  BY <1>1, <1>2, <1>3, EndFrame DEF Inv, ShapeInv
<1>6. r \in userLock /\ r \notin stale /\ todo[r] = {}
  BY <1>1, <1>2 DEF Inv, PhaseInv, Changing
<1>7. Running \ {r} \subseteq overlapped /\ Running \ {r} \subseteq stale'
  BY <1>1, <1>2, <1>6 DEF Inv, RaceInv, OverlapInv, Changers
<1>8. OverlapInv'
  BY <1>1, <1>2, <1>4, <1>7 DEF Inv, RaceInv, OverlapInv, RunningInv
<1>9. LoginInv'
  <2> SUFFICES ASSUME NEW q \in behind', kind'[q] = "login"
               PROVE  q \in stale' /\ pc'[q] = "user"
    BY DEF LoginInv
  <2>1. q \in Running /\ q \in Requests /\ q # r
    BY <1>3 DEF Running
  <2>2. kind[q] = "login" /\ pc'[q] = pc[q] /\ pc[q] # "idle"
    BY <1>4, <2>1 DEF Others, Running
  <2>3. q \notin userLock
    BY <1>6, <2>1 DEF Inv, LockInv, Lone
  <2>4. pc[q] = "user"
    BY <2>1, <2>2, <2>3 DEF Inv, PhaseInv
  <2> QED
    BY <1>7, <2>1, <2>2, <2>4
<1>10. RefreshInv'
  <2> SUFFICES ASSUME NEW q \in Requests, q \notin overlapped', kind'[q] = "refresh" PROVE FALSE
    BY DEF RefreshInv
  <2>1. q # r /\ kind[q] = "refresh"
    BY <1>4 DEF Others
  <2>2. q \in Running
    BY <2>1 DEF Inv, PhaseInv, Running
  <2> QED
    BY <1>2, <1>7, <2>1, <2>2
<1>11. ListInv'
  <2> SUFFICES ASSUME NEW q \in Requests, q \notin stale', Listed(q)' PROVE FALSE
    BY DEF ListInv
  <2>1. q # r /\ Listed(q)
    BY <1>4 DEF Listed, Changing, Others
  <2>2. q \in Running
    BY <2>1 DEF Listed, Running
  <2> QED
    BY <1>7, <2>1, <2>2
<1>12. OnlyRacersSurvive'
  <2>1. table \ revoked \subseteq written[r] \cup raced
    BY <1>1, <1>2, <1>6 DEF Inv, RaceInv, ListInv, Listed
  <2> QED
    BY <1>1, <2>1 DEF OnlyRacersSurvive
<1> QED
  BY <1>4, <1>5, <1>8, <1>9, <1>10, <1>11, <1>12 DEF Inv, RaceInv

-----------------------------------------------------------------------------
(***************************************************************************)
(* The beginning of a request, and its statements.                         *)
(***************************************************************************)

\* How each kind of request begins.  A refresh takes a session that is live.
Opening(k, step, S) ==
    \/ k \in {"login", "change_password"} /\ step = "user" /\ S = {}
    \/ k \in {"delete_user", "revoke_all"} /\ step = "select" /\ S = {}
    \/ k = "complete_two_factor" /\ step = "commit" /\ S = {}
    \/ k = "refresh" /\ step = "sessions" /\ S \subseteq table \ revoked

\* A request begins: a change, and whoever begins beside one, is noted.
LEMMA BeginStep ==
    ASSUME Inv, NEW r \in Requests, NEW k, NEW step, NEW S,
           Begin(r, k, step, S), Opening(k, step, S)
    PROVE  Inv'
<1>1. /\ pc[r] = "idle" /\ kind' = [kind EXCEPT ![r] = k] /\ pc' = [pc EXCEPT ![r] = step]
      /\ todo' = [todo EXCEPT ![r] = S]
      /\ overlapped' = overlapped \cup (IF k \in Changing THEN Running ELSE {})
                                  \cup (IF Changers # {} THEN {r} ELSE {})
      /\ UNCHANGED <<deleted, table, revoked, userLock, sessionLock, stale, target, written,
                     behind, outdated, raced>>
  BY DEF Begin, rowVars, lockVars
<1>2. /\ k \in Kinds /\ step \in Steps \ {"idle"} /\ S \subseteq Sessions
  BY DEF Opening, Kinds, Changing, Steps, Inv, ShapeInv
<1>3. ShapeInv'
  BY <1>1, <1>2 DEF Inv, ShapeInv
<1>4. Others(r) /\ pc'[r] = step /\ kind'[r] = k /\ todo'[r] = S
  BY <1>1 DEF Inv, ShapeInv, Others
<1>5. /\ Running' = Running \cup {r} /\ r \notin Running
      /\ Changers' = Changers \cup (IF k \in Changing THEN {r} ELSE {})
  BY <1>1, <1>2, <1>4 DEF Running, Changers, Others
<1>6. LockInv' /\ RunningInv'
  BY <1>1, <1>5 DEF Inv, LockInv, RunningInv, Lone
<1>7. target[r] = {} /\ written[r] = {} /\ r \notin userLock \cup stale \cup behind
  BY <1>1, <1>5 DEF Inv, PhaseInv, LockInv, RunningInv
<1>8. PhaseInv'
  <2> SUFFICES ASSUME NEW q \in Requests
               PROVE  PhaseInv!(q)'
    BY DEF PhaseInv
  <2>1. CASE q = r
    BY <2>1, <1>1, <1>4, <1>7 DEF Opening, Lone, Changing, Inv, PhaseInv
  <2>2. CASE q # r
    BY <2>2, <1>1, <1>4 DEF Inv, PhaseInv, Others
  <2> QED
    BY <2>1, <2>2
<1>9. OverlapInv'
  BY <1>1, <1>5 DEF Inv, RaceInv, OverlapInv
<1>10. LoginInv'
  BY <1>1, <1>4, <1>7 DEF Inv, RaceInv, LoginInv, RunningInv, Running, Others
<1>11. RefreshInv'
  <2> SUFFICES ASSUME NEW q \in Requests, q \notin overlapped', kind'[q] = "refresh"
               PROVE  (todo'[q] \cup written'[q]) \cap outdated' \subseteq raced'
    BY DEF RefreshInv
  <2>1. CASE q = r
    BY <2>1, <1>1, <1>4, <1>7 DEF Opening, Inv, RaceInv, OnlyRacersSurvive
  <2>2. CASE q # r
    BY <2>2, <1>1, <1>4 DEF Others, Inv, RaceInv, RefreshInv
  <2> QED
    BY <2>1, <2>2
<1>12. ListInv'
  <2> SUFFICES ASSUME NEW q \in Requests, q \notin stale', Listed(q)'
               PROVE  table' \ revoked' \subseteq todo'[q] \cup written'[q] \cup raced'
    BY DEF ListInv
  <2>1. q # r
    BY <1>4 DEF Opening, Listed, Changing
  <2> QED
    BY <2>1, <1>1, <1>4 DEF Others, Inv, RaceInv, ListInv, Listed
<1>13. OnlyRacersSurvive'
  BY <1>1 DEF Inv, RaceInv, OnlyRacersSurvive
<1> QED
  BY <1>3, <1>6, <1>8, <1>9, <1>10, <1>11, <1>12, <1>13 DEF Inv, RaceInv

\* A statement in the middle of a transaction commits nothing.  If it keeps
\* the request in order and its list complete, it keeps the invariant.
LEMMA StatementStep ==
    ASSUME Inv, NEW r \in Requests, Others(r),
           UNCHANGED <<rowVars, kind, stale, history>>,
           pc' \in [Requests -> Steps], pc[r] # "idle", pc'[r] # "idle",
           kind[r] = "login" => pc'[r] = "commit",
           todo' \in [Requests -> SUBSET Sessions], written' \in [Requests -> SUBSET Sessions],
           target' \in [Requests -> SUBSET Sessions],
           userLock' \subseteq Running, Lone(userLock'),
           userLock \subseteq userLock', \A q \in userLock' \ userLock : q = r,
           sessionLock' \in [Sessions -> SUBSET Running],
           \A s \in Sessions : Lone(sessionLock'[s]),
           PhaseInv!(r)',
           kind[r] = "login" => r \notin stale,
           kind[r] = "refresh" => todo'[r] \cup written'[r] = todo[r] \cup written[r],
           r \notin stale /\ Listed(r)' =>
               table \ revoked \subseteq todo'[r] \cup written'[r] \cup raced
    PROVE  Inv'
<1>1. UNCHANGED <<deleted, table, revoked, kind, stale, behind, outdated, overlapped, raced>>
  BY DEF rowVars, history
<1>2. Running' = Running /\ Changers' = Changers
  BY <1>1 DEF Others, Running, Changers
<1>3. ShapeInv'
  BY <1>1 DEF Inv, ShapeInv
<1>4. LockInv' /\ RunningInv'
  BY <1>1, <1>2 DEF Inv, LockInv, RunningInv
<1>5. PhaseInv'
  <2> SUFFICES ASSUME NEW q \in Requests
               PROVE  PhaseInv!(q)'
    BY DEF PhaseInv
  <2>1. CASE q = r
    BY <2>1
  <2>2. CASE q # r
    BY <2>2, <1>1 DEF Inv, PhaseInv, Others
  <2> QED
    BY <2>1, <2>2
<1>6. OverlapInv' /\ OnlyRacersSurvive'
  BY <1>1, <1>2 DEF Inv, RaceInv, OverlapInv, OnlyRacersSurvive
<1>7. LoginInv'
  BY <1>1 DEF Inv, RaceInv, LoginInv, RunningInv, Running, Others
<1>8. RefreshInv'
  BY <1>1 DEF Inv, RaceInv, RefreshInv, Others
<1>9. ListInv'
  BY <1>1 DEF Inv, RaceInv, ListInv, Listed, Others
<1> QED
  BY <1>3, <1>4, <1>5, <1>6, <1>7, <1>8, <1>9 DEF Inv, RaceInv

\* UPDATE users: the row is locked, by a request whose version is good.
LEMMA UpdateUserStep ==
    ASSUME Inv, NEW r \in Requests, update_user(r)
    PROVE  Inv'
<1> DEFINE step == IF kind[r] = "change_password" THEN "select" ELSE "commit"
<1>1. /\ pc[r] = "user" /\ r \notin stale /\ userLock = {} /\ userLock' = {r}
      /\ pc' = [pc EXCEPT ![r] = step]
      /\ UNCHANGED <<rowVars, sessionLock, kind, stale, todo, target, written, history>>
  BY DEF update_user, Go
<1>2. /\ Others(r) /\ pc'[r] = step /\ pc' \in [Requests -> Steps]
      /\ UNCHANGED <<table, revoked, raced>>
  BY <1>1 DEF Others, Inv, ShapeInv, Steps, rowVars, history
<1>3. PhaseInv!(r)'
  BY <1>1, <1>2 DEF Inv, PhaseInv, Lone, Changing
<1>4. userLock' \subseteq Running /\ Lone(userLock')
  BY <1>1 DEF Running, Lone
<1>5. Listed(r)' => Listed(r)
  BY <1>1, <1>2 DEF Listed, Changing
<1>6. r \notin stale /\ Listed(r)' =>
          table \ revoked \subseteq todo'[r] \cup written'[r] \cup raced
  BY <1>1, <1>5 DEF Inv, RaceInv, ListInv
<1> QED
  BY <1>1, <1>2, <1>3, <1>4, <1>6, StatementStep DEF Inv, ShapeInv, LockInv

\* The list of live sessions is complete when it is made.
LEMMA SelectStep ==
    ASSUME Inv, NEW r \in Requests, acquire_by_user_id(r)
    PROVE  Inv'
<1>1. /\ pc[r] = "select" /\ todo' = [todo EXCEPT ![r] = table \ revoked]
      /\ pc' = [pc EXCEPT ![r] = "sessions"]
      /\ UNCHANGED <<rowVars, userLock, sessionLock, kind, stale, target, written, history>>
  BY DEF acquire_by_user_id, Go, lockVars
<1>2. /\ Others(r) /\ pc'[r] = "sessions" /\ pc' \in [Requests -> Steps]
      /\ todo'[r] = table \ revoked /\ todo' \in [Requests -> SUBSET Sessions]
      /\ UNCHANGED <<table, revoked, raced>>
  BY <1>1 DEF Others, Inv, ShapeInv, Steps, rowVars, history
<1>3. PhaseInv!(r)' /\ kind[r] # "login" /\ kind[r] # "refresh"
  BY <1>1, <1>2 DEF Inv, PhaseInv, Lone, Changing
<1> QED
  BY <1>1, <1>2, <1>3, StatementStep DEF Inv, ShapeInv, LockInv

\* UPDATE sessions, sent and then executed: a session moves from the list to
\* what is written.
LEMMA SessionSteps ==
    ASSUME Inv, NEW r \in Requests, NEW s \in Sessions, Send(r, s) \/ update_session(r, s)
    PROVE  Inv'
<1>1. /\ pc[r] = "sessions" /\ UNCHANGED <<rowVars, userLock, kind, pc, stale, history>>
      /\ kind[r] # "login"
  BY DEF Send, update_session, lockVars, Inv, PhaseInv
<1>2. UNCHANGED <<table, revoked, raced>> /\ r \in Running
  BY <1>1 DEF rowVars, history, Running
<1>3. CASE Send(r, s)
  <2>1. /\ s \in todo[r] /\ target' = [target EXCEPT ![r] = {s}]
        /\ UNCHANGED <<sessionLock, todo, written>>
    BY <1>3 DEF Send, lockVars
  <2>2. Others(r) /\ target'[r] = {s} /\ target' \in [Requests -> SUBSET Sessions]
    BY <1>1, <2>1 DEF Others, Inv, ShapeInv
  <2>3. PhaseInv!(r)'
    BY <1>1, <1>2, <2>1, <2>2 DEF Inv, PhaseInv, Lone, Changing
  <2>4. r \notin stale /\ Listed(r)' =>
            table \ revoked \subseteq todo'[r] \cup written'[r] \cup raced
    BY <1>1, <2>1 DEF Inv, RaceInv, ListInv, Listed
  <2> QED
    BY <1>1, <2>1, <2>2, <2>3, <2>4, StatementStep DEF Inv, ShapeInv, LockInv
<1>4. CASE update_session(r, s)
  <2>1. /\ target[r] = {s} /\ sessionLock[s] = {}
        /\ sessionLock' = [sessionLock EXCEPT ![s] = {r}]
        /\ target' = [target EXCEPT ![r] = {}]
        /\ todo' = [todo EXCEPT ![r] = todo[r] \ {s}]
        /\ written' = [written EXCEPT ![r] = written[r] \cup {s}]
    BY <1>4 DEF update_session
  <2>2. /\ Others(r) /\ target'[r] = {} /\ todo'[r] = todo[r] \ {s}
        /\ written'[r] = written[r] \cup {s}
        /\ target' \in [Requests -> SUBSET Sessions] /\ todo' \in [Requests -> SUBSET Sessions]
        /\ written' \in [Requests -> SUBSET Sessions]
    BY <1>1, <2>1 DEF Others, Inv, ShapeInv
  <2>3. s \in todo[r]
    BY <2>1 DEF Inv, PhaseInv
  <2>4. todo'[r] \cup written'[r] = todo[r] \cup written[r]
    BY <2>2, <2>3
  <2>5. /\ sessionLock' \in [Sessions -> SUBSET Running]
        /\ \A x \in Sessions : Lone(sessionLock'[x])
    BY <1>2, <2>1 DEF Inv, LockInv, Lone
  <2>6. PhaseInv!(r)'
    BY <1>1, <1>2, <2>2, <2>4 DEF Inv, PhaseInv, Lone, Changing
  <2>7. r \notin stale /\ Listed(r)' =>
            table \ revoked \subseteq todo'[r] \cup written'[r] \cup raced
    BY <1>1, <2>4 DEF Inv, RaceInv, ListInv, Listed
  <2> QED
    BY <1>1, <2>2, <2>4, <2>5, <2>6, <2>7, StatementStep DEF Inv, ShapeInv, LockInv
<1> QED
  BY <1>3, <1>4

\* All sessions are written: nothing is left on the list.
LEMMA SessionsDoneStep ==
    ASSUME Inv, NEW r \in Requests, SessionsDone(r)
    PROVE  Inv'
<1> DEFINE step == IF kind[r] = "delete_user" THEN "user" ELSE "commit"
<1>1. /\ pc[r] = "sessions" /\ todo[r] = {} /\ pc' = [pc EXCEPT ![r] = step]
      /\ UNCHANGED <<rowVars, userLock, sessionLock, kind, stale, todo, target, written, history>>
  BY DEF SessionsDone, Go, lockVars
<1>2. /\ Others(r) /\ pc'[r] = step /\ pc' \in [Requests -> Steps]
      /\ UNCHANGED <<table, revoked, raced>>
  BY <1>1 DEF Others, Inv, ShapeInv, Steps, rowVars, history
<1>3. PhaseInv!(r)' /\ kind[r] # "login"
  BY <1>1, <1>2 DEF Inv, PhaseInv, Lone, Changing
<1>4. r \notin stale /\ Listed(r)' =>
          table \ revoked \subseteq todo'[r] \cup written'[r] \cup raced
  BY <1>1 DEF Inv, RaceInv, ListInv, Listed
<1> QED
  BY <1>1, <1>2, <1>3, <1>4, StatementStep DEF Inv, ShapeInv, LockInv

\* The maintenance worker purges a session nobody writes.
LEMMA PurgeStep ==
    ASSUME Inv, NEW s \in Sessions, delete_expired(s)
    PROVE  Inv'
<1>1. /\ \A r \in Requests : s \notin todo[r] \cup written[r]
      /\ table' = table \ {s} /\ revoked' = revoked \ {s}
      /\ outdated' = outdated \ {s} /\ raced' = raced \ {s}
      /\ UNCHANGED <<deleted, userLock, sessionLock, kind, pc, stale, todo, target, written,
                     behind, overlapped>>
  BY DEF delete_expired, lockVars, requestVars
<1>2. Running' = Running /\ Changers' = Changers
  BY <1>1 DEF Running, Changers
<1>3. ShapeInv' /\ LockInv' /\ RunningInv'
  BY <1>1, <1>2 DEF Inv, ShapeInv, LockInv, RunningInv
<1>4. PhaseInv'
  BY <1>1 DEF Inv, PhaseInv
<1>5. OverlapInv' /\ LoginInv' /\ OnlyRacersSurvive'
  BY <1>1, <1>2 DEF Inv, RaceInv, OverlapInv, LoginInv, OnlyRacersSurvive
<1>6. RefreshInv' /\ ListInv'
  BY <1>1 DEF Inv, RaceInv, RefreshInv, ListInv, Listed
<1> QED
  BY <1>3, <1>4, <1>5, <1>6 DEF Inv, RaceInv

\* Every step keeps the invariant.
LEMMA StepInv == Inv /\ [Next]_vars => Inv'
<1> SUFFICES ASSUME Inv, [Next]_vars PROVE Inv'
  OBVIOUS
<1>1. ASSUME NEW r \in Requests,
             \/ authenticate(r) \/ complete_two_factor(r) \/ change_password(r)
             \/ reset_password(r) \/ delete_user(r) \/ revoke_all_sessions(r)
      PROVE  Inv'
  BY <1>1, BeginStep DEF authenticate, complete_two_factor, change_password, reset_password,
                         delete_user, revoke_all_sessions, Opening
<1>2. ASSUME NEW r \in Requests, NEW s \in Sessions, refresh_session(r, s) PROVE Inv'
  BY <1>2, BeginStep DEF refresh_session, Opening
<1>3. ASSUME NEW r \in Requests, Step(r) PROVE Inv'
  BY <1>3, UpdateUserStep, SelectStep, SessionSteps, SessionsDoneStep, AbortStep,
     CommitSessionStep, CommitRefreshStep, CommitRevokedStep, CommitChangeStep
     DEF Step, ConcurrentModification
<1>4. ASSUME NEW r \in Requests, Die(r) \/ deadlock_detected(r) PROVE Inv'
  BY <1>4, AbortStep DEF Die, deadlock_detected
<1>5. ASSUME NEW s \in Sessions, delete_expired(s) PROVE Inv'
  BY <1>5, PurgeStep
<1>6. CASE UNCHANGED vars
  <2>1. UNCHANGED <<deleted, table, revoked, userLock, sessionLock, kind, pc, stale, todo, target,
                    written, behind, outdated, overlapped, raced>>
    BY <1>6 DEF vars, rowVars, lockVars, requestVars, history
  <2>2. Running' = Running /\ Changers' = Changers
    BY <2>1 DEF Running, Changers
  <2>3. ShapeInv' /\ LockInv' /\ RunningInv' /\ PhaseInv'
    BY <2>1, <2>2 DEF Inv, ShapeInv, LockInv, RunningInv, PhaseInv
  <2>4. RaceInv'
    BY <2>1, <2>2 DEF Inv, RaceInv, OverlapInv, LoginInv, RefreshInv, ListInv, Listed,
                      OnlyRacersSurvive
  <2> QED
    BY <2>3, <2>4 DEF Inv
<1> QED
  BY <1>1, <1>2, <1>3, <1>4, <1>5, <1>6 DEF Next

-----------------------------------------------------------------------------
(***************************************************************************)
(* The theorems.                                                           *)
(***************************************************************************)

\* Locks, phases and races are in order in every reachable state.
THEOREM Invariance == Spec => []Inv
BY InitInv, StepInv, PTL DEF Spec

\* The variables keep their shapes, and a row lock has one holder, who is
\* running.
THEOREM TypeCorrect == Spec => []TypeOK
<1>1. Inv => TypeOK
  <2> SUFFICES ASSUME Inv PROVE TypeOK
    OBVIOUS
  <2>1. Cardinality(userLock) <= 1 /\ \A s \in Sessions : Cardinality(sessionLock[s]) <= 1
    BY LoneCardinality DEF Inv, LockInv
  <2>2. \A r \in Requests : target[r] \subseteq todo[r] /\ Cardinality(target[r]) <= 1
    BY LoneCardinality DEF Inv, PhaseInv
  <2>3. sessionLock \in [Sessions -> {T \in SUBSET Running : Cardinality(T) <= 1}]
    BY <2>1 DEF Inv, LockInv
  <2> QED
    BY <2>1, <2>2, <2>3 DEF Inv, ShapeInv, LockInv, RunningInv, TypeOK, Steps
<1> QED
  BY <1>1, Invariance, PTL

\* After a password change, a reset or a deletion no session lives on that
\* rests on the old credentials, unless a second factor or a refresh that ran
\* beside the change wrote it; a password login never does.
THEOREM OnlyRacersLive == Spec => []OnlyRacersSurvive
<1>1. Inv => OnlyRacersSurvive
  BY DEF Inv, RaceInv
<1> QED
  BY <1>1, Invariance, PTL

\* A password login that commits rests on the credentials in force: whichever
\* of a login and a change writes the users row first, the other fails.
LoginIsCurrent ==
    \A r \in Requests : kind[r] = "login" /\ pc[r] = "commit" => r \notin behind

\* No password login that a change has overtaken comes as far as its commit.
THEOREM LoginsAreCurrent == Spec => []LoginIsCurrent
<1>1. Inv => LoginIsCurrent
  BY DEF Inv, RaceInv, LoginInv, LoginIsCurrent
<1> QED
  BY <1>1, Invariance, PTL
=============================================================================
