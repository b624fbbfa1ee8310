-------------------------- MODULE OnboardingProofs --------------------------
(***************************************************************************)
(* How an account comes to be and how the rest learns of it, each for every *)
(* value of its constants: first registration (Registration), then the     *)
(* outbox that carries its events (Outbox).                                *)
(***************************************************************************)
EXTENDS Outbox, Registration, FiniteSetTheorems, TLAPS

-----------------------------------------------------------------------------
(***************************************************************************)
(* Names and addresses stay unique and retrying a registration is safe,    *)
(* for any number of users, names, clients and requests.  The pre-checks   *)
(* play no part in either: uniqueness comes from the indexes alone, and a  *)
(* retry is safe because an attempt that gets past the cache is, for a     *)
(* client that waits, one that has created nothing yet.                    *)
(***************************************************************************)

Places == {"idle", "check", "add", "answer", "update"}
Profiles == Profile \cup {Nothing}

\* The columns of the table, and the unique indexes.
TableInv ==
    /\ deleted \subseteq rows /\ rows \subseteq Users
    /\ username \in [Users -> AtMostOne(Names)] /\ email \in [Users -> AtMostOne(Mails)]
    /\ \A u, v \in rows : u # v => username[u] \cap username[v] = {} /\ email[u] \cap email[v] = {}

\* What clients were told and what the cache holds are accounts they created.
ClientInv ==
    /\ accounts \in [Clients -> SUBSET rows] /\ answered \in [Clients -> SUBSET rows]
    /\ cache \in [Clients -> AtMostOne(rows)]
    /\ haunted \cup excused \subseteq Clients
    /\ \A c \in Clients : cache[c] \subseteq accounts[c] /\ answered[c] \subseteq accounts[c]

\* A request at the step p, of the client C, with the row U and the profile
\* w, is in order, when the clients have created the accounts K.
Fits(p, C, U, w, K) ==
    /\ p \in {"idle", "update"} => C = {}
    /\ p \in {"idle", "check", "add"} => U = {}
    /\ p \in {"check", "add", "answer"} => \E c \in Clients : C = {c} /\ w = body[c]
    /\ p = "answer" => U # {} /\ \A c \in C : U \subseteq K[c]
    /\ p = "update" => w \in Profile

RequestInv ==
    /\ at \in [Calls -> Places]
    /\ client \in [Calls -> AtMostOne(Clients)] /\ user \in [Calls -> AtMostOne(rows)]
    /\ wants \in [Calls -> Profiles]
    /\ \A r \in Calls : Fits(at[r], client[r], user[r], wants[r], accounts)

\* A client with a key that waits for its attempts and retries within the
\* day: it has one attempt at a time, which has created nothing before its
\* INSERT; and once it has an account and no attempt, the cache knows.
Waits(c) ==
    /\ \A r, q \in Calls : c \in client[r] /\ c \in client[q] => r = q
    /\ \A r \in Calls : c \in client[r] /\ at[r] \in {"check", "add"} => accounts[c] = {}
    /\ ~InFlight(c) /\ accounts[c] # {} => cache[c] # {}
    /\ c \notin haunted

RetryInv == \A c \in keyed \ excused : Waits(c)

RegistrationInv == TableInv /\ ClientInv /\ RequestInv /\ RetryInv
-----------------------------------------------------------------------------
(***************************************************************************)
(* What the steps have in common.                                          *)
(***************************************************************************)

\* The sets of at most one member.
LEMMA AtMostOneFacts ==
    ASSUME NEW S
    PROVE  /\ {} \in AtMostOne(S) /\ \A x \in S : {x} \in AtMostOne(S)
           /\ \A T \in AtMostOne(S) : T \subseteq S /\ (T = {} \/ \E x \in S : T = {x})
           /\ \A T \in AtMostOne(S) : \A V : T \ V \in AtMostOne(S)
           /\ \A R : S \subseteq R => AtMostOne(S) \subseteq AtMostOne(R)
BY DEF AtMostOne

\* A profile to store has a name, and at most one of each.
LEMMA ProfileFacts ==
    ASSUME NEW p \in Profile
    PROVE  /\ p.name \in AtMostOne(Names) /\ p.name # {} /\ p.mail \in AtMostOne(Mails)
           /\ \A m \in AtMostOne(Mails) : [p EXCEPT !.mail = m] \in Profile
           /\ \A m : [p EXCEPT !.mail = m].name = p.name /\ [p EXCEPT !.mail = m].mail = m
BY DEF Profile, AtMostOne

\* Where no other row is in the way, a profile is stored in the row u and no
\* two rows share a name or an address.
LEMMA StoreKeepsUnique ==
    ASSUME TableInv, NEW u \in Users, NEW p \in Profile, _user_to_values({u}, p),
           rows' \in {rows, rows \cup {u}}, deleted' = deleted,
           \A v \in rows : v # u => username[v] \cap p.name = {} /\ email[v] \cap p.mail = {}
    PROVE  /\ TableInv'
           /\ username'[u] = p.name /\ email'[u] = p.mail
           /\ \A v \in Users : v # u => username'[v] = username[v] /\ email'[v] = email[v]
<1>1. /\ username'[u] = p.name /\ email'[u] = p.mail
      /\ \A v \in Users : v # u => username'[v] = username[v] /\ email'[v] = email[v]
  BY DEF _user_to_values
<1>2. /\ username' \in [Users -> AtMostOne(Names)] /\ email' \in [Users -> AtMostOne(Mails)]
  BY ProfileFacts DEF TableInv, _user_to_values
<1>3. /\ deleted' \subseteq rows' /\ rows' \subseteq Users /\ rows' \subseteq rows \cup {u}
  BY DEF TableInv
<1>4. ASSUME NEW v \in rows', NEW w \in rows', v # w
      PROVE  username'[v] \cap username'[w] = {} /\ email'[v] \cap email'[w] = {}
  BY <1>1, <1>3, <1>4 DEF TableInv
<1> QED
  BY <1>1, <1>2, <1>3, <1>4 DEF TableInv

\* A client whose accounts still hold what it asked for has one at most: two
\* would share the name.
LEMMA OneUnlessMoved ==
    ASSUME RegistrationInv, NEW c \in Clients
    PROVE  Cardinality(accounts[c]) <= 1 \/ Moved(c)
<1> SUFFICES ASSUME ~Moved(c) PROVE Cardinality(accounts[c]) <= 1
  OBVIOUS
<1>1. body[c] \in Profile
  BY RegistrationAssumption
<1>2. ASSUME NEW u \in accounts[c], NEW v \in accounts[c] PROVE u = v
  <2>1. username[u] = body[c].name /\ username[v] = body[c].name /\ body[c].name # {}
    BY <1>1, ProfileFacts DEF Moved
  <2> QED
    BY <2>1 DEF RegistrationInv, TableInv, ClientInv
<1>3. CASE accounts[c] = {}
  <2>1. Cardinality(accounts[c]) = 0
    BY <1>3, FS_EmptySet
  <2> QED
    BY <2>1
<1>4. CASE accounts[c] # {}
  <2>1. PICK u \in accounts[c] : TRUE
    BY <1>4
  <2>2. accounts[c] = {u}
    BY <1>2, <2>1
  <2>3. Cardinality(accounts[c]) = 1
    BY <2>2, FS_Singleton
  <2> QED
    BY <2>3
<1> QED
  BY <1>3, <1>4

\* A step moves one request, to a state that is in order, and creates
\* accounts at most: the requests stay in order.
LEMMA RequestMoves ==
    ASSUME RequestInv, NEW r \in Calls,
           at' \in [Calls -> Places], client' \in [Calls -> AtMostOne(Clients)],
           user'[r] \in AtMostOne(rows'), wants' \in [Calls -> Profiles],
           user' = [user EXCEPT ![r] = user'[r]],
           Fits(at'[r], client'[r], user'[r], wants'[r], accounts'),
           \A q \in Calls : q # r => /\ at'[q] = at[q] /\ client'[q] = client[q]
                                        /\ wants'[q] = wants[q],
           rows \subseteq rows', \A c \in Clients : accounts[c] \subseteq accounts'[c]
    PROVE  RequestInv'
<1>1. AtMostOne(rows) \subseteq AtMostOne(rows')
  BY AtMostOneFacts
<1>2. user' \in [Calls -> AtMostOne(rows')]
  BY <1>1 DEF RequestInv
<1>3. \A q \in Calls : q # r => user'[q] = user[q]
  BY DEF RequestInv
<1>4. ASSUME NEW q \in Calls PROVE Fits(at'[q], client'[q], user'[q], wants'[q], accounts')
  <2>1. CASE q # r
    <3>1. Fits(at[q], client[q], user[q], wants[q], accounts) /\ client[q] \subseteq Clients
      BY AtMostOneFacts DEF RequestInv
    <3>2. Fits(at[q], client[q], user[q], wants[q], accounts')
      BY <3>1 DEF Fits
    <3> QED
      BY <1>3, <2>1, <3>2
  <2> QED
    BY <2>1
<1> QED
  BY <1>2, <1>4 DEF RequestInv

\* A request ends.
LEMMA RequestEnds ==
    ASSUME RequestInv, NEW r \in Calls, Done(r), rows' = rows, accounts' = accounts
    PROVE  /\ RequestInv'
           /\ client'[r] = {} /\ at'[r] = "idle"
           /\ \A q \in Calls : q # r => at'[q] = at[q] /\ client'[q] = client[q]
<1>1. /\ {} \in AtMostOne(Clients) /\ {} \in AtMostOne(rows') /\ Nothing \in Profiles
      /\ "idle" \in Places
  BY AtMostOneFacts DEF Profiles, Places
<1>2. /\ at' \in [Calls -> Places] /\ client' \in [Calls -> AtMostOne(Clients)]
      /\ wants' \in [Calls -> Profiles] /\ user' = [user EXCEPT ![r] = user'[r]]
  BY <1>1 DEF Done, RequestInv
<1>3. /\ at'[r] = "idle" /\ client'[r] = {} /\ user'[r] = {} /\ wants'[r] = Nothing
      /\ \A q \in Calls : q # r => /\ at'[q] = at[q] /\ client'[q] = client[q]
                                      /\ wants'[q] = wants[q]
  BY DEF Done, RequestInv
<1>4. Fits(at'[r], client'[r], user'[r], wants'[r], accounts')
  BY <1>3 DEF Fits
<1>5. rows \subseteq rows' /\ \A c \in Clients : accounts[c] \subseteq accounts'[c]
  OBVIOUS
<1> QED
  BY <1>1, <1>2, <1>3, <1>4, <1>5, RequestMoves

\* A client that waits still does when no request of its own moves and
\* nothing it relies on changes.
LEMMA StillWaits ==
    ASSUME NEW c, Waits(c), accounts'[c] = accounts[c], cache'[c] = cache[c],
           c \in haunted' => c \in haunted,
           \A q \in Calls : c \in client'[q] <=> c \in client[q],
           \A q \in Calls : c \in client[q] => at'[q] = at[q]
    PROVE  Waits(c)'
BY DEF Waits, InFlight

-----------------------------------------------------------------------------
(***************************************************************************)
(* The initial state, and one lemma for each kind of step.                 *)
(***************************************************************************)

\* There is no account and no request yet.
LEMMA RegistrationInitInv == RegistrationInit => RegistrationInv
<1> SUFFICES ASSUME RegistrationInit PROVE RegistrationInv
  OBVIOUS
<1>1. /\ {} \in AtMostOne(Names) /\ {} \in AtMostOne(Mails)
      /\ {} \in AtMostOne(Clients) /\ {} \in AtMostOne(rows)
  BY AtMostOneFacts
<1>2. TableInv /\ ClientInv
  BY <1>1 DEF RegistrationInit, TableInv, ClientInv
<1>3. RequestInv
  BY <1>1 DEF RegistrationInit, RequestInv, Places, Profiles, Fits
<1>4. RetryInv
  BY DEF RegistrationInit, RetryInv, Waits
<1> QED
  BY <1>2, <1>3, <1>4 DEF RegistrationInv

\* An attempt begins.  A client that waits has none under way, and an empty
\* cache says that none of the earlier ones created anything.
LEMMA RegisterStep ==
    ASSUME RegistrationInv, NEW r \in Calls, NEW c \in Clients, RegisterBegins(r, c)
    PROVE  RegistrationInv'
<1>1. TableInv' /\ ClientInv'
  <2>1. excused' \subseteq excused \cup {c}
    BY DEF RegisterBegins, Attempt
  <2> QED
    BY <2>1 DEF RegistrationInv, TableInv, ClientInv, RegisterBegins, tableVars
<1>2. /\ body[c] \in Profiles /\ "check" \in Places
      /\ {c} \in AtMostOne(Clients) /\ {} \in AtMostOne(rows')
  BY RegistrationAssumption, AtMostOneFacts DEF Profiles, Places
<1>3. user[r] = {} /\ client[r] = {} /\ RequestInv
  BY DEF RegisterBegins, RegistrationInv, RequestInv, Fits
<1>4. /\ rows' = rows /\ accounts' = accounts /\ user' = user
      /\ cache' = cache /\ haunted' = haunted
  BY DEF RegisterBegins, tableVars
<1>5. /\ at' \in [Calls -> Places] /\ client' \in [Calls -> AtMostOne(Clients)]
      /\ wants' \in [Calls -> Profiles] /\ user' = [user EXCEPT ![r] = user'[r]]
  BY <1>2, <1>3, <1>4 DEF RegisterBegins, RequestInv
<1>6. /\ at'[r] = "check" /\ client'[r] = {c} /\ wants'[r] = body[c]
      /\ \A q \in Calls : q # r => /\ at'[q] = at[q] /\ client'[q] = client[q]
                                      /\ wants'[q] = wants[q]
  BY <1>3 DEF RegisterBegins, RequestInv
<1>7. Fits(at'[r], client'[r], user'[r], wants'[r], accounts')
  BY <1>3, <1>4, <1>6 DEF Fits
<1>8. rows \subseteq rows' /\ \A d \in Clients : accounts[d] \subseteq accounts'[d]
  BY <1>4
<1>9. RequestInv'
  BY <1>2, <1>3, <1>4, <1>5, <1>6, <1>7, <1>8, RequestMoves
<1>10. ASSUME NEW d \in keyed \ excused' PROVE Waits(d)'
  <2>1. d \notin excused /\ Waits(d)
    BY <1>10 DEF RegisterBegins, Attempt, RegistrationInv, RetryInv
  <2>2. CASE d = c
    <3>1. ~InFlight(c) /\ cache[c] = {}
      BY <1>10, <2>2 DEF RegisterBegins, Attempt
    <3>2. accounts[c] = {} /\ c \notin haunted
      BY <2>1, <2>2, <3>1 DEF Waits
    <3>3. \A q \in Calls : c \in client'[q] => q = r
      BY <1>6, <3>1 DEF InFlight
    <3> QED
      BY <1>4, <2>2, <3>2, <3>3 DEF Waits
  <2>3. CASE d # c
    <3>1. \A q \in Calls : d \in client'[q] <=> d \in client[q]
      BY <1>3, <1>6, <2>3
    <3>2. \A q \in Calls : d \in client[q] => at'[q] = at[q]
      BY <1>3, <1>6
    <3> QED
      BY <1>4, <2>1, <3>1, <3>2, StillWaits
  <2> QED
    BY <2>2, <2>3
<1> QED
  BY <1>1, <1>9, <1>10 DEF RegistrationInv, RetryInv

\* A cached answer is replayed, or expires.
LEMMA CacheSteps ==
    ASSUME RegistrationInv, NEW c \in Clients, get_cached_response(c) \/ Expire(c)
    PROVE  RegistrationInv'
<1>1. /\ UNCHANGED <<rows, deleted, username, email, at, client, user, wants, accounts, haunted>>
      /\ excused \subseteq excused' /\ excused' \subseteq excused \cup {c}
  BY DEF get_cached_response, Expire, Attempt, tableVars, requestVars
<1>2. \A d \in Clients : cache'[d] = cache[d] \/ (d \in excused' /\ cache'[d] = {})
  BY DEF get_cached_response, Expire, RegistrationInv, ClientInv
<1>3. {} \in AtMostOne(rows)
  BY AtMostOneFacts
<1>4. cache' \in [Clients -> AtMostOne(rows)]
  BY <1>3 DEF get_cached_response, Expire, RegistrationInv, ClientInv
<1>5. /\ answered' \in [Clients -> SUBSET rows]
      /\ \A d \in Clients : answered'[d] \subseteq answered[d] \cup cache[d]
  <2>1. CASE get_cached_response(c)
    <3>1. cache[c] \subseteq rows
      BY AtMostOneFacts DEF RegistrationInv, ClientInv
    <3> QED
      BY <2>1, <3>1 DEF get_cached_response, RegistrationInv, ClientInv
  <2>2. CASE Expire(c)
    BY <2>2 DEF Expire, RegistrationInv, ClientInv
  <2> QED
    BY <2>1, <2>2
<1>6. ClientInv'
  BY <1>1, <1>2, <1>4, <1>5 DEF RegistrationInv, ClientInv
<1>7. TableInv' /\ RequestInv'
  BY <1>1 DEF RegistrationInv, TableInv, RequestInv
<1>8. ASSUME NEW d \in keyed \ excused' PROVE Waits(d)'
  <2>1. Waits(d) /\ d \in Clients
    BY <1>1, RegistrationAssumption DEF RegistrationInv, RetryInv
  <2> QED
    BY <1>1, <1>2, <1>8, <2>1, StillWaits
<1> QED
  BY <1>6, <1>7, <1>8 DEF RegistrationInv, RetryInv
\* The pre-checks let a registration through.
LEMMA CreateStep ==
    ASSUME RegistrationInv, NEW r \in Calls, create(r)
    PROVE  RegistrationInv'
<1>1. /\ UNCHANGED <<rows, deleted, username, email, cache, client, user, wants>>
      /\ UNCHANGED <<accounts, answered, haunted, excused>>
      /\ at[r] = "check" /\ at' = [at EXCEPT ![r] = "add"]
  BY DEF create, To, tableVars, history
<1>2. TableInv' /\ ClientInv'
  BY <1>1 DEF RegistrationInv, TableInv, ClientInv
<1>3. RequestInv'
  BY <1>1 DEF RegistrationInv, RequestInv, Places, Fits
<1>4. ASSUME NEW c \in keyed \ excused' PROVE Waits(c)'
  <2>1. Waits(c) /\ at \in [Calls -> Places]
    BY <1>1, <1>4 DEF RegistrationInv, RetryInv, RequestInv
  <2> QED
    BY <1>1, <2>1 DEF Waits, InFlight
<1> QED
  BY <1>2, <1>3, <1>4 DEF RegistrationInv, RetryInv

\* A registration is refused, by a pre-check or by an index.  One of a
\* client that waits is refused because of somebody else's account.
LEMMA RefusedSteps ==
    ASSUME RegistrationInv, NEW r \in Calls, at[r] \in {"check", "add"}, NEW U, AlreadyExists(r, U)
    PROVE  RegistrationInv'
<1>1. /\ UNCHANGED <<rows, deleted, username, email, cache, accounts, answered, excused>>
      /\ haunted' = haunted \cup {c \in client[r] : accounts[c] \cap U # {}} /\ Done(r)
  BY DEF AlreadyExists, tableVars
<1>2. client[r] \subseteq Clients
  BY AtMostOneFacts DEF RegistrationInv, RequestInv
<1>3. TableInv' /\ ClientInv'
  BY <1>1, <1>2 DEF RegistrationInv, TableInv, ClientInv
<1>4. /\ RequestInv' /\ client'[r] = {} /\ at'[r] = "idle"
      /\ \A q \in Calls : q # r => at'[q] = at[q] /\ client'[q] = client[q]
  BY <1>1, RequestEnds DEF RegistrationInv
<1>5. ASSUME NEW c \in keyed \ excused' PROVE Waits(c)'
  <2>1. Waits(c)
    BY <1>1, <1>5 DEF RegistrationInv, RetryInv
  <2>2. c \in client[r] => accounts[c] = {}
    BY <2>1 DEF Waits
  <2>3. c \notin haunted'
    BY <1>1, <2>1, <2>2 DEF Waits
  <2> QED
    BY <1>1, <1>4, <2>1, <2>2, <2>3 DEF Waits, InFlight
<1> QED
  BY <1>3, <1>4, <1>5 DEF RegistrationInv, RetryInv

\* The row is inserted: no row has the name or the address.
LEMMA AddStep ==
    ASSUME RegistrationInv, NEW r \in Calls, NEW u \in Users, add(r, u)
    PROVE  RegistrationInv'
<1>1. /\ at[r] = "add" /\ u \notin rows /\ Conflicts({}, wants[r]) = {}
      /\ rows' = rows \cup {u} /\ _user_to_values({u}, wants[r])
      /\ accounts' = [c \in Clients |-> IF c \in client[r] THEN accounts[c] \cup {u} ELSE accounts[c]]
      /\ at' = [at EXCEPT ![r] = "answer"] /\ user' = [user EXCEPT ![r] = {u}]
      /\ UNCHANGED <<deleted, cache, client, wants, answered, haunted, excused>>
  BY DEF add
<1>2. PICK c \in Clients : client[r] = {c} /\ wants[r] = body[c]
  BY <1>1 DEF RegistrationInv, RequestInv, Fits
<1>3. wants[r] \in Profile
  BY <1>2, RegistrationAssumption
<1>4. \A v \in rows : v # u => username[v] \cap wants[r].name = {} /\ email[v] \cap wants[r].mail = {}
  BY <1>1 DEF Conflicts
<1>5. TableInv'
  BY <1>1, <1>3, <1>4, StoreKeepsUnique DEF RegistrationInv
<1>6. /\ accounts'[c] = accounts[c] \cup {u}
      /\ \A d \in Clients : d # c => accounts'[d] = accounts[d]
      /\ \A d \in Clients : accounts[d] \subseteq accounts'[d]
      /\ accounts' \in [Clients -> SUBSET rows']
  BY <1>1, <1>2 DEF RegistrationInv, ClientInv
<1>7. AtMostOne(rows) \subseteq AtMostOne(rows') /\ {u} \in AtMostOne(rows')
  BY <1>1, AtMostOneFacts
<1>8. ClientInv'
  BY <1>1, <1>6, <1>7 DEF RegistrationInv, ClientInv
<1>9. /\ at' \in [Calls -> Places] /\ client' \in [Calls -> AtMostOne(Clients)]
      /\ wants' \in [Calls -> Profiles] /\ user' = [user EXCEPT ![r] = user'[r]]
      /\ at'[r] = "answer" /\ user'[r] = {u} /\ client' = client /\ wants' = wants
      /\ \A q \in Calls : q # r => /\ at'[q] = at[q] /\ client'[q] = client[q]
                                      /\ wants'[q] = wants[q]
  BY <1>1 DEF RegistrationInv, RequestInv, Places
<1>10. Fits(at'[r], client'[r], user'[r], wants'[r], accounts')
  BY <1>2, <1>6, <1>9 DEF Fits
<1>11. RequestInv /\ rows \subseteq rows'
  BY <1>1 DEF RegistrationInv
<1>12. RequestInv'
  BY <1>6, <1>7, <1>9, <1>10, <1>11, RequestMoves
<1>13. ASSUME NEW d \in keyed \ excused' PROVE Waits(d)'
  <2>1. Waits(d) /\ d \in Clients
    BY <1>1, <1>13, RegistrationAssumption DEF RegistrationInv, RetryInv
  <2>2. CASE d = c
    <3>1. InFlight(d)'
      BY <1>2, <1>9, <2>2 DEF InFlight
    <3>2. \A q \in Calls : d \in client'[q] => q = r
      BY <1>2, <1>9, <2>1, <2>2 DEF Waits
    <3> QED
      BY <1>1, <1>9, <2>1, <3>1, <3>2 DEF Waits
  <2>3. CASE d # c
    <3>1. accounts'[d] = accounts[d] /\ cache' = cache /\ haunted' = haunted
      BY <1>1, <1>6, <2>1, <2>3
    <3>2. \A q \in Calls : d \in client'[q] <=> d \in client[q]
      BY <1>9
    <3>3. \A q \in Calls : d \in client[q] => at'[q] = at[q]
      BY <1>2, <1>9, <2>3
    <3> QED
      BY <2>1, <3>1, <3>2, <3>3, StillWaits
  <2> QED
    BY <2>2, <2>3
<1> QED
  BY <1>5, <1>8, <1>12, <1>13 DEF RegistrationInv, RetryInv

\* The answer is cached and sent.
LEMMA AnswerStep ==
    ASSUME RegistrationInv, NEW r \in Calls, cache_response(r)
    PROVE  RegistrationInv'
<1>1. /\ at[r] = "answer" /\ Done(r)
      /\ cache' = [c \in Clients |-> IF c \in client[r] \cap keyed THEN user[r] ELSE cache[c]]
      /\ answered' = [c \in Clients |-> IF c \in client[r] THEN answered[c] \cup user[r] ELSE answered[c]]
      /\ UNCHANGED <<rows, deleted, username, email, accounts, haunted, excused>>
  BY DEF cache_response, tableVars
<1>2. /\ user[r] # {} /\ user[r] \in AtMostOne(rows) /\ user[r] \subseteq rows
      /\ \A c \in client[r] : user[r] \subseteq accounts[c]
  BY <1>1, AtMostOneFacts DEF RegistrationInv, RequestInv, Fits
<1>3. TableInv' /\ ClientInv'
  BY <1>1, <1>2 DEF RegistrationInv, TableInv, ClientInv
<1>4. /\ RequestInv' /\ client'[r] = {} /\ at'[r] = "idle"
      /\ \A q \in Calls : q # r => at'[q] = at[q] /\ client'[q] = client[q]
  BY <1>1, RequestEnds DEF RegistrationInv
<1>5. ASSUME NEW c \in keyed \ excused' PROVE Waits(c)'
  <2>1. Waits(c) /\ c \in Clients
    BY <1>1, <1>5, RegistrationAssumption DEF RegistrationInv, RetryInv
  <2>2. c \in client[r] => cache'[c] # {}
    BY <1>1, <1>2, <1>5, <2>1
  <2>3. c \notin client[r] => cache'[c] = cache[c]
    BY <1>1, <2>1
  <2> QED
    BY <1>1, <1>4, <2>1, <2>2, <2>3 DEF Waits, InFlight
<1> QED
  BY <1>3, <1>4, <1>5 DEF RegistrationInv, RetryInv

\* A profile update begins.
LEMMA UpdateBeginsStep ==
    ASSUME RegistrationInv, NEW r \in Calls, NEW u \in Users, NEW p \in Profile, update_user(r, u, p)
    PROVE  RegistrationInv'
<1>1. /\ at[r] = "idle" /\ u \in rows
      /\ at' = [at EXCEPT ![r] = "update"] /\ user' = [user EXCEPT ![r] = {u}]
      /\ wants' = [wants EXCEPT ![r] = p]
      /\ UNCHANGED <<rows, deleted, username, email, cache, client>>
      /\ UNCHANGED <<accounts, answered, haunted, excused>>
  BY DEF update_user, tableVars, history
<1>2. TableInv' /\ ClientInv'
  BY <1>1 DEF RegistrationInv, TableInv, ClientInv
<1>3. {u} \in AtMostOne(rows') /\ client[r] = {}
  BY <1>1, AtMostOneFacts DEF RegistrationInv, RequestInv, Fits
<1>4. /\ at' \in [Calls -> Places] /\ client' \in [Calls -> AtMostOne(Clients)]
      /\ wants' \in [Calls -> Profiles] /\ user' = [user EXCEPT ![r] = user'[r]]
      /\ at'[r] = "update" /\ user'[r] = {u} /\ client' = client /\ wants'[r] = p
      /\ \A q \in Calls : q # r => /\ at'[q] = at[q] /\ client'[q] = client[q]
                                      /\ wants'[q] = wants[q]
  BY <1>1 DEF RegistrationInv, RequestInv, Places, Profiles
<1>5. Fits(at'[r], client'[r], user'[r], wants'[r], accounts')
  BY <1>3, <1>4 DEF Fits
<1>6. RequestInv /\ rows \subseteq rows' /\ \A c \in Clients : accounts[c] \subseteq accounts'[c]
  BY <1>1 DEF RegistrationInv
<1>7. RequestInv'
  BY <1>3, <1>4, <1>5, <1>6, RequestMoves
<1>8. ASSUME NEW c \in keyed \ excused' PROVE Waits(c)'
  <2>1. Waits(c)
    BY <1>1, <1>8 DEF RegistrationInv, RetryInv
  <2> QED
    BY <1>1, <1>3, <1>4, <2>1, StillWaits
<1> QED
  BY <1>2, <1>7, <1>8 DEF RegistrationInv, RetryInv

\* The update is written: no other row has the new name or the new address,
\* and the old address, when it stays, was nobody else's.
LEMMA UpdateStep ==
    ASSUME RegistrationInv, NEW r \in Calls, update(r)
    PROVE  RegistrationInv'
<1>1. /\ at[r] = "update" /\ user[r] \subseteq rows /\ Conflicts(user[r], wants[r]) = {}
      /\ at' = [at EXCEPT ![r] = "idle"]
      /\ user' = [q \in Calls |-> IF at[q] = "update" THEN user[q] \ user[r] ELSE user[q]]
      /\ wants' = [wants EXCEPT ![r] = Nothing]
      /\ UNCHANGED <<rows, deleted, cache, client, accounts, answered, haunted, excused>>
  BY DEF update, history
<1>2. PICK u \in user[r] : _user_to_values({u},
         [wants[r] EXCEPT !.mail = IF wants[r].mail = {} THEN email[u] ELSE wants[r].mail])
  BY DEF update
<1>3. wants[r] \in Profile /\ user[r] = {u} /\ u \in rows /\ client[r] = {} /\ u \in Users
  BY <1>1, <1>2, AtMostOneFacts DEF RegistrationInv, RequestInv, Fits, TableInv
<1> DEFINE m == IF wants[r].mail = {} THEN email[u] ELSE wants[r].mail
           p == [wants[r] EXCEPT !.mail = m]
<1>4. m \in AtMostOne(Mails)
  BY <1>3, ProfileFacts DEF RegistrationInv, TableInv
<1>5. p \in Profile /\ p.name = wants[r].name /\ p.mail = m
  BY <1>3, <1>4, ProfileFacts
<1>6. ASSUME NEW v \in rows, v # u
      PROVE  username[v] \cap p.name = {} /\ email[v] \cap p.mail = {}
  <2>1. username[v] \cap wants[r].name = {} /\ email[v] \cap wants[r].mail = {}
    BY <1>1, <1>3, <1>6 DEF Conflicts
  <2>2. email[v] \cap email[u] = {}
    BY <1>3, <1>6 DEF RegistrationInv, TableInv
  <2> QED
    BY <1>5, <2>1, <2>2
<1>7. TableInv'
  <2> HIDE DEF p, m
  <2>1. _user_to_values({u}, p)
    BY <1>2 DEF p, m
  <2>2. TableInv /\ rows' \in {rows, rows \cup {u}} /\ deleted' = deleted
    BY <1>1 DEF RegistrationInv
  <2> QED
    BY <1>3, <1>5, <1>6, <2>1, <2>2, StoreKeepsUnique
<1>8. ClientInv'
  BY <1>1 DEF RegistrationInv, ClientInv
<1>9. RequestInv'
  <2>1. /\ at' \in [Calls -> Places] /\ client' \in [Calls -> AtMostOne(Clients)]
        /\ wants' \in [Calls -> Profiles]
    BY <1>1 DEF RegistrationInv, RequestInv, Places, Profiles
  <2>2. user' \in [Calls -> AtMostOne(rows')]
    <3>1. \A T \in AtMostOne(rows) : T \ user[r] \in AtMostOne(rows)
      BY AtMostOneFacts
    <3>2. rows' = rows /\ \A q \in Calls : user[q] \in AtMostOne(rows)
      BY <1>1 DEF RegistrationInv, RequestInv
    <3> HIDE DEF p, m
    <3> QED
      BY <1>1, <3>1, <3>2
  <2>3. ASSUME NEW q \in Calls PROVE Fits(at'[q], client'[q], user'[q], wants'[q], accounts')
    <3>1. Fits(at[q], client[q], user[q], wants[q], accounts)
      BY DEF RegistrationInv, RequestInv
    <3>2. CASE q = r
      <4>1. at'[q] = "idle" /\ client'[q] = {} /\ user'[q] = {}
        BY <1>1, <1>3, <3>2 DEF RegistrationInv, RequestInv
      <4> QED
        BY <4>1 DEF Fits
    <3>3. CASE q # r
      <4>1. /\ at'[q] = at[q] /\ client'[q] = client[q] /\ wants'[q] = wants[q]
            /\ accounts' = accounts /\ (at[q] # "update" => user'[q] = user[q])
        BY <1>1, <3>3 DEF RegistrationInv, RequestInv
      <4> QED
        BY <3>1, <4>1 DEF Fits
    <3> QED
      BY <3>2, <3>3
  <2> QED
    BY <2>1, <2>2, <2>3 DEF RequestInv
<1>10. ASSUME NEW c \in keyed \ excused' PROVE Waits(c)'
  <2>1. Waits(c)
    BY <1>1, <1>10 DEF RegistrationInv, RetryInv
  <2>2. \A q \in Calls : c \in client[q] => at'[q] = at[q]
    BY <1>1, <1>3 DEF RegistrationInv, RequestInv
  <2> QED
    BY <1>1, <2>1, <2>2, StillWaits
<1> QED
  BY <1>7, <1>8, <1>9, <1>10 DEF RegistrationInv, RetryInv

\* An account is deleted, or the maintenance worker strips deleted ones.
LEMMA ReleaseSteps ==
    ASSUME RegistrationInv,
           (\E u \in Users : delete_user(u)) \/ (\E S \in SUBSET Users : _anonymise_deleted_users(S))
    PROVE  RegistrationInv'
<1>1. /\ UNCHANGED <<rows, cache, at, client, user, wants>>
      /\ UNCHANGED <<accounts, answered, haunted, excused>>
  BY DEF delete_user, _anonymise_deleted_users, requestVars, history
<1>2. {} \in AtMostOne(Names) /\ {} \in AtMostOne(Mails)
  BY AtMostOneFacts
<1>3. /\ deleted' \subseteq rows
      /\ username' \in [Users -> AtMostOne(Names)] /\ email' \in [Users -> AtMostOne(Mails)]
      /\ \A v \in Users : username'[v] \subseteq username[v] /\ email'[v] \subseteq email[v]
  BY <1>2 DEF delete_user, _anonymise_deleted_users, RegistrationInv, TableInv
<1>4. TableInv'
  BY <1>1, <1>3 DEF RegistrationInv, TableInv
<1>5. ClientInv' /\ RequestInv'
  BY <1>1 DEF RegistrationInv, ClientInv, RequestInv
<1>6. RetryInv'
  BY <1>1 DEF RegistrationInv, RetryInv, Waits, InFlight
<1> QED
  BY <1>4, <1>5, <1>6 DEF RegistrationInv

\* A request dies.  Before the INSERT, a client that waits has no account yet;
\* after it, the client is excused.
LEMMA DieStep ==
    ASSUME RegistrationInv, NEW r \in Calls, Die(r)
    PROVE  RegistrationInv'
<1>1. /\ UNCHANGED <<rows, deleted, username, email, cache, accounts, answered, haunted>>
      /\ excused' = (IF at[r] = "answer" THEN excused \cup client[r] ELSE excused)
      /\ at[r] # "idle" /\ Done(r)
  BY DEF Die, tableVars
<1>2. client[r] \subseteq Clients
  BY AtMostOneFacts DEF RegistrationInv, RequestInv
<1>3. TableInv' /\ ClientInv'
  BY <1>1, <1>2 DEF RegistrationInv, TableInv, ClientInv
<1>4. /\ RequestInv' /\ client'[r] = {} /\ at'[r] = "idle"
      /\ \A q \in Calls : q # r => at'[q] = at[q] /\ client'[q] = client[q]
  BY <1>1, RequestEnds DEF RegistrationInv
<1>5. ASSUME NEW c \in keyed \ excused' PROVE Waits(c)'
  <2>1. Waits(c)
    BY <1>1, <1>5 DEF RegistrationInv, RetryInv
  <2>2. c \in client[r] => accounts[c] = {}
    <3>1. c \in client[r] => at[r] \in {"check", "add"}
      BY <1>1, <1>5 DEF RegistrationInv, RequestInv, Fits, Places
    <3> QED
      BY <2>1, <3>1 DEF Waits
  <2> QED
    BY <1>1, <1>4, <2>1, <2>2 DEF Waits, InFlight
<1> QED
  BY <1>3, <1>4, <1>5 DEF RegistrationInv, RetryInv

\* Every step keeps the invariant.
LEMMA RegistrationStepInv == RegistrationInv /\ [RegistrationNext]_registrationVars => RegistrationInv'
<1> SUFFICES ASSUME RegistrationInv, [RegistrationNext]_registrationVars PROVE RegistrationInv'
  OBVIOUS
<1>1. ASSUME NEW r \in Calls, NEW c \in Clients, RegisterBegins(r, c) PROVE RegistrationInv'
  BY <1>1, RegisterStep
<1>2. ASSUME NEW c \in Clients, get_cached_response(c) \/ Expire(c) PROVE RegistrationInv'
  BY <1>2, CacheSteps
<1>3. ASSUME NEW r \in Calls, NEW u \in Users, add(r, u) PROVE RegistrationInv'
  BY <1>3, AddStep
<1>4. ASSUME NEW r \in Calls, create(r) PROVE RegistrationInv'
  BY <1>4, CreateStep
<1>5. ASSUME NEW r \in Calls, CreateRefused(r) \/ _uniqueness_error(r) PROVE RegistrationInv'
  BY <1>5, RefusedSteps DEF CreateRefused, _uniqueness_error
<1>6. ASSUME NEW r \in Calls, cache_response(r) PROVE RegistrationInv'
  BY <1>6, AnswerStep
<1>7. ASSUME NEW r \in Calls, update(r) PROVE RegistrationInv'
  BY <1>7, UpdateStep
<1>8. ASSUME NEW r \in Calls, Die(r) PROVE RegistrationInv'
  BY <1>8, DieStep
<1>9. ASSUME NEW r \in Calls, NEW u \in Users, NEW p \in Profile, update_user(r, u, p)
      PROVE  RegistrationInv'
  BY <1>9, UpdateBeginsStep
<1>10. ASSUME (\E u \in Users : delete_user(u)) \/ Anonymise PROVE RegistrationInv'
  BY <1>10, ReleaseSteps DEF Anonymise
<1>11. CASE UNCHANGED registrationVars
  <2>1. /\ UNCHANGED <<rows, deleted, username, email, cache, at, client, user, wants>>
        /\ UNCHANGED <<accounts, answered, haunted, excused>>
    BY <1>11 DEF registrationVars, tableVars, requestVars, history
  <2> QED
    BY <2>1 DEF RegistrationInv, TableInv, ClientInv, RequestInv, RetryInv, Waits, InFlight
<1> QED
  BY <1>1, <1>2, <1>3, <1>4, <1>5, <1>6, <1>7, <1>8, <1>9, <1>10, <1>11 DEF RegistrationNext

-----------------------------------------------------------------------------
(***************************************************************************)
(* The theorems.                                                           *)
(***************************************************************************)

\* The inductive invariant holds in every reachable state.
THEOREM RegistrationInvariance == RegistrationSpec => []RegistrationInv
BY RegistrationInitInv, RegistrationStepInv, PTL DEF RegistrationSpec

\* The variables keep their shapes, and two rows never share a name or an
\* address, whatever pre-checks, inserts, updates and releases interleave.
THEOREM RegistrationTypeCorrect == RegistrationSpec => []RegistrationTypeOK
<1>1. RegistrationInv => RegistrationTypeOK
  BY DEF RegistrationInv, TableInv, ClientInv, RequestInv, RegistrationTypeOK, Places, Profiles
<1> QED
  BY <1>1, RegistrationInvariance, PTL

\* Retrying is safe: one account per client as long as its accounts hold what
\* it asked for, no answer but with its own accounts, and no client with a key
\* that waits is told that its own account is in its way.
THEOREM RetriesAreSafe == RegistrationSpec => []RetryIsSafe
<1>1. ASSUME RegistrationInv PROVE RetryIsSafe
  BY <1>1, OneUnlessMoved DEF RegistrationInv, ClientInv, RetryInv, Waits, RetryIsSafe
<1> QED
  BY <1>1, RegistrationInvariance, PTL

-----------------------------------------------------------------------------
(***************************************************************************)
(* Proofs about the outbox, for any number of events, requests, worker     *)
(* replicas, attempts, faults and replays.  OutboxInv is inductive: each   *)
(* action preserves it (one lemma per action), the safety properties are   *)
(* its conjuncts or follow from it, and the action property and the        *)
(* refinement hold of every step taken from a state that satisfies it.     *)
(***************************************************************************)

\* The empty outbox satisfies the inductive invariant.
LEMMA InitInv == Init => OutboxInv
  <1> SUFFICES ASSUME Init PROVE OutboxInv
    OBVIOUS
  <1>1. TypeOK
    BY OutboxAssumption DEF Init, TypeOK
  <1>2. RetryBudget
    BY OutboxAssumption DEF Init, RetryBudget
  <1>3. ClaimExclusive /\ BatchInv
    BY DEF Init, ClaimExclusive, BatchInv
  <1>4. Transactional /\ ProcessedWasPublished /\ OriginInv
    BY DEF Init, Transactional, ProcessedWasPublished, OriginInv
  <1>5. SecretsConfined /\ CopiesInv
    BY DEF Init, SecretsConfined, CopiesInv, Relayed, Mailed
  <1> QED
    BY <1>1, <1>2, <1>3, <1>4, <1>5 DEF OutboxInv

\* register touches memory only: the events are fresh, so they have no row.
LEMMA registerStep ==
    ASSUME OutboxInv, NEW r \in Requests, NEW E \in SUBSET Events, register(r, E)
    PROVE  OutboxInv'
  <1>0. /\ TypeOK /\ ClaimExclusive /\ Transactional /\ ProcessedWasPublished
        /\ SecretsConfined /\ RetryBudget /\ BatchInv /\ OriginInv /\ CopiesInv
    BY DEF OutboxInv
  <1>1. TypeOK'
    BY <1>0, OutboxAssumption DEF register, rowVars, workerVars, envVars, TypeOK
  <1>2. Transactional'
    BY <1>0 DEF register, rowVars, workerVars, envVars, Transactional, TypeOK,
       OriginInv, Recorded
  <1>3. OriginInv'
    BY <1>0 DEF register, rowVars, workerVars, envVars, OriginInv, TypeOK, Recorded
  <1>4. ClaimExclusive' /\ ProcessedWasPublished' /\ SecretsConfined' /\
        RetryBudget' /\ BatchInv' /\ CopiesInv'
    BY <1>0 DEF register, rowVars, workerVars, envVars, ClaimExclusive, Pending,
       ProcessedWasPublished, SecretsConfined, RetryBudget, BatchInv, CopiesInv,
       Relayed, Mailed
  <1> QED
    BY <1>1, <1>2, <1>3, <1>4 DEF OutboxInv

\* Flush stamps the rows but shows nothing.
LEMMA FlushStep ==
    ASSUME OutboxInv, NEW r \in Requests, Flush(r)
    PROVE  OutboxInv'
  <1>0. /\ TypeOK /\ ClaimExclusive /\ Transactional /\ ProcessedWasPublished
        /\ SecretsConfined /\ RetryBudget /\ BatchInv /\ OriginInv /\ CopiesInv
    BY DEF OutboxInv
  <1>1. TypeOK'
    BY <1>0, OutboxAssumption DEF Flush, rowVars, workerVars, envVars, TypeOK
  <1>2. OriginInv'
    BY <1>0 DEF Flush, rowVars, workerVars, envVars, OriginInv
  <1>3. ClaimExclusive' /\ Transactional' /\ ProcessedWasPublished' /\
        SecretsConfined' /\ RetryBudget' /\ BatchInv' /\ CopiesInv'
    BY <1>0 DEF Flush, rowVars, workerVars, envVars, ClaimExclusive, Pending,
       Transactional, ProcessedWasPublished, SecretsConfined, RetryBudget, BatchInv,
       CopiesInv, Relayed, Mailed
  <1> QED
    BY <1>1, <1>2, <1>3 DEF OutboxInv

\* Commit makes the rows of one request visible, with their tokens.
LEMMA CommitStep ==
    ASSUME OutboxInv, NEW r \in Requests, Commit(r)
    PROVE  OutboxInv'
  <1>0. /\ TypeOK /\ ClaimExclusive /\ Transactional /\ ProcessedWasPublished
        /\ SecretsConfined /\ RetryBudget /\ BatchInv /\ OriginInv /\ CopiesInv
    BY DEF OutboxInv
  <1>1. TypeOK'
    BY <1>0, OutboxAssumption DEF Commit, handle_many, _persist_outbox_event, workerVars,
       envVars, TypeOK
  <1>2. ClaimExclusive'
    BY <1>0 DEF Commit, handle_many, _persist_outbox_event, workerVars, envVars, ClaimExclusive,
       Pending
  <1>3. Transactional'
    BY <1>0 DEF Commit, handle_many, _persist_outbox_event, workerVars, envVars, Transactional,
       TypeOK, OriginInv
  <1>4. ProcessedWasPublished'
    BY <1>0 DEF Commit, handle_many, _persist_outbox_event, workerVars, envVars,
       ProcessedWasPublished
  <1>5. SecretsConfined'
    BY <1>0 DEF Commit, handle_many, _persist_outbox_event, workerVars, envVars, SecretsConfined,
       TypeOK, OriginInv
  <1>6. OriginInv'
    BY <1>0 DEF Commit, handle_many, _persist_outbox_event, workerVars, envVars, OriginInv,
       TypeOK
  <1>7. RetryBudget' /\ BatchInv' /\ CopiesInv'
    BY <1>0 DEF Commit, handle_many, _persist_outbox_event, workerVars, envVars, RetryBudget,
       BatchInv, CopiesInv, Relayed, Mailed
  <1> QED
    BY <1>1, <1>2, <1>3, <1>4, <1>5, <1>6, <1>7 DEF OutboxInv

\* Rollback leaves no trace.
LEMMA RollbackStep ==
    ASSUME OutboxInv, NEW r \in Requests, Rollback(r)
    PROVE  OutboxInv'
  <1>0. /\ TypeOK /\ ClaimExclusive /\ Transactional /\ ProcessedWasPublished
        /\ SecretsConfined /\ RetryBudget /\ BatchInv /\ OriginInv /\ CopiesInv
    BY DEF OutboxInv
  <1>1. TypeOK'
    BY <1>0, OutboxAssumption DEF Rollback, rowVars, workerVars, envVars, TypeOK
  <1>2. OriginInv'
    BY <1>0 DEF Rollback, rowVars, workerVars, envVars, OriginInv
  <1>3. ClaimExclusive' /\ Transactional' /\ ProcessedWasPublished' /\
        SecretsConfined' /\ RetryBudget' /\ BatchInv' /\ CopiesInv'
    BY <1>0 DEF Rollback, rowVars, workerVars, envVars, ClaimExclusive, Pending,
       Transactional, ProcessedWasPublished, SecretsConfined, RetryBudget, BatchInv,
       CopiesInv, Relayed, Mailed
  <1> QED
    BY <1>1, <1>2, <1>3 DEF OutboxInv

\* Claim locks due rows that nobody else has locked.
LEMMA ClaimStep ==
    ASSUME OutboxInv, NEW w \in Workers, NEW B \in SUBSET Events, Claim(w, B)
    PROVE  OutboxInv'
  <1>0. /\ TypeOK /\ ClaimExclusive /\ Transactional /\ ProcessedWasPublished
        /\ SecretsConfined /\ RetryBudget /\ BatchInv /\ OriginInv /\ CopiesInv
    BY DEF OutboxInv
  <1>1. TypeOK'
    BY <1>0, OutboxAssumption DEF Claim, get_unprocessed, Due, Locked, rowVars,
       uowVars, envVars, TypeOK
  <1>2. ClaimExclusive'
    BY <1>0 DEF Claim, get_unprocessed, Due, Locked, rowVars, uowVars, envVars,
       ClaimExclusive, Pending
  <1>3. BatchInv'
    BY <1>0 DEF Claim, get_unprocessed, Due, Locked, rowVars, uowVars, envVars,
       BatchInv, TypeOK
  <1>4. CopiesInv'
    BY <1>0 DEF Claim, get_unprocessed, Due, Locked, rowVars, uowVars, envVars,
       CopiesInv, Relayed, Mailed
  <1>5. Transactional' /\ ProcessedWasPublished' /\ SecretsConfined' /\ RetryBudget'
        /\ OriginInv'
    BY <1>0 DEF Claim, rowVars, uowVars, envVars, Transactional,
       ProcessedWasPublished, SecretsConfined, RetryBudget, OriginInv
  <1> QED
    BY <1>1, <1>2, <1>3, <1>4, <1>5 DEF OutboxInv

\* A confirmed publish is the one copy that needs no fault.
LEMMA publish_eventStep ==
    ASSUME OutboxInv, NEW w \in Workers, NEW e \in Events, publish_event(w, e)
    PROVE  OutboxInv'
  <1>0. /\ TypeOK /\ ClaimExclusive /\ Transactional /\ ProcessedWasPublished
        /\ SecretsConfined /\ RetryBudget /\ BatchInv /\ OriginInv /\ CopiesInv
    BY DEF OutboxInv
  <1>1. TypeOK'
    BY <1>0, OutboxAssumption DEF publish_event, NextTodo, wire_payload, rowVars,
       uowVars, TypeOK
  <1>2. ProcessedWasPublished'
    BY <1>0 DEF publish_event, NextTodo, wire_payload, rowVars, uowVars,
       ProcessedWasPublished, TypeOK, ClaimExclusive, Pending, BatchInv
  <1>3. SecretsConfined'
    BY <1>0 DEF publish_event, NextTodo, wire_payload, rowVars, uowVars,
       SecretsConfined
  <1>4. BatchInv'
    BY <1>0 DEF publish_event, NextTodo, wire_payload, rowVars, uowVars, BatchInv,
       TypeOK
  <1>5. CopiesInv'
    BY <1>0 DEF publish_event, NextTodo, wire_payload, rowVars, uowVars, CopiesInv,
       Relayed, Mailed, TypeOK, ClaimExclusive, Pending, BatchInv
  <1>6. ClaimExclusive' /\ Transactional' /\ RetryBudget' /\ OriginInv'
    BY <1>0 DEF publish_event, rowVars, uowVars, ClaimExclusive, Pending,
       Transactional, RetryBudget, OriginInv
  <1> QED
    BY <1>1, <1>2, <1>3, <1>4, <1>5, <1>6 DEF OutboxInv

\* A failed publish leaves the row to be rescheduled.
LEMMA PublishFailsStep ==
    ASSUME OutboxInv, NEW w \in Workers, NEW e \in Events, PublishFails(w, e)
    PROVE  OutboxInv'
  <1>0. /\ TypeOK /\ ClaimExclusive /\ Transactional /\ ProcessedWasPublished
        /\ SecretsConfined /\ RetryBudget /\ BatchInv /\ OriginInv /\ CopiesInv
    BY DEF OutboxInv
  <1>1. TypeOK'
    BY <1>0, OutboxAssumption DEF PublishFails, NextTodo, rowVars, uowVars, envVars,
       TypeOK
  <1>2. BatchInv'
    BY <1>0 DEF PublishFails, NextTodo, rowVars, uowVars, envVars, BatchInv
  <1>3. CopiesInv'
    BY <1>0 DEF PublishFails, NextTodo, rowVars, uowVars, envVars, CopiesInv,
       Relayed, Mailed
  <1>4. ClaimExclusive' /\ Transactional' /\ ProcessedWasPublished' /\
        SecretsConfined' /\ RetryBudget' /\ OriginInv'
    BY <1>0 DEF PublishFails, rowVars, uowVars, envVars, ClaimExclusive, Pending,
       Transactional, ProcessedWasPublished, SecretsConfined, RetryBudget, OriginInv
  <1> QED
    BY <1>1, <1>2, <1>3, <1>4 DEF OutboxInv

\* A lost confirm pays for its copy with a fault.
LEMMA ConfirmLostStep ==
    ASSUME OutboxInv, NEW w \in Workers, NEW e \in Events, ConfirmLost(w, e)
    PROVE  OutboxInv'
  <1>0. /\ TypeOK /\ ClaimExclusive /\ Transactional /\ ProcessedWasPublished
        /\ SecretsConfined /\ RetryBudget /\ BatchInv /\ OriginInv /\ CopiesInv
    BY DEF OutboxInv
  <1>1. TypeOK'
    BY <1>0, OutboxAssumption DEF ConfirmLost, NextTodo, wire_payload, rowVars,
       uowVars, TypeOK
  <1>2. ProcessedWasPublished'
    BY <1>0 DEF ConfirmLost, NextTodo, wire_payload, rowVars, uowVars,
       ProcessedWasPublished, TypeOK, ClaimExclusive, Pending, BatchInv
  <1>3. SecretsConfined'
    BY <1>0 DEF ConfirmLost, NextTodo, wire_payload, rowVars, uowVars,
       SecretsConfined
  <1>4. BatchInv'
    BY <1>0 DEF ConfirmLost, NextTodo, wire_payload, rowVars, uowVars, BatchInv
  <1>5. CopiesInv'
    BY <1>0 DEF ConfirmLost, NextTodo, wire_payload, rowVars, uowVars, CopiesInv,
       Relayed, Mailed, TypeOK
  <1>6. ClaimExclusive' /\ Transactional' /\ RetryBudget' /\ OriginInv'
    BY <1>0 DEF ConfirmLost, rowVars, uowVars, ClaimExclusive, Pending,
       Transactional, RetryBudget, OriginInv
  <1> QED
    BY <1>1, <1>2, <1>3, <1>4, <1>5, <1>6 DEF OutboxInv

\* A publish that hangs pays for the copy it may have sent with a fault, and
\* its worker stands where it stood.
LEMMA HangStep ==
    ASSUME OutboxInv, NEW w \in Workers, NEW e \in Events, Hang(w, e)
    PROVE  OutboxInv'
  <1>0. /\ TypeOK /\ ClaimExclusive /\ Transactional /\ ProcessedWasPublished
        /\ SecretsConfined /\ RetryBudget /\ BatchInv /\ OriginInv /\ CopiesInv
    BY DEF OutboxInv
  <1>1. TypeOK'
    BY <1>0, OutboxAssumption DEF Hang, NextTodo, wire_payload, rowVars,
       uowVars, TypeOK
  <1>2. ProcessedWasPublished'
    BY <1>0 DEF Hang, NextTodo, rowVars, uowVars,
       ProcessedWasPublished, TypeOK, ClaimExclusive, Pending, BatchInv
  <1>3. SecretsConfined'
    BY <1>0 DEF Hang, NextTodo, wire_payload, rowVars, uowVars,
       SecretsConfined
  <1>4. BatchInv'
    BY <1>0 DEF Hang, rowVars, uowVars, BatchInv, TypeOK
  <1>5. CopiesInv'
    <2>1. \A f \in Events : broker'[f] <= broker[f] + 1 /\ broker'[f] >= broker[f]
      BY <1>0 DEF Hang, TypeOK
    <2>2. \A f \in Events : Relayed(f)' = Relayed(f)
      BY DEF Hang, rowVars, Relayed
    <2>3. \A f \in Events : Mailed(f)' = Mailed(f)
      BY <1>0 DEF Hang, rowVars, Mailed, TypeOK
    <2>4. inbox' = inbox /\ faults' = faults + 1
      BY DEF Hang
    <2>5. broker' \in [Events -> Nat] /\ broker \in [Events -> Nat]
          /\ inbox \in [Events -> Nat] /\ faults \in Nat
      BY <1>0, <1>1 DEF TypeOK
    <2> QED
      BY <1>0, <2>1, <2>2, <2>3, <2>4, <2>5 DEF CopiesInv
  <1>6. ClaimExclusive' /\ Transactional' /\ RetryBudget' /\ OriginInv'
    BY <1>0 DEF Hang, rowVars, uowVars, ClaimExclusive, Pending,
       Transactional, RetryBudget, OriginInv
  <1> QED
    BY <1>1, <1>2, <1>3, <1>4, <1>5, <1>6 DEF OutboxInv

\* Only published events go on to the mail loop.
LEMMA PublishDoneStep ==
    ASSUME OutboxInv, NEW w \in Workers, PublishDone(w)
    PROVE  OutboxInv'
  <1>0. /\ TypeOK /\ ClaimExclusive /\ Transactional /\ ProcessedWasPublished
        /\ SecretsConfined /\ RetryBudget /\ BatchInv /\ OriginInv /\ CopiesInv
    BY DEF OutboxInv
  <1>1. TypeOK'
    BY <1>0, OutboxAssumption DEF PublishDone, rowVars, uowVars, envVars, TypeOK
  <1>2. BatchInv'
    BY <1>0 DEF PublishDone, rowVars, uowVars, envVars, BatchInv, TypeOK
  <1>3. CopiesInv'
    BY <1>0 DEF PublishDone, rowVars, uowVars, envVars, CopiesInv, Relayed, Mailed,
       TypeOK
  <1>4. ClaimExclusive' /\ Transactional' /\ ProcessedWasPublished' /\
        SecretsConfined' /\ RetryBudget' /\ OriginInv'
    BY <1>0 DEF PublishDone, rowVars, uowVars, envVars, ClaimExclusive, Pending,
       Transactional, ProcessedWasPublished, SecretsConfined, RetryBudget, OriginInv
  <1> QED
    BY <1>1, <1>2, <1>3, <1>4 DEF OutboxInv

\* A mail goes out once per batch: no other worker holds the row.
LEMMA send_emailStep ==
    ASSUME OutboxInv, NEW w \in Workers, NEW e \in Events, send_email(w, e)
    PROVE  OutboxInv'
  <1>0. /\ TypeOK /\ ClaimExclusive /\ Transactional /\ ProcessedWasPublished
        /\ SecretsConfined /\ RetryBudget /\ BatchInv /\ OriginInv /\ CopiesInv
    BY DEF OutboxInv
  <1>1. TypeOK'
    BY <1>0, OutboxAssumption DEF send_email, NextTodo, rowVars, uowVars, TypeOK
  <1>2. SecretsConfined'
    BY <1>0 DEF send_email, NextTodo, rowVars, uowVars, SecretsConfined, TypeOK,
       BatchInv
  <1>3. BatchInv'
    BY <1>0 DEF send_email, NextTodo, rowVars, uowVars, BatchInv
  <1>4. CopiesInv'
    BY <1>0 DEF send_email, NextTodo, rowVars, uowVars, CopiesInv, Relayed, Mailed,
       TypeOK, ClaimExclusive, Pending, BatchInv
  <1>5. ClaimExclusive' /\ Transactional' /\ ProcessedWasPublished' /\ RetryBudget'
        /\ OriginInv'
    BY <1>0 DEF send_email, rowVars, uowVars, ClaimExclusive, Pending,
       Transactional, ProcessedWasPublished, RetryBudget, OriginInv
  <1> QED
    BY <1>1, <1>2, <1>3, <1>4, <1>5 DEF OutboxInv

\* A refused mail changes nothing but the loop.
LEMMA SendFailsStep ==
    ASSUME OutboxInv, NEW w \in Workers, NEW e \in Events, SendFails(w, e)
    PROVE  OutboxInv'
  <1>0. /\ TypeOK /\ ClaimExclusive /\ Transactional /\ ProcessedWasPublished
        /\ SecretsConfined /\ RetryBudget /\ BatchInv /\ OriginInv /\ CopiesInv
    BY DEF OutboxInv
  <1>1. TypeOK'
    BY <1>0, OutboxAssumption DEF SendFails, NextTodo, rowVars, uowVars, envVars,
       TypeOK
  <1>2. BatchInv'
    BY <1>0 DEF SendFails, NextTodo, rowVars, uowVars, envVars, BatchInv
  <1>3. CopiesInv'
    BY <1>0 DEF SendFails, NextTodo, rowVars, uowVars, envVars, CopiesInv, Relayed,
       Mailed, TypeOK
  <1>4. ClaimExclusive' /\ Transactional' /\ ProcessedWasPublished' /\
        SecretsConfined' /\ RetryBudget' /\ OriginInv'
    BY <1>0 DEF SendFails, rowVars, uowVars, envVars, ClaimExclusive, Pending,
       Transactional, ProcessedWasPublished, SecretsConfined, RetryBudget, OriginInv
  <1> QED
    BY <1>1, <1>2, <1>3, <1>4 DEF OutboxInv

\* Finish marks what was published, reschedules the rest and unlocks.
LEMMA FinishStep ==
    ASSUME OutboxInv, NEW w \in Workers, Finish(w)
    PROVE  OutboxInv'
  <1>0. /\ TypeOK /\ ClaimExclusive /\ Transactional /\ ProcessedWasPublished
        /\ SecretsConfined /\ RetryBudget /\ BatchInv /\ OriginInv /\ CopiesInv
    BY DEF OutboxInv
  <1>1. TypeOK'
    <2>1. \A e \in batch[w] \ ok[w] : e \in Events /\ attempts[e] + 1 \in 0..MAX_ATTEMPTS
      <3>1. /\ batch \in [Workers -> SUBSET Events] /\ attempts \in [Events -> 0..MAX_ATTEMPTS]
            /\ \A e \in batch[w] : e \notin failed
            /\ \A e \in Events : attempts[e] = MAX_ATTEMPTS => e \in failed
        BY <1>0 DEF TypeOK, ClaimExclusive, Pending, RetryBudget
      <3>2. MAX_ATTEMPTS \in Nat
        BY OutboxAssumption
      <3>3. \A n \in 0..MAX_ATTEMPTS : n # MAX_ATTEMPTS => n + 1 \in 0..MAX_ATTEMPTS
        BY <3>2
      <3> QED
        BY ONLY <3>1, <3>3
    <2>2. attempts' \in [Events -> 0..MAX_ATTEMPTS]
      BY <1>0, <2>1 DEF Finish, reschedule, TypeOK
    <2>3. /\ processed' \subseteq Events /\ failed' \subseteq Events
          /\ waiting' \subseteq Events /\ token' \subseteq Events
      BY <1>0 DEF Finish, mark_processed, reschedule, TypeOK
    <2> QED
      BY <1>0, <2>2, <2>3 DEF Finish, uowVars, envVars, TypeOK
  <1>2. ClaimExclusive'
    BY <1>0 DEF Finish, mark_processed, reschedule, uowVars, envVars,
       ClaimExclusive, Pending, TypeOK, BatchInv
  <1>3. Transactional'
    BY <1>0 DEF Finish, mark_processed, reschedule, uowVars, envVars, Transactional
  <1>4. ProcessedWasPublished'
    BY <1>0 DEF Finish, mark_processed, reschedule, uowVars, envVars,
       ProcessedWasPublished, TypeOK, CopiesInv, Relayed, Mailed
  <1>5. SecretsConfined'
    BY <1>0 DEF Finish, mark_processed, reschedule, uowVars, envVars,
       SecretsConfined
  <1>6. RetryBudget'
    <2> DEFINE Exhausted == {e \in batch[w] \ ok[w] : attempts[e] + 1 >= MAX_ATTEMPTS}
    <2>1. failed' = failed \cup Exhausted
      BY DEF Finish, reschedule
    <2>2. /\ failed = {e \in Events : attempts[e] = MAX_ATTEMPTS}
          /\ failed \cap processed = {}
          /\ batch[w] \subseteq Events \ (failed \cup processed)
          /\ ok[w] \subseteq batch[w]
      BY <1>0 DEF RetryBudget, ClaimExclusive, Pending, BatchInv, TypeOK
    <2>3. \A e \in Events : attempts'[e] = MAX_ATTEMPTS <=> e \in failed'
      <3> TAKE e \in Events
      <3>1. attempts[e] \in 0..MAX_ATTEMPTS
        BY <1>0 DEF TypeOK
      <3>2. CASE e \in batch[w] \ ok[w]
        <4>1. attempts'[e] = attempts[e] + 1 /\ attempts[e] # MAX_ATTEMPTS /\ e \notin failed
          BY <2>2, <3>2 DEF Finish, reschedule
        <4> QED
          BY <2>1, <3>1, <3>2, <4>1, OutboxAssumption
      <3>3. CASE e \notin batch[w] \ ok[w]
        BY <2>1, <2>2, <3>3 DEF Finish, reschedule
      <3> QED
        BY <3>2, <3>3
    <2>4. failed' \subseteq Events /\ failed' \cap processed' = {}
      BY <2>1, <2>2 DEF Finish, mark_processed
    <2> HIDE DEF Exhausted
    <2> QED
      BY <2>3, <2>4 DEF RetryBudget
  <1>7. BatchInv'
    BY <1>0 DEF Finish, mark_processed, reschedule, uowVars, envVars, BatchInv,
       TypeOK
  <1>8. OriginInv'
    BY <1>0 DEF Finish, mark_processed, reschedule, uowVars, envVars, OriginInv,
       TypeOK, ClaimExclusive, Pending, BatchInv
  <1>9. CopiesInv'
    BY <1>0 DEF Finish, mark_processed, reschedule, uowVars, envVars, CopiesInv,
       Relayed, Mailed
  <1> QED
    BY <1>1, <1>2, <1>3, <1>4, <1>5, <1>6, <1>7, <1>8, <1>9 DEF OutboxInv

\* A crash pays for the copies its batch has sent.
LEMMA CrashStep ==
    ASSUME OutboxInv, NEW w \in Workers, Crash(w)
    PROVE  OutboxInv'
  <1>0. /\ TypeOK /\ ClaimExclusive /\ Transactional /\ ProcessedWasPublished
        /\ SecretsConfined /\ RetryBudget /\ BatchInv /\ OriginInv /\ CopiesInv
    BY DEF OutboxInv
  <1>1. TypeOK'
    BY <1>0, OutboxAssumption DEF Crash, rowVars, uowVars, envVars, TypeOK
  <1>2. ClaimExclusive'
    BY <1>0 DEF Crash, rowVars, uowVars, envVars, ClaimExclusive, Pending
  <1>3. BatchInv'
    BY <1>0 DEF Crash, rowVars, uowVars, envVars, BatchInv, TypeOK
  <1>4. CopiesInv'
    BY <1>0 DEF Crash, rowVars, uowVars, envVars, CopiesInv, Relayed, Mailed, TypeOK
  <1>5. Transactional' /\ ProcessedWasPublished' /\ SecretsConfined' /\ RetryBudget'
        /\ OriginInv'
    BY <1>0 DEF Crash, rowVars, uowVars, envVars, Transactional,
       ProcessedWasPublished, SecretsConfined, RetryBudget, OriginInv
  <1> QED
    BY <1>1, <1>2, <1>3, <1>4, <1>5 DEF OutboxInv

\* An elapsed backoff makes a pending row due again.
LEMMA BackoffElapsesStep ==
    ASSUME OutboxInv, NEW e \in Events, BackoffElapses(e)
    PROVE  OutboxInv'
  <1>0. /\ TypeOK /\ ClaimExclusive /\ Transactional /\ ProcessedWasPublished
        /\ SecretsConfined /\ RetryBudget /\ BatchInv /\ OriginInv /\ CopiesInv
    BY DEF OutboxInv
  <1>1. TypeOK'
    BY <1>0, OutboxAssumption DEF BackoffElapses, uowVars, workerVars, envVars,
       TypeOK
  <1>2. ClaimExclusive'
    BY <1>0 DEF BackoffElapses, uowVars, workerVars, envVars, ClaimExclusive,
       Pending
  <1>3. OriginInv'
    BY <1>0 DEF BackoffElapses, uowVars, workerVars, envVars, OriginInv
  <1>4. Transactional' /\ ProcessedWasPublished' /\ SecretsConfined' /\ RetryBudget'
        /\ BatchInv' /\ CopiesInv'
    BY <1>0 DEF BackoffElapses, uowVars, workerVars, envVars, Transactional,
       ProcessedWasPublished, SecretsConfined, RetryBudget, BatchInv, CopiesInv,
       Relayed, Mailed
  <1> QED
    BY <1>1, <1>2, <1>3, <1>4 DEF OutboxInv

\* replay restores the retry budget of dead letters, which nobody holds.
LEMMA replayStep ==
    ASSUME OutboxInv, NEW E \in SUBSET Events, replay(E)
    PROVE  OutboxInv'
  <1>0. /\ TypeOK /\ ClaimExclusive /\ Transactional /\ ProcessedWasPublished
        /\ SecretsConfined /\ RetryBudget /\ BatchInv /\ OriginInv /\ CopiesInv
    BY DEF OutboxInv
  <1>1. TypeOK'
    BY <1>0, OutboxAssumption DEF replay, uowVars, workerVars, envVars, TypeOK
  <1>2. ClaimExclusive'
    BY <1>0 DEF replay, uowVars, workerVars, envVars, ClaimExclusive, Pending
  <1>3. RetryBudget'
    BY <1>0, OutboxAssumption DEF replay, uowVars, workerVars, envVars, RetryBudget
  <1>4. OriginInv'
    BY <1>0 DEF replay, uowVars, workerVars, envVars, OriginInv
  <1>5. Transactional' /\ ProcessedWasPublished' /\ SecretsConfined' /\ BatchInv' /\
        CopiesInv'
    BY <1>0 DEF replay, uowVars, workerVars, envVars, Transactional,
       ProcessedWasPublished, SecretsConfined, BatchInv, CopiesInv, Relayed, Mailed
  <1> QED
    BY <1>1, <1>2, <1>3, <1>4, <1>5 DEF OutboxInv

\* Retention deletes processed rows, which nobody holds.
LEMMA delete_processed_older_thanStep ==
    ASSUME OutboxInv, NEW E \in SUBSET Events, delete_processed_older_than(E)
    PROVE  OutboxInv'
  <1>0. /\ TypeOK /\ ClaimExclusive /\ Transactional /\ ProcessedWasPublished
        /\ SecretsConfined /\ RetryBudget /\ BatchInv /\ OriginInv /\ CopiesInv
    BY DEF OutboxInv
  <1>1. TypeOK'
    BY <1>0, OutboxAssumption DEF delete_processed_older_than, uowVars, workerVars,
       envVars, TypeOK
  <1>2. ClaimExclusive'
    BY <1>0 DEF delete_processed_older_than, uowVars, workerVars, envVars,
       ClaimExclusive, Pending
  <1>3. Transactional'
    BY <1>0 DEF delete_processed_older_than, uowVars, workerVars, envVars,
       Transactional
  <1>4. ProcessedWasPublished'
    BY <1>0 DEF delete_processed_older_than, uowVars, workerVars, envVars,
       ProcessedWasPublished
  <1>5. SecretsConfined'
    BY <1>0 DEF delete_processed_older_than, uowVars, workerVars, envVars,
       SecretsConfined
  <1>6. OriginInv'
    BY <1>0 DEF delete_processed_older_than, uowVars, workerVars, envVars, OriginInv
  <1>7. RetryBudget' /\ BatchInv' /\ CopiesInv'
    BY <1>0 DEF delete_processed_older_than, uowVars, workerVars, envVars,
       RetryBudget, BatchInv, CopiesInv, Relayed, Mailed
  <1> QED
    BY <1>1, <1>2, <1>3, <1>4, <1>5, <1>6, <1>7 DEF OutboxInv

\* A step that changes no variable keeps the invariant.
LEMMA StutterStep ==
    ASSUME OutboxInv, UNCHANGED vars
    PROVE  OutboxInv'
  <1>1. TypeOK' /\ ClaimExclusive' /\ Transactional' /\ ProcessedWasPublished'
    BY DEF OutboxInv, vars, rowVars, uowVars, workerVars, envVars, TypeOK,
       ClaimExclusive, Pending, Transactional, ProcessedWasPublished
  <1>2. SecretsConfined' /\ RetryBudget' /\ BatchInv' /\ OriginInv' /\ CopiesInv'
    BY DEF OutboxInv, vars, rowVars, uowVars, workerVars, envVars,
       SecretsConfined, RetryBudget, BatchInv, OriginInv, CopiesInv, Relayed, Mailed
  <1> QED
    BY <1>1, <1>2 DEF OutboxInv

\* Every step keeps the invariant.
LEMMA NextInv == OutboxInv /\ [Next]_vars => OutboxInv'
  BY registerStep, FlushStep, CommitStep, RollbackStep, ClaimStep, publish_eventStep,
     PublishFailsStep, ConfirmLostStep, HangStep, PublishDoneStep, send_emailStep,
     SendFailsStep, FinishStep, CrashStep, BackoffElapsesStep, replayStep,
     delete_processed_older_thanStep, StutterStep
  DEF Next, RequestNext, _process_batch

\* The outbox keeps its inductive invariant for ever.
THEOREM OutboxInvariance == Spec => []OutboxInv
  BY InitInv, NextInv, PTL DEF Spec

\* Two replicas never work on the same row, and nothing takes a claimed row
\* out of the queue behind its worker's back.
THEOREM ClaimExclusiveHolds == Spec => []ClaimExclusive
  <1>1. OutboxInv => ClaimExclusive
    BY DEF OutboxInv
  <1> QED
    BY <1>1, OutboxInvariance, PTL

\* The outbox rows and the audit entries of a request exist exactly when its
\* state change is committed.
THEOREM TransactionalHolds == Spec => []Transactional
  <1>1. OutboxInv => Transactional
    BY DEF OutboxInv
  <1> QED
    BY <1>1, OutboxInvariance, PTL

\* However many replicas run, an event is published more than once only if
\* that many faults happened, and the same holds of its mail.
THEOREM DuplicatesNeedAFaultHolds == Spec => []DuplicatesNeedAFault
  <1>1. OutboxInv => DuplicatesNeedAFault
    BY DEF OutboxInv, CopiesInv, TypeOK, DuplicatesNeedAFault
  <1> QED
    BY <1>1, OutboxInvariance, PTL

\* Tokens never reach the exchange and never survive in a processed row.
THEOREM SecretsConfinedHolds == Spec => []SecretsConfined
  <1>1. OutboxInv => SecretsConfined
    BY DEF OutboxInv
  <1> QED
    BY <1>1, OutboxInvariance, PTL

\* What a step may do to a row: processed rows stay processed and only leave
\* by retention, dead letters come back by a replay alone and with a full
\* budget, and an attempt is spent only by the worker that held the row.
THEOREM RowLifecycleHolds == Spec => RowLifecycle
  <1> DEFINE Lifecycle ==
        /\ processed \subseteq processed' /\ purged \subseteq purged'
        /\ table \ table' \subseteq processed
        /\ failed \ failed' # {} => replays' = replays + 1
        /\ \A e \in failed \ failed' : attempts'[e] = 0 /\ Pending(e)'
        /\ \A e \in processed : attempts'[e] = attempts[e]
        /\ \A e \in Events : attempts'[e] > attempts[e] =>
              \E w \in Workers : e \in batch[w] /\ e \notin batch'[w]
  <1>1. ASSUME OutboxInv, UNCHANGED <<table, purged, processed, failed, attempts>>
        PROVE  Lifecycle
    BY <1>1 DEF OutboxInv, TypeOK
  <1>2. ASSUME OutboxInv, NEW r \in Requests, RequestNext(r)
        PROVE  Lifecycle
    <2>1. ASSUME Commit(r) PROVE Lifecycle
      BY <1>2, <2>1 DEF Commit, handle_many, _persist_outbox_event, OutboxInv, TypeOK
    <2> QED
      BY <1>1, <1>2, <2>1 DEF RequestNext, register, Flush, Rollback, rowVars
  <1>3. ASSUME OutboxInv, NEW w \in Workers, Finish(w)
        PROVE  Lifecycle
    BY <1>3 DEF Finish, mark_processed, reschedule, OutboxInv, TypeOK,
       ClaimExclusive, Pending, BatchInv
  <1>4. ASSUME OutboxInv, NEW w \in Workers,
               _process_batch(w) \/ Crash(w) \/ \E e \in Events : Hang(w, e)
        PROVE  Lifecycle
    BY <1>1, <1>3, <1>4 DEF _process_batch, Claim, publish_event, PublishFails,
       ConfirmLost, Hang, PublishDone, send_email, SendFails, Crash, rowVars
  <1>5. ASSUME OutboxInv, NEW e \in Events, BackoffElapses(e)
        PROVE  Lifecycle
    BY <1>1, <1>5 DEF BackoffElapses
  <1>6. ASSUME OutboxInv, NEW E \in SUBSET Events, replay(E)
        PROVE  Lifecycle
    BY <1>6 DEF replay, OutboxInv, TypeOK, RetryBudget, OriginInv, Pending
  <1>7. ASSUME OutboxInv, NEW E \in SUBSET Events, delete_processed_older_than(E)
        PROVE  Lifecycle
    BY <1>7 DEF delete_processed_older_than, OutboxInv, TypeOK
  <1>8. OutboxInv /\ [Next]_vars => [Lifecycle]_vars
    BY <1>2, <1>4, <1>5, <1>6, <1>7 DEF Next
  <1> QED
    BY <1>8, OutboxInvariance, PTL DEF Spec, RowLifecycle

\* The table, the replicas and the exchange implement the abstract relay:
\* at-least-once delivery with a dead-letter queue.
THEOREM RelayRefinement == Spec => ImplementsRelay
  <1> DEFINE relayUnchanged ==
        UNCHANGED <<table \cup purged, processed, failed, broker>>
  <1>1. Init => Relay!Init
    BY DEF Init, Relay!Init
  <1>2. ASSUME OutboxInv, NEW r \in Requests, RequestNext(r)
        PROVE  Relay!Next \/ relayUnchanged
    <2>1. ASSUME Commit(r) PROVE Relay!Accept(events[r])
      BY <1>2, <2>1 DEF Commit, handle_many, _persist_outbox_event, workerVars, envVars,
         Relay!Accept, OutboxInv, OriginInv, Transactional
    <2>2. events[r] \in SUBSET Events
      BY <1>2 DEF OutboxInv, TypeOK
    <2> QED
      BY <1>2, <2>1, <2>2 DEF RequestNext, register, Flush, Rollback, rowVars,
         envVars, Relay!Next
  <1>3. ASSUME OutboxInv, NEW w \in Workers, NEW e \in Events,
               publish_event(w, e) \/ ConfirmLost(w, e)
        PROVE  Relay!Deliver(e)
    BY <1>3 DEF publish_event, ConfirmLost, NextTodo, rowVars, Relay!Deliver,
       Relay!Active, OutboxInv, BatchInv, ClaimExclusive, Pending
  <1>4. ASSUME OutboxInv, NEW w \in Workers, Finish(w)
        PROVE  \E S, P \in SUBSET Events : Relay!Resolve(S, P)
    <2> DEFINE P == {e \in batch[w] \ ok[w] : attempts[e] + 1 >= MAX_ATTEMPTS}
    <2>1. ok[w] \in SUBSET Events /\ P \in SUBSET Events
      BY <1>4 DEF OutboxInv, TypeOK
    <2>2. Relay!Resolve(ok[w], P)
      BY <1>4 DEF Finish, mark_processed, reschedule, envVars, Relay!Resolve,
         Relay!Active, OutboxInv, BatchInv, ClaimExclusive, Pending, CopiesInv, Relayed,
         TypeOK
    <2> QED
      BY <2>1, <2>2
  <1>5. ASSUME OutboxInv, NEW w \in Workers,
               _process_batch(w) \/ Crash(w) \/ \E e \in Events : Hang(w, e)
        PROVE  Relay!Next \/ relayUnchanged
    <2>1. ASSUME NEW e \in Events, Hang(w, e)
          PROVE  Relay!Deliver(e) \/ relayUnchanged
      BY <1>5, <2>1 DEF Hang, NextTodo, rowVars, Relay!Deliver, Relay!Active,
         OutboxInv, BatchInv, ClaimExclusive, Pending
    <2> QED
      BY <1>3, <1>4, <1>5, <2>1 DEF _process_batch, Claim, PublishFails, PublishDone,
       send_email, SendFails, Crash, rowVars, envVars, Relay!Next
  <1>6. ASSUME OutboxInv, NEW E \in SUBSET Events, replay(E)
        PROVE  Relay!Next
    <2>1. Relay!PutBack(E \cap failed \cap table)
      BY <1>6 DEF replay, envVars, Relay!PutBack
    <2> QED
      BY <2>1 DEF Relay!Next
  <1>7. ASSUME OutboxInv, NEW E \in SUBSET Events, delete_processed_older_than(E)
        PROVE  relayUnchanged
    BY <1>7 DEF delete_processed_older_than, envVars
  <1>8. OutboxInv /\ [Next]_vars => [Relay!Next]_(Relay!relayVars)
    <2>1. ASSUME NEW e \in Events, BackoffElapses(e) PROVE relayUnchanged
      BY <2>1 DEF BackoffElapses, envVars
    <2>2. ASSUME UNCHANGED vars PROVE relayUnchanged
      BY <2>2 DEF vars, rowVars, envVars
    <2> QED
      BY <1>2, <1>5, <1>6, <1>7, <2>1, <2>2 DEF Next, Relay!relayVars
  <1> QED
    BY <1>1, <1>8, OutboxInvariance, PTL DEF Spec, ImplementsRelay, Relay!Spec
=============================================================================
