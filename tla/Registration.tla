---------------------------- MODULE Registration ----------------------------
(***************************************************************************)
(* User names and addresses: registration with its idempotency store, the  *)
(* profile update that changes them, deletion and the maintenance worker's *)
(* release.  The pre-checks look at live accounts, the unique indexes at   *)
(* every row, deleted ones included.                                       *)
(*                                                                         *)
(* A client wants one account and retries, with the same Idempotency-Key   *)
(* and the same body; attempts may overlap.  INSERT to COMMIT is one step: *)
(* a row not yet committed is invisible, and an INSERT of the same name    *)
(* waits for it.                                                           *)
(***************************************************************************)
EXTENDS Naturals, FiniteSets

CONSTANTS
    Users,    \* user ids (uuid4: none is drawn twice)
    Names,    \* user names
    Mails,    \* e-mail addresses
    Clients,  \* who register
    Calls,    \* concurrent requests
    body,     \* per client: the name and address it asks for, as sets
    keyed     \* clients that send an Idempotency-Key

VARIABLES
    rows,      \* users: the rows present
    deleted,   \* rows with deleted_at
    username,  \* per row: its name, as a set; {} is the placeholder
    email,     \* per row: its address, as a set; {} is NULL
    cache,     \* idempotency:register:{ip}:{key}: the cached user id, as a set
    at,        \* per request: the next call it makes
    client,    \* per request: whom it serves, as a set
    user,      \* per request: the row it created or edits, as a set; {} if out of date
    wants,     \* per request: the name and address it is to store
    accounts,  \* per client: the accounts its attempts created
    answered,  \* per client: the ids it was answered
    haunted,   \* clients refused because of their own account
    excused    \* clients that overlapped attempts, lost one, or outlived the cache

tableVars        == <<rows, deleted, username, email>>
requestVars      == <<at, client, user, wants>>
history          == <<accounts, answered, haunted, excused>>
registrationVars == <<tableVars, cache, requestVars, history>>

AtMostOne(S) == {{}} \cup {{x} : x \in S}
Profile == [name : {{n} : n \in Names}, mail : AtMostOne(Mails)]
Nothing == [name |-> {}, mail |-> {}]

ASSUME RegistrationAssumption == body \in [Clients -> Profile] /\ keyed \subseteq Clients

RegistrationInit ==
    /\ rows = {} /\ deleted = {}
    /\ username = [u \in Users |-> {}] /\ email = [u \in Users |-> {}]
    /\ cache = [c \in Clients |-> {}]
    /\ at = [r \in Calls |-> "idle"]
    /\ client = [r \in Calls |-> {}]
    /\ user = [r \in Calls |-> {}]
    /\ wants = [r \in Calls |-> Nothing]
    /\ accounts = [c \in Clients |-> {}] /\ answered = [c \in Clients |-> {}]
    /\ haunted = {} /\ excused = {}

-----------------------------------------------------------------------------
(***************************************************************************)
(* The repository.                                                         *)
(***************************************************************************)
check_username_exists(N) == \E u \in rows \ deleted : username[u] \cap N # {}
check_email_exists(M) == \E u \in rows \ deleted : email[u] \cap M # {}

\* The columns of the rows U become those of p.
_user_to_values(U, p) ==
    /\ username' = [u \in Users |-> IF u \in U THEN p.name ELSE username[u]]
    /\ email' = [u \in Users |-> IF u \in U THEN p.mail ELSE email[u]]

\* Mutant: a unique index on live rows only, checked when the request began.
NoUniqueIndex(U, p) == {}

\* The unique indexes: the other rows in the way of storing p in the row U.
Conflicts(U, p) == {u \in rows \ U : username[u] \cap p.name # {} \/ email[u] \cap p.mail # {}}

-----------------------------------------------------------------------------
(***************************************************************************)
(* Registration.                                                           *)
(***************************************************************************)
Done(r) ==
    /\ at' = [at EXCEPT ![r] = "idle"]
    /\ client' = [client EXCEPT ![r] = {}]
    /\ user' = [user EXCEPT ![r] = {}]
    /\ wants' = [wants EXCEPT ![r] = Nothing]

To(r, step) ==
    /\ at' = [at EXCEPT ![r] = step]
    /\ UNCHANGED <<client, user, wants>>

InFlight(c) == \E r \in Calls : c \in client[r]
Attempt(c) == excused' = IF InFlight(c) THEN excused \cup {c} ELSE excused

\* Mutant: the stored answer is looked up under another key.
LookUpMisses(r, c) ==
    /\ at[r] = "idle"
    /\ at' = [at EXCEPT ![r] = "check"]
    /\ client' = [client EXCEPT ![r] = {c}]
    /\ wants' = [wants EXCEPT ![r] = body[c]]
    /\ Attempt(c)
    /\ UNCHANGED <<tableVars, cache, user, accounts, answered, haunted>>

\* register, as far as the idempotency store: nothing is cached.
RegisterBegins(r, c) ==
    /\ at[r] = "idle" /\ (c \in keyed => cache[c] = {})
    /\ at' = [at EXCEPT ![r] = "check"]
    /\ client' = [client EXCEPT ![r] = {c}]
    /\ wants' = [wants EXCEPT ![r] = body[c]]
    /\ Attempt(c)
    /\ UNCHANGED <<tableVars, cache, user, accounts, answered, haunted>>

\* The cached response is replayed.
get_cached_response(c) ==
    /\ c \in keyed /\ cache[c] # {}
    /\ answered' = [answered EXCEPT ![c] = @ \cup cache[c]]
    /\ Attempt(c)
    /\ UNCHANGED <<tableVars, cache, requestVars, accounts, haunted>>

\* UsernameAlreadyExistsError or EmailAlreadyExistsError, because of the rows U.
AlreadyExists(r, U) ==
    /\ haunted' = haunted \cup {c \in client[r] : accounts[c] \cap U # {}}
    /\ Done(r)
    /\ UNCHANGED <<tableVars, cache, accounts, answered, excused>>

\* The pre-checks of create, and the password hash.
create(r) ==
    /\ at[r] = "check"
    /\ ~check_username_exists(wants[r].name) /\ ~check_email_exists(wants[r].mail)
    /\ To(r, "add")
    /\ UNCHANGED <<tableVars, cache, history>>

CreateRefused(r) ==
    /\ at[r] = "check"
    /\ check_username_exists(wants[r].name) \/ check_email_exists(wants[r].mail)
    /\ AlreadyExists(r, Conflicts({}, wants[r]) \ deleted)

\* INSERT and COMMIT; the first of two that pass the pre-checks wins.
add(r, u) ==
    /\ at[r] = "add" /\ u \notin rows /\ Conflicts({}, wants[r]) = {}
    /\ rows' = rows \cup {u}
    /\ _user_to_values({u}, wants[r])
    /\ accounts' = [c \in Clients |-> IF c \in client[r] THEN accounts[c] \cup {u} ELSE accounts[c]]
    /\ at' = [at EXCEPT ![r] = "answer"]
    /\ user' = [user EXCEPT ![r] = {u}]
    /\ UNCHANGED <<deleted, cache, client, wants, answered, haunted, excused>>

\* IntegrityError becomes the same refusal.
_uniqueness_error(r) ==
    /\ at[r] = "add" /\ Conflicts({}, wants[r]) # {}
    /\ AlreadyExists(r, Conflicts({}, wants[r]))

\* With a key, the answer is cached before it is sent.
cache_response(r) ==
    /\ at[r] = "answer"
    /\ cache' = [c \in Clients |-> IF c \in client[r] \cap keyed THEN user[r] ELSE cache[c]]
    /\ answered' = [c \in Clients |-> IF c \in client[r] THEN answered[c] \cup user[r] ELSE answered[c]]
    /\ Done(r)
    /\ UNCHANGED <<tableVars, accounts, haunted, excused>>

-----------------------------------------------------------------------------
(***************************************************************************)
(* The life of a name after registration.                                  *)
(***************************************************************************)

\* PATCH /me: the account is loaded and the new name and address pre-checked.
update_user(r, u, p) ==
    /\ at[r] = "idle" /\ u \in rows \ deleted
    /\ p.name # username[u] => ~check_username_exists(p.name)
    /\ p.mail \notin {{}, email[u]} => ~check_email_exists(p.mail)
    /\ at' = [at EXCEPT ![r] = "update"]
    /\ user' = [user EXCEPT ![r] = {u}]
    /\ wants' = [wants EXCEPT ![r] = p]
    /\ UNCHANGED <<tableVars, cache, client, history>>

\* The write, unless the row's version moved on (another update's commit, a
\* deletion) or the name was taken (the unique index).  An absent address
\* leaves the old one.
update(r) ==
    /\ at[r] = "update" /\ user[r] \subseteq rows \ deleted
    /\ Conflicts(user[r], wants[r]) = {}
    /\ \E u \in user[r] : _user_to_values({u},
           [wants[r] EXCEPT !.mail = IF @ = {} THEN email[u] ELSE @])
    /\ at' = [at EXCEPT ![r] = "idle"]
    /\ user' = [q \in Calls |-> IF at[q] = "update" THEN user[q] \ user[r] ELSE user[q]]
    /\ wants' = [wants EXCEPT ![r] = Nothing]
    /\ UNCHANGED <<rows, deleted, cache, client, history>>

delete_user(u) ==
    /\ u \in rows \ deleted
    /\ deleted' = deleted \cup {u}
    /\ UNCHANGED <<rows, username, email, cache, requestVars, history>>

\* The accounts the maintenance worker may strip: deleted, with an address.
Strippable == {u \in deleted : email[u] # {}}

\* Mutant: the name is not replaced by a placeholder.
StripAddressOnly(S) ==
    /\ S # {} /\ S \subseteq Strippable
    /\ email' = [u \in Users |-> IF u \in S THEN {} ELSE email[u]]
    /\ UNCHANGED <<rows, deleted, username, cache, requestVars, history>>

\* Those past their retention, whichever they are, lose name and address.
_anonymise_deleted_users(S) ==
    /\ S # {} /\ S \subseteq Strippable
    /\ username' = [u \in Users |-> IF u \in S THEN {} ELSE username[u]]
    /\ email' = [u \in Users |-> IF u \in S THEN {} ELSE email[u]]
    /\ UNCHANGED <<rows, deleted, cache, requestVars, history>>

-----------------------------------------------------------------------------
(***************************************************************************)
(* Faults.                                                                 *)
(***************************************************************************)

\* The request ends early: a rate limit, a failed call, a dead process, a
\* profile update that lost a race.  After COMMIT its answer is lost.
Die(r) ==
    /\ at[r] # "idle"
    /\ excused' = IF at[r] = "answer" THEN excused \cup client[r] ELSE excused
    /\ Done(r)
    /\ UNCHANGED <<tableVars, cache, accounts, answered, haunted>>

\* The 24 hours of a cached response are over.
Expire(c) ==
    /\ cache[c] # {}
    /\ cache' = [cache EXCEPT ![c] = {}]
    /\ excused' = excused \cup {c}
    /\ UNCHANGED <<tableVars, requestVars, accounts, answered, haunted>>

Anonymise == \E S \in SUBSET Users : _anonymise_deleted_users(S)

RegistrationNext ==
    \/ \E r \in Calls, c \in Clients : RegisterBegins(r, c)
    \/ \E c \in Clients : get_cached_response(c) \/ Expire(c)
    \/ \E r \in Calls, u \in Users : add(r, u)
    \/ \E r \in Calls : create(r) \/ CreateRefused(r) \/ _uniqueness_error(r)
                             \/ cache_response(r) \/ update(r) \/ Die(r)
    \/ \E r \in Calls, u \in Users, p \in Profile : update_user(r, u, p)
    \/ \E u \in Users : delete_user(u)
    \/ Anonymise

\* The maintenance worker runs again and again, and retention periods end.
RegistrationSpec ==
    RegistrationInit /\ [][RegistrationNext]_registrationVars /\ WF_registrationVars(Anonymise)

-----------------------------------------------------------------------------
(***************************************************************************)
(* Properties.                                                             *)
(***************************************************************************)

\* The variables have the shapes the code gives them, and two rows never
\* share a name or an address, whatever pre-checks and inserts interleave.
RegistrationTypeOK ==
    /\ deleted \subseteq rows /\ rows \subseteq Users
    /\ username \in [Users -> AtMostOne(Names)] /\ email \in [Users -> AtMostOne(Mails)]
    /\ cache \in [Clients -> AtMostOne(rows)]
    /\ at \in [Calls -> {"idle", "check", "add", "answer", "update"}]
    /\ client \in [Calls -> AtMostOne(Clients)] /\ user \in [Calls -> AtMostOne(rows)]
    /\ wants \in [Calls -> Profile \cup {Nothing}]
    /\ accounts \in [Clients -> SUBSET rows] /\ answered \in [Clients -> SUBSET rows]
    /\ haunted \cup excused \subseteq Clients
    /\ \A u, v \in rows : u # v => username[u] \cap username[v] = {} /\ email[u] \cap email[v] = {}

\* Some account the client created no longer holds what the client asked for.
Moved(c) == \E u \in accounts[c] : username[u] # body[c].name \/ email[u] # body[c].mail

\* Retrying is safe: a client gets a second account only once its first has
\* given up the name or address, and is only ever answered with an account of
\* its own.  With a key, one that waits for its attempt to end and retries
\* within a day is never told that its own account is in its way.
RetryIsSafe ==
    \A c \in Clients :
        /\ Cardinality(accounts[c]) <= 1 \/ Moved(c)
        /\ answered[c] \subseteq accounts[c]
        /\ c \in keyed \ excused => c \notin haunted

\* "The username and email are released so they can be registered again": of
\* a deleted account that has an address, its name is free in the end.
NamesAreReleased == \A u \in Users : u \in Strippable ~> username[u] = {}
=============================================================================
