------------------------------- MODULE Bridge -------------------------------
(***************************************************************************)
(* The service as login and consent provider of Ory Hydra: the pages under *)
(* /auth and the logins of the JSON API, which share the two-factor        *)
(* challenges with them.                                                   *)
(*                                                                         *)
(* A flow is one authorization at Hydra: a login request, then a consent   *)
(* request, then an access token.  Hydra is external: what it does is      *)
(* taken from how the code uses it.                                        *)
(***************************************************************************)
EXTENDS Naturals, FiniteSets

CONSTANTS
    Users, Flows, Sessions, Requests,
    MaxPending   \* bound: two-factor challenges open at a time

ASSUME BridgeAssumption == MaxPending \in Nat

VARIABLES
    deleted,     \* accounts with deleted_at
    enrolled,    \* accounts with two-factor authentication on
    owner,       \* per session: its user, as a set; {} before it is created
    pending,     \* two-factor challenges: [user, flow], flow {} from the JSON API
    stage,       \* Hydra, per flow: how far it is
    skip,        \* Hydra, per login request: the subject it remembers, as a set
    grant,       \* Hydra, per flow: what the login was accepted with
    claims,      \* Hydra, per flow: the subjects the ID token describes
    remembered,  \* Hydra: subjects with a login session
    req          \* per request: where it stands

appVars   == <<deleted, enrolled, owner, pending>>
hydraVars == <<stage, skip, grant, claims, remembered>>
vars      == <<appVars, hydraVars, req>>

AtMostOne(S) == {{}} \cup {{x} : x \in S}

\* The body of accept_login_request.  entered is the flow whose form the
\* password was entered in: {} from the JSON API, or when none was.
Acceptance == [sub : AtMostOne(Users), ses : AtMostOne(Sessions),
               acr : {"none", "pwd", "2fa"}, entered : AtMostOne(Flows)]
Nobody == [sub |-> {}, ses |-> {}, acr |-> "none", entered |-> {}]
Idle == [pc |-> "idle", flow |-> {}, with |-> Nobody]

Init ==
    /\ deleted = {} /\ enrolled \in SUBSET Users
    /\ owner = [s \in Sessions |-> {}] /\ pending = {}
    /\ stage = [l \in Flows |-> "new"] /\ skip = [l \in Flows |-> {}]
    /\ grant = [l \in Flows |-> Nobody] /\ claims = [l \in Flows |-> {}]
    /\ remembered = {}
    /\ req = [r \in Requests |-> Idle]

-----------------------------------------------------------------------------
(***************************************************************************)
(* Hydra.                                                                  *)
(***************************************************************************)

\* A client sends a browser to Hydra, which may remember who it is.
Authorize(l, S) ==
    /\ stage[l] = "new" /\ S \subseteq remembered
    /\ stage' = [stage EXCEPT ![l] = "login"]
    /\ skip' = [skip EXCEPT ![l] = S]
    /\ UNCHANGED <<appVars, grant, claims, remembered, req>>

\* A request nobody answers in time.
Lapse(l) ==
    /\ stage[l] \in {"login", "consent"}
    /\ stage' = [stage EXCEPT ![l] = "void"]
    /\ UNCHANGED <<appVars, skip, grant, claims, remembered, req>>

\* Which requests Hydra still answers for.
get_login_request(l) == stage[l] = "login"
get_consent_request(l) == stage[l] = "consent"

-----------------------------------------------------------------------------
(***************************************************************************)
(* Requests.                                                               *)
(***************************************************************************)
Done(r) == req' = [req EXCEPT ![r] = Idle]
To(r, step, l, a) == req' = [req EXCEPT ![r] = [pc |-> step, flow |-> {l}, with |-> a]]
Flow(r) == CHOOSE l \in Flows : req[r].flow = {l}

\* Every error the handler does not catch, such as a 404 or 410 from Hydra.
Die(r) ==
    /\ req[r].pc # "idle"
    /\ Done(r)
    /\ UNCHANGED <<appVars, hydraVars>>

\* UserService.persist_session, committed.
persist_session(u, s) ==
    /\ owner[s] = {}
    /\ owner' = [owner EXCEPT ![s] = {u}]

-----------------------------------------------------------------------------
(***************************************************************************)
(* GET and POST /auth/login.                                               *)
(***************************************************************************)

\* Mutant: the form is skipped for every browser.
SkipUnchecked(r, l) ==
    /\ req[r].pc = "idle" /\ get_login_request(l)
    /\ To(r, "accept", l, [Nobody EXCEPT !.sub = skip[l]])
    /\ UNCHANGED <<appVars, hydraVars>>

\* A remembered browser is not asked; any other is shown the form.
login_form(r, l) ==
    /\ req[r].pc = "idle" /\ get_login_request(l) /\ skip[l] # {}
    /\ To(r, "accept", l, [Nobody EXCEPT !.sub = skip[l]])
    /\ UNCHANGED <<appVars, hydraVars>>

\* The right password of an account without a second factor.
login_submit(r, l, u, s) ==
    /\ req[r].pc = "idle" /\ stage[l] # "new" /\ u \notin deleted \cup enrolled
    /\ persist_session(u, s)
    /\ To(r, "accept", l, [sub |-> {u}, ses |-> {s}, acr |-> "pwd", entered |-> {l}])
    /\ UNCHANGED <<deleted, enrolled, pending, hydraVars>>

\* LoginUseCase of an account with one: the challenge keeps the flow, if any,
\* and the caller is asked for a code.
issue(u, L) ==
    /\ u \in enrolled \ deleted
    /\ \A l \in L : stage[l] # "new"
    /\ Cardinality(pending) < MaxPending
    /\ pending' = pending \cup {[user |-> u, flow |-> L]}
    /\ UNCHANGED <<deleted, enrolled, owner, hydraVars, req>>

\* CompleteTwoFactorUseCase, with the right code for the challenge p.
complete_2fa(p, s) ==
    /\ p \in pending /\ p.user \in enrolled \ deleted
    /\ pending' = pending \ {p}
    /\ persist_session(p.user, s)
    /\ UNCHANGED <<deleted, enrolled>>

Earned(p, s) == [sub |-> {p.user}, ses |-> {s}, acr |-> "2fa", entered |-> p.flow]

\* Mutant: the flow named in the form wins over the one in the challenge.
FormWins(r, l, p, s) ==
    /\ req[r].pc = "idle" /\ stage[l] # "new"
    /\ complete_2fa(p, s)
    /\ To(r, "accept", l, Earned(p, s))
    /\ UNCHANGED hydraVars

\* A code, sent from the form of flow l: the flow stashed with the challenge
\* is accepted, or else the form's.
_submit_two_factor(r, l, p, s) ==
    /\ req[r].pc = "idle" /\ stage[l] # "new"
    /\ complete_2fa(p, s)
    /\ \E to \in IF p.flow = {} THEN {l} ELSE p.flow : To(r, "accept", to, Earned(p, s))
    /\ UNCHANGED hydraVars

\* TwoFactorChallengeExpiredError: by age, or after too many wrong codes.
ChallengeExpires(p) ==
    /\ p \in pending
    /\ pending' = pending \ {p}
    /\ UNCHANGED <<deleted, enrolled, owner, hydraVars, req>>

\* Hydra takes the first answer to an open login request, remembers the
\* browser if asked to, and opens the consent request.
accept_login_request(r) ==
    /\ req[r].pc = "accept" /\ stage[Flow(r)] = "login"
    /\ stage' = [stage EXCEPT ![Flow(r)] = "consent"]
    /\ grant' = [grant EXCEPT ![Flow(r)] = req[r].with]
    /\ remembered' = IF req[r].with.acr = "none" THEN remembered
                                                  ELSE remembered \cup req[r].with.sub
    /\ Done(r)
    /\ UNCHANGED <<appVars, skip, claims>>

-----------------------------------------------------------------------------
(***************************************************************************)
(* GET and POST /auth/consent, and logout.                                 *)
(***************************************************************************)

\* Whose attributes the claims hold: the account's that the login's context
\* names.  UserReader.get_by_id finds the rows of deleted accounts too.
build_claims(l) == grant[l].sub

_accept_consent(r, l) ==
    /\ req[r].pc = "idle" /\ get_consent_request(l)
    /\ To(r, "grant", l, [Nobody EXCEPT !.sub = build_claims(l)])
    /\ UNCHANGED <<appVars, hydraVars>>

consent_form(r, l)   == _accept_consent(r, l)  \* Hydra says skip; otherwise the page is shown
consent_submit(r, l) == _accept_consent(r, l)  \* approve = true

accept_consent_request(r) ==
    /\ req[r].pc = "grant" /\ stage[Flow(r)] = "consent"
    /\ stage' = [stage EXCEPT ![Flow(r)] = "granted"]
    /\ claims' = [claims EXCEPT ![Flow(r)] = req[r].with.sub]
    /\ Done(r)
    /\ UNCHANGED <<appVars, skip, grant, remembered>>

reject_consent_request(l) ==
    /\ stage[l] = "consent"
    /\ stage' = [stage EXCEPT ![l] = "void"]
    /\ UNCHANGED <<appVars, skip, grant, claims, remembered, req>>

\* Logout, the hour of login_remember_seconds, or revoke_login_sessions.
logout(u) ==
    /\ u \in remembered
    /\ remembered' = remembered \ {u}
    /\ UNCHANGED <<appVars, stage, skip, grant, claims, req>>

-----------------------------------------------------------------------------
(***************************************************************************)
(* Meanwhile, through the JSON API.                                        *)
(***************************************************************************)
login(u, s) ==
    /\ u \notin deleted \cup enrolled
    /\ persist_session(u, s)
    /\ UNCHANGED <<deleted, enrolled, pending, hydraVars, req>>

complete_two_factor(p, s) ==
    /\ complete_2fa(p, s)
    /\ UNCHANGED <<hydraVars, req>>

confirm_2fa(u) ==
    /\ u \notin deleted \cup enrolled
    /\ enrolled' = enrolled \cup {u}
    /\ UNCHANGED <<deleted, owner, pending, hydraVars, req>>

disable_2fa(u) ==
    /\ u \in enrolled \ deleted
    /\ enrolled' = enrolled \ {u}
    /\ UNCHANGED <<deleted, owner, pending, hydraVars, req>>

delete_me(u) ==
    /\ u \notin deleted
    /\ deleted' = deleted \cup {u}
    /\ UNCHANGED <<enrolled, owner, pending, hydraVars, req>>

-----------------------------------------------------------------------------
Next ==
    \/ \E l \in Flows, S \in AtMostOne(Users) : Authorize(l, S)
    \/ \E l \in Flows : Lapse(l) \/ reject_consent_request(l)
    \/ \E r \in Requests : accept_login_request(r) \/ accept_consent_request(r) \/ Die(r)
    \/ \E r \in Requests, l \in Flows :
           login_form(r, l) \/ consent_form(r, l) \/ consent_submit(r, l)
    \/ \E r \in Requests, l \in Flows, u \in Users, s \in Sessions : login_submit(r, l, u, s)
    \/ \E r \in Requests, l \in Flows, p \in pending, s \in Sessions : _submit_two_factor(r, l, p, s)
    \/ \E u \in Users, L \in AtMostOne(Flows) : issue(u, L)
    \/ \E p \in pending : ChallengeExpires(p)
    \/ \E p \in pending, s \in Sessions : complete_two_factor(p, s)
    \/ \E u \in Users, s \in Sessions : login(u, s)
    \/ \E u \in Users : logout(u) \/ confirm_2fa(u) \/ disable_2fa(u) \/ delete_me(u)

Spec == Init /\ [][Next]_vars

-----------------------------------------------------------------------------
(***************************************************************************)
(* Properties.                                                             *)
(***************************************************************************)

\* The variables have the shapes the code gives them, and nobody is logged in
\* anonymously.
TypeOK ==
    /\ deleted \subseteq Users /\ enrolled \subseteq Users
    /\ owner \in [Sessions -> AtMostOne(Users)]
    /\ pending \subseteq [user : Users, flow : AtMostOne(Flows)]
    /\ stage \in [Flows -> {"new", "login", "consent", "granted", "void"}]
    /\ skip \in [Flows -> AtMostOne(Users)] /\ remembered \subseteq Users
    /\ grant \in [Flows -> Acceptance] /\ claims \in [Flows -> AtMostOne(Users)]
    /\ req \in [Requests -> [pc : {"idle", "accept", "grant"}, flow : AtMostOne(Flows),
                             with : Acceptance]]
    /\ \A l \in Flows : stage[l] \in {"consent", "granted"} => grant[l].sub # {}

\* Who is logged in to a flow has earned it there: Hydra remembered that very
\* subject, or the password was entered in the flow's own form (or through
\* the JSON API, which names no flow).  A second factor never completes
\* another browser's flow, whatever forms, challenges and retries are mixed.
\* The session named in the token, and the attributes in the ID token, are
\* the subject's.
LoginIsEarned ==
    \A l \in Flows : LET g == grant[l] IN
        /\ g.acr = "none" => g.sub \subseteq skip[l]
        /\ g.acr = "pwd" => g.entered = {l}
        /\ g.acr = "2fa" => g.entered \subseteq {l}
        /\ \A s \in g.ses : owner[s] = g.sub
        /\ claims[l] \subseteq g.sub
=============================================================================
