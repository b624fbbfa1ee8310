----------------------------- MODULE RbacProofs -----------------------------
(***************************************************************************)
(* Roles, permissions and the seeding of the admin role, for any number of *)
(* requests, replicas, roles and users.  Each process looks something up   *)
(* and acts on it later; the invariant says which of these look-ups are    *)
(* still true by then, and why: a name is never given to another role, the *)
(* admin role is never taken away, and who else rewrites a role's grants   *)
(* is known.                                                               *)
(***************************************************************************)
EXTENDS Rbac, TLAPS

Places == {"idle", "create", "add", "find", "write", "up"}
Arguments == Names \cup Permissions \cup Users \cup {None}

\* The tables and their indexes.
TableInv ==
    /\ name \in [Roles -> Names \cup {None}]
    /\ known \subseteq Permissions
    /\ grants \in [Roles -> SUBSET known]
    /\ holders \in [Roles -> SUBSET Users]
    /\ used \subseteq Roles /\ stripped \subseteq Replicas
    /\ \A x \in Roles \ used : name[x] = None
    /\ \A x, y \in Roles : name[x] # None /\ name[x] = name[y] => x = y
    /\ \A x \in Roles : name[x] = None => grants[x] = {} /\ holders[x] = {}

\* The shapes of what processes hold.
ShapeInv ==
    /\ pc \in [Processes -> Places]
    /\ op \in [Processes -> Operations]
    /\ role \in [Processes -> used \cup {None}]
    /\ arg \in [Processes -> Arguments]
    /\ copy \in [Processes -> SUBSET known]
    /\ missing \subseteq Processes /\ crossed \subseteq Processes

\* Two processes at work on the grants of a role are found out.
CrossInv ==
    \A p, q \in Processes :
        p # q /\ role[p] = role[q] /\ op[p] \in Rewriting /\ op[q] \in Rewriting => p \in crossed

\* What a process is called with, and which of its look-ups still hold.
ProcessInv(p) ==
    /\ pc[p] \in {"idle", "up"} => op[p] = "create_role"
    /\ pc[p] \in {"create", "add"} => op[p] = "create_role" /\ arg[p] \in Names
    /\ pc[p] \in {"find", "write"} =>
          /\ op[p] # "create_role" /\ role[p] \in used
          /\ op[p] \in Editing => arg[p] \in Permissions
          /\ op[p] \in {"assign_role", "revoke_role"} => arg[p] \in Users
    /\ pc[p] = "write" =>
          /\ op[p] = "add_permission" /\ p \notin missing => arg[p] \in known
          /\ op[p] \in {"delete_role", "revoke_role"} => name[role[p]] # Admin
          /\ op[p] = "assign_role" /\ p \notin missing /\ name[role[p]] = Admin =>
                arg[p] \in holders[role[p]]
          /\ op[p] \in Editing /\ p \notin crossed => copy[p] = grants[role[p]]

\* The start-up hook: how far a replica has come, and what that has secured.
SeedInv(b) ==
    /\ op[b] \in {"create_role", "add_permission", "assign_role"}
    /\ pc[b] \in {"create", "add"} => arg[b] = Admin
    /\ pc[b] \in {"find", "write"} =>
          /\ name[role[b]] = Admin
          /\ op[b] = "add_permission" => arg[b] = Admin
          /\ op[b] = "assign_role" => /\ arg[b] = Initial
                                      /\ b \notin stripped => Admin \in grants[role[b]]
    /\ pc[b] = "up" =>
          \E x \in used :
              /\ name[x] = Admin /\ Initial \in holders[x]
              /\ b \notin stripped => Admin \in grants[x]

Inv ==
    /\ TableInv /\ ShapeInv /\ CrossInv
    /\ \A p \in Processes : ProcessInv(p)
    /\ \A b \in Replicas : SeedInv(b)

\* p has gone over to another piece of work, or to none.
Settled(p, w, o, x, a) ==
    /\ pc' = [pc EXCEPT ![p] = w]
    /\ op' = [op EXCEPT ![p] = o]
    /\ role' = [role EXCEPT ![p] = x]
    /\ arg' = [arg EXCEPT ![p] = a]
    /\ copy' = [copy EXCEPT ![p] = {}]
    /\ missing' = missing \ {p}
    /\ crossed' \subseteq Processes
    /\ crossed \ {p} \subseteq crossed'

\* What every step of p leaves to the others: the admin role, who holds it and
\* its permission, and grants that only a process at work on them changes.
Steady(p) ==
    /\ known \subseteq known' /\ used \subseteq used'
    /\ \A y \in used :
          /\ name'[y] = Admin <=> name[y] = Admin
          /\ name[y] = Admin => holders[y] \subseteq holders'[y]
          /\ grants'[y] # grants[y] => y = role[p] /\ op[p] \in Rewriting
    /\ \A b \in Replicas \ {p}, y \in used :
          name[y] = Admin /\ b \notin stripped' =>
              b \notin stripped /\ (Admin \in grants[y] => Admin \in grants'[y])

-----------------------------------------------------------------------------
(***************************************************************************)
(* What the look-ups and the ends of an operation do.                      *)
(***************************************************************************)

\* acquire_by_name returns the role of that name, and None when there is none.
LEMMA NameFacts ==
    ASSUME TableInv, NEW n \in Names
    PROVE  /\ acquire_by_name(n) = None => \A x \in Roles : name[x] # n
           /\ acquire_by_name(n) # None =>
                /\ acquire_by_name(n) \in used
                /\ name[acquire_by_name(n)] = n
<1>. DEFINE Named == \E x \in Live : name[x] = n
<1>1. CASE Named
  <2>. DEFINE z == CHOOSE x \in Live : name[x] = n
  <2>1. z \in Live /\ name[z] = n
    BY <1>1
  <2>2. z \in Roles /\ name[z] # None
    BY <2>1 DEF Live
  <2>3. z \in used
    BY <2>2 DEF TableInv
  <2>4. acquire_by_name(n) = z
    BY <1>1 DEF acquire_by_name
  <2>5. z # None
    BY <2>2, RbacAssumption
  <2> HIDE DEF z
  <2> QED
    BY <2>1, <2>3, <2>4, <2>5
<1>2. CASE ~Named
  <2>1. acquire_by_name(n) = None
    BY <1>2 DEF acquire_by_name
  <2>2. \A x \in Roles : name[x] # n
    BY <1>2, RbacAssumption DEF Live
  <2> QED
    BY <2>1, <2>2
<1> QED
  BY <1>1, <1>2

\* Beginning finds out everyone who is at work on the same grants.
LEMMA BeginFacts ==
    ASSUME ShapeInv, CrossInv, NEW p \in Processes, NEW o, NEW x, NEW a, Begin(p, o, x, a)
    PROVE  /\ Settled(p, IF o = "create_role" THEN "create" ELSE "find", o, x, a)
           /\ CrossInv'
<1>. DEFINE others == {q \in Processes \ {p} : role[q] = x /\ op[q] \in Rewriting}
<1>1. Settled(p, IF o = "create_role" THEN "create" ELSE "find", o, x, a)
  BY DEF Begin, Settled, ShapeInv
<1>2. ASSUME NEW q \in Processes, NEW s \in Processes, q # s, role'[q] = role'[s],
             op'[q] \in Rewriting, op'[s] \in Rewriting
      PROVE  q \in crossed'
  <2>. USE <1>2
  <2>1. CASE q # p /\ s # p
    <3>1. op'[q] = op[q] /\ op'[s] = op[s] /\ role'[q] = role[q] /\ role'[s] = role[s]
      BY <2>1 DEF Begin, ShapeInv
    <3>2. q \in crossed
      BY <3>1 DEF CrossInv
    <3> QED
      BY <2>1, <3>2, <1>1 DEF Settled
  <2>2. CASE q = p
    <3>1. s \in others /\ o \in Rewriting
      BY <2>2 DEF Begin, ShapeInv
    <3> QED
      BY <2>2, <3>1 DEF Begin
  <2>3. CASE s = p
    <3>1. q \in others /\ o \in Rewriting
      BY <2>3 DEF Begin, ShapeInv
    <3> QED
      BY <2>3, <3>1 DEF Begin
  <2> QED
    BY <2>1, <2>2, <2>3
<1>3. CrossInv'
  BY <1>2 DEF CrossInv, Rewriting, Editing
<1> QED
  BY <1>1, <1>3

\* Leaving gives everything up, and the others stay found out.
LEMMA LeaveFacts ==
    ASSUME ShapeInv, CrossInv, NEW p \in Processes, NEW w, Leave(p, w)
    PROVE  Settled(p, w, "create_role", None, None) /\ CrossInv'
<1>1. Settled(p, w, "create_role", None, None)
  BY DEF Leave, Settled, ShapeInv
<1>2. ASSUME NEW q \in Processes, NEW s \in Processes, q # s, role'[q] = role'[s],
             op'[q] \in Rewriting, op'[s] \in Rewriting
      PROVE  q \in crossed'
  <2>1. q # p /\ s # p
    BY <1>2 DEF Leave, ShapeInv, Rewriting, Editing
  <2>2. op'[q] = op[q] /\ op'[s] = op[s] /\ role'[q] = role[q] /\ role'[s] = role[s]
    BY <2>1, <1>2 DEF Leave, ShapeInv
  <2> QED
    BY <1>2, <2>1, <2>2, <1>1 DEF CrossInv, Settled
<1> QED
  BY <1>1, <1>2 DEF CrossInv, Rewriting, Editing

-----------------------------------------------------------------------------
(***************************************************************************)
(* A process that goes over to other work preserves the invariant.         *)
(***************************************************************************)

\* What the others have looked up is as good as before.
LEMMA OthersKeep ==
    ASSUME Inv, NEW p \in Processes, Steady(p), NEW q \in Processes \ {p},
           pc'[q] = pc[q], op'[q] = op[q], role'[q] = role[q], arg'[q] = arg[q],
           copy'[q] = copy[q], q \in missing' <=> q \in missing, q \in crossed => q \in crossed'
    PROVE  ProcessInv(q)' /\ (q \in Replicas => SeedInv(q)')
<1>1. ProcessInv(q) /\ ShapeInv /\ CrossInv
  BY DEF Inv
<1>2. pc[q] \in {"find", "write"} =>
        /\ role[q] \in used /\ role[q] \in used'
        /\ name'[role[q]] = Admin <=> name[role[q]] = Admin
        /\ name[role[q]] = Admin => holders[role[q]] \subseteq holders'[role[q]]
  BY <1>1 DEF ProcessInv, Steady
<1>3. ASSUME pc[q] = "write", op[q] \in Editing, q \notin crossed'
      PROVE  copy'[q] = grants'[role[q]]
  <2>1. role[q] \in used /\ copy[q] = grants[role[q]]
    BY <1>1, <1>3 DEF ProcessInv
  <2>2. grants'[role[q]] = grants[role[q]]
    BY <1>1, <1>3, <2>1 DEF CrossInv, Steady, Rewriting
  <2> QED
    BY <2>1, <2>2
<1>4. ProcessInv(q)'
  BY <1>1, <1>2, <1>3 DEF ProcessInv, Steady, Editing
<1>5. ASSUME q \in Replicas
      PROVE  SeedInv(q)'
  <2>1. SeedInv(q)
    BY <1>5 DEF Inv
  <2>2. ASSUME pc[q] \in {"find", "write"}, op[q] = "assign_role", q \notin stripped'
        PROVE  Admin \in grants'[role[q]]
    <3>1. role[q] \in used /\ name[role[q]] = Admin
      BY <1>2, <2>1, <2>2 DEF SeedInv
    <3>2. q \notin stripped /\ (Admin \in grants[role[q]] => Admin \in grants'[role[q]])
      BY <1>5, <2>2, <3>1 DEF Steady
    <3> QED
      BY <2>1, <2>2, <3>2 DEF SeedInv
  <2>3. ASSUME pc[q] = "up"
        PROVE  \E x \in used' :
                  /\ name'[x] = Admin /\ Initial \in holders'[x]
                  /\ q \notin stripped' => Admin \in grants'[x]
    <3>1. PICK x \in used : /\ name[x] = Admin /\ Initial \in holders[x]
                            /\ q \notin stripped => Admin \in grants[x]
      BY <2>1, <2>3 DEF SeedInv
    <3>2. x \in used' /\ name'[x] = Admin /\ Initial \in holders'[x]
      BY <3>1 DEF Steady
    <3>3. q \notin stripped' => Admin \in grants'[x]
      BY <1>5, <3>1 DEF Steady
    <3> QED
      BY <3>2, <3>3
  <2> QED
    BY <1>2, <2>1, <2>2, <2>3 DEF SeedInv
<1> QED
  BY <1>4, <1>5

\* New work that suits its process keeps the invariant.
LEMMA Settle ==
    ASSUME Inv, TableInv', CrossInv', NEW p \in Processes, Steady(p),
           NEW w \in {"idle", "up", "create", "find"}, NEW o \in Operations,
           NEW x \in used' \cup {None}, NEW a \in Arguments, Settled(p, w, o, x, a),
           w \in {"idle", "up"} => o = "create_role",
           w = "create" => o = "create_role" /\ a \in Names,
           w = "find" => /\ o # "create_role" /\ x \in used'
                         /\ o \in Editing => a \in Permissions
                         /\ o \in {"assign_role", "revoke_role"} => a \in Users,
           p \in Replicas => SeedInv(p)'
    PROVE  Inv'
<1>. USE DEF Settled
<1>1. ShapeInv
  BY DEF Inv
<1>2. pc'[p] = w /\ op'[p] = o /\ role'[p] = x /\ arg'[p] = a /\ copy'[p] = {}
  BY <1>1 DEF ShapeInv
<1>3. ShapeInv'
  <2>1. pc' \in [Processes -> Places]
    BY <1>1 DEF ShapeInv, Places
  <2>2. op' \in [Processes -> Operations] /\ arg' \in [Processes -> Arguments]
    BY <1>1 DEF ShapeInv
  <2>3. role' \in [Processes -> used' \cup {None}]
    BY <1>1 DEF ShapeInv, Steady
  <2>4. copy' \in [Processes -> SUBSET known']
    BY <1>1 DEF ShapeInv, Steady
  <2>5. missing' \subseteq Processes /\ crossed' \subseteq Processes
    BY <1>1 DEF ShapeInv
  <2> QED
    BY <2>1, <2>2, <2>3, <2>4, <2>5 DEF ShapeInv
<1>4. ProcessInv(p)'
  BY <1>2 DEF ProcessInv
<1>5. ASSUME NEW q \in Processes \ {p}
      PROVE  ProcessInv(q)' /\ (q \in Replicas => SeedInv(q)')
  <2>1. /\ pc'[q] = pc[q] /\ op'[q] = op[q] /\ role'[q] = role[q] /\ arg'[q] = arg[q]
        /\ copy'[q] = copy[q] /\ (q \in missing' <=> q \in missing)
        /\ q \in crossed => q \in crossed'
    BY <1>1, <1>5 DEF ShapeInv
  <2> QED
    BY <2>1, OthersKeep
<1>6. \A q \in Processes : ProcessInv(q)'
  BY <1>4, <1>5
<1>7. \A b \in Replicas : SeedInv(b)'
  BY <1>5 DEF Processes
<1> QED
  BY <1>3, <1>6, <1>7 DEF Inv

\* A request that is through leaves; seed_admin_role goes on with what its
\* last transaction secured.
LEMMA Commit ==
    ASSUME Inv, TableInv', NEW p \in Processes, Steady(p), NEW x \in used', Committed(p, x),
           p \in Replicas =>
              /\ name'[x] = Admin
              /\ op[p] = "add_permission" => Admin \in grants'[x]
              /\ op[p] = "assign_role" => /\ Initial \in holders'[x]
                                          /\ p \notin stripped' => Admin \in grants'[x]
    PROVE  Inv'
<1>. USE RbacAssumption
<1>1. ShapeInv /\ CrossInv
  BY DEF Inv
<1>2. CASE p \in Requests
  <2>1. Leave(p, "idle")
    BY <1>2 DEF Committed
  <2>2. Settled(p, "idle", "create_role", None, None) /\ CrossInv'
    BY <1>1, <2>1, LeaveFacts
  <2>3. p \notin Replicas
    BY <1>2
  <2> QED
    BY <2>2, <2>3, Settle DEF Arguments, Operations
<1>3. ASSUME p \in Replicas, op[p] = "create_role"
      PROVE  Inv'
  <2>1. Begin(p, "add_permission", x, Admin)
    BY <1>3 DEF Committed
  <2>2. Settled(p, "find", "add_permission", x, Admin) /\ CrossInv'
    BY <1>1, <2>1, BeginFacts
  <2>3. pc'[p] = "find" /\ op'[p] = "add_permission" /\ role'[p] = x /\ arg'[p] = Admin
    BY <1>1, <2>2 DEF ShapeInv, Settled
  <2>4. SeedInv(p)'
    BY <1>3, <2>3 DEF SeedInv
  <2> QED
    BY <2>2, <2>4, Settle DEF Arguments, Operations, Editing
<1>4. ASSUME p \in Replicas, op[p] = "add_permission"
      PROVE  Inv'
  <2>1. Begin(p, "assign_role", x, Initial)
    BY <1>4 DEF Committed
  <2>2. Settled(p, "find", "assign_role", x, Initial) /\ CrossInv'
    BY <1>1, <2>1, BeginFacts
  <2>3. pc'[p] = "find" /\ op'[p] = "assign_role" /\ role'[p] = x /\ arg'[p] = Initial
    BY <1>1, <2>2 DEF ShapeInv, Settled
  <2>4. SeedInv(p)'
    BY <1>4, <2>3 DEF SeedInv
  <2> QED
    BY <2>2, <2>4, Settle DEF Arguments, Operations, Editing
<1>5. ASSUME p \in Replicas, op[p] = "assign_role"
      PROVE  Inv'
  <2>1. Leave(p, "up")
    BY <1>5 DEF Committed
  <2>2. Settled(p, "up", "create_role", None, None) /\ CrossInv'
    BY <1>1, <2>1, LeaveFacts
  <2>3. pc'[p] = "up" /\ op'[p] = "create_role"
    BY <1>1, <2>2 DEF ShapeInv, Settled
  <2>4. SeedInv(p)'
    BY <1>5, <2>3 DEF SeedInv
  <2> QED
    BY <2>2, <2>4, Settle DEF Arguments, Operations
<1>6. p \in Replicas => op[p] \in {"create_role", "add_permission", "assign_role"}
  BY DEF Inv, SeedInv
<1> QED
  BY <1>2, <1>3, <1>4, <1>5, <1>6 DEF Processes

-----------------------------------------------------------------------------
(***************************************************************************)
(* The steps, one by one.                                                  *)
(***************************************************************************)

\* A step that leaves the tables alone takes nothing from anyone; the replica
\* that starts over is the only one to forget what was stripped.
LEMMA Still ==
    ASSUME Inv, NEW p \in Processes, UNCHANGED <<tables, used>>,
           stripped' = stripped \/ stripped' = stripped \ {p}
    PROVE  TableInv' /\ Steady(p)
<1>1. /\ name' = name /\ known' = known /\ grants' = grants /\ holders' = holders
      /\ used' = used
  BY DEF tables
<1>2. TableInv
  BY DEF Inv
<1> QED
  BY <1>1, <1>2 DEF TableInv, Steady

\* An error response and the stop of a replica give the work up.
LEMMA GiveUp ==
    ASSUME Inv, NEW p \in Processes, Leave(p, "idle"), UNCHANGED <<tables, used, stripped>>
    PROVE  Inv'
<1>1. ShapeInv /\ CrossInv
  BY DEF Inv
<1>2. Settled(p, "idle", "create_role", None, None) /\ CrossInv'
  BY <1>1, LeaveFacts
<1>3. TableInv' /\ Steady(p)
  BY Still
<1>4. pc'[p] = "idle" /\ op'[p] = "create_role"
  BY <1>1, <1>2 DEF ShapeInv, Settled
<1>5. SeedInv(p)'
  BY <1>4 DEF SeedInv
<1> QED
  BY <1>2, <1>3, <1>5, Settle DEF Arguments, Operations

\* A request begins with the arguments its handler takes.
LEMMA RequireAdminInv ==
    ASSUME Inv, NEW r \in Requests, NEW u \in Users, NEW c \in Calls,
           require_admin(r, u, c[1], c[2], c[3])
    PROVE  Inv'
<1>. USE RbacAssumption
<1>. DEFINE o == c[1]
            x == c[2]
            a == c[3]
            w == IF o = "create_role" THEN "create" ELSE "find"
<1>1. /\ o \in Operations /\ x \in used \cup {None} /\ a \in Arguments
      /\ o = "create_role" => a \in Names
      /\ o # "create_role" => /\ x \in used
                              /\ o \in Editing => a \in Permissions
                              /\ o \in {"assign_role", "revoke_role"} => a \in Users
  <2>1. CASE c \in {<<"create_role", None, n>> : n \in Names}
    BY <2>1 DEF Operations, Arguments, Editing
  <2>2. CASE c \in {<<"delete_role", y, None>> : y \in used}
    BY <2>2 DEF Operations, Arguments, Editing
  <2>3. CASE c \in {<<v, y, z>> : v \in {"assign_role", "revoke_role"}, y \in used, z \in Users}
    BY <2>3 DEF Operations, Arguments, Editing
  <2>4. CASE c \in {<<v, y, z>> : v \in {"add_permission", "remove_permission"},
                                  y \in used, z \in Permissions}
    BY <2>4 DEF Operations, Arguments, Editing
  <2> QED
    BY <2>1, <2>2, <2>3, <2>4 DEF Calls
<1> HIDE DEF o, x, a
<1>2. Begin(r, o, x, a) /\ UNCHANGED <<tables, used, stripped>>
  BY DEF require_admin, o, x, a
<1>3. r \in Processes /\ r \notin Replicas /\ ShapeInv /\ CrossInv
  BY DEF Inv, Processes
<1>4. Settled(r, w, o, x, a) /\ CrossInv'
  BY <1>2, <1>3, BeginFacts
<1>5. TableInv' /\ Steady(r) /\ used' = used
  BY <1>2, <1>3, Still
<1>6. CASE o = "create_role"
  BY <1>1, <1>3, <1>4, <1>5, <1>6, Settle
<1>7. CASE o # "create_role"
  BY <1>1, <1>3, <1>4, <1>5, <1>7, Settle
<1> QED
  BY <1>6, <1>7

\* Start-up begins with what the admin role it found lacks.
LEMMA SeedStepInv ==
    ASSUME Inv, NEW b \in Replicas, seed_admin_role(b)
    PROVE  Inv'
<1>. USE RbacAssumption
<1>. DEFINE x == acquire_by_name(Admin)
<1>1. b \in Processes /\ ShapeInv /\ CrossInv /\ TableInv
  BY DEF Inv, Processes
<1>2. x # None => x \in used /\ name[x] = Admin
  BY <1>1, NameFacts
<1>3. /\ stripped' = stripped \ {b} /\ UNCHANGED <<tables, used>>
      /\ \/ x = None /\ Begin(b, "create_role", None, Admin)
         \/ x # None /\ Admin \notin grants[x] /\ Begin(b, "add_permission", x, Admin)
         \/ x # None /\ Admin \in grants[x] /\ Begin(b, "assign_role", x, Initial)
  BY DEF seed_admin_role
<1> HIDE DEF x
<1>4. TableInv' /\ Steady(b)
  BY <1>1, <1>3, Still
<1>5. name' = name /\ grants' = grants /\ used' = used
  BY <1>3 DEF tables
<1>6. ASSUME x = None, Begin(b, "create_role", None, Admin)
      PROVE  Inv'
  <2>1. Settled(b, "create", "create_role", None, Admin) /\ CrossInv'
    BY <1>1, <1>6, BeginFacts
  <2>2. pc'[b] = "create" /\ op'[b] = "create_role" /\ arg'[b] = Admin
    BY <1>1, <2>1 DEF ShapeInv, Settled
  <2>3. SeedInv(b)'
    BY <2>2 DEF SeedInv
  <2> QED
    BY <1>1, <1>4, <2>1, <2>3, Settle DEF Arguments, Operations
<1>7. ASSUME x # None, Begin(b, "add_permission", x, Admin)
      PROVE  Inv'
  <2>1. Settled(b, "find", "add_permission", x, Admin) /\ CrossInv'
    BY <1>1, <1>7, BeginFacts
  <2>2. pc'[b] = "find" /\ op'[b] = "add_permission" /\ role'[b] = x /\ arg'[b] = Admin
    BY <1>1, <2>1 DEF ShapeInv, Settled
  <2>3. SeedInv(b)'
    BY <1>2, <1>5, <1>7, <2>2 DEF SeedInv
  <2> QED
    BY <1>1, <1>2, <1>4, <1>5, <1>7, <2>1, <2>3, Settle DEF Arguments, Operations, Editing
<1>8. ASSUME x # None, Admin \in grants[x], Begin(b, "assign_role", x, Initial)
      PROVE  Inv'
  <2>1. Settled(b, "find", "assign_role", x, Initial) /\ CrossInv'
    BY <1>1, <1>8, BeginFacts
  <2>2. pc'[b] = "find" /\ op'[b] = "assign_role" /\ role'[b] = x /\ arg'[b] = Initial
    BY <1>1, <2>1 DEF ShapeInv, Settled
  <2>3. SeedInv(b)'
    BY <1>2, <1>5, <1>8, <2>2 DEF SeedInv
  <2> QED
    BY <1>1, <1>2, <1>4, <1>5, <1>8, <2>1, <2>3, Settle DEF Arguments, Operations, Editing
<1> QED
  BY <1>3, <1>6, <1>7, <1>8

\* The look-up in create_role promises nothing: the name may be taken by the
\* time of the INSERT.
LEMMA CreateInv ==
    ASSUME Inv, NEW p \in Processes, create(p)
    PROVE  Inv'
<1>1. /\ pc[p] = "create" /\ pc' = [pc EXCEPT ![p] = "add"]
      /\ name' = name /\ known' = known /\ grants' = grants /\ holders' = holders
      /\ op' = op /\ role' = role /\ arg' = arg /\ copy' = copy /\ missing' = missing
      /\ used' = used /\ crossed' = crossed /\ stripped' = stripped
  BY DEF create, tables, process, history
<1>2. TableInv' /\ CrossInv'
  BY <1>1 DEF Inv, TableInv, CrossInv
<1>3. ShapeInv'
  BY <1>1 DEF Inv, ShapeInv, Places
<1>4. Steady(p)
  BY <1>1 DEF Steady
<1>5. ASSUME NEW q \in Processes
      PROVE  ProcessInv(q)' /\ (q \in Replicas => SeedInv(q)')
  <2>1. CASE q = p
    <3>1. pc'[p] = "add" /\ ProcessInv(p) /\ (p \in Replicas => SeedInv(p))
      BY <1>1 DEF Inv, ShapeInv
    <3> QED
      BY <1>1, <2>1, <3>1 DEF ProcessInv, SeedInv
  <2>2. CASE q # p
    <3>1. pc'[q] = pc[q]
      BY <1>1, <2>2 DEF Inv, ShapeInv
    <3> QED
      BY <1>1, <1>4, <2>2, <3>1, OthersKeep
  <2> QED
    BY <2>1, <2>2
<1> QED
  BY <1>2, <1>3, <1>5 DEF Inv, Processes

\* The unique index makes the name of the new role its own.
LEMMA AddInv ==
    ASSUME Inv, NEW p \in Processes, add(p)
    PROVE  Inv'
<1>. USE RbacAssumption
<1>1. TableInv /\ ProcessInv(p) /\ ShapeInv
  BY DEF Inv
<1>2. op[p] = "create_role" /\ arg[p] \in Names /\ (p \in Replicas => arg[p] = Admin)
  BY <1>1 DEF add, ProcessInv, Inv, SeedInv
<1>3. \A y \in Roles : name[y] # arg[p]
  BY <1>1, <1>2, NameFacts DEF add
<1>4. PICK x \in Roles \ used : /\ name' = [name EXCEPT ![x] = arg[p]]
                                /\ used' = used \cup {x}
                                /\ Committed(p, x)
  BY DEF add
<1>5. known' = known /\ grants' = grants /\ holders' = holders /\ stripped' = stripped
  BY DEF add
<1>6. TableInv'
  <2>1. name' \in [Roles -> Names \cup {None}] /\ \A y \in Roles \ used' : name'[y] = None
    BY <1>1, <1>2, <1>4 DEF TableInv
  <2>2. \A y, z \in Roles : name'[y] # None /\ name'[y] = name'[z] => y = z
    BY <1>1, <1>2, <1>3, <1>4 DEF TableInv
  <2>3. \A y \in Roles : name'[y] = None => grants'[y] = {} /\ holders'[y] = {}
    BY <1>1, <1>2, <1>4, <1>5 DEF TableInv
  <2> QED
    BY <1>1, <1>4, <1>5, <2>1, <2>2, <2>3 DEF TableInv
<1>7. Steady(p)
  BY <1>1, <1>4, <1>5 DEF Steady, TableInv
<1>8. x \in used' /\ name'[x] = arg[p]
  BY <1>1, <1>4 DEF TableInv
<1> QED
  BY <1>2, <1>4, <1>6, <1>7, <1>8, Commit

\* What a request loads is what the tables hold, and the admin role is
\* turned away from deletion and revocation here.
LEMMA AcquireInv ==
    ASSUME Inv, NEW p \in Processes, acquire_by_id(p)
    PROVE  Inv'
<1>1. TableInv /\ ShapeInv /\ CrossInv /\ ProcessInv(p)
  BY DEF Inv
<1>2. /\ pc[p] = "find" /\ role[p] \in Live /\ ~Protected(p)
      /\ copy' = [copy EXCEPT ![p] = IF op[p] \in Editing THEN grants[role[p]] ELSE {}]
      /\ missing' = IF Lacking(p) THEN missing \cup {p} ELSE missing
      /\ pc' = [pc EXCEPT ![p] = "write"]
      /\ name' = name /\ known' = known /\ grants' = grants /\ holders' = holders
      /\ op' = op /\ role' = role /\ arg' = arg
      /\ used' = used /\ crossed' = crossed /\ stripped' = stripped
  BY DEF acquire_by_id, Acquire, tables, history
<1>3. role[p] \in Roles /\ grants[role[p]] \subseteq known
  BY <1>1, <1>2 DEF Live, TableInv
<1>4. TableInv' /\ CrossInv' /\ Steady(p)
  BY <1>1, <1>2 DEF TableInv, CrossInv, Steady
<1>5. ShapeInv'
  <2>1. pc' \in [Processes -> Places]
    BY <1>1, <1>2 DEF ShapeInv, Places
  <2>2. copy' \in [Processes -> SUBSET known']
    BY <1>1, <1>2, <1>3 DEF ShapeInv
  <2>3. missing' \subseteq Processes
    BY <1>1, <1>2 DEF ShapeInv
  <2> QED
    BY <1>1, <1>2, <2>1, <2>2, <2>3 DEF ShapeInv
<1>6. pc'[p] = "write" /\ copy'[p] = IF op[p] \in Editing THEN grants[role[p]] ELSE {}
  BY <1>1, <1>2 DEF ShapeInv
<1>7. p \notin missing' => ~Lacking(p)
  BY <1>2
<1>8. ProcessInv(p)'
  <2>1. op[p] = "add_permission" /\ p \notin missing' => arg[p] \in known
    BY <1>7 DEF Lacking, acquire_permission
  <2>2. op[p] = "assign_role" /\ p \notin missing' => arg[p] \in holders[role[p]]
    BY <1>7 DEF Lacking, acquire_by_user_and_role
  <2>3. op[p] \in {"delete_role", "revoke_role"} => name[role[p]] # Admin
    BY <1>2 DEF Protected
  <2> QED
    BY <1>1, <1>2, <1>6, <2>1, <2>2, <2>3 DEF ProcessInv
<1>9. p \in Replicas => SeedInv(p)'
  BY <1>2, <1>6 DEF Inv, SeedInv
<1>10. ASSUME NEW q \in Processes \ {p}
       PROVE  ProcessInv(q)' /\ (q \in Replicas => SeedInv(q)')
  <2>1. pc'[q] = pc[q] /\ copy'[q] = copy[q] /\ (q \in missing' <=> q \in missing)
    BY <1>1, <1>2, <1>10 DEF ShapeInv
  <2> QED
    BY <1>2, <1>4, <2>1, OthersKeep
<1>11. \A q \in Processes : ProcessInv(q)'
  BY <1>8, <1>10
<1>12. \A b \in Replicas : SeedInv(b)'
  BY <1>9, <1>10 DEF Processes
<1> QED
  BY <1>4, <1>5, <1>11, <1>12 DEF Inv

\* update keeps the foreign keys, and whoever takes Admin from the admin role
\* is seen by every replica.
LEMMA UpdateInv ==
    ASSUME Inv, NEW p \in Processes, pc[p] = "write", op[p] \in Editing,
           NEW permissions, update(p, permissions), permissions \subseteq known',
           known \subseteq known', known' \subseteq Permissions,
           p \in Replicas => Admin \in permissions
    PROVE  Inv'
<1>1. TableInv /\ ShapeInv /\ ProcessInv(p)
  BY DEF Inv
<1>2. /\ permissions # {} => role[p] \in Live
      /\ grants' = [grants EXCEPT ![role[p]] = permissions]
      /\ stripped' = IF name[role[p]] = Admin /\ Admin \notin permissions
                     THEN Replicas ELSE stripped
      /\ Committed(p, role[p])
      /\ name' = name /\ holders' = holders /\ used' = used
  BY DEF update, References
<1>3. role[p] \in used /\ role[p] \in Roles
  BY <1>1 DEF ProcessInv, TableInv
<1>4. TableInv'
  <2>1. grants' \in [Roles -> SUBSET known'] /\ stripped' \subseteq Replicas
    BY <1>1, <1>2, <1>3 DEF TableInv
  <2>2. \A y \in Roles : name'[y] = None => grants'[y] = {} /\ holders'[y] = {}
    BY <1>1, <1>2, <1>3 DEF TableInv, Live
  <2> QED
    BY <1>1, <1>2, <2>1, <2>2 DEF TableInv
<1>5. Steady(p)
  <2>1. \A y \in used : grants'[y] # grants[y] => y = role[p] /\ op[p] \in Rewriting
    BY <1>1, <1>2, <1>3 DEF TableInv, Rewriting
  <2>2. \A b \in Replicas \ {p}, y \in used :
            name[y] = Admin /\ b \notin stripped' =>
                b \notin stripped /\ (Admin \in grants[y] => Admin \in grants'[y])
    BY <1>1, <1>2, <1>3 DEF TableInv
  <2> QED
    BY <1>2, <2>1, <2>2 DEF Steady
<1>6. p \in Replicas => name'[role[p]] = Admin /\ Admin \in grants'[role[p]]
  BY <1>1, <1>2, <1>3 DEF TableInv, Inv, SeedInv
<1>7. op[p] # "assign_role"
  BY DEF Editing
<1> QED
  BY <1>2, <1>3, <1>4, <1>5, <1>6, <1>7, Commit

\* An added permission has its row by then.
LEMMA AddPermissionInv ==
    ASSUME Inv, NEW p \in Processes, add_permission_to_role(p)
    PROVE  Inv'
<1>. USE RbacAssumption
<1>1. TableInv /\ ShapeInv /\ ProcessInv(p)
  BY DEF Inv
<1>2. pc[p] = "write" /\ op[p] = "add_permission" /\ op[p] \in Editing
  BY DEF add_permission_to_role, Editing
<1>3. update(p, copy[p] \cup {arg[p]})
  BY DEF add_permission_to_role, add_permission
<1>4. known' = IF p \in missing THEN known \cup {arg[p]} ELSE known
  BY DEF add_permission_to_role, permission_add
<1>5. arg[p] \in Permissions /\ (p \notin missing => arg[p] \in known)
  BY <1>1, <1>2 DEF ProcessInv
<1>6. copy[p] \subseteq known /\ known \subseteq Permissions
  BY <1>1 DEF ShapeInv, TableInv
<1>7. p \in Replicas => arg[p] = Admin
  BY <1>2 DEF Inv, SeedInv
<1>8. /\ copy[p] \cup {arg[p]} \subseteq known' /\ known \subseteq known'
      /\ known' \subseteq Permissions
      /\ p \in Replicas => Admin \in copy[p] \cup {arg[p]}
  BY <1>4, <1>5, <1>6, <1>7
<1> QED
  BY <1>2, <1>3, <1>8, UpdateInv

\* A replica never removes a permission.
LEMMA RemovePermissionInv ==
    ASSUME Inv, NEW p \in Processes, remove_permission_from_role(p)
    PROVE  Inv'
<1>1. pc[p] = "write" /\ op[p] = "remove_permission" /\ op[p] \in Editing /\ known' = known
  BY DEF remove_permission_from_role, Editing
<1>2. update(p, copy[p] \ {arg[p]})
  BY DEF remove_permission_from_role, remove_permission
<1>3. copy[p] \subseteq known /\ known \subseteq Permissions
  BY DEF Inv, ShapeInv, TableInv
<1>4. p \notin Replicas
  BY <1>1 DEF Inv, SeedInv
<1>5. copy[p] \ {arg[p]} \subseteq known'
  BY <1>1, <1>3
<1> QED
  BY <1>1, <1>2, <1>3, <1>4, <1>5, UpdateInv

\* assign_role leaves an assignment behind while the admin role is there.
LEMMA AssignInv ==
    ASSUME Inv, NEW p \in Processes, assign_role(p)
    PROVE  Inv'
<1>. USE RbacAssumption
<1>1. TableInv /\ ShapeInv /\ ProcessInv(p)
  BY DEF Inv
<1>2. /\ pc[p] = "write" /\ op[p] = "assign_role" /\ Committed(p, role[p])
      /\ name' = name /\ known' = known /\ grants' = grants /\ used' = used
      /\ stripped' = stripped
  BY DEF assign_role
<1>3. role[p] \in used /\ role[p] \in Roles /\ arg[p] \in Users
  BY <1>1, <1>2 DEF ProcessInv, TableInv
<1>4. \/ p \notin missing /\ holders' = holders
      \/ /\ p \in missing /\ role[p] \in Live
         /\ holders' = [holders EXCEPT ![role[p]] = @ \cup {arg[p]}]
  BY DEF assign_role, user_role_add, References
<1>5. TableInv'
  <2>1. holders' \in [Roles -> SUBSET Users]
    BY <1>1, <1>3, <1>4 DEF TableInv
  <2>2. \A y \in Roles : name'[y] = None => grants'[y] = {} /\ holders'[y] = {}
    BY <1>1, <1>2, <1>3, <1>4 DEF TableInv, Live
  <2> QED
    BY <1>1, <1>2, <2>1, <2>2 DEF TableInv
<1>6. \A y \in Roles : holders[y] \subseteq holders'[y]
  BY <1>1, <1>3, <1>4 DEF TableInv
<1>7. Steady(p)
  BY <1>1, <1>2, <1>6 DEF Steady, TableInv
<1>8. ASSUME p \in Replicas
      PROVE  /\ name'[role[p]] = Admin /\ Initial \in holders'[role[p]]
             /\ p \notin stripped' => Admin \in grants'[role[p]]
  <2>1. name[role[p]] = Admin /\ arg[p] = Initial /\ (p \notin stripped => Admin \in grants[role[p]])
    BY <1>2, <1>8 DEF Inv, SeedInv
  <2>2. p \notin missing => Initial \in holders[role[p]]
    BY <1>1, <1>2, <2>1 DEF ProcessInv
  <2>3. Initial \in holders'[role[p]]
    BY <1>1, <1>3, <1>4, <2>1, <2>2 DEF TableInv
  <2> QED
    BY <1>2, <2>1, <2>3
<1>9. role[p] \in used'
  BY <1>2, <1>3
<1> QED
  BY <1>2, <1>5, <1>7, <1>8, <1>9, Commit

\* Revocation and deletion are a request's, and not of the admin role.
LEMMA RevokeInv ==
    ASSUME Inv, NEW p \in Processes, revoke_role(p)
    PROVE  Inv'
<1>1. TableInv /\ ShapeInv /\ ProcessInv(p)
  BY DEF Inv
<1>2. /\ pc[p] = "write" /\ op[p] = "revoke_role" /\ Committed(p, role[p])
      /\ holders' = [holders EXCEPT ![role[p]] = @ \ {arg[p]}]
      /\ name' = name /\ known' = known /\ grants' = grants /\ used' = used
      /\ stripped' = stripped
  BY DEF revoke_role, user_role_delete
<1>3. role[p] \in used /\ role[p] \in Roles /\ name[role[p]] # Admin
  BY <1>1, <1>2 DEF ProcessInv, TableInv
<1>4. TableInv'
  <2>1. holders' \in [Roles -> SUBSET Users]
    BY <1>1, <1>2, <1>3 DEF TableInv
  <2>2. \A y \in Roles : name'[y] = None => grants'[y] = {} /\ holders'[y] = {}
    BY <1>1, <1>2, <1>3 DEF TableInv
  <2> QED
    BY <1>1, <1>2, <2>1, <2>2 DEF TableInv
<1>5. Steady(p)
  BY <1>1, <1>2, <1>3 DEF Steady, TableInv
<1>6. p \notin Replicas
  BY <1>2 DEF Inv, SeedInv
<1> QED
  BY <1>2, <1>3, <1>4, <1>5, <1>6, Commit

\* The cascade leaves nothing that refers to the role.
LEMMA DeleteInv ==
    ASSUME Inv, NEW p \in Processes, delete_role(p)
    PROVE  Inv'
<1>. USE RbacAssumption
<1>1. TableInv /\ ShapeInv /\ ProcessInv(p)
  BY DEF Inv
<1>2. /\ pc[p] = "write" /\ op[p] = "delete_role" /\ Committed(p, role[p])
      /\ grants' = [grants EXCEPT ![role[p]] = {}]
      /\ holders' = [holders EXCEPT ![role[p]] = {}]
      /\ name' = [name EXCEPT ![role[p]] = None]
      /\ known' = known /\ used' = used /\ stripped' = stripped
  BY DEF delete_role
<1>3. role[p] \in used /\ role[p] \in Roles /\ name[role[p]] # Admin
  BY <1>1, <1>2 DEF ProcessInv, TableInv
<1>4. TableInv'
  <2>1. /\ name' \in [Roles -> Names \cup {None}] /\ grants' \in [Roles -> SUBSET known']
        /\ holders' \in [Roles -> SUBSET Users]
    BY <1>1, <1>2, <1>3 DEF TableInv
  <2>2. \A y \in Roles : name'[y] = None => grants'[y] = {} /\ holders'[y] = {}
    BY <1>1, <1>2, <1>3 DEF TableInv
  <2>3. \A y, z \in Roles : name'[y] # None /\ name'[y] = name'[z] => y = z
    BY <1>1, <1>2, <1>3 DEF TableInv
  <2>4. \A y \in Roles \ used' : name'[y] = None
    BY <1>1, <1>2, <1>3 DEF TableInv
  <2> QED
    BY <1>1, <1>2, <2>1, <2>2, <2>3, <2>4 DEF TableInv
<1>5. Steady(p)
  <2>1. \A y \in used : /\ y # role[p] => /\ name'[y] = name[y] /\ grants'[y] = grants[y]
                                          /\ holders'[y] = holders[y]
                        /\ y = role[p] => name'[y] = None
    BY <1>1, <1>2, <1>3 DEF TableInv
  <2> QED
    BY <1>2, <1>3, <2>1 DEF Steady, Rewriting
<1>6. p \notin Replicas
  BY <1>2 DEF Inv, SeedInv
<1> QED
  BY <1>2, <1>3, <1>4, <1>5, <1>6, Commit

\* Each step of the model preserves the invariant.
LEMMA StepInv ==
    ASSUME Inv, [Next]_vars
    PROVE  Inv'
<1>1. ASSUME NEW p \in Processes, ProcessNext(p)
      PROVE  Inv'
  <2>1. ASSUME Fail(p) PROVE Inv'
    BY <2>1, GiveUp DEF Fail
  <2> QED
    BY <1>1, <2>1, CreateInv, AddInv, AcquireInv, AddPermissionInv, RemovePermissionInv,
       AssignInv, RevokeInv, DeleteInv DEF ProcessNext
<1>2. ASSUME NEW r \in Requests, NEW u \in Users, NEW c \in Calls,
             require_admin(r, u, c[1], c[2], c[3])
      PROVE  Inv'
  BY <1>2, RequireAdminInv
<1>3. ASSUME NEW b \in Replicas, seed_admin_role(b)
      PROVE  Inv'
  BY <1>3, SeedStepInv
<1>4. ASSUME NEW b \in Replicas, Restart(b)
      PROVE  Inv'
  BY <1>4, GiveUp DEF Restart, Processes
<1>5. CASE UNCHANGED vars
  <2>1. /\ name' = name /\ known' = known /\ grants' = grants /\ holders' = holders
        /\ pc' = pc /\ op' = op /\ role' = role /\ arg' = arg /\ copy' = copy
        /\ missing' = missing /\ used' = used /\ crossed' = crossed /\ stripped' = stripped
    BY <1>5 DEF vars, tables, process, history
  <2>2. TableInv' /\ ShapeInv' /\ CrossInv'
    BY <2>1 DEF Inv, TableInv, ShapeInv, CrossInv
  <2>3. \A p \in Processes : ProcessInv(p)'
    BY <2>1 DEF Inv, ProcessInv
  <2>4. \A b \in Replicas : SeedInv(b)'
    BY <2>1 DEF Inv, SeedInv
  <2> QED
    BY <2>2, <2>3, <2>4 DEF Inv
<1> QED
  BY <1>1, <1>2, <1>3, <1>4, <1>5 DEF Next

-----------------------------------------------------------------------------
(***************************************************************************)
(* The theorems.                                                           *)
(***************************************************************************)

\* The invariant holds from the empty tables on.
THEOREM Invariance == Spec => []Inv
<1>1. Init => Inv
  <2> SUFFICES ASSUME Init PROVE Inv
    OBVIOUS
  <2>1. TableInv /\ ShapeInv
    BY DEF Init, TableInv, ShapeInv, Places, Operations, Arguments
  <2>2. CrossInv /\ \A p \in Processes : ProcessInv(p)
    BY DEF Init, CrossInv, ProcessInv, Rewriting, Editing
  <2>3. \A b \in Replicas : SeedInv(b)
    BY DEF Init, SeedInv, Processes
  <2> QED
    BY <2>1, <2>2, <2>3 DEF Inv
<1>2. Inv /\ [Next]_vars => Inv'
  BY StepInv
<1> QED
  BY <1>1, <1>2, PTL DEF Spec

\* The shapes, the unique index on role names and the foreign keys hold,
\* however create_role, delete_role and the grants overlap.
THEOREM TypeCorrect == Spec => []TypeOK
<1>1. Inv => TypeOK
  <2> SUFFICES ASSUME Inv PROVE TypeOK
    OBVIOUS
  <2>. TableInv /\ ShapeInv
    BY DEF Inv
  <2>1. Live \subseteq used
    BY DEF Live, TableInv
  <2>2. \A x, y \in Live : name[x] = name[y] => x = y
    BY DEF Live, TableInv
  <2>3. \A x \in Roles \ Live : grants[x] = {} /\ holders[x] = {}
    BY DEF Live, TableInv
  <2> QED
    BY <2>1, <2>2, <2>3 DEF TypeOK, TableInv, ShapeInv, Places, Arguments
<1> QED
  BY <1>1, Invariance, PTL

\* A replica that is up has the admin role seed_admin_role promises, whatever
\* failed or overlapped between its three transactions.
THEOREM SeedingRepairs == Spec => []SeedRepairs
<1>1. Inv => SeedRepairs
  <2> SUFFICES ASSUME Inv, NEW b \in Replicas, pc[b] = "up"
               PROVE  \E x \in Live :
                         /\ name[x] = Admin /\ Initial \in holders[x]
                         /\ b \notin stripped => Admin \in grants[x]
    BY DEF SeedRepairs
  <2>1. PICK x \in used : /\ name[x] = Admin /\ Initial \in holders[x]
                          /\ b \notin stripped => Admin \in grants[x]
    BY DEF Inv, SeedInv
  <2>2. x \in Live
    BY <2>1, RbacAssumption DEF Inv, TableInv, Live
  <2> QED
    BY <2>1, <2>2
<1> QED
  BY <1>1, Invariance, PTL

\* No step takes the admin role or one of its holders away: delete_role and
\* revoke_role turned it away when they loaded it, and no other role can have
\* become the admin role since.
LEMMA AdminStep ==
    ASSUME Inv, [Next]_vars, NEW x \in Live, name[x] = Admin
    PROVE  name'[x] = Admin /\ holders[x] \subseteq holders'[x]
<1>1. TableInv /\ x \in Roles /\ x \in used
  BY RbacAssumption DEF Inv, TableInv, Live
<1>2. ASSUME UNCHANGED <<name, holders>>
      PROVE  name'[x] = Admin /\ holders[x] \subseteq holders'[x]
  BY <1>2
<1>3. ASSUME NEW p \in Processes, ProcessNext(p)
      PROVE  name'[x] = Admin /\ holders[x] \subseteq holders'[x]
  <2>1. CASE create(p) \/ acquire_by_id(p) \/ Fail(p)
    BY <1>2, <2>1 DEF create, acquire_by_id, Acquire, Fail, tables
  <2>2. CASE add_permission_to_role(p) \/ remove_permission_from_role(p)
    BY <1>2, <2>2 DEF add_permission_to_role, remove_permission_from_role, update
  <2>3. CASE add(p)
    BY <1>1, <2>3 DEF add, TableInv
  <2>4. CASE assign_role(p)
    BY <1>1, <2>4 DEF assign_role, user_role_add, TableInv
  <2>5. CASE revoke_role(p)
    <3>1. name[role[p]] # Admin
      BY <2>5 DEF revoke_role, Inv, ProcessInv
    <3> QED
      BY <1>1, <2>5, <3>1 DEF revoke_role, user_role_delete, TableInv
  <2>6. CASE delete_role(p)
    <3>1. name[role[p]] # Admin
      BY <2>6 DEF delete_role, Inv, ProcessInv
    <3> QED
      BY <1>1, <2>6, <3>1 DEF delete_role, TableInv
  <2> QED
    BY <1>3, <2>1, <2>2, <2>3, <2>4, <2>5, <2>6 DEF ProcessNext
<1>4. ASSUME NEW r \in Requests, NEW u \in Users, NEW c \in Calls,
             require_admin(r, u, c[1], c[2], c[3])
      PROVE  name'[x] = Admin /\ holders[x] \subseteq holders'[x]
  BY <1>2, <1>4 DEF require_admin, tables
<1>5. ASSUME NEW b \in Replicas, seed_admin_role(b) \/ Restart(b)
      PROVE  name'[x] = Admin /\ holders[x] \subseteq holders'[x]
  BY <1>2, <1>5 DEF seed_admin_role, Restart, tables
<1>6. CASE UNCHANGED vars
  BY <1>2, <1>6 DEF vars, tables
<1> QED
  BY <1>3, <1>4, <1>5, <1>6 DEF Next

\* "Cannot delete admin role", "Cannot revoke admin role from user": once
\* there, the admin role and its holders stay.
THEOREM AdminRoleIsKept == Spec => AdminIsKept
<1>1. Inv /\ [Next]_vars =>
        [\A x \in Live : name[x] = Admin =>
            name'[x] = Admin /\ holders[x] \subseteq holders'[x]]_vars
  BY AdminStep
<1> QED
  BY <1>1, Invariance, PTL DEF Spec, AdminIsKept

\* The write of an editing request that met no other changes one permission.
LEMMA SerialStep ==
    ASSUME Inv, [Next]_vars, NEW p \in Processes \ crossed, pc[p] = "write", pc'[p] # "write",
           op[p] \in Editing, NEW a \in Permissions \ {arg[p]}
    PROVE  a \in grants'[role[p]] <=> a \in grants[role[p]]
<1>1. TableInv /\ ShapeInv /\ ProcessInv(p)
  BY DEF Inv
<1>2. role[p] \in Roles /\ copy[p] = grants[role[p]]
  BY <1>1 DEF ProcessInv, TableInv
<1>3. ASSUME NEW q \in Processes \ {p}
      PROVE  \A w : pc' # [pc EXCEPT ![q] = w]
  BY <1>1 DEF ShapeInv
<1>4. ASSUME NEW q \in Processes, NEW x, Committed(q, x)
      PROVE  \E w : pc' = [pc EXCEPT ![q] = w]
  <2>1. CASE q \in Requests
    <3>1. q \notin Replicas
      BY <2>1, RbacAssumption
    <3>2. Leave(q, "idle")
      BY <1>4, <2>1, <3>1 DEF Committed
    <3> QED
      BY <3>2 DEF Leave
  <2>2. CASE q \in Replicas /\ q \notin Requests
    <3>1. op[q] \in {"create_role", "add_permission", "assign_role"}
      BY <2>2 DEF Inv, SeedInv
    <3>2. \/ Begin(q, "add_permission", x, Admin) \/ Begin(q, "assign_role", x, Initial)
          \/ Leave(q, "up")
      BY <1>4, <2>2, <3>1 DEF Committed
    <3> QED
      BY <3>2 DEF Begin, Leave
  <2> QED
    BY <2>1, <2>2 DEF Processes
<1>5. ASSUME NEW q \in Processes, ProcessNext(q)
      PROVE  a \in grants'[role[p]] <=> a \in grants[role[p]]
  <2>1. CASE add_permission_to_role(q)
    <3>1. q = p
      BY <1>3, <1>4, <2>1 DEF add_permission_to_role, update
    <3>2. grants' = [grants EXCEPT ![role[p]] = copy[p] \cup {arg[p]}]
      BY <2>1, <3>1 DEF add_permission_to_role, update, add_permission
    <3> QED
      BY <1>1, <1>2, <3>2 DEF TableInv
  <2>2. CASE remove_permission_from_role(q)
    <3>1. q = p
      BY <1>3, <1>4, <2>2 DEF remove_permission_from_role, update
    <3>2. grants' = [grants EXCEPT ![role[p]] = copy[p] \ {arg[p]}]
      BY <2>2, <3>1 DEF remove_permission_from_role, update, remove_permission
    <3> QED
      BY <1>1, <1>2, <3>2 DEF TableInv
  <2>3. CASE delete_role(q)
    <3>1. q = p
      BY <1>3, <1>4, <2>3 DEF delete_role
    <3> QED
      BY <2>3, <3>1 DEF delete_role, Editing
  <2>4. CASE create(q) \/ acquire_by_id(q) \/ Fail(q)
    BY <2>4 DEF create, acquire_by_id, Acquire, Fail, tables
  <2>5. CASE add(q) \/ assign_role(q) \/ revoke_role(q)
    BY <2>5 DEF add, assign_role, revoke_role
  <2> QED
    BY <1>5, <2>1, <2>2, <2>3, <2>4, <2>5 DEF ProcessNext
<1>6. ASSUME NEW r \in Requests, NEW u \in Users, NEW c \in Calls,
             require_admin(r, u, c[1], c[2], c[3])
      PROVE  a \in grants'[role[p]] <=> a \in grants[role[p]]
  BY <1>6 DEF require_admin, tables
<1>7. ASSUME NEW b \in Replicas, seed_admin_role(b) \/ Restart(b)
      PROVE  a \in grants'[role[p]] <=> a \in grants[role[p]]
  BY <1>7 DEF seed_admin_role, Restart, tables
<1>8. CASE UNCHANGED vars
  BY <1>8 DEF vars, tables
<1> QED
  BY <1>5, <1>6, <1>7, <1>8 DEF Next

\* An addition or a removal that met no other at work on the role's grants
\* changes the permission it is about and leaves the others as they were.
THEOREM GrantsAreSerial == Spec => SerialGrants
<1>1. Inv /\ [Next]_vars =>
        [\A p \in Processes \ crossed :
            pc[p] = "write" /\ pc'[p] # "write" /\ op[p] \in Editing
                => \A a \in Permissions \ {arg[p]} :
                      a \in grants'[role[p]] <=> a \in grants[role[p]]]_vars
  BY SerialStep
<1> QED
  BY <1>1, Invariance, PTL DEF Spec, SerialGrants
=============================================================================
