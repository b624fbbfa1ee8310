------------------------------- MODULE Rbac --------------------------------
(***************************************************************************)
(* Roles, the permissions granted to them and the users who hold them,     *)
(* rewritten by concurrent administrators and by the replicas that seed    *)
(* the admin role when they start.                                         *)
(*                                                                         *)
(* A request is one transaction of RBACService: it reads the role and its  *)
(* permissions, then writes and commits.  Write and commit are one step:   *)
(* UPDATE and DELETE of the role keep its row locked until the commit,     *)
(* inserts into the other tables hold a key-share lock on it, and a unique *)
(* index makes the second inserter wait for the first.                     *)
(* A name is looked up and inserted in two steps, which is where the       *)
(* unique index decides.  Permissions are never deleted.                   *)
(***************************************************************************)
EXTENDS Naturals

CONSTANTS
    Requests,    \* concurrent administrative requests
    Replicas,    \* processes that run seed_admin_role on start-up
    Roles,       \* role ids that uuid4 may return
    Names,       \* role names
    Permissions, \* permission names
    Users,       \* user ids with a row
    Admin,       \* DEFAULT_ROLE_ADMIN and ADMIN_PERMISSION, both 'admin'
    Initial,     \* the user INITIAL_ADMIN_USER_ID names
    None         \* no role, no argument

ASSUME RbacAssumption ==
    /\ Requests \cap Replicas = {}
    /\ Admin \in Names \cap Permissions /\ Initial \in Users
    /\ None \notin Names \cup Permissions \cup Roles \cup Users

Processes == Requests \cup Replicas

Operations == {"create_role", "delete_role", "assign_role", "revoke_role",
               "add_permission", "remove_permission"}

\* The operations that write the permissions of a role back, and the ones
\* that change its grants at all.
Editing   == {"add_permission", "remove_permission"}
Rewriting == Editing \cup {"delete_role"}

VARIABLES
    name,      \* roles: the name of each row, None without a row
    known,     \* permissions: the names with a row
    grants,    \* role_permissions: per role
    holders,   \* user_roles: per role
    pc,        \* per process: where it stands
    op,        \* per process: the operation it performs
    role,      \* per process: the role it performs it on
    arg,       \* per process: its name, permission or user
    copy,      \* per process: the permissions it loaded with the role
    missing,   \* processes that found no row for the name they looked up
    used,      \* role ids handed out
    crossed,   \* processes that met another at work on the grants of their role
    stripped   \* replicas since whose start a request has removed Admin

tables  == <<name, known, grants, holders>>
process == <<op, role, arg, copy, missing>>
history == <<used, crossed, stripped>>
vars    == <<tables, pc, process, history>>

Init ==
    /\ name = [x \in Roles |-> None]
    /\ known = {} /\ used = {} /\ crossed = {} /\ stripped = {} /\ missing = {}
    /\ grants = [x \in Roles |-> {}]
    /\ holders = [x \in Roles |-> {}]
    /\ pc = [p \in Processes |-> "idle"]
    /\ op = [p \in Processes |-> "create_role"]
    /\ role = [p \in Processes |-> None]
    /\ arg = [p \in Processes |-> None]
    /\ copy = [p \in Processes |-> {}]

-----------------------------------------------------------------------------
(***************************************************************************)
(* The tables, and the aggregate's methods.                                *)
(***************************************************************************)

\* The rows get_all returns.
Live == {x \in Roles : name[x] # None}

\* The role of a given name, None if it has no row.
acquire_by_name(n) ==
    IF \E x \in Live : name[x] = n THEN CHOOSE x \in Live : name[x] = n ELSE None

\* CheckPermissionUseCase: one query over the roles the user holds.
check_permission(u, permission) ==
    \E x \in Live : u \in holders[x] /\ permission \in grants[x]

add_permission(permissions, permission) == permissions \cup {permission}

remove_permission(permissions, permission) == permissions \ {permission}

-----------------------------------------------------------------------------
(***************************************************************************)
(* Beginning and ending an operation.                                      *)
(***************************************************************************)

\* p goes to work on a role.  Others may be rewriting its grants.
Begin(p, o, x, a) ==
    LET others == {q \in Processes \ {p} : role[q] = x /\ op[q] \in Rewriting} IN
    /\ pc' = [pc EXCEPT ![p] = IF o = "create_role" THEN "create" ELSE "find"]
    /\ op' = [op EXCEPT ![p] = o]
    /\ role' = [role EXCEPT ![p] = x]
    /\ arg' = [arg EXCEPT ![p] = a]
    /\ copy' = [copy EXCEPT ![p] = {}]
    /\ missing' = missing \ {p}
    /\ crossed' = IF o \in Rewriting /\ others # {}
                  THEN crossed \cup others \cup {p} ELSE crossed \ {p}

\* p no longer works on anything; a replica that has done everything is up.
Leave(p, where) ==
    /\ pc' = [pc EXCEPT ![p] = where]
    /\ op' = [op EXCEPT ![p] = "create_role"]
    /\ role' = [role EXCEPT ![p] = None]
    /\ arg' = [arg EXCEPT ![p] = None]
    /\ copy' = [copy EXCEPT ![p] = {}]
    /\ missing' = missing \ {p}
    /\ crossed' = crossed \ {p}

\* A request is over after its commit.  seed_admin_role goes on: the role it
\* created, x, needs its permission, and then its first holder.
Committed(p, x) ==
    CASE p \in Requests -> Leave(p, "idle")
      [] p \in Replicas /\ op[p] = "create_role" -> Begin(p, "add_permission", x, Admin)
      [] p \in Replicas /\ op[p] = "add_permission" -> Begin(p, "assign_role", x, Initial)
      [] p \in Replicas /\ op[p] = "assign_role" -> Leave(p, "up")

\* An error response, a unique or foreign key violation, a lost connection:
\* nothing was written.  A replica whose start-up hook raises is down.
Fail(p) ==
    /\ pc[p] \notin {"idle", "up"}
    /\ Leave(p, "idle")
    /\ UNCHANGED <<tables, used, stripped>>

\* require_admin lets the caller's request through to one of the handlers.
require_admin(r, u, o, x, a) ==
    /\ pc[r] = "idle"
    /\ check_permission(u, Admin)
    /\ Begin(r, o, x, a)
    /\ UNCHANGED <<tables, used, stripped>>

\* Mutant: start-up takes a role it finds to be complete.
SeedOnlyNew(b) ==
    LET x == acquire_by_name(Admin) IN
    /\ pc[b] = "idle"
    /\ IF x = None THEN Begin(b, "create_role", None, Admin)
                   ELSE Begin(b, "assign_role", x, Initial)
    /\ stripped' = stripped \ {b}
    /\ UNCHANGED <<tables, used>>

\* seed_admin_role lists the roles and decides where to start.
seed_admin_role(b) ==
    LET x == acquire_by_name(Admin) IN
    /\ pc[b] = "idle"
    /\ CASE x = None -> Begin(b, "create_role", None, Admin)
         [] x # None /\ Admin \notin grants[x] -> Begin(b, "add_permission", x, Admin)
         [] x # None /\ Admin \in grants[x] -> Begin(b, "assign_role", x, Initial)
    /\ stripped' = stripped \ {b}
    /\ UNCHANGED <<tables, used>>

\* A replica stops, and will seed again when it starts.
Restart(b) ==
    /\ pc[b] = "up"
    /\ Leave(b, "idle")
    /\ UNCHANGED <<tables, used, stripped>>

-----------------------------------------------------------------------------
(***************************************************************************)
(* create_role.                                                            *)
(***************************************************************************)

\* No role has the name yet; the aggregate gets its id.
create(p) ==
    /\ pc[p] = "create" /\ acquire_by_name(arg[p]) = None
    /\ pc' = [pc EXCEPT ![p] = "add"]
    /\ UNCHANGED <<tables, process, history>>

\* The INSERT, which the unique index on the name may refuse.
add(p) ==
    /\ pc[p] = "add" /\ acquire_by_name(arg[p]) = None
    /\ \E x \in Roles \ used :
          /\ name' = [name EXCEPT ![x] = arg[p]]
          /\ used' = used \cup {x}
          /\ Committed(p, x)
    /\ UNCHANGED <<known, grants, holders, stripped>>

-----------------------------------------------------------------------------
(***************************************************************************)
(* The operations on a role that exists.                                   *)
(***************************************************************************)

\* SQLAlchemyPermissionRepo.acquire_by_name and SQLAlchemyUserRoleRepo's
\* look-up: is there a row?
acquire_permission(n) == n \in known
acquire_by_user_and_role(u, x) == u \in holders[x]

\* The look-up that add_permission_to_role or assign_role makes finds no row.
Lacking(p) ==
    \/ op[p] = "add_permission" /\ ~acquire_permission(arg[p])
    \/ op[p] = "assign_role" /\ ~acquire_by_user_and_role(arg[p], role[p])

\* What every operation but creation starts with; loaded is the copy it takes.
Acquire(p, loaded) ==
    /\ pc[p] = "find" /\ role[p] \in Live
    /\ copy' = [copy EXCEPT ![p] = IF op[p] \in Editing THEN loaded ELSE {}]
    /\ missing' = IF Lacking(p) THEN missing \cup {p} ELSE missing
    /\ pc' = [pc EXCEPT ![p] = "write"]
    /\ UNCHANGED <<tables, op, role, arg, history>>

\* The admin role is neither deleted nor revoked.
Protected(p) == name[role[p]] = Admin /\ op[p] \in {"delete_role", "revoke_role"}

\* Mutant: the role is loaded without its permissions.
AcquireBare(p) == Acquire(p, {}) /\ ~Protected(p)

\* Mutant: no protection of the admin role.
AcquireAny(p) == Acquire(p, grants[role[p]])

\* The role's row and its permissions, which only the editing operations use;
\* add_permission_to_role then looks the permission up, assign_role the
\* assignment.  (A deletion between these statements leaves the copy without
\* permissions: the write then violates the foreign key or changes nothing,
\* as it does when the deletion comes after them.)
acquire_by_id(p) == Acquire(p, grants[role[p]]) /\ ~Protected(p)

\* Mutant: no foreign key on the role.
Unchecked(x, rows) == TRUE

\* The foreign keys: a grant or an assignment needs the role's row.
References(x, rows) == rows # {} => x \in Live

\* SQLAlchemyRoleRepo.update makes the rows equal to the permissions of the
\* aggregate; it meets no row at all if the role has been deleted.
update(p, permissions) ==
    /\ References(role[p], permissions)
    /\ grants' = [grants EXCEPT ![role[p]] = permissions]
    /\ stripped' = IF name[role[p]] = Admin /\ Admin \notin permissions
                   THEN Replicas ELSE stripped
    /\ Committed(p, role[p])
    /\ UNCHANGED <<name, holders, used>>

\* SQLAlchemyPermissionRepo.add: of two requests that both found no row, the
\* unique index refuses the later.
permission_add(n) ==
    /\ n \notin known
    /\ known' = known \cup {n}

\* SQLAlchemyUserRoleRepo.add, which the foreign key or the primary key may
\* refuse, and delete, which may meet no row.
user_role_add(u, x) ==
    /\ u \notin holders[x] /\ References(x, {u})
    /\ holders' = [holders EXCEPT ![x] = @ \cup {u}]

user_role_delete(u, x) == holders' = [holders EXCEPT ![x] = @ \ {u}]

\* A permission without a row is inserted first.
add_permission_to_role(p) ==
    /\ pc[p] = "write" /\ op[p] = "add_permission"
    /\ IF p \in missing THEN permission_add(arg[p]) ELSE UNCHANGED known
    /\ update(p, add_permission(copy[p], arg[p]))

remove_permission_from_role(p) ==
    /\ pc[p] = "write" /\ op[p] = "remove_permission"
    /\ update(p, remove_permission(copy[p], arg[p]))
    /\ UNCHANGED known

\* An assignment that was there is left alone; one that was not is inserted.
assign_role(p) ==
    /\ pc[p] = "write" /\ op[p] = "assign_role"
    /\ IF p \in missing THEN user_role_add(arg[p], role[p]) ELSE UNCHANGED holders
    /\ Committed(p, role[p])
    /\ UNCHANGED <<name, known, grants, used, stripped>>

revoke_role(p) ==
    /\ pc[p] = "write" /\ op[p] = "revoke_role"
    /\ user_role_delete(arg[p], role[p])
    /\ Committed(p, role[p])
    /\ UNCHANGED <<name, known, grants, used, stripped>>

\* The grants, the assignments and the role, in this order; the cascade takes
\* what was inserted in between.
delete_role(p) ==
    /\ pc[p] = "write" /\ op[p] = "delete_role"
    /\ grants' = [grants EXCEPT ![role[p]] = {}]
    /\ holders' = [holders EXCEPT ![role[p]] = {}]
    /\ name' = [name EXCEPT ![role[p]] = None]
    /\ Committed(p, role[p])
    /\ UNCHANGED <<known, used, stripped>>

-----------------------------------------------------------------------------

\* What a handler is called with.
Calls ==
    {<<"create_role", None, n>> : n \in Names}
        \cup {<<"delete_role", x, None>> : x \in used}
        \cup {<<o, x, a>> : o \in {"assign_role", "revoke_role"}, x \in used, a \in Users}
        \cup {<<o, x, a>> : o \in {"add_permission", "remove_permission"},
                            x \in used, a \in Permissions}

ProcessNext(p) ==
    \/ create(p) \/ add(p)
    \/ acquire_by_id(p)
    \/ add_permission_to_role(p) \/ remove_permission_from_role(p)
    \/ assign_role(p) \/ revoke_role(p) \/ delete_role(p)
    \/ Fail(p)

Next ==
    \/ \E p \in Processes : ProcessNext(p)
    \/ \E r \in Requests, u \in Users, c \in Calls : require_admin(r, u, c[1], c[2], c[3])
    \/ \E b \in Replicas : seed_admin_role(b) \/ Restart(b)

Spec == Init /\ [][Next]_vars

-----------------------------------------------------------------------------
(***************************************************************************)
(* Properties.                                                             *)
(***************************************************************************)

\* The variables have the shapes of the tables and of the requests, and the
\* indexes hold however requests overlap: a name belongs to one role, though
\* the look-up in create_role races, and nothing refers to a role that is
\* gone, though a deletion may overtake a grant that had found it.
TypeOK ==
    /\ name \in [Roles -> Names \cup {None}]
    /\ known \subseteq Permissions
    /\ grants \in [Roles -> SUBSET known]
    /\ holders \in [Roles -> SUBSET Users]
    /\ pc \in [Processes -> {"idle", "create", "add", "find", "write", "up"}]
    /\ op \in [Processes -> Operations]
    /\ role \in [Processes -> used \cup {None}]
    /\ arg \in [Processes -> Names \cup Permissions \cup Users \cup {None}]
    /\ copy \in [Processes -> SUBSET known]
    /\ missing \subseteq Processes
    /\ used \subseteq Roles /\ Live \subseteq used
    /\ crossed \subseteq Processes /\ stripped \subseteq Replicas
    /\ \A x, y \in Live : name[x] = name[y] => x = y
    /\ \A x \in Roles \ Live : grants[x] = {} /\ holders[x] = {}

\* An addition or removal that met no other at work on the role's grants
\* changes the one permission it is about, and no other.
SerialGrants ==
    [][\A p \in Processes \ crossed :
          pc[p] = "write" /\ pc'[p] # "write" /\ op[p] \in Editing
              => \A a \in Permissions \ {arg[p]} :
                    a \in grants'[role[p]] <=> a \in grants[role[p]]]_vars

\* "Cannot delete admin role", "Cannot revoke admin role from user": whatever
\* overlaps, the admin role stays and so does everyone who holds it.
AdminIsKept ==
    [][\A x \in Live : name[x] = Admin =>
          name'[x] = Admin /\ holders[x] \subseteq holders'[x]]_vars

\* Whatever fails or overlaps between the three transactions of the start-up
\* hook, a replica that is up has an admin role with its first holder, and
\* the permission too unless a request has removed it since.
SeedRepairs ==
    \A b \in Replicas : pc[b] = "up" =>
        \E x \in Live :
            /\ name[x] = Admin /\ Initial \in holders[x]
            /\ b \notin stripped => Admin \in grants[x]
=============================================================================
