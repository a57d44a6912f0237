-------------------------------- MODULE Rbac --------------------------------
(***************************************************************************)
(* Roles, permissions and who holds them: the tables roles, permissions,   *)
(* role_permissions and user_roles and the operations of RolesService and  *)
(* PermissionsService that change them.                                    *)
(*                                                                         *)
(* A change is one action per awaited statement, but for the reads it      *)
(* starts with, which only decide whether it goes on (404, 409) and are    *)
(* one action.  What it found before an await is in change[a]: above all   *)
(* the users whose cached permissions it is going to drop, which the code  *)
(* lists before a delete and after the other changes.  The drop itself     *)
(* belongs to PermissionCache; here a change that has come to "invalidate" *)
(* ends.                                                                   *)
(*                                                                         *)
(* The name of a role and the descriptions are in nothing that follows and *)
(* are left out, so PATCH /roles/:id changes no state of this module.      *)
(***************************************************************************)
EXTENDS Naturals, FiniteSets

CONSTANTS
    Users,              \* users; user_roles may refer to any of them
    Roles, Permissions, \* ids; a serial id is never used again
    Names,              \* permission names
    InitialAssignments, \* user_roles and role_permissions at the start, the
    InitialGrants,      \* roles and permissions being those they mention
    InitialName,        \* and the names of those permissions
    Changes,            \* slots for changes in flight
    MayAbort,           \* may a change fail or die midway?
    NoRow, Idle

ASSUME RbacAssumption ==
    /\ InitialAssignments \subseteq Users \X Roles
    /\ InitialGrants \subseteq Roles \X Permissions
    /\ InitialName \in [Permissions -> Names]
    /\ \A g, h \in InitialGrants :  \* permissions.name is UNIQUE
          InitialName[g[2]] = InitialName[h[2]] => g[2] = h[2]
    /\ NoRow \notin Names
    /\ MayAbort \in BOOLEAN

VARIABLES
    roles,           \* ids of the rows of roles
    nameOf,          \* permissions.name by id, NoRow where there is no row
    userRoles,       \* user_roles, pairs <<user, role>>
    rolePermissions, \* role_permissions, pairs <<role, permission>>
    retired,         \* ids whose row was deleted
    change           \* the changes in flight

tableVars == <<roles, nameOf, userRoles, rolePermissions, retired>>
rbacVars == <<tableVars, change>>

-----------------------------------------------------------------------------
(***************************************************************************)
(* Queries.                                                                *)
(***************************************************************************)

PermissionRows == {p \in Permissions : nameOf[p] # NoRow}

\* findPermissionNamesByUserId joins the three tables.
PermissionNames(u) ==
    {nameOf[g[2]] : g \in {g \in rolePermissions : <<u, g[1]>> \in userRoles}}

\* listUsersForRole
Holders(r) == {u \in Users : <<u, r>> \in userRoles}

\* findUserIdsAffectedByPermission
AffectedBy(p) == UNION {Holders(g[1]) : g \in {g \in rolePermissions : g[2] = p}}

NameTaken(n, p) == \E q \in Permissions \ {p} : nameOf[q] = n

-----------------------------------------------------------------------------

RoleDelete == [kind: {"role.delete"}, pc: {"list", "write", "invalidate"},
               role: Roles, affected: SUBSET Users]
PermissionDelete == [kind: {"permission.delete"}, pc: {"list", "write", "invalidate"},
                     permission: Permissions, affected: SUBSET Users]
Sync == [kind: {"sync"}, pc: {"clear", "write", "list", "invalidate"}, role: Roles,
         wanted: SUBSET Permissions, cleared: SUBSET Permissions, affected: SUBSET Users]
Rename == [kind: {"rename"}, pc: {"write", "list", "invalidate"}, permission: Permissions,
           name: Names, renaming: BOOLEAN, affected: SUBSET Users]
Assignment == [kind: {"assign", "revoke"}, pc: {"write", "invalidate"}, role: Roles,
               user: Users, affected: SUBSET Users]

ASSUME EmptySlotAssumption ==
    Idle \notin RoleDelete \cup PermissionDelete \cup Sync \cup Rename \cup Assignment

RbacTypeOK ==
    /\ roles \subseteq Roles
    /\ nameOf \in [Permissions -> Names \cup {NoRow}]
    /\ userRoles \subseteq Users \X roles
    /\ rolePermissions \subseteq roles \X PermissionRows
    /\ \A n \in Names : \A p \in PermissionRows : nameOf[p] = n => ~NameTaken(n, p)
    /\ change \in [Changes -> {Idle} \cup RoleDelete \cup PermissionDelete
                                     \cup Sync \cup Rename \cup Assignment]

RbacInit ==
    /\ roles = {g[1] : g \in InitialGrants} \cup {m[2] : m \in InitialAssignments}
    /\ nameOf = [p \in Permissions |->
                    IF \E g \in InitialGrants : g[2] = p THEN InitialName[p] ELSE NoRow]
    /\ userRoles = InitialAssignments
    /\ rolePermissions = InitialGrants
    /\ retired = {}
    /\ change = [a \in Changes |-> Idle]

ChangeAt(a, kind, pc) == change[a] # Idle /\ change[a].kind = kind /\ change[a].pc = pc
Begin(a, c) == /\ change[a] = Idle
               /\ change' = [change EXCEPT ![a] = c]
               /\ UNCHANGED tableVars
Goto(a, pc) == change' = [change EXCEPT ![a].pc = pc]
Finish(a) == change' = [change EXCEPT ![a] = Idle]

-----------------------------------------------------------------------------
(***************************************************************************)
(* Creating a row that no user can yet hold.  A name in use is refused by  *)
(* findByName or, when two requests race, by the unique constraint.        *)
(***************************************************************************)

RoleCreate(r) ==
    /\ r \notin roles \cup retired
    /\ roles' = roles \cup {r}
    /\ UNCHANGED <<nameOf, userRoles, rolePermissions, retired, change>>

PermissionCreate(p, n) ==
    /\ nameOf[p] = NoRow /\ p \notin retired /\ ~NameTaken(n, p)
    /\ nameOf' = [nameOf EXCEPT ![p] = n]
    /\ UNCHANGED <<roles, userRoles, rolePermissions, retired, change>>

-----------------------------------------------------------------------------
(***************************************************************************)
(* RolesService.delete and PermissionsService.delete: find the row (404),  *)
(* list who is affected, delete with ON DELETE CASCADE, invalidate.        *)
(***************************************************************************)

RoleDeleteFindAndSkipList(a, r) ==
    /\ r \in roles
    /\ Begin(a, [kind |-> "role.delete", pc |-> "write", role |-> r, affected |-> {}])

RoleDeleteFind(a, r) ==
    /\ r \in roles
    /\ Begin(a, [kind |-> "role.delete", pc |-> "list", role |-> r, affected |-> {}])

RoleDeleteList(a) ==
    /\ ChangeAt(a, "role.delete", "list")
    /\ change' = [change EXCEPT ![a].affected = Holders(change[a].role), ![a].pc = "write"]
    /\ UNCHANGED tableVars

RoleDeleteWrite(a) ==
    /\ ChangeAt(a, "role.delete", "write")
    /\ LET r == change[a].role IN
          /\ roles' = roles \ {r}
          /\ retired' = retired \cup {r}
          /\ userRoles' = {m \in userRoles : m[2] # r}
          /\ rolePermissions' = {g \in rolePermissions : g[1] # r}
    /\ Goto(a, "invalidate")
    /\ UNCHANGED nameOf

PermissionDeleteFind(a, p) ==
    /\ p \in PermissionRows
    /\ Begin(a, [kind |-> "permission.delete", pc |-> "list", permission |-> p, affected |-> {}])

PermissionDeleteList(a) ==
    /\ ChangeAt(a, "permission.delete", "list")
    /\ change' = [change EXCEPT ![a].affected = AffectedBy(change[a].permission), ![a].pc = "write"]
    /\ UNCHANGED tableVars

PermissionDeleteWrite(a) ==
    /\ ChangeAt(a, "permission.delete", "write")
    /\ LET p == change[a].permission IN
          /\ nameOf' = [nameOf EXCEPT ![p] = NoRow]
          /\ retired' = retired \cup {p}
          /\ rolePermissions' = {g \in rolePermissions : g[2] # p}
    /\ Goto(a, "invalidate")
    /\ UNCHANGED <<roles, userRoles>>

-----------------------------------------------------------------------------
(***************************************************************************)
(* RolesService.syncPermissions: check the role and every permission, then *)
(* replace all in one READ COMMITTED transaction.  Its DELETE reaches the  *)
(* rows committed when that statement starts, `cleared'; rows that another *)
(* transaction commits between it and the INSERT stay.  A row that is there*)
(* already, or refers to nothing, fails the whole transaction.             *)
(***************************************************************************)

SyncFind(a, r, wanted) ==
    /\ r \in roles /\ wanted \subseteq PermissionRows
    /\ Begin(a, [kind |-> "sync", pc |-> "clear", role |-> r, wanted |-> wanted,
                 cleared |-> {}, affected |-> {}])

SyncClearNothing(a) ==
    /\ ChangeAt(a, "sync", "clear")
    /\ Goto(a, "write")
    /\ UNCHANGED tableVars

SyncClear(a) ==
    /\ ChangeAt(a, "sync", "clear")
    /\ change' = [change EXCEPT
          ![a].cleared = {p \in Permissions : <<change[a].role, p>> \in rolePermissions},
          ![a].pc = "write"]
    /\ UNCHANGED tableVars

\* Of two transactions that clear the same row the second to get its lock finds
\* it gone: it drops out of what that transaction deletes.
ClearedBy(a) ==
    [b \in Changes |->
        IF b # a /\ ChangeAt(b, "sync", "write") /\ change[b].role = change[a].role
        THEN [change[b] EXCEPT !.cleared = @ \ change[a].cleared]
        ELSE change[b]]

SyncWrite(a) ==
    /\ ChangeAt(a, "sync", "write")
    /\ LET r == change[a].role
           kept == {p \in Permissions : <<r, p>> \in rolePermissions} \ change[a].cleared
           insertable == \/ change[a].wanted = {}
                         \/ /\ r \in roles /\ change[a].wanted \subseteq PermissionRows
                            /\ change[a].wanted \cap kept = {}
       IN IF insertable
          THEN /\ rolePermissions' = {g \in rolePermissions : g[1] # r}
                                        \cup ({r} \X (kept \cup change[a].wanted))
               /\ change' = [ClearedBy(a) EXCEPT ![a].pc = "list"]
          ELSE Finish(a) /\ UNCHANGED rolePermissions
    /\ UNCHANGED <<roles, nameOf, userRoles, retired>>

SyncList(a) ==
    /\ ChangeAt(a, "sync", "list")
    /\ change' = [change EXCEPT ![a].affected = Holders(change[a].role), ![a].pc = "invalidate"]
    /\ UNCHANGED tableVars

-----------------------------------------------------------------------------
(***************************************************************************)
(* PermissionsService.update: whether this is a rename is decided from the *)
(* row as findByIdOrThrow saw it; only then are caches invalidated.        *)
(***************************************************************************)

RenameFind(a, p, n) ==
    /\ p \in PermissionRows /\ ~NameTaken(n, p)
    /\ Begin(a, [kind |-> "rename", pc |-> "write", permission |-> p, name |-> n,
                 renaming |-> nameOf[p] # n, affected |-> {}])

RenameWriteAndFinish(a) ==
    /\ ChangeAt(a, "rename", "write")
    /\ LET p == change[a].permission IN
          IF p \in PermissionRows /\ ~NameTaken(change[a].name, p)
          THEN nameOf' = [nameOf EXCEPT ![p] = change[a].name]
          ELSE UNCHANGED nameOf
    /\ Finish(a)
    /\ UNCHANGED <<roles, userRoles, rolePermissions, retired>>

\* The row may be gone (UPDATE changes nothing and the request goes on), or the
\* name taken (unique constraint: the request fails).
RenameWrite(a) ==
    /\ ChangeAt(a, "rename", "write")
    /\ LET p == change[a].permission
           refused == p \in PermissionRows /\ NameTaken(change[a].name, p)
       IN /\ IF p \in PermissionRows /\ ~refused
             THEN nameOf' = [nameOf EXCEPT ![p] = change[a].name]
             ELSE UNCHANGED nameOf
          /\ IF ~refused /\ change[a].renaming THEN Goto(a, "list") ELSE Finish(a)
    /\ UNCHANGED <<roles, userRoles, rolePermissions, retired>>

RenameList(a) ==
    /\ ChangeAt(a, "rename", "list")
    /\ change' = [change EXCEPT ![a].affected = AffectedBy(change[a].permission), ![a].pc = "invalidate"]
    /\ UNCHANGED tableVars

-----------------------------------------------------------------------------
(***************************************************************************)
(* RolesService.assignToUser and revokeFromUser.                           *)
(***************************************************************************)

AssignFind(a, r, u) ==
    /\ r \in roles /\ <<u, r>> \notin userRoles
    /\ Begin(a, [kind |-> "assign", pc |-> "write", role |-> r, user |-> u, affected |-> {u}])

\* The role may be gone (foreign key) or already assigned (unique): both fail.
AssignWrite(a) ==
    /\ ChangeAt(a, "assign", "write")
    /\ LET m == <<change[a].user, change[a].role>> IN
          IF change[a].role \in roles /\ m \notin userRoles
          THEN userRoles' = userRoles \cup {m} /\ Goto(a, "invalidate")
          ELSE Finish(a) /\ UNCHANGED userRoles
    /\ UNCHANGED <<roles, nameOf, rolePermissions, retired>>

RevokeFind(a, r, u) ==
    /\ r \in roles /\ <<u, r>> \in userRoles
    /\ Begin(a, [kind |-> "revoke", pc |-> "write", role |-> r, user |-> u, affected |-> {u}])

RevokeWrite(a) ==
    /\ ChangeAt(a, "revoke", "write")
    /\ userRoles' = userRoles \ {<<change[a].user, change[a].role>>}
    /\ Goto(a, "invalidate")
    /\ UNCHANGED <<roles, nameOf, rolePermissions, retired>>

-----------------------------------------------------------------------------

Invalidating(a) == change[a] # Idle /\ change[a].pc = "invalidate"

\* A statement fails, or the process dies: the rest of the change is lost.
ChangeAbort(a) ==
    /\ MayAbort /\ change[a] # Idle
    /\ Finish(a)
    /\ UNCHANGED tableVars

ChangeFind(a) ==
    \/ \E r \in Roles :
          \/ RoleDeleteFind(a, r)
          \/ \E wanted \in SUBSET Permissions : SyncFind(a, r, wanted)
          \/ \E u \in Users : AssignFind(a, r, u) \/ RevokeFind(a, r, u)
    \/ \E p \in Permissions :
          PermissionDeleteFind(a, p) \/ \E n \in Names : RenameFind(a, p, n)

ChangeStep(a) ==
    \/ RoleDeleteList(a) \/ RoleDeleteWrite(a)
    \/ PermissionDeleteList(a) \/ PermissionDeleteWrite(a)
    \/ SyncClear(a) \/ SyncWrite(a) \/ SyncList(a)
    \/ RenameWrite(a) \/ RenameList(a)
    \/ AssignWrite(a) \/ RevokeWrite(a)

\* Everything but the last step of a change, which PermissionCache takes.
RbacStep ==
    \/ \E r \in Roles : RoleCreate(r)
    \/ \E p \in Permissions, n \in Names : PermissionCreate(p, n)
    \/ \E a \in Changes : ChangeFind(a) \/ ChangeStep(a) \/ ChangeAbort(a)

RbacNext == RbacStep \/ \E a \in Changes : Invalidating(a) /\ Finish(a) /\ UNCHANGED tableVars

RbacSpec == RbacInit /\ [][RbacNext]_rbacVars

-----------------------------------------------------------------------------
(***************************************************************************)
(* Properties.                                                             *)
(***************************************************************************)

\* What role-permissions.repository.ts says of syncPermissions: it replaces the
\* whole list, so the transaction that commits leaves the role with the
\* permissions it was sent and no other.
SyncReplacesAll ==
    [][\A a \in Changes :
          ChangeAt(a, "sync", "write") /\ ChangeAt(a, "sync", "list")'
             => {p \in Permissions : <<change[a].role, p>> \in rolePermissions'} = change[a].wanted]_rbacVars

=============================================================================
