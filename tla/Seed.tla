--------------------------------- MODULE Seed ---------------------------------
(***************************************************************************)
(* npm run db:seed (seed.ts) beside the running application.  The script   *)
(* inserts the baseline permissions and the role superadmin where they are *)
(* missing, grants the role every permission there is, and gives it to the *)
(* user of SEED_ADMIN_EMAIL.  It is a process of its own that works row by *)
(* row without a transaction, any statement may be its last, and it drops  *)
(* nothing from the permission cache.                                      *)
(*                                                                         *)
(* Of the names of roles this module keeps which role, if any, is called   *)
(* superadmin, so here PATCH /roles/:id does change something.             *)
(*                                                                         *)
(* SeedPermissionAgain and SeedListUnlessGranted are slips and belong to   *)
(* no action.                                                              *)
(***************************************************************************)
EXTENDS PermissionCache, Sequences

CONSTANTS
    Seeders,           \* runs of the script that may overlap
    Baseline,          \* BASELINE_PERMISSIONS, a sequence of names
    SeedAdmin,         \* the user of SEED_ADMIN_EMAIL, NoRow if unset or unknown
    InitialSuperadmin

ASSUME SeedAssumption ==
    /\ Baseline \in Seq(Names) /\ Baseline # <<>>
    /\ SeedAdmin \in Users \cup {NoRow}
    /\ NoRow \notin Roles
    \* one of the roles there are at the start
    /\ InitialSuperadmin \in {g[1] : g \in InitialGrants} \cup {m[2] : m \in InitialAssignments}
                                \cup {NoRow}

VARIABLES
    superadmin, \* the row of roles with that name, NoRow if there is none
    seeding     \* the runs of the script

seedVars == <<vars, superadmin, seeding>>

SeedRun == [pc: {"permissions", "role", "find", "list", "grant", "user", "assign", "exit"},
            next: 1..Len(Baseline), role: Roles \cup {NoRow},
            granting: SUBSET Permissions, \* of allPermissions, those still to grant
            undisturbed: BOOLEAN] \* (h) no request has changed or removed a row meanwhile

SeedTypeOK ==
    /\ TypeOK
    /\ superadmin \in roles \cup {NoRow}
    /\ seeding \in [Seeders -> {Idle} \cup SeedRun]

SeedInit ==
    /\ Init
    /\ superadmin = InitialSuperadmin
    /\ seeding = [s \in Seeders |-> Idle]

SeedAt(s, pc) == seeding[s] # Idle /\ seeding[s].pc = pc
SeedGoto(s, pc) == seeding' = [seeding EXCEPT ![s].pc = pc]

\* An error ends the process, with whatever it has written so far in place.
SeedFail(s) == seeding' = [seeding EXCEPT ![s] = Idle]

-----------------------------------------------------------------------------
(***************************************************************************)
(* The script.                                                             *)
(***************************************************************************)

SeedStart(s) ==
    /\ seeding[s] = Idle
    /\ seeding' = [seeding EXCEPT ![s] =
          [pc |-> "permissions", next |-> 1, role |-> NoRow, granting |-> {},
           undisturbed |-> \A a \in Changes : change[a] = Idle]]
    /\ UNCHANGED <<vars, superadmin>>

SeedPermissionAgain(s) ==
    /\ SeedAt(s, "permissions")
    /\ \E p \in Permissions \ (PermissionRows \cup retired) :
          nameOf' = [nameOf EXCEPT ![p] = Baseline[seeding[s].next]]
    /\ IF seeding[s].next < Len(Baseline)
       THEN seeding' = [seeding EXCEPT ![s].next = @ + 1]
       ELSE SeedGoto(s, "role")
    /\ UNCHANGED <<roles, userRoles, rolePermissions, retired, change, cacheVars, superadmin>>

\* One INSERT ... ON CONFLICT DO NOTHING for each name of the list.
SeedPermission(s) ==
    /\ SeedAt(s, "permissions")
    /\ LET name == Baseline[seeding[s].next] IN
          \/ /\ \E p \in PermissionRows : nameOf[p] = name
             /\ UNCHANGED nameOf
          \/ /\ \A p \in PermissionRows : nameOf[p] # name
             /\ \E p \in Permissions \ (PermissionRows \cup retired) :
                   nameOf' = [nameOf EXCEPT ![p] = name]
    /\ IF seeding[s].next < Len(Baseline)
       THEN seeding' = [seeding EXCEPT ![s].next = @ + 1]
       ELSE SeedGoto(s, "role")
    /\ UNCHANGED <<roles, userRoles, rolePermissions, retired, change, cacheVars, superadmin>>

SeedRole(s) ==
    /\ SeedAt(s, "role")
    /\ \/ superadmin # NoRow /\ UNCHANGED <<roles, superadmin>>
       \/ /\ superadmin = NoRow
          /\ \E r \in Roles \ (roles \cup retired) : roles' = roles \cup {r} /\ superadmin' = r
    /\ SeedGoto(s, "find")
    /\ UNCHANGED <<nameOf, userRoles, rolePermissions, retired, change, cacheVars>>

SeedFind(s) ==
    /\ SeedAt(s, "find")
    /\ IF superadmin = NoRow
       THEN SeedFail(s)
       ELSE seeding' = [seeding EXCEPT ![s].role = superadmin, ![s].pc = "list"]
    /\ UNCHANGED <<vars, superadmin>>

SeedListUnlessGranted(s) ==
    /\ SeedAt(s, "list")
    /\ seeding' = [seeding EXCEPT
          ![s].granting = PermissionRows,
          ![s].pc = IF PermissionRows = {} \/ \E g \in rolePermissions : g[1] = seeding[s].role
                    THEN "user" ELSE "grant"]
    /\ UNCHANGED <<vars, superadmin>>

SeedList(s) ==
    /\ SeedAt(s, "list")
    /\ seeding' = [seeding EXCEPT ![s].granting = PermissionRows,
                                  ![s].pc = IF PermissionRows = {} THEN "user" ELSE "grant"]
    /\ UNCHANGED <<vars, superadmin>>

\* ON CONFLICT DO NOTHING again; a role or permission deleted meanwhile breaks
\* the foreign key.
SeedGrant(s) ==
    /\ SeedAt(s, "grant")
    /\ \E p \in seeding[s].granting :
          IF seeding[s].role \in roles /\ p \in PermissionRows
          THEN /\ rolePermissions' = rolePermissions \cup {<<seeding[s].role, p>>}
               /\ seeding' = [seeding EXCEPT
                     ![s].granting = @ \ {p},
                     ![s].pc = IF seeding[s].granting = {p} THEN "user" ELSE "grant"]
          ELSE SeedFail(s) /\ UNCHANGED rolePermissions
    /\ UNCHANGED <<roles, nameOf, userRoles, retired, change, cacheVars, superadmin>>

\* The user by e-mail, then existingAssignment; rows of users do not go away.
SeedUser(s) ==
    /\ SeedAt(s, "user")
    /\ SeedGoto(s, IF SeedAdmin = NoRow \/ <<SeedAdmin, seeding[s].role>> \in userRoles
                   THEN "exit" ELSE "assign")
    /\ UNCHANGED <<vars, superadmin>>

\* A plain INSERT: it fails when the role is gone or another run was first.
SeedAssign(s) ==
    /\ SeedAt(s, "assign")
    /\ LET m == <<SeedAdmin, seeding[s].role>> IN
          IF seeding[s].role \in roles /\ m \notin userRoles
          THEN userRoles' = userRoles \cup {m} /\ SeedGoto(s, "exit")
          ELSE SeedFail(s) /\ UNCHANGED userRoles
    /\ UNCHANGED <<roles, nameOf, rolePermissions, retired, change, cacheVars, superadmin>>

SeedExit(s) ==
    /\ SeedAt(s, "exit")
    /\ seeding' = [seeding EXCEPT ![s] = Idle]
    /\ UNCHANGED <<vars, superadmin>>

SeedAbort(s) ==
    /\ MayAbort /\ seeding[s] # Idle
    /\ SeedFail(s)
    /\ UNCHANGED <<vars, superadmin>>

SeedStep(s) ==
    \/ SeedStart(s)
    \/ SeedPermission(s) \/ SeedRole(s) \/ SeedFind(s) \/ SeedList(s) \/ SeedGrant(s)
    \/ SeedUser(s) \/ SeedAssign(s)
    \/ SeedExit(s) \/ SeedAbort(s)

-----------------------------------------------------------------------------
(***************************************************************************)
(* The application beside it.                                              *)
(***************************************************************************)

Disturbed == [s \in Seeders |->
                IF seeding[s] = Idle THEN Idle ELSE [seeding[s] EXCEPT !.undisturbed = FALSE]]

\* A role that is deleted takes the name along; a new one may get it if it is free.
TablesChange ==
    /\ RbacStep
    /\ \/ superadmin' = IF superadmin \in roles' THEN superadmin ELSE NoRow
       \/ superadmin = NoRow /\ superadmin' \in roles' \ roles
    /\ IF change' = change THEN UNCHANGED seeding ELSE seeding' = Disturbed
    /\ UNCHANGED cacheVars

\* RolesService.update with a name: 404 without the row, 409 or the unique
\* constraint when the name is another role's.
RoleRename(r) ==
    /\ r \in roles
    /\ \/ superadmin = r /\ superadmin' = NoRow
       \/ superadmin = NoRow /\ superadmin' = r
    /\ seeding' = Disturbed
    /\ UNCHANGED vars

CacheStep ==
    \/ \E a \in Changes : Invalidate(a)
    \/ \E q \in Readers : (\E u \in Users : CacheMiss(q, u)) \/ ReaderStep(q) \/ ReaderAbort(q)
    \/ \E u \in Users : CacheExpire(u)

SeedNext ==
    \/ \E s \in Seeders : SeedStep(s)
    \/ TablesChange
    \/ \E r \in Roles : RoleRename(r)
    \/ CacheStep /\ UNCHANGED <<superadmin, seeding>>

SeedSpec == SeedInit /\ [][SeedNext]_seedVars /\ CacheFairness

-----------------------------------------------------------------------------
(***************************************************************************)
(* Properties (StalenessEnds of PermissionCache is checked here too).      *)
(***************************************************************************)

\* A run that gets to its end has made the administrator a superadmin with the
\* whole baseline, whatever earlier runs had done when they died and whatever
\* requests that create rows do beside it.  Only requests that change or remove
\* rows meanwhile can keep it from that.
SeedCompletes ==
    \A s \in Seeders :
        SeedAt(s, "exit") /\ seeding[s].undisturbed =>
            /\ superadmin = seeding[s].role
            /\ \A i \in DOMAIN Baseline :
                  \E p \in PermissionRows : nameOf[p] = Baseline[i] /\ <<superadmin, p>> \in rolePermissions
            /\ SeedAdmin # NoRow => <<SeedAdmin, superadmin>> \in userRoles

=============================================================================
