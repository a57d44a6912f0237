---------------------------- MODULE GrantsProofs ----------------------------
(***************************************************************************)
(* Proofs about who is granted what: the role tables and their changes     *)
(* (Rbac), the cached permissions (PermissionCache), the guards (Guards)   *)
(* and the seed script (Seed), for any users, roles, permissions and       *)
(* names.                                                                  *)
(***************************************************************************)
EXTENDS Guards, Seed, SequenceTheorems, TLAPS

-----------------------------------------------------------------------------
(***************************************************************************)
(* The tables: foreign keys, unique names, and what a change keeps.        *)
(***************************************************************************)

\* A change in flight is a record of its kind.
LEMMA ChangeOfItsKind ==
    ASSUME RbacTypeOK, NEW a \in Changes, change[a] # Idle
    PROVE  /\ change[a].kind = "role.delete" => change[a] \in RoleDelete
           /\ change[a].kind = "permission.delete" => change[a] \in PermissionDelete
           /\ change[a].kind = "sync" => change[a] \in Sync
           /\ change[a].kind = "rename" => change[a] \in Rename
           /\ change[a].kind \in {"assign", "revoke"} => change[a] \in Assignment
BY DEF RbacTypeOK, RoleDelete, PermissionDelete, Sync, Rename, Assignment

\* Users listed for a role or a permission are users.
LEMMA ListedAreUsers ==
    /\ \A r : Holders(r) \subseteq Users
    /\ \A p : AffectedBy(p) \subseteq Users
BY DEF Holders, AffectedBy

\* The conjuncts of RbacTypeOK about the tables.
TablesOK ==
    /\ roles \subseteq Roles
    /\ nameOf \in [Permissions -> Names \cup {NoRow}]
    /\ userRoles \subseteq Users \X roles
    /\ rolePermissions \subseteq roles \X PermissionRows
    /\ \A n \in Names : \A p \in PermissionRows : nameOf[p] = n => ~NameTaken(n, p)

\* The states of a slot for changes.
ChangeStates ==
    {Idle} \cup RoleDelete \cup PermissionDelete \cup Sync \cup Rename \cup Assignment

\* RbacTypeOK is the two together, before a step and after it.
LEMMA RbacTypeParts ==
    /\ RbacTypeOK <=> TablesOK /\ change \in [Changes -> ChangeStates]
    /\ RbacTypeOK' <=> TablesOK' /\ change' \in [Changes -> ChangeStates]
BY DEF RbacTypeOK, TablesOK, ChangeStates

\* Replacing the record of one change.
LEMMA ChangeReplaced ==
    ASSUME RbacTypeOK, NEW a \in Changes, NEW c \in ChangeStates, change' = [change EXCEPT ![a] = c]
    PROVE  change' \in [Changes -> ChangeStates]
BY RbacTypeParts

\* The tables keep their keys when they are left alone.
LEMMA TablesRest ==
    ASSUME TablesOK, UNCHANGED tableVars
    PROVE  TablesOK'
BY DEF TablesOK, tableVars, PermissionRows, NameTaken

\* A role is added.
LEMMA TablesRoleAdded ==
    ASSUME TablesOK, NEW r \in Roles, roles' = roles \cup {r},
           UNCHANGED <<nameOf, userRoles, rolePermissions>>
    PROVE  TablesOK'
BY DEF TablesOK, PermissionRows, NameTaken

\* A permission gets a name that is free, whether it had another one or none.
LEMMA TablesNamed ==
    ASSUME TablesOK, NEW p \in Permissions, NEW n \in Names, ~NameTaken(n, p),
           nameOf' = [nameOf EXCEPT ![p] = n],
           UNCHANGED <<roles, userRoles, rolePermissions>>
    PROVE  TablesOK'
<1>1. PermissionRows' = PermissionRows \cup {p}
  BY RbacAssumption DEF TablesOK, PermissionRows
<1>2. \A q \in Permissions : nameOf'[q] = IF q = p THEN n ELSE nameOf[q]
  BY DEF TablesOK
<1>3. ASSUME NEW m \in Names, NEW q \in PermissionRows', nameOf'[q] = m
      PROVE  ~NameTaken(m, q)'
  <2> SUFFICES ASSUME NEW o \in Permissions \ {q}, nameOf'[o] = m
               PROVE  FALSE
    BY DEF NameTaken
  <2>1. q \in Permissions
    BY DEF PermissionRows
  <2>2. CASE q = p
    BY <1>2, <1>3, <2>1, <2>2 DEF NameTaken
  <2>3. CASE o = p
    BY <1>2, <1>3, <2>1, <2>3 DEF NameTaken
  <2>4. CASE q # p /\ o # p
    <3>1. q \in PermissionRows /\ nameOf[q] = m /\ nameOf[o] = m
      BY <1>1, <1>2, <1>3, <2>1, <2>4
    <3>2. QED
      BY <3>1 DEF TablesOK, NameTaken
  <2>5. QED
    BY <2>2, <2>3, <2>4
<1>4. QED
  BY <1>1, <1>3 DEF TablesOK

\* Rows of role_permissions are added for a role and permissions that are there.
LEMMA TablesGranted ==
    ASSUME TablesOK, NEW r \in roles, NEW P \in SUBSET PermissionRows,
           NEW kept \in SUBSET rolePermissions,
           rolePermissions' = kept \cup ({r} \X P),
           UNCHANGED <<roles, nameOf, userRoles>>
    PROVE  TablesOK'
BY DEF TablesOK, PermissionRows, NameTaken

\* A user gets a role that is there.
LEMMA TablesAssigned ==
    ASSUME TablesOK, NEW u \in Users, NEW r \in roles, userRoles' = userRoles \cup {<<u, r>>},
           UNCHANGED <<roles, nameOf, rolePermissions>>
    PROVE  TablesOK'
BY DEF TablesOK, PermissionRows, NameTaken

\* Assignments are removed.
LEMMA TablesUnassigned ==
    ASSUME TablesOK, userRoles' \subseteq userRoles,
           UNCHANGED <<roles, nameOf, rolePermissions>>
    PROVE  TablesOK'
BY DEF TablesOK, PermissionRows, NameTaken

\* A role is deleted with everything that refers to it.
LEMMA TablesRoleGone ==
    ASSUME TablesOK, NEW r, roles' = roles \ {r},
           userRoles' = {m \in userRoles : m[2] # r},
           rolePermissions' = {g \in rolePermissions : g[1] # r},
           UNCHANGED nameOf
    PROVE  TablesOK'
<1>1. userRoles' \subseteq Users \X roles'
  BY DEF TablesOK
<1>2. rolePermissions' \subseteq roles' \X PermissionRows
  BY DEF TablesOK
<1>3. QED
  BY <1>1, <1>2 DEF TablesOK, PermissionRows, NameTaken

\* A permission is deleted with the grants that refer to it.
LEMMA TablesPermissionGone ==
    ASSUME TablesOK, NEW p \in Permissions, nameOf' = [nameOf EXCEPT ![p] = NoRow],
           rolePermissions' = {g \in rolePermissions : g[2] # p},
           UNCHANGED <<roles, userRoles>>
    PROVE  TablesOK'
<1>1. PermissionRows' = PermissionRows \ {p}
  BY DEF TablesOK, PermissionRows
<1>2. rolePermissions' \subseteq roles' \X PermissionRows'
  BY <1>1 DEF TablesOK
<1>3. \A q \in PermissionRows' : nameOf'[q] = nameOf[q] /\ q \in PermissionRows
  BY <1>1 DEF TablesOK, PermissionRows
<1>4. \A n \in Names, q \in PermissionRows' : nameOf'[q] = n => ~NameTaken(n, q)'
  BY <1>1, <1>3, RbacAssumption DEF TablesOK, NameTaken, PermissionRows
<1>5. QED
  BY <1>2, <1>4 DEF TablesOK

-----------------------------------------------------------------------------

\* A change begins as its handler has found the rows.
LEMMA FindTypes ==
    ASSUME RbacTypeOK, NEW a \in Changes, ChangeFind(a)
    PROVE  change' \in [Changes -> ChangeStates] /\ UNCHANGED tableVars
<1>1. PICK c \in ChangeStates : Begin(a, c)
  BY DEF ChangeFind, RoleDeleteFind, SyncFind, AssignFind, RevokeFind, PermissionDeleteFind, RenameFind,
         ChangeStates, RoleDelete, Sync, Assignment, PermissionDelete, Rename
<1>2. QED
  BY <1>1, RbacTypeParts DEF Begin

\* A step of a role's deletion.
LEMMA RoleDeleteTypes ==
    ASSUME RbacTypeOK, NEW a \in Changes, RoleDeleteList(a) \/ RoleDeleteWrite(a)
    PROVE  RbacTypeOK'
<1>1. change[a] \in RoleDelete
  BY ChangeOfItsKind DEF RoleDeleteList, RoleDeleteWrite, ChangeAt
<1>2. CASE RoleDeleteList(a)
  <2>1. [change[a] EXCEPT !.affected = Holders(change[a].role), !.pc = "write"] \in RoleDelete
    BY <1>1, ListedAreUsers DEF RoleDelete
  <2>2. change' = [change EXCEPT ![a] = [change[a] EXCEPT !.affected = Holders(change[a].role), !.pc = "write"]]
    BY <1>2, RbacTypeParts DEF RoleDeleteList
  <2>3. change' \in [Changes -> ChangeStates]
    BY <2>1, <2>2, ChangeReplaced DEF ChangeStates
  <2>4. UNCHANGED tableVars
    BY <1>2 DEF RoleDeleteList
  <2>5. QED
    BY <2>3, <2>4, TablesRest, RbacTypeParts
<1>3. CASE RoleDeleteWrite(a)
  <2>1. [change[a] EXCEPT !.pc = "invalidate"] \in RoleDelete
    BY <1>1 DEF RoleDelete
  <2>2. change' \in [Changes -> ChangeStates]
    BY <1>3, <2>1, ChangeReplaced DEF RoleDeleteWrite, Goto, ChangeStates
  <2>3. TablesOK'
    BY <1>3, TablesRoleGone, RbacTypeParts DEF RoleDeleteWrite
  <2>4. QED
    BY <2>2, <2>3, RbacTypeParts
<1>4. QED
  BY <1>2, <1>3

\* A step of a permission's deletion.
LEMMA PermissionDeleteTypes ==
    ASSUME RbacTypeOK, NEW a \in Changes, PermissionDeleteList(a) \/ PermissionDeleteWrite(a)
    PROVE  RbacTypeOK'
<1>1. change[a] \in PermissionDelete
  BY ChangeOfItsKind DEF PermissionDeleteList, PermissionDeleteWrite, ChangeAt
<1>2. CASE PermissionDeleteList(a)
  <2>1. [change[a] EXCEPT !.affected = AffectedBy(change[a].permission), !.pc = "write"] \in PermissionDelete
    BY <1>1, ListedAreUsers DEF PermissionDelete
  <2>2. change' = [change EXCEPT ![a] = [change[a] EXCEPT !.affected = AffectedBy(change[a].permission), !.pc = "write"]]
    BY <1>2, RbacTypeParts DEF PermissionDeleteList
  <2>3. change' \in [Changes -> ChangeStates]
    BY <2>1, <2>2, ChangeReplaced DEF ChangeStates
  <2>4. UNCHANGED tableVars
    BY <1>2 DEF PermissionDeleteList
  <2>5. QED
    BY <2>3, <2>4, TablesRest, RbacTypeParts
<1>3. CASE PermissionDeleteWrite(a)
  <2>1. [change[a] EXCEPT !.pc = "invalidate"] \in PermissionDelete /\ change[a].permission \in Permissions
    BY <1>1 DEF PermissionDelete
  <2>2. change' \in [Changes -> ChangeStates]
    BY <1>3, <2>1, ChangeReplaced DEF PermissionDeleteWrite, Goto, ChangeStates
  <2>3. TablesOK'
    BY <1>3, <2>1, TablesPermissionGone, RbacTypeParts DEF PermissionDeleteWrite
  <2>4. QED
    BY <2>2, <2>3, RbacTypeParts
<1>4. QED
  BY <1>2, <1>3

\* What the rows a sync kept and the ones it was sent make of its role.
Kept(a) == {p \in Permissions : <<change[a].role, p>> \in rolePermissions} \ change[a].cleared

\* A step of syncPermissions.
LEMMA SyncTypes ==
    ASSUME RbacTypeOK, NEW a \in Changes, SyncClear(a) \/ SyncWrite(a) \/ SyncList(a)
    PROVE  RbacTypeOK'
<1>1. change[a] \in Sync
  BY ChangeOfItsKind DEF SyncClear, SyncWrite, SyncList, ChangeAt
<1>2. CASE SyncClear(a)
  <2>1. [change[a] EXCEPT !.cleared = {p \in Permissions : <<change[a].role, p>> \in rolePermissions},
                          !.pc = "write"] \in Sync
    BY <1>1 DEF Sync
  <2>2. change' = [change EXCEPT ![a] = [change[a] EXCEPT
              !.cleared = {p \in Permissions : <<change[a].role, p>> \in rolePermissions},
              !.pc = "write"]]
    BY <1>2, RbacTypeParts DEF SyncClear
  <2>3. change' \in [Changes -> ChangeStates]
    BY <2>1, <2>2, ChangeReplaced DEF ChangeStates
  <2>4. UNCHANGED tableVars
    BY <1>2 DEF SyncClear
  <2>5. QED
    BY <2>3, <2>4, TablesRest, RbacTypeParts
<1>3. CASE SyncList(a)
  <2>1. [change[a] EXCEPT !.affected = Holders(change[a].role), !.pc = "invalidate"] \in Sync
    BY <1>1, ListedAreUsers DEF Sync
  <2>2. change' = [change EXCEPT ![a] = [change[a] EXCEPT !.affected = Holders(change[a].role), !.pc = "invalidate"]]
    BY <1>3, RbacTypeParts DEF SyncList
  <2>3. change' \in [Changes -> ChangeStates]
    BY <2>1, <2>2, ChangeReplaced DEF ChangeStates
  <2>4. UNCHANGED tableVars
    BY <1>3 DEF SyncList
  <2>5. QED
    BY <2>3, <2>4, TablesRest, RbacTypeParts
<1>4. CASE SyncWrite(a)
  <2> DEFINE r == change[a].role
             P == Kept(a) \cup change[a].wanted
  <2>1. CASE /\ change' = [ClearedBy(a) EXCEPT ![a].pc = "list"]
             /\ rolePermissions' = {g \in rolePermissions : g[1] # r} \cup ({r} \X P)
             /\ \/ change[a].wanted = {}
                \/ r \in roles /\ change[a].wanted \subseteq PermissionRows
    <3>1. \A b \in Changes : ClearedBy(a)[b] \in ChangeStates
      <4> TAKE b \in Changes
      <4>1. CASE b # a /\ ChangeAt(b, "sync", "write") /\ change[b].role = change[a].role
        <5>1. change[b] \in Sync
          BY <4>1, ChangeOfItsKind DEF ChangeAt
        <5>2. [change[b] EXCEPT !.cleared = @ \ change[a].cleared] \in Sync
          BY <5>1 DEF Sync
        <5>3. QED
          BY <4>1, <5>2 DEF ClearedBy, ChangeStates
      <4>2. QED
        BY <4>1, RbacTypeParts DEF ClearedBy
    <3>2. ClearedBy(a)[a] = change[a] /\ [change[a] EXCEPT !.pc = "list"] \in Sync
      BY <1>1 DEF ClearedBy, Sync
    <3>3. change' \in [Changes -> ChangeStates]
      BY <2>1, <3>1, <3>2 DEF ClearedBy, ChangeStates
    <3>4. Kept(a) \subseteq PermissionRows /\ (Kept(a) # {} => r \in roles)
      BY DEF Kept, RbacTypeOK
    <3>5. CASE P = {}
      <4>1. rolePermissions' \subseteq rolePermissions
        BY <2>1, <3>5
      <4>2. QED
        BY <1>4, <3>3, <4>1, RbacTypeParts DEF SyncWrite, TablesOK, PermissionRows, NameTaken
    <3>6. CASE P # {}
      <4>1. r \in roles /\ P \in SUBSET PermissionRows
        BY <2>1, <3>4, <3>6
      <4>2. QED
        BY <1>4, <2>1, <3>3, <4>1, TablesGranted, RbacTypeParts DEF SyncWrite
    <3>7. QED
      BY <3>5, <3>6
  <2>2. CASE Finish(a) /\ UNCHANGED rolePermissions
    BY <1>4, <2>2, TablesRest, RbacTypeParts DEF SyncWrite, Finish, ChangeStates, tableVars
  <2>3. QED
    BY <1>4, <2>1, <2>2 DEF SyncWrite, Kept
<1>5. QED
  BY <1>2, <1>3, <1>4

\* A step of PermissionsService.update.
LEMMA RenameTypes ==
    ASSUME RbacTypeOK, NEW a \in Changes, RenameWrite(a) \/ RenameList(a)
    PROVE  RbacTypeOK'
<1>1. change[a] \in Rename
  BY ChangeOfItsKind DEF RenameWrite, RenameList, ChangeAt
<1>2. CASE RenameList(a)
  <2>1. [change[a] EXCEPT !.affected = AffectedBy(change[a].permission), !.pc = "invalidate"] \in Rename
    BY <1>1, ListedAreUsers DEF Rename
  <2>2. change' = [change EXCEPT ![a] =
                     [change[a] EXCEPT !.affected = AffectedBy(change[a].permission), !.pc = "invalidate"]]
    BY <1>2, RbacTypeParts DEF RenameList
  <2>3. change' \in [Changes -> ChangeStates]
    BY <2>1, <2>2, ChangeReplaced DEF ChangeStates
  <2>4. UNCHANGED tableVars
    BY <1>2 DEF RenameList
  <2>5. QED
    BY <2>3, <2>4, TablesRest, RbacTypeParts
<1>3. CASE RenameWrite(a)
  <2>1. [change[a] EXCEPT !.pc = "list"] \in Rename
        /\ change[a].permission \in Permissions /\ change[a].name \in Names
    BY <1>1 DEF Rename
  <2>2. change' \in [Changes -> ChangeStates]
    <3>1. Goto(a, "list") \/ Finish(a)
      BY <1>3 DEF RenameWrite
    <3>2. Goto(a, "list") => change' = [change EXCEPT ![a] = [change[a] EXCEPT !.pc = "list"]]
      BY RbacTypeParts DEF Goto
    <3>3. QED
      BY <2>1, <3>1, <3>2, ChangeReplaced DEF ChangeStates, Finish
  <2>3. TablesOK'
    <3>1. CASE UNCHANGED nameOf
      BY <1>3, <3>1, TablesRest, RbacTypeParts DEF RenameWrite, tableVars
    <3>2. CASE ~NameTaken(change[a].name, change[a].permission)
               /\ nameOf' = [nameOf EXCEPT ![change[a].permission] = change[a].name]
      BY <1>3, <2>1, <3>2, TablesNamed, RbacTypeParts DEF RenameWrite
    <3>3. QED
      BY <1>3, <3>1, <3>2 DEF RenameWrite
  <2>4. QED
    BY <2>2, <2>3, RbacTypeParts
<1>4. QED
  BY <1>2, <1>3

\* A step of assignToUser or revokeFromUser.
LEMMA AssignmentTypes ==
    ASSUME RbacTypeOK, NEW a \in Changes, AssignWrite(a) \/ RevokeWrite(a)
    PROVE  RbacTypeOK'
<1>1. change[a] \in Assignment
  BY ChangeOfItsKind DEF AssignWrite, RevokeWrite, ChangeAt
<1>2. [change[a] EXCEPT !.pc = "invalidate"] \in Assignment /\ change[a].user \in Users
  BY <1>1 DEF Assignment
<1>3. change' \in [Changes -> ChangeStates]
  <2>1. Goto(a, "invalidate") \/ Finish(a)
    BY DEF AssignWrite, RevokeWrite
  <2>2. Goto(a, "invalidate") => change' = [change EXCEPT ![a] = [change[a] EXCEPT !.pc = "invalidate"]]
    BY RbacTypeParts DEF Goto
  <2>3. QED
    BY <1>2, <2>1, <2>2, ChangeReplaced DEF ChangeStates, Finish
<1>4. CASE RevokeWrite(a)
  BY <1>3, <1>4, TablesUnassigned, RbacTypeParts DEF RevokeWrite
<1>5. CASE AssignWrite(a)
  <2>1. CASE UNCHANGED userRoles
    BY <1>3, <1>5, <2>1, TablesRest, RbacTypeParts DEF AssignWrite, tableVars
  <2>2. CASE change[a].role \in roles /\ userRoles' = userRoles \cup {<<change[a].user, change[a].role>>}
    BY <1>2, <1>3, <1>5, <2>2, TablesAssigned, RbacTypeParts DEF AssignWrite
  <2>3. QED
    BY <1>5, <2>1, <2>2 DEF AssignWrite
<1>6. QED
  BY <1>4, <1>5

\* A change that ends leaves an empty slot.
LEMMA FinishTypes ==
    ASSUME RbacTypeOK, NEW a \in Changes, Finish(a), UNCHANGED tableVars
    PROVE  RbacTypeOK'
<1>1. change' \in [Changes -> ChangeStates]
  BY ChangeReplaced DEF Finish, ChangeStates
<1>2. QED
  BY <1>1, TablesRest, RbacTypeParts

\* Any step of a change.
LEMMA ChangeTypes ==
    ASSUME RbacTypeOK, NEW a \in Changes, ChangeFind(a) \/ ChangeStep(a) \/ ChangeAbort(a)
    PROVE  RbacTypeOK'
<1>1. CASE ChangeFind(a)
  BY <1>1, FindTypes, TablesRest, RbacTypeParts
<1>2. CASE ChangeStep(a)
  BY <1>2, RoleDeleteTypes, PermissionDeleteTypes, SyncTypes, RenameTypes, AssignmentTypes DEF ChangeStep
<1>3. CASE ChangeAbort(a)
  BY <1>3, FinishTypes DEF ChangeAbort
<1>4. QED
  BY <1>1, <1>2, <1>3

\* A row that is created.
LEMMA CreateTypes ==
    ASSUME RbacTypeOK,
           \/ \E r \in Roles : RoleCreate(r)
           \/ \E p \in Permissions, n \in Names : PermissionCreate(p, n)
    PROVE  RbacTypeOK'
<1>1. ASSUME NEW r \in Roles, RoleCreate(r)
      PROVE  RbacTypeOK'
  BY <1>1, TablesRoleAdded, RbacTypeParts DEF RoleCreate
<1>2. ASSUME NEW p \in Permissions, NEW n \in Names, PermissionCreate(p, n)
      PROVE  RbacTypeOK'
  BY <1>2, TablesNamed, RbacTypeParts DEF PermissionCreate
<1>3. QED
  BY <1>1, <1>2

\* Any step of Rbac but the end of a change.
LEMMA RbacTypeStep ==
    ASSUME RbacTypeOK, RbacStep
    PROVE  RbacTypeOK'
BY ChangeTypes, CreateTypes DEF RbacStep

\* The tables at the start: the rows the assignments and grants mention, the
\* permissions with the names they are given.
LEMMA RbacTypeInit ==
    ASSUME RbacInit
    PROVE  RbacTypeOK
<1>1. change \in [Changes -> ChangeStates]
  BY DEF RbacInit, ChangeStates
<1>2. roles \subseteq Roles /\ userRoles \subseteq Users \X roles
  BY RbacAssumption DEF RbacInit
<1>3. nameOf \in [Permissions -> Names \cup {NoRow}]
  BY RbacAssumption DEF RbacInit
<1>4. PermissionRows = {g[2] : g \in InitialGrants}
      /\ \A p \in PermissionRows : nameOf[p] = InitialName[p]
  BY RbacAssumption DEF RbacInit, PermissionRows
<1>5. rolePermissions \subseteq roles \X PermissionRows
  BY <1>4, RbacAssumption DEF RbacInit
<1>6. \A p, q \in PermissionRows : nameOf[p] = nameOf[q] => p = q
  BY <1>4, RbacAssumption
<1>7. \A n \in Names : \A p \in PermissionRows : nameOf[p] = n => ~NameTaken(n, p)
  BY <1>6, RbacAssumption DEF NameTaken, PermissionRows
<1>8. QED
  BY <1>1, <1>2, <1>3, <1>5, <1>7, RbacTypeParts DEF TablesOK

-----------------------------------------------------------------------------
(***************************************************************************)
(* The cache.                                                              *)
(***************************************************************************)

\* Names read through the tables are names.
LEMMA NamesRead ==
    ASSUME RbacTypeOK, NEW u
    PROVE  PermissionNames(u) \subseteq Names
BY DEF RbacTypeOK, PermissionNames, PermissionRows

\* A step of a reader, an invalidation or the end of an entry's TTL.
LEMMA CacheStepTypes ==
    ASSUME TypeOK, CacheStep
    PROVE  TypeOK'
<1> USE DEF TypeOK
<1>1. ASSUME NEW a \in Changes, Invalidate(a)
      PROVE  TypeOK'
  <2>1. RbacTypeOK'
    BY <1>1, FinishTypes DEF Invalidate
  <2>2. cache' \in [Users -> {Empty} \cup Entry]
    BY <1>1 DEF Invalidate, cacheVars
  <2>3. reader' \in [Readers -> {Idle} \cup Reader]
    <3>1. ASSUME NEW q \in Readers, reader[q] # Idle, reader[q].pc = "set"
          PROVE  [reader[q] EXCEPT !.crossed = TRUE] \in Reader
      BY <3>1 DEF Reader
    <3>2. QED
      BY <1>1, <3>1 DEF Invalidate, cacheVars
  <2>4. QED
    BY <2>1, <2>2, <2>3
<1>2. ASSUME UNCHANGED rbacVars
      PROVE  RbacTypeOK'
  BY <1>2, TablesRest, RbacTypeParts DEF rbacVars
<1>3. ASSUME NEW q \in Readers, NEW u \in Users, CacheMiss(q, u)
      PROVE  TypeOK'
  BY <1>2, <1>3 DEF CacheMiss, Reader
<1>4. ASSUME NEW q \in Readers, ReaderQuery(q)
      PROVE  TypeOK'
  <2>1. reader[q].user \in Users
    BY <1>4 DEF ReaderQuery, Reader
  <2>2. [pc |-> "set", user |-> reader[q].user,
         names |-> PermissionNames(reader[q].user), crossed |-> FALSE] \in Reader
    BY <2>1, NamesRead DEF Reader
  <2>3. QED
    BY <1>2, <1>4, <2>2 DEF ReaderQuery
<1>5. ASSUME NEW q \in Readers, ReaderSet(q)
      PROVE  TypeOK'
  <2>1. [names |-> reader[q].names, late |-> reader[q].crossed] \in Entry
    BY <1>5 DEF ReaderSet, Reader, Entry
  <2>2. QED
    BY <1>2, <1>5, <2>1 DEF ReaderSet
<1>6. ASSUME NEW q \in Readers, ReaderAbort(q)
      PROVE  TypeOK'
  BY <1>2, <1>6 DEF ReaderAbort
<1>7. ASSUME NEW u \in Users, CacheExpire(u)
      PROVE  TypeOK'
  BY <1>2, <1>7 DEF CacheExpire
<1>8. QED
  BY <1>1, <1>3, <1>4, <1>5, <1>6, <1>7 DEF CacheStep, ReaderStep

\* Every step of PermissionCache.
LEMMA TypeStep ==
    ASSUME TypeOK, [Next]_vars
    PROVE  TypeOK'
<1>1. CASE RbacStep /\ UNCHANGED cacheVars
  BY <1>1, RbacTypeStep DEF TypeOK, cacheVars
<1>2. CASE CacheStep
  BY <1>2, CacheStepTypes
<1>3. CASE UNCHANGED vars
  BY <1>3, TablesRest, RbacTypeParts DEF TypeOK, vars, rbacVars, cacheVars
<1>4. QED
  BY <1>1, <1>2, <1>3 DEF Next, CacheStep

\* The cache is empty at the start.
LEMMA TypeInit == ASSUME Init PROVE TypeOK
BY RbacTypeInit DEF Init, TypeOK

\* Foreign keys and unique names hold, and changes and readers keep their
\* types, however many of them overlap and whatever fails.
THEOREM GrantsTypeCorrect == Spec => []TypeOK
BY TypeInit, TypeStep, PTL DEF Spec

-----------------------------------------------------------------------------
(***************************************************************************)
(* One change at a time: what it has read is still so when it writes.      *)
(***************************************************************************)

\* The hypothesis of what follows: changes do not overlap.
OneChange == \A a, b \in Changes : a = b

\* The permissions of a role, as role_permissions has them.
GrantedTo(r) == {p \in Permissions : <<r, p>> \in rolePermissions}

\* What a change noted before its write is no less than what the write finds.
KnowsTables(a) ==
    /\ ChangeAt(a, "role.delete", "write") => Holders(change[a].role) \subseteq change[a].affected
    /\ ChangeAt(a, "permission.delete", "write") =>
          AffectedBy(change[a].permission) \subseteq change[a].affected
    /\ ChangeAt(a, "sync", "write") => GrantedTo(change[a].role) \subseteq change[a].cleared
    /\ ChangeAt(a, "rename", "write") =>
          change[a].renaming \/ nameOf[change[a].permission] = change[a].name
    /\ change[a] # Idle /\ change[a].kind \in {"assign", "revoke"} =>
          change[a].affected = {change[a].user}

\* Every change knows the tables it is about to write.
ChangesKnow == \A a \in Changes : KnowsTables(a)

\* A row that is created is nothing a change in flight has read, and no user
\* is granted more or less by it.
LEMMA CreateKeeps ==
    ASSUME RbacTypeOK,
           \/ \E r \in Roles : RoleCreate(r)
           \/ \E p \in Permissions, n \in Names : PermissionCreate(p, n)
    PROVE  /\ UNCHANGED change
           /\ \A r : Holders(r)' = Holders(r) /\ GrantedTo(r)' = GrantedTo(r)
           /\ \A p : AffectedBy(p)' = AffectedBy(p)
           /\ \A p \in PermissionRows : nameOf'[p] = nameOf[p]
           /\ \A u : PermissionNames(u)' = PermissionNames(u)
<1>1. UNCHANGED <<change, userRoles, rolePermissions>>
  BY DEF RoleCreate, PermissionCreate
<1>2. \A p \in PermissionRows : nameOf'[p] = nameOf[p]
  <2>1. ASSUME NEW r \in Roles, RoleCreate(r)
        PROVE  \A p \in PermissionRows : nameOf'[p] = nameOf[p]
    BY <2>1 DEF RoleCreate
  <2>2. ASSUME NEW q \in Permissions, NEW n \in Names, PermissionCreate(q, n)
        PROVE  \A p \in PermissionRows : nameOf'[p] = nameOf[p]
    BY <2>2 DEF PermissionCreate, PermissionRows, RbacTypeOK
  <2>3. QED
    BY <2>1, <2>2
<1>3. \A g \in rolePermissions : nameOf'[g[2]] = nameOf[g[2]]
  BY <1>2 DEF RbacTypeOK
<1>4. \A u : PermissionNames(u)' = PermissionNames(u)
  BY <1>1, <1>3 DEF PermissionNames
<1>5. QED
  BY <1>1, <1>2, <1>4 DEF Holders, GrantedTo, AffectedBy

\* Finding the rows tells a change what they are.
LEMMA FindKnows ==
    ASSUME RbacTypeOK, OneChange, NEW a \in Changes, ChangeFind(a)
    PROVE  ChangesKnow'
<1>1. UNCHANGED tableVars
  BY FindTypes
<1>2. ASSUME NEW c, change'[a] = c,
             \/ c.kind \in {"role.delete", "permission.delete"} /\ c.pc = "list"
             \/ c.kind = "sync" /\ c.pc = "clear"
             \/ c.kind = "rename" /\ c.pc = "write" /\ (c.renaming \/ nameOf[c.permission] = c.name)
             \/ c.kind \in {"assign", "revoke"} /\ c.affected = {c.user}
      PROVE  ChangesKnow'
  BY <1>1, <1>2 DEF ChangesKnow, KnowsTables, ChangeAt, OneChange, tableVars
<1>3. ASSUME NEW c, Begin(a, c)
      PROVE  change'[a] = c
  BY <1>3, RbacTypeParts DEF Begin
<1>4. ASSUME NEW r \in Roles, RoleDeleteFind(a, r)
      PROVE  ChangesKnow'
  BY <1>2, <1>3, <1>4 DEF RoleDeleteFind
<1>5. ASSUME NEW r \in Roles, NEW wanted \in SUBSET Permissions, SyncFind(a, r, wanted)
      PROVE  ChangesKnow'
  BY <1>2, <1>3, <1>5 DEF SyncFind
<1>6. ASSUME NEW r \in Roles, NEW u \in Users, AssignFind(a, r, u) \/ RevokeFind(a, r, u)
      PROVE  ChangesKnow'
  BY <1>2, <1>3, <1>6 DEF AssignFind, RevokeFind
<1>7. ASSUME NEW p \in Permissions, PermissionDeleteFind(a, p)
      PROVE  ChangesKnow'
  BY <1>2, <1>3, <1>7 DEF PermissionDeleteFind
<1>8. ASSUME NEW p \in Permissions, NEW n \in Names, RenameFind(a, p, n)
      PROVE  ChangesKnow'
  <2> DEFINE c == [kind |-> "rename", pc |-> "write", permission |-> p, name |-> n,
                   renaming |-> nameOf[p] # n, affected |-> {}]
  <2>1. change'[a] = c
    BY <1>3, <1>8 DEF RenameFind
  <2>2. c.renaming = (nameOf[p] # n)
    OBVIOUS
  <2>3. c.kind = "rename" /\ c.pc = "write" /\ c.permission = p /\ c.name = n
    OBVIOUS
  <2>4. c.renaming \/ nameOf[c.permission] = c.name
    <3> HIDE DEF c
    <3>1. QED
      BY <2>2, <2>3
  <2>5. QED
    <3> HIDE DEF c
    <3>1. QED
      BY <1>2, <2>1, <2>3, <2>4
<1>9. QED
  BY <1>4, <1>5, <1>6, <1>7, <1>8 DEF ChangeFind

\* What a step leaves in the slot of its change.
LEMMA StepLeaves ==
    ASSUME RbacTypeOK, NEW a \in Changes, ChangeStep(a) \/ ChangeAbort(a)
    PROVE  \/ change'[a] = Idle
           \/ /\ ChangeAt(a, "role.delete", "list") /\ UNCHANGED tableVars
              /\ change'[a] = [change[a] EXCEPT !.affected = Holders(change[a].role), !.pc = "write"]
           \/ /\ ChangeAt(a, "permission.delete", "list") /\ UNCHANGED tableVars
              /\ change'[a] = [change[a] EXCEPT !.affected = AffectedBy(change[a].permission), !.pc = "write"]
           \/ /\ ChangeAt(a, "sync", "clear") /\ UNCHANGED tableVars
              /\ change'[a] = [change[a] EXCEPT !.cleared = GrantedTo(change[a].role), !.pc = "write"]
           \/ /\ ChangeAt(a, "sync", "list") /\ UNCHANGED tableVars
              /\ change'[a] = [change[a] EXCEPT !.affected = Holders(change[a].role), !.pc = "invalidate"]
           \/ /\ ChangeAt(a, "rename", "list") /\ UNCHANGED tableVars
              /\ change'[a] = [change[a] EXCEPT !.affected = AffectedBy(change[a].permission),
                                               !.pc = "invalidate"]
           \/ /\ ChangeAt(a, "sync", "write") \/ ChangeAt(a, "rename", "write")
              /\ change'[a] = [change[a] EXCEPT !.pc = "list"]
           \/ /\ \E kind \in {"role.delete", "permission.delete", "assign", "revoke"} :
                    ChangeAt(a, kind, "write")
              /\ change'[a] = [change[a] EXCEPT !.pc = "invalidate"]
<1>1. change \in [Changes -> ChangeStates]
  BY RbacTypeParts
<1>2. CASE RoleDeleteList(a)
  BY <1>1, <1>2 DEF RoleDeleteList
<1>3. CASE PermissionDeleteList(a)
  BY <1>1, <1>3 DEF PermissionDeleteList
<1>4. CASE SyncClear(a)
  BY <1>1, <1>4 DEF SyncClear, GrantedTo
<1>5. CASE SyncList(a)
  BY <1>1, <1>5 DEF SyncList
<1>6. CASE RenameList(a)
  BY <1>1, <1>6 DEF RenameList
<1>7. CASE SyncWrite(a)
  BY <1>1, <1>7 DEF SyncWrite, ClearedBy, Finish
<1>8. CASE RenameWrite(a)
  BY <1>1, <1>8 DEF RenameWrite, Goto, Finish
<1>9. CASE RoleDeleteWrite(a)
  BY <1>1, <1>9 DEF RoleDeleteWrite, Goto
<1>10. CASE PermissionDeleteWrite(a)
  BY <1>1, <1>10 DEF PermissionDeleteWrite, Goto
<1>11. CASE AssignWrite(a)
  BY <1>1, <1>11 DEF AssignWrite, Goto, Finish
<1>12. CASE RevokeWrite(a)
  BY <1>1, <1>12 DEF RevokeWrite, Goto
<1>13. CASE ChangeAbort(a)
  BY <1>1, <1>13 DEF ChangeAbort, Finish
<1>14. QED
  BY <1>2, <1>3, <1>4, <1>5, <1>6, <1>7, <1>8, <1>9, <1>10, <1>11, <1>12, <1>13 DEF ChangeStep

\* After its write a change knows nothing that could grow old, before it what
\* it has just read.
LEMMA StepKnows ==
    ASSUME RbacTypeOK, OneChange, ChangesKnow, NEW a \in Changes, ChangeStep(a) \/ ChangeAbort(a)
    PROVE  ChangesKnow'
<1> DEFINE c == change'[a]
<1>1. CASE c = Idle
  BY <1>1 DEF KnowsTables, ChangeAt, ChangesKnow, OneChange
<1>2. CASE /\ ChangeAt(a, "role.delete", "list") /\ UNCHANGED tableVars
           /\ c = [change[a] EXCEPT !.affected = Holders(change[a].role), !.pc = "write"]
  <2>1. c.kind = "role.delete" /\ c.role = change[a].role /\ c.affected = Holders(change[a].role)
    BY <1>2, ChangeOfItsKind DEF ChangeAt, RoleDelete
  <2>2. QED
    BY <1>2, <2>1 DEF KnowsTables, ChangeAt, ChangesKnow, OneChange, tableVars, Holders
<1>3. CASE /\ ChangeAt(a, "permission.delete", "list") /\ UNCHANGED tableVars
           /\ c = [change[a] EXCEPT !.affected = AffectedBy(change[a].permission), !.pc = "write"]
  <2>1. /\ c.kind = "permission.delete" /\ c.permission = change[a].permission
        /\ c.affected = AffectedBy(change[a].permission)
    BY <1>3, ChangeOfItsKind DEF ChangeAt, PermissionDelete
  <2>2. \A p : AffectedBy(p)' = AffectedBy(p)
    BY <1>3 DEF tableVars, AffectedBy, Holders
  <2>3. QED
    BY <2>1, <2>2 DEF KnowsTables, ChangeAt, ChangesKnow, OneChange
<1>4. CASE /\ ChangeAt(a, "sync", "clear") /\ UNCHANGED tableVars
           /\ c = [change[a] EXCEPT !.cleared = GrantedTo(change[a].role), !.pc = "write"]
  <2>1. c.kind = "sync" /\ c.role = change[a].role /\ c.cleared = GrantedTo(change[a].role)
    BY <1>4, ChangeOfItsKind DEF ChangeAt, Sync
  <2>2. QED
    BY <1>4, <2>1 DEF KnowsTables, ChangeAt, ChangesKnow, OneChange, tableVars, GrantedTo
<1>5. CASE /\ \E kind \in {"sync", "rename", "role.delete", "permission.delete"} :
                 change[a] # Idle /\ change[a].kind = kind /\ c.kind = kind
           /\ c.pc \in {"list", "invalidate"}
  BY <1>5 DEF KnowsTables, ChangeAt, ChangesKnow, OneChange
<1>6. CASE /\ change[a] # Idle /\ change[a].kind \in {"assign", "revoke"}
           /\ c = [change[a] EXCEPT !.pc = "invalidate"]
  <2>1. c.kind = change[a].kind /\ c.user = change[a].user /\ c.affected = {c.user}
    BY <1>6, ChangeOfItsKind DEF Assignment, KnowsTables, ChangesKnow
  <2>2. QED
    BY <1>6, <2>1 DEF KnowsTables, ChangeAt, ChangesKnow, OneChange
<1>7. QED
  BY <1>1, <1>2, <1>3, <1>4, <1>5, <1>6, StepLeaves, ChangeOfItsKind
     DEF ChangeAt, RoleDelete, PermissionDelete, Sync, Rename, Assignment

\* A change that ends knows nothing any more.
LEMMA FinishKnows ==
    ASSUME RbacTypeOK, OneChange, NEW a \in Changes, Finish(a)
    PROVE  ChangesKnow'
<1>1. change'[a] = Idle
  BY RbacTypeParts DEF Finish
<1>2. QED
  BY <1>1 DEF KnowsTables, ChangeAt, ChangesKnow, OneChange

\* No step makes what a change knows untrue.
LEMMA KnowsStep ==
    ASSUME RbacTypeOK, OneChange, ChangesKnow, RbacStep
    PROVE  ChangesKnow'
<1>1. ASSUME \/ \E r \in Roles : RoleCreate(r)
             \/ \E p \in Permissions, n \in Names : PermissionCreate(p, n)
      PROVE  ChangesKnow'
  <2> SUFFICES ASSUME NEW a \in Changes PROVE KnowsTables(a)'
    BY DEF ChangesKnow
  <2>1. UNCHANGED change /\ KnowsTables(a)
    BY <1>1, CreateKeeps DEF ChangesKnow
  <2>2. ASSUME ChangeAt(a, "rename", "write"), nameOf[change[a].permission] = change[a].name
        PROVE  nameOf'[change[a].permission] = change[a].name
    <3>1. change[a].permission \in Permissions /\ change[a].name \in Names
      BY <2>2, ChangeOfItsKind DEF ChangeAt, Rename
    <3>2. QED
      BY <1>1, <2>2, <3>1, CreateKeeps, RbacAssumption DEF PermissionRows
  <2>3. QED
    BY <1>1, <2>1, <2>2, CreateKeeps DEF KnowsTables, ChangeAt
<1>2. QED
  BY <1>1, FindKnows, StepKnows DEF RbacStep

\* The transaction that commits replaces the whole list: nobody added to it
\* since its DELETE.
LEMMA SyncReplaces ==
    ASSUME RbacTypeOK, OneChange, ChangesKnow, RbacStep, NEW a \in Changes,
           ChangeAt(a, "sync", "write"), ChangeAt(a, "sync", "list")'
    PROVE  {p \in Permissions : <<change[a].role, p>> \in rolePermissions'} = change[a].wanted
<1>1. SyncWrite(a)
  <2>1. ~UNCHANGED change
    BY DEF ChangeAt
  <2>2. PICK b \in Changes : ChangeFind(b) \/ ChangeStep(b) \/ ChangeAbort(b)
    BY <2>1, CreateKeeps DEF RbacStep
  <2>3. a = b
    BY DEF OneChange
  <2>4. ~ChangeFind(a)
    BY DEF ChangeFind, RoleDeleteFind, SyncFind, AssignFind, RevokeFind, PermissionDeleteFind, RenameFind,
           Begin, ChangeAt
  <2>5. ~ChangeAbort(a)
    BY RbacTypeParts DEF ChangeAbort, Finish, ChangeAt
  <2>6. QED
    BY <2>2, <2>3, <2>4, <2>5
       DEF ChangeStep, RoleDeleteList, RoleDeleteWrite, PermissionDeleteList, PermissionDeleteWrite,
           SyncClear, SyncList, RenameWrite, RenameList, AssignWrite, RevokeWrite, ChangeAt
<1>2. change[a] \in Sync
  BY ChangeOfItsKind DEF ChangeAt
<1>3. Kept(a) = {}
  BY DEF Kept, GrantedTo, ChangesKnow, KnowsTables
<1>4. ~Finish(a)
  BY RbacTypeParts DEF Finish, ChangeAt
<1>5. rolePermissions' = {g \in rolePermissions : g[1] # change[a].role}
                            \cup ({change[a].role} \X change[a].wanted)
  BY <1>1, <1>3, <1>4 DEF SyncWrite, Kept
<1>6. QED
  BY <1>2, <1>5 DEF Sync

\* A user has the same names while their roles, grants and names stay.
LEMMA SameNames ==
    ASSUME NEW u,
           \A g : (g \in rolePermissions /\ <<u, g[1]>> \in userRoles)
                     <=> (g \in rolePermissions' /\ <<u, g[1]>> \in userRoles'),
           \A g \in rolePermissions : <<u, g[1]>> \in userRoles => nameOf'[g[2]] = nameOf[g[2]]
    PROVE  PermissionNames(u)' = PermissionNames(u)
BY DEF PermissionNames

\* A write that changes what a user is granted leaves the change on its way to
\* dropping the cached entry.
LEMMA WriteAnnounces ==
    ASSUME RbacTypeOK, OneChange, ChangesKnow, NEW a \in Changes, ChangeStep(a), NEW u \in Users
    PROVE  PermissionNames(u)' = PermissionNames(u) \/ WillInvalidate(a, u)'
<1>1. CASE UNCHANGED tableVars
  BY <1>1, SameNames DEF tableVars
<1>2. ASSUME NEW c \in RoleDelete \cup PermissionDelete \cup Assignment,
             change' = [change EXCEPT ![a] = c], c.pc = "invalidate", u \in c.affected
      PROVE  WillInvalidate(a, u)'
  BY <1>2, EmptySlotAssumption, RbacTypeParts DEF WillInvalidate, Invalidating
<1>3. Goto(a, "invalidate") => change' = [change EXCEPT ![a] = [change[a] EXCEPT !.pc = "invalidate"]]
  BY RbacTypeParts DEF Goto
<1>4. CASE RoleDeleteWrite(a)
  <2>1. CASE u \in Holders(change[a].role)
    <3>1. change[a] \in RoleDelete /\ u \in change[a].affected
      BY <1>4, <2>1, ChangeOfItsKind DEF RoleDeleteWrite, ChangesKnow, KnowsTables, ChangeAt
    <3>2. [change[a] EXCEPT !.pc = "invalidate"] \in RoleDelete
      BY <3>1 DEF RoleDelete
    <3>3. QED
      BY <1>2, <1>3, <1>4, <3>1, <3>2 DEF RoleDeleteWrite, RoleDelete
  <2>2. CASE u \notin Holders(change[a].role)
    BY <1>4, <2>2, SameNames DEF RoleDeleteWrite, Holders
  <2>3. QED
    BY <2>1, <2>2
<1>5. CASE PermissionDeleteWrite(a)
  <2> DEFINE p == change[a].permission
  <2>1. change[a] \in PermissionDelete
    BY <1>5, ChangeOfItsKind DEF PermissionDeleteWrite, ChangeAt
  <2>2. CASE u \in AffectedBy(p)
    <3>1. u \in change[a].affected
      BY <1>5, <2>2 DEF PermissionDeleteWrite, ChangesKnow, KnowsTables
    <3>2. [change[a] EXCEPT !.pc = "invalidate"] \in PermissionDelete
      BY <2>1 DEF PermissionDelete
    <3>3. QED
      BY <1>2, <1>3, <1>5, <2>1, <3>1, <3>2 DEF PermissionDeleteWrite, PermissionDelete
  <2>3. CASE u \notin AffectedBy(p)
    <3>1. \A g \in rolePermissions : <<u, g[1]>> \in userRoles => g[2] # p
      BY <2>3 DEF AffectedBy, Holders
    <3>2. \A q \in Permissions : q # p => nameOf'[q] = nameOf[q]
      BY <1>5 DEF PermissionDeleteWrite, RbacTypeOK
    <3>3. \A g \in rolePermissions : g[2] \in Permissions
      BY DEF RbacTypeOK, PermissionRows
    <3>4. rolePermissions' = {g \in rolePermissions : g[2] # p} /\ userRoles' = userRoles
      BY <1>5 DEF PermissionDeleteWrite
    <3>5. QED
      BY <3>1, <3>2, <3>3, <3>4, SameNames
  <2>4. QED
    BY <2>2, <2>3
<1>6. CASE SyncWrite(a)
  <2> DEFINE r == change[a].role
  <2>1. change[a] \in Sync
    BY <1>6, ChangeOfItsKind DEF SyncWrite, ChangeAt
  <2>2. CASE u \in Holders(r) /\ ~UNCHANGED rolePermissions
    <3>1. change' = [ClearedBy(a) EXCEPT ![a].pc = "list"]
      BY <1>6, <2>2 DEF SyncWrite
    <3>2. change'[a] = [change[a] EXCEPT !.pc = "list"]
      BY <3>1 DEF ClearedBy
    <3>3. change'[a] \in Sync /\ change'[a].pc = "list" /\ change'[a].kind = "sync" /\ change'[a].role = r
      BY <2>1, <3>2 DEF Sync
    <3>4. <<u, r>> \in userRoles'
      BY <1>6, <2>2 DEF SyncWrite, Holders
    <3>5. QED
      BY <3>3, <3>4, EmptySlotAssumption DEF WillInvalidate, ChangeAt, Holders
  <2>3. CASE u \notin Holders(r)
    <3>1. <<u, r>> \notin userRoles /\ UNCHANGED <<userRoles, nameOf>>
      BY <1>6, <2>3 DEF SyncWrite, Holders
    <3>2. \/ UNCHANGED rolePermissions
          \/ rolePermissions' = {g \in rolePermissions : g[1] # r} \cup ({r} \X (Kept(a) \cup change[a].wanted))
      BY <1>6 DEF SyncWrite, Kept
    <3>3. \A g : g[1] # r => (g \in rolePermissions <=> g \in rolePermissions')
      BY <3>2
    <3>4. QED
      BY <3>1, <3>3, SameNames
  <2>4. CASE UNCHANGED rolePermissions
    BY <1>6, <2>4, SameNames DEF SyncWrite
  <2>5. QED
    BY <2>2, <2>3, <2>4
<1>7. CASE RenameWrite(a)
  <2> DEFINE p == change[a].permission
  <2>1. change[a] \in Rename
    BY <1>7, ChangeOfItsKind DEF RenameWrite, ChangeAt
  <2>2. UNCHANGED <<userRoles, rolePermissions>>
    BY <1>7 DEF RenameWrite
  <2>3. CASE UNCHANGED nameOf
    BY <2>2, <2>3, SameNames
  <2>4. CASE ~UNCHANGED nameOf
    <3>1. nameOf' = [nameOf EXCEPT ![p] = change[a].name]
          /\ (change[a].renaming => Goto(a, "list"))
      BY <1>7, <2>4 DEF RenameWrite
    <3>2. change[a].renaming
      BY <1>7, <2>4, <3>1 DEF RenameWrite, ChangesKnow, KnowsTables, RbacTypeOK
    <3>3. CASE u \in AffectedBy(p)
      <4>1. change'[a] = [change[a] EXCEPT !.pc = "list"]
        BY <3>1, <3>2, RbacTypeParts DEF Goto
      <4>2. change'[a] \in Rename /\ change'[a].pc = "list" /\ change'[a].kind = "rename"
            /\ change'[a].permission = p
        BY <2>1, <4>1 DEF Rename
      <4>3. \A q : AffectedBy(q)' = AffectedBy(q)
        BY <2>2 DEF AffectedBy, Holders
      <4>4. QED
        BY <3>3, <4>2, <4>3, EmptySlotAssumption DEF WillInvalidate, ChangeAt
    <3>4. CASE u \notin AffectedBy(p)
      <4>1. \A g \in rolePermissions : <<u, g[1]>> \in userRoles => g[2] # p
        BY <3>4 DEF AffectedBy, Holders
      <4>2. \A g \in rolePermissions : g[2] \in Permissions
        BY DEF RbacTypeOK, PermissionRows
      <4>3. \A q \in Permissions : q # p => nameOf'[q] = nameOf[q]
        BY <3>1 DEF RbacTypeOK
      <4>4. QED
        BY <2>2, <4>1, <4>2, <4>3, SameNames
    <3>5. QED
      BY <3>3, <3>4
  <2>5. QED
    BY <2>3, <2>4
<1>8. CASE AssignWrite(a) \/ RevokeWrite(a)
  <2>1. change[a] \in Assignment /\ change[a].affected = {change[a].user}
    BY <1>8, ChangeOfItsKind DEF AssignWrite, RevokeWrite, ChangeAt, ChangesKnow, KnowsTables
  <2>2. CASE u = change[a].user /\ Goto(a, "invalidate")
    <3>1. [change[a] EXCEPT !.pc = "invalidate"] \in Assignment
      BY <2>1 DEF Assignment
    <3>2. QED
      BY <1>2, <1>3, <2>1, <2>2, <3>1 DEF Assignment
  <2>3. CASE u # change[a].user
    BY <1>8, <2>3, SameNames DEF AssignWrite, RevokeWrite
  <2>4. CASE ~Goto(a, "invalidate")
    BY <1>8, <2>4, SameNames DEF AssignWrite, RevokeWrite
  <2>5. QED
    BY <2>2, <2>3, <2>4
<1>9. QED
  BY <1>1, <1>4, <1>5, <1>6, <1>7, <1>8
     DEF ChangeStep, RoleDeleteList, PermissionDeleteList, SyncClear, SyncList, RenameList

\* A change on its way to drop an entry stays so until it does.
LEMMA StaysAnnounced ==
    ASSUME RbacTypeOK, OneChange, ~MayAbort, RbacStep, NEW a \in Changes, NEW u \in Users,
           WillInvalidate(a, u)
    PROVE  WillInvalidate(a, u)'
<1>1. CASE \/ \E r \in Roles : RoleCreate(r)
           \/ \E p \in Permissions, n \in Names : PermissionCreate(p, n)
  BY <1>1, CreateKeeps DEF WillInvalidate, Invalidating, ChangeAt
<1>2. CASE ChangeFind(a) \/ ChangeStep(a)
  <2>1. SyncList(a) \/ RenameList(a)
    BY <1>2 DEF WillInvalidate, Invalidating, ChangeAt, ChangeFind, RoleDeleteFind, SyncFind, AssignFind,
           RevokeFind, PermissionDeleteFind, RenameFind, Begin, ChangeStep, RoleDeleteList, RoleDeleteWrite,
           PermissionDeleteList, PermissionDeleteWrite, SyncClear, SyncWrite, RenameWrite, AssignWrite,
           RevokeWrite
  <2>2. ASSUME NEW c \in Sync \cup Rename, change'[a] = c, c.pc = "invalidate", u \in c.affected
        PROVE  WillInvalidate(a, u)'
    BY <2>2, EmptySlotAssumption DEF WillInvalidate, Invalidating
  <2>3. CASE SyncList(a)
    <3>1. change[a] \in Sync /\ u \in Holders(change[a].role)
      BY <2>3, ChangeOfItsKind DEF SyncList, ChangeAt, WillInvalidate, Invalidating
    <3>2. [change[a] EXCEPT !.affected = Holders(change[a].role), !.pc = "invalidate"] \in Sync
      BY <3>1, ListedAreUsers DEF Sync
    <3>3. change'[a] = [change[a] EXCEPT !.affected = Holders(change[a].role), !.pc = "invalidate"]
      BY <2>3, RbacTypeParts DEF SyncList
    <3>4. QED
      BY <2>2, <3>1, <3>2, <3>3 DEF Sync
  <2>4. CASE RenameList(a)
    <3>1. change[a] \in Rename /\ u \in AffectedBy(change[a].permission)
      BY <2>4, ChangeOfItsKind DEF RenameList, ChangeAt, WillInvalidate, Invalidating
    <3>2. [change[a] EXCEPT !.affected = AffectedBy(change[a].permission), !.pc = "invalidate"] \in Rename
      BY <3>1, ListedAreUsers DEF Rename
    <3>3. change'[a] = [change[a] EXCEPT !.affected = AffectedBy(change[a].permission), !.pc = "invalidate"]
      BY <2>4, RbacTypeParts DEF RenameList
    <3>4. QED
      BY <2>2, <3>1, <3>2, <3>3 DEF Rename
  <2>5. QED
    BY <2>1, <2>3, <2>4
<1>3. QED
  BY <1>1, <1>2 DEF RbacStep, OneChange, ChangeAbort

\* What is written to the tables reaches every entry: it is announced at once.
LEMMA RbacStepAnnounces ==
    ASSUME RbacTypeOK, OneChange, ~MayAbort, ChangesKnow, RbacStep, NEW u \in Users
    PROVE  \/ PermissionNames(u)' = PermissionNames(u)
           \/ \E a \in Changes : WillInvalidate(a, u)'
<1>1. CASE \/ \E r \in Roles : RoleCreate(r)
           \/ \E p \in Permissions, n \in Names : PermissionCreate(p, n)
  BY <1>1, CreateKeeps
<1>2. ASSUME NEW a \in Changes, ChangeFind(a)
      PROVE  PermissionNames(u)' = PermissionNames(u)
  BY <1>2, FindTypes, SameNames DEF tableVars
<1>3. QED
  BY <1>1, <1>2, WriteAnnounces DEF RbacStep, ChangeAbort

-----------------------------------------------------------------------------
(***************************************************************************)
(* One change at a time, nothing dies and Redis answers: an entry, or what *)
(* a reader is about to make one, is right, late or about to be dropped.   *)
(***************************************************************************)

\* Some change has written and is yet to drop this user's entry.
Announced(u) == \E a \in Changes : WillInvalidate(a, u)

\* Names that a reader is about to set are those of the tables, unless a change
\* was made since it queried or is yet to drop the entry.
ReadersRight ==
    \A q \in Readers, u \in Users :
        reader[q] # Idle /\ reader[q].pc = "set" /\ reader[q].user = u =>
            reader[q].names = PermissionNames(u) \/ reader[q].crossed \/ Announced(u)

\* The inductive invariant of the cache.
CacheInv == TypeOK /\ ChangesKnow /\ StaleOnlyByRace /\ ReadersRight

\* A change of the tables.
LEMMA RbacStepKeepsCacheInv ==
    ASSUME OneChange, ~MayAbort, CacheInv, RbacStep, UNCHANGED cacheVars
    PROVE  CacheInv'
<1> USE DEF CacheInv
<1>1. RbacTypeOK /\ TypeOK'
  BY TypeStep DEF Next, TypeOK
<1>2. ChangesKnow'
  BY <1>1, KnowsStep
<1>3. \A u \in Users : PermissionNames(u)' = PermissionNames(u) \/ Announced(u)'
  BY <1>1, RbacStepAnnounces DEF Announced
<1>4. \A u \in Users : Announced(u) => Announced(u)'
  BY <1>1, StaysAnnounced DEF Announced
<1>5. UNCHANGED cache /\ UNCHANGED reader
  BY DEF cacheVars
<1>6. StaleOnlyByRace'
  <2> SUFFICES ASSUME NEW u \in Users
               PROVE  Fresh(u)' \/ cache'[u].late \/ Announced(u)'
    BY DEF StaleOnlyByRace, Announced
  <2>1. Fresh(u) \/ cache[u].late \/ Announced(u)
    BY DEF StaleOnlyByRace, Announced
  <2>2. QED
    BY <1>3, <1>4, <1>5, <2>1 DEF Fresh
<1>7. ReadersRight'
  <2> SUFFICES ASSUME NEW q \in Readers, NEW u \in Users,
                      reader[q] # Idle, reader[q].pc = "set", reader[q].user = u
               PROVE  reader[q].names = PermissionNames(u)' \/ reader[q].crossed \/ Announced(u)'
    BY <1>5 DEF ReadersRight
  <2> QED
    BY <1>3, <1>4, <1>5 DEF ReadersRight
<1>8. QED
  BY <1>1, <1>2, <1>6, <1>7

\* Steps that leave the tables and the changes alone leave every query alone.
LEMMA QueriesRest ==
    ASSUME UNCHANGED rbacVars
    PROVE  /\ \A r : Holders(r)' = Holders(r) /\ GrantedTo(r)' = GrantedTo(r)
           /\ \A p : AffectedBy(p)' = AffectedBy(p)
           /\ \A u : PermissionNames(u)' = PermissionNames(u)
           /\ \A u : Announced(u)' = Announced(u)
           /\ ChangesKnow' = ChangesKnow
<1>1. UNCHANGED <<roles, nameOf, userRoles, rolePermissions, change>>
  BY DEF rbacVars, tableVars
<1>2. \A r : Holders(r)' = Holders(r) /\ GrantedTo(r)' = GrantedTo(r)
  BY <1>1 DEF Holders, GrantedTo
<1>3. \A p : AffectedBy(p)' = AffectedBy(p)
  BY <1>1 DEF AffectedBy, Holders
<1>4. \A u : PermissionNames(u)' = PermissionNames(u)
  BY <1>1 DEF PermissionNames
<1>5. \A a, u : WillInvalidate(a, u)' = WillInvalidate(a, u)
  BY <1>1, <1>2, <1>3 DEF WillInvalidate, Invalidating, ChangeAt
<1>6. \A u : Announced(u)' = Announced(u)
  BY <1>5 DEF Announced
<1>7. ChangesKnow' = ChangesKnow
  BY <1>1, <1>2, <1>3 DEF ChangesKnow, KnowsTables, ChangeAt
<1>8. QED
  BY <1>2, <1>3, <1>4, <1>6, <1>7

\* Steps of readers and of Redis.
LEMMA ReaderKeepsCacheInv ==
    ASSUME ~RedisFails, CacheInv, UNCHANGED rbacVars, TypeOK',
           \/ \E q \in Readers : (\E u \in Users : CacheMiss(q, u)) \/ ReaderStep(q) \/ ReaderAbort(q)
           \/ \E u \in Users : CacheExpire(u)
    PROVE  CacheInv'
<1> USE DEF CacheInv
<1>1. /\ ChangesKnow'
      /\ \A u : PermissionNames(u)' = PermissionNames(u) /\ Announced(u)' = Announced(u)
  BY QueriesRest
<1>2. \A u \in Users : Fresh(u) \/ cache[u].late \/ Announced(u)
  BY DEF StaleOnlyByRace, Announced
<1>3. ASSUME NEW q \in Readers, NEW u \in Users, CacheMiss(q, u)
      PROVE  StaleOnlyByRace' /\ ReadersRight'
  BY <1>1, <1>2, <1>3 DEF CacheMiss, StaleOnlyByRace, Announced, Fresh, ReadersRight, TypeOK
<1>4. ASSUME NEW q \in Readers, ReaderQuery(q)
      PROVE  StaleOnlyByRace' /\ ReadersRight'
  BY <1>1, <1>2, <1>4 DEF ReaderQuery, StaleOnlyByRace, Announced, Fresh, ReadersRight, TypeOK
<1>5. ASSUME NEW q \in Readers, ReaderSet(q)
      PROVE  StaleOnlyByRace' /\ ReadersRight'
  <2>1. ASSUME NEW u \in Users, u = reader[q].user
        PROVE  reader[q].names = PermissionNames(u) \/ reader[q].crossed \/ Announced(u)
    BY <1>5, <2>1 DEF ReaderSet, ReadersRight
  <2>2. cache' = [cache EXCEPT ![reader[q].user] = [names |-> reader[q].names, late |-> reader[q].crossed]]
    BY <1>5 DEF ReaderSet
  <2>3. ASSUME NEW u \in Users
        PROVE  Fresh(u)' \/ cache'[u].late \/ Announced(u)'
    <3>1. CASE u = reader[q].user
      <4>1. cache'[u] = [names |-> reader[q].names, late |-> reader[q].crossed]
        BY <2>2, <3>1 DEF TypeOK
      <4>2. cache'[u].names = reader[q].names /\ cache'[u].late = reader[q].crossed
        BY <4>1
      <4>3. QED
        BY <1>1, <2>1, <3>1, <4>2 DEF Fresh
    <3>2. CASE u # reader[q].user
      <4>1. cache'[u] = cache[u]
        BY <2>2, <3>2 DEF TypeOK
      <4>2. QED
        BY <1>1, <1>2, <4>1 DEF Fresh
    <3>3. QED
      BY <3>1, <3>2
  <2>4. ReadersRight'
    BY <1>1, <1>5 DEF ReaderSet, ReadersRight, TypeOK
  <2>5. QED
    BY <2>3, <2>4 DEF StaleOnlyByRace, Announced
<1>6. ASSUME NEW q \in Readers, ReaderAbort(q)
      PROVE  StaleOnlyByRace' /\ ReadersRight'
  BY <1>1, <1>2, <1>6 DEF ReaderAbort, StaleOnlyByRace, Announced, Fresh, ReadersRight, TypeOK
<1>7. ASSUME NEW v \in Users, CacheExpire(v)
      PROVE  StaleOnlyByRace' /\ ReadersRight'
  <2>1. \A u \in Users : cache'[u] = Empty \/ cache'[u] = cache[u]
    BY <1>7 DEF CacheExpire, TypeOK
  <2>2. ASSUME NEW u \in Users
        PROVE  Fresh(u)' \/ cache'[u].late \/ Announced(u)'
    BY <1>1, <1>2, <2>1 DEF Fresh
  <2>3. ReadersRight'
    BY <1>1, <1>7 DEF CacheExpire, ReadersRight
  <2>4. QED
    BY <2>2, <2>3 DEF StaleOnlyByRace, Announced
<1>8. QED
  BY <1>1, <1>3, <1>4, <1>5, <1>6, <1>7 DEF ReaderStep

\* The end of a change: what it announced is dropped, and whoever still carries
\* it is marked.
LEMMA InvalidateKeepsCacheInv ==
    ASSUME OneChange, ~RedisFails, CacheInv, TypeOK', NEW a \in Changes, Invalidate(a)
    PROVE  CacheInv'
<1> USE DEF CacheInv
<1>1. ChangesKnow'
  BY FinishKnows DEF Invalidate, TypeOK
<1>2. \A u : PermissionNames(u)' = PermissionNames(u)
  BY DEF Invalidate, tableVars, PermissionNames
<1>3. \A u : Announced(u) => u \in change[a].affected
  BY DEF Announced, WillInvalidate, Invalidate, Invalidating, ChangeAt, OneChange
<1>4. cache' = [u \in Users |-> IF u \in change[a].affected THEN Empty ELSE cache[u]]
  BY DEF Invalidate
<1>5. reader' = [q \in Readers |->
                   IF reader[q] # Idle /\ reader[q].pc = "set" /\ reader[q].user \in change[a].affected
                   THEN [reader[q] EXCEPT !.crossed = TRUE] ELSE reader[q]]
  BY DEF Invalidate
<1>6. ASSUME NEW u \in Users
      PROVE  Fresh(u)' \/ cache'[u].late
  BY <1>2, <1>3, <1>4 DEF StaleOnlyByRace, Announced, Fresh
<1>7. ASSUME NEW q \in Readers, reader'[q] # Idle, reader'[q].pc = "set",
             NEW u \in Users, reader'[q].user = u
      PROVE  reader'[q].names = PermissionNames(u) \/ reader'[q].crossed
  <2>1. CASE reader[q] # Idle /\ reader[q].pc = "set" /\ reader[q].user \in change[a].affected
    <3>1. reader[q] \in [pc: {"set"}, user: Users, names: SUBSET Names, crossed: BOOLEAN]
      BY <2>1 DEF TypeOK, Reader
    <3>2. [reader[q] EXCEPT !.crossed = TRUE].crossed
      BY <3>1
    <3>3. QED
      BY <1>5, <2>1, <3>2
  <2>2. CASE reader'[q] = reader[q] /\ ~Announced(reader[q].user)
    BY <1>7, <2>2 DEF ReadersRight
  <2>3. QED
    BY <1>3, <1>5, <1>7, <2>1, <2>2
<1>8. StaleOnlyByRace'
  BY <1>6 DEF StaleOnlyByRace
<1>9. ReadersRight'
  BY <1>2, <1>7 DEF ReadersRight
<1>10. QED
  BY <1>1, <1>8, <1>9

\* Every step of PermissionCache.
LEMMA CacheInvStep ==
    ASSUME OneChange, ~MayAbort, ~RedisFails, CacheInv, [Next]_vars
    PROVE  CacheInv'
<1>1. TypeOK'
  BY TypeStep DEF CacheInv
<1>2. CASE RbacStep /\ UNCHANGED cacheVars
  BY <1>2, RbacStepKeepsCacheInv
<1>3. ASSUME NEW a \in Changes, Invalidate(a)
      PROVE  CacheInv'
  BY <1>1, <1>3, InvalidateKeepsCacheInv
<1>4. CASE \/ \E q \in Readers : (\E u \in Users : CacheMiss(q, u)) \/ ReaderStep(q) \/ ReaderAbort(q)
           \/ \E u \in Users : CacheExpire(u)
  <2>1. UNCHANGED rbacVars
    BY <1>4 DEF CacheMiss, ReaderStep, ReaderQuery, ReaderSet, ReaderAbort, CacheExpire
  <2>2. QED
    BY <1>1, <1>4, <2>1, ReaderKeepsCacheInv
<1>5. CASE UNCHANGED vars
  <2>1. UNCHANGED rbacVars /\ UNCHANGED <<cache, reader>>
    BY <1>5 DEF vars, cacheVars
  <2>2. StaleOnlyByRace' /\ ReadersRight'
    BY <2>1, QueriesRest DEF CacheInv, StaleOnlyByRace, Fresh, ReadersRight, Announced
  <2>3. QED
    BY <1>1, <2>1, <2>2, QueriesRest DEF CacheInv
<1>6. QED
  BY <1>2, <1>3, <1>4, <1>5 DEF Next

\* Nothing is cached and no change in flight at the start.
LEMMA CacheInvInit == ASSUME Init PROVE CacheInv
BY TypeInit DEF Init, RbacInit, CacheInv, ChangesKnow, KnowsTables, ChangeAt, StaleOnlyByRace, Fresh, ReadersRight

\* For any number of readers, users, roles and permissions: where one change
\* runs at a time, nothing dies and Redis answers, an entry is out of date only
\* until the change that made it so drops it, or because a reader that queried
\* the tables before set it after.
THEOREM StaleNeedsRace ==
    ASSUME OneChange, ~MayAbort, ~RedisFails
    PROVE  Spec => []StaleOnlyByRace
<1>1. CacheInv => StaleOnlyByRace
  BY DEF CacheInv
<1>2. QED
  BY <1>1, CacheInvInit, CacheInvStep, PTL DEF Spec

\* With one change at a time what it knows is true, though it may die midway,
\* as may readers, and though Redis may fail.
LEMMA KnowsCacheStep ==
    ASSUME OneChange, TypeOK, ChangesKnow, [Next]_vars
    PROVE  ChangesKnow'
<1>1. CASE RbacStep
  BY <1>1, KnowsStep DEF TypeOK
<1>2. ASSUME NEW a \in Changes, Invalidate(a)
      PROVE  ChangesKnow'
  BY <1>2, FinishKnows DEF Invalidate, TypeOK
<1>3. CASE UNCHANGED rbacVars
  BY <1>3, QueriesRest
<1>4. QED
  BY <1>1, <1>2, <1>3 DEF Next, vars, CacheMiss, ReaderStep, ReaderQuery, ReaderSet, ReaderAbort, CacheExpire

\* For any tables: where one change runs at a time, the transaction of
\* syncPermissions that commits leaves the role with the permissions it was sent
\* and no other, whatever fails before, beside or after it.
THEOREM SyncReplacesTheList ==
    ASSUME OneChange
    PROVE  Spec => SyncReplacesAll
<1> DEFINE Replaces ==
       \A a \in Changes :
          ChangeAt(a, "sync", "write") /\ ChangeAt(a, "sync", "list")'
             => {p \in Permissions : <<change[a].role, p>> \in rolePermissions'} = change[a].wanted
<1>1. Init => ChangesKnow
  BY DEF Init, RbacInit, ChangesKnow, KnowsTables, ChangeAt
<1>2. TypeOK /\ ChangesKnow /\ [Next]_vars => [Replaces]_rbacVars
  <2> SUFFICES ASSUME TypeOK, ChangesKnow, [Next]_vars, ~UNCHANGED rbacVars, NEW a \in Changes,
                      ChangeAt(a, "sync", "write"), ChangeAt(a, "sync", "list")'
               PROVE  {p \in Permissions : <<change[a].role, p>> \in rolePermissions'} = change[a].wanted
    OBVIOUS
  <2>1. CASE RbacStep
    BY <2>1, SyncReplaces DEF TypeOK
  <2>2. ~\E b \in Changes : Invalidate(b)
    BY DEF Invalidate, Invalidating, OneChange, ChangeAt
  <2>3. QED
    BY <2>1, <2>2 DEF Next, vars, CacheMiss, ReaderStep, ReaderQuery, ReaderSet, ReaderAbort, CacheExpire
<1>3. TypeOK /\ ChangesKnow /\ [Next]_vars => ChangesKnow'
  BY KnowsCacheStep
<1>4. QED
  BY <1>1, <1>2, <1>3, GrantsTypeCorrect, PTL DEF Spec, SyncReplacesAll

-----------------------------------------------------------------------------
(***************************************************************************)
(* Guards: requests on their way through the guards keep to the cache's    *)
(* specification, so what holds of the cache holds beside them.            *)
(***************************************************************************)

\* The type of the slots for calls.
CallsOK == call \in [Readers -> {Idle} \cup Call]

\* What admitted changes do to the calls under way: each sees the answer of the
\* tables after the step, and stays where it is.
LEMMA CallsSee ==
    ASSUME NEW c \in [Readers -> {Idle} \cup Call], Calls(c)
    PROVE  /\ call' \in [Readers -> {Idle} \cup Call]
           /\ \A q \in Readers :
                 /\ call'[q] = Idle <=> c[q] = Idle
                 /\ c[q] # Idle => /\ call'[q].pc = c[q].pc
                                   /\ call'[q].user = c[q].user
                                   /\ call'[q].need = c[q].need
<1>1. ASSUME NEW r \in Readers, c[r] # Idle, c[r].pc # "handler", NEW h, h \in BOOLEAN
      PROVE  /\ [c[r] EXCEPT !.held = @ \cup {h}] \in Call
             /\ [c[r] EXCEPT !.held = @ \cup {h}].pc = c[r].pc
             /\ [c[r] EXCEPT !.held = @ \cup {h}].user = c[r].user
             /\ [c[r] EXCEPT !.held = @ \cup {h}].need = c[r].need
  BY <1>1 DEF Call
<1>2. ASSUME NEW r \in Readers, c[r] # Idle, c[r].pc # "handler"
      PROVE  \E h \in BOOLEAN : call'[r] = [c[r] EXCEPT !.held = @ \cup {h}]
  <2>1. call'[r] = [c[r] EXCEPT !.held = @ \cup {(c[r].need \in Granted'[c[r].user])}]
    BY <1>2, Zenon DEF Calls
  <2>2. (c[r].need \in Granted'[c[r].user]) \in BOOLEAN
    OBVIOUS
  <2>3. QED
    BY <2>1, <2>2, Zenon
<1>3. ASSUME NEW r \in Readers, ~(c[r] # Idle /\ c[r].pc # "handler")
      PROVE  call'[r] = c[r]
  BY <1>3 DEF Calls
<1>4. ASSUME NEW r \in Readers
      PROVE  call'[r] \in {Idle} \cup Call
  <2>1. CASE c[r] # Idle /\ c[r].pc # "handler"
    <3>1. PICK h \in BOOLEAN : call'[r] = [c[r] EXCEPT !.held = @ \cup {h}]
      BY <1>2, <2>1, Zenon
    <3>2. QED
      BY <1>1, <2>1, <3>1, Zenon
  <2>2. CASE ~(c[r] # Idle /\ c[r].pc # "handler")
    BY <1>3, <2>2
  <2>3. QED
    BY <2>1, <2>2
<1>5. call' \in [Readers -> {Idle} \cup Call]
  <2> DEFINE after(r) == IF c[r] = Idle \/ c[r].pc = "handler" THEN c[r]
                         ELSE [c[r] EXCEPT !.held = @ \cup {(c[r].need \in Granted'[c[r].user])}]
  <2>1. call' = [r \in Readers |-> after(r)]
    BY Zenon DEF Calls
  <2> HIDE DEF after
  <2>2. QED
    BY <1>4, <2>1
<1>6. ASSUME NEW q \in Readers
      PROVE  /\ call'[q] = Idle <=> c[q] = Idle
             /\ c[q] # Idle => /\ call'[q].pc = c[q].pc
                               /\ call'[q].user = c[q].user
                               /\ call'[q].need = c[q].need
  <2>1. CASE c[q] # Idle /\ c[q].pc # "handler"
    <3>1. PICK h \in BOOLEAN : call'[q] = [c[q] EXCEPT !.held = @ \cup {h}]
      BY <1>2, <2>1, Zenon
    <3>2. QED
      BY <1>1, <2>1, <3>1, EmptyCallAssumption, Zenon
  <2>2. CASE ~(c[q] # Idle /\ c[q].pc # "handler")
    BY <1>3, <2>2
  <2>3. QED
    BY <2>1, <2>2
<1>7. QED
  BY <1>5, <1>6

\* The slot of a call and that of its read of the cache go together.
ReadersServe ==
    \A q \in Readers : reader[q] # Idle => CallAt(q, "authorize") /\ reader[q].user = call[q].user

\* Every step of Guards is one of PermissionCache or none.
LEMMA GuardsStepIsCacheStep == ASSUME CallsOK, [GuardsNext]_gvars PROVE [Next]_vars
<1>1. ASSUME NEW q \in Readers, CallStep(q)
      PROVE  [Next]_vars
  <2>1. ASSUME Miss(q)
        PROVE  Next
    <3>1. call[q].user \in Users
      BY <2>1 DEF Miss, CallAt, CallsOK, Call
    <3>2. QED
      BY <2>1, <3>1 DEF Miss, Next
  <2>2. CASE Hit(q) \/ HandleOther(q)
    BY <2>2 DEF Hit, HandleOther
  <2>3. CASE Query(q) \/ SetAndDecide(q) \/ QueryFails(q)
    BY <2>3 DEF Query, SetAndDecide, QueryFails, Next, ReaderStep
  <2>4. CASE HandleChange(q)
    BY <2>4 DEF HandleChange, Next, RbacStep
  <2>5. QED
    BY <1>1, <2>1, <2>2, <2>3, <2>4 DEF CallStep
<1>2. ASSUME NEW q \in Readers, NEW u \in Users, NEW n \in Names, Authenticate(q, u, n)
      PROVE  [Next]_vars
  BY <1>2 DEF Authenticate
<1>3. ASSUME NEW a \in Changes, ChangeGoesOn(a) \/ Invalidate(a)
      PROVE  Next
  BY <1>3 DEF ChangeGoesOn, Next, RbacStep
<1>4. ASSUME NEW u \in Users, CacheExpire(u)
      PROVE  Next
  BY <1>4 DEF Next
<1>5. CASE UNCHANGED gvars
  BY <1>5 DEF gvars
<1>6. QED
  BY <1>1, <1>2, <1>3, <1>4, <1>5 DEF GuardsNext

\* The calls have their types after every step, and a read its call.
LEMMA GuardsTypeStep == ASSUME GuardsTypeOK, [GuardsNext]_gvars PROVE GuardsTypeOK'
<1>1. CallsOK /\ ReadersServe /\ TypeOK
  BY DEF GuardsTypeOK, CallsOK, ReadersServe
<1>2. TypeOK'
  BY <1>1, GuardsStepIsCacheStep, TypeStep
<1>3. ASSUME NEW q \in Readers, NEW names, CallAt(q, "authorize"), Decide(q, names)
      PROVE  CallsOK' /\ \A r \in Readers \ {q} : call'[r] = call[r]
  <2>1. [call[q] EXCEPT !.pc = "handler", !.held = {}] \in Call
    BY <1>1, <1>3 DEF CallsOK, CallAt, Call
  <2>2. \/ call' = [call EXCEPT ![q] = [call[q] EXCEPT !.pc = "handler", !.held = {}]]
        \/ call' = [call EXCEPT ![q] = Idle]
    BY <1>1, <1>3 DEF Decide, Leave, CallsOK
  <2>3. QED
    BY <1>1, <2>1, <2>2 DEF CallsOK
<1>4. ASSUME NEW q \in Readers, call' = Leave(q)
      PROVE  CallsOK' /\ \A r \in Readers \ {q} : call'[r] = call[r]
  BY <1>1, <1>4 DEF Leave, CallsOK
<1>5. ASSUME NEW c \in [Readers -> {Idle} \cup Call], Calls(c), UNCHANGED reader,
             \A q \in Readers : c[q] = call[q] \/ CallAt(q, "handler")
      PROVE  CallsOK' /\ ReadersServe'
  <2>1. CallsOK'
    BY <1>5, CallsSee DEF CallsOK
  <2>2. ASSUME NEW q \in Readers, reader[q] # Idle
        PROVE  /\ call'[q] # Idle /\ call'[q].pc = "authorize"
               /\ reader[q].user = call'[q].user
    BY <1>1, <1>5, <2>2, CallsSee DEF ReadersServe, CallAt
  <2>3. QED
    BY <1>5, <2>1, <2>2 DEF ReadersServe, CallAt
<1>6. ASSUME NEW q \in Readers, CallStep(q)
      PROVE  CallsOK' /\ ReadersServe'
  <2>1. CASE Hit(q)
    BY <1>1, <1>3, <2>1 DEF Hit, ReadersServe, CallAt, vars, cacheVars
  <2>2. CASE Miss(q)
    BY <1>1, <2>2 DEF Miss, CacheMiss, ReadersServe, CallsOK, CallAt, TypeOK
  <2>3. CASE Query(q)
    BY <1>1, <2>3 DEF Query, ReaderQuery, ReadersServe, CallsOK, CallAt, TypeOK
  <2>4. CASE SetAndDecide(q)
    <3>1. CallAt(q, "authorize")
      BY <1>1, <2>4 DEF SetAndDecide, ReaderSet, ReadersServe
    <3>2. QED
      BY <1>1, <1>3, <2>4, <3>1 DEF SetAndDecide, ReaderSet, ReadersServe, CallAt, TypeOK
  <2>5. CASE QueryFails(q)
    BY <1>1, <1>4, <2>5 DEF QueryFails, ReaderAbort, ReadersServe, CallAt, TypeOK
  <2>6. CASE HandleChange(q)
    <3>1. Leave(q) \in [Readers -> {Idle} \cup Call]
      BY <1>1 DEF Leave, CallsOK
    <3>2. \A r \in Readers : Leave(q)[r] = call[r] \/ CallAt(r, "handler")
      BY <1>1, <2>6 DEF HandleChange, Leave, CallsOK
    <3>3. QED
      BY <1>5, <2>6, <3>1, <3>2 DEF HandleChange, cacheVars
  <2>7. CASE HandleOther(q)
    BY <1>1, <1>4, <2>7 DEF HandleOther, ReadersServe, CallAt, vars, cacheVars
  <2>8. QED
    BY <1>6, <2>1, <2>2, <2>3, <2>4, <2>5, <2>6, <2>7 DEF CallStep
<1>7. ASSUME NEW q \in Readers, NEW u \in Users, NEW n \in Names, Authenticate(q, u, n)
      PROVE  CallsOK' /\ ReadersServe'
  <2> DEFINE c == [pc |-> "authorize", user |-> u, need |-> n, held |-> {(n \in Granted[u])}]
  <2>1. (n \in Granted[u]) \in BOOLEAN
    OBVIOUS
  <2>2. {(n \in Granted[u])} \in SUBSET BOOLEAN
    BY <2>1, Zenon
  <2>3. c \in Call
    BY <2>2 DEF Call
  <2>4. call' = [call EXCEPT ![q] = c] /\ UNCHANGED reader /\ call[q] = Idle
    BY <1>7, Zenon DEF Authenticate, vars, cacheVars
  <2> HIDE DEF c
  <2>5. QED
    BY <1>1, <2>3, <2>4 DEF CallsOK, ReadersServe, CallAt
<1>8. ASSUME NEW a \in Changes, ChangeGoesOn(a)
      PROVE  CallsOK' /\ ReadersServe'
  BY <1>1, <1>5, <1>8 DEF ChangeGoesOn, cacheVars, CallsOK
<1>9. ASSUME NEW a \in Changes, Invalidate(a), UNCHANGED call
      PROVE  CallsOK' /\ ReadersServe'
  <2>1. \A q \in Readers : reader'[q] = reader[q] \/ (reader[q] # Idle /\ reader'[q].user = reader[q].user)
    BY <1>1, <1>9 DEF Invalidate, cacheVars, TypeOK, Reader
  <2>2. QED
    BY <1>1, <1>9, <2>1 DEF CallsOK, ReadersServe, CallAt
<1>10. ASSUME NEW u \in Users, CacheExpire(u), UNCHANGED call
      PROVE  CallsOK' /\ ReadersServe'
  BY <1>1, <1>10 DEF CacheExpire, CallsOK, ReadersServe, CallAt
<1>11. ASSUME UNCHANGED gvars
       PROVE  CallsOK' /\ ReadersServe'
  <2>1. UNCHANGED <<reader, call>>
    BY <1>11 DEF gvars, vars, cacheVars
  <2>2. QED
    BY <1>1, <2>1 DEF CallsOK, ReadersServe, CallAt
<1>12. CallsOK' /\ ReadersServe'
  BY <1>6, <1>7, <1>8, <1>9, <1>10, <1>11 DEF GuardsNext
<1>13. QED
  BY <1>2, <1>12 DEF GuardsTypeOK, CallsOK, ReadersServe

\* The empty tables of calls.
LEMMA GuardsTypeInit == ASSUME GuardsInit PROVE GuardsTypeOK
BY TypeInit DEF GuardsInit, GuardsTypeOK, Init

\* Whatever the tables, the cache and the calls do: every variable of Guards
\* keeps its type, and a request reads names only before its verdict and for
\* its own user.
THEOREM GuardsTypeCorrect == GuardsSpec => []GuardsTypeOK
BY GuardsTypeInit, GuardsTypeStep, PTL DEF GuardsSpec

\* The requests of Guards, whose changes come from admitted calls only, do
\* nothing to the tables and the cache that PermissionCache does not allow.
THEOREM GuardsImplementCache == GuardsSpec => Spec
<1>1. GuardsInit => Init
  BY DEF GuardsInit
<1>2. GuardsTypeOK /\ [GuardsNext]_gvars => [Next]_vars
  BY GuardsStepIsCacheStep DEF GuardsTypeOK, CallsOK
<1>3. QED
  BY <1>1, <1>2, GuardsTypeCorrect, PTL DEF GuardsSpec, Spec

\* What holds of the cache holds beside the guards: an entry is out of date only
\* until the change that made it so drops it, or because of the race.
THEOREM GuardsStaleNeedsRace ==
    ASSUME OneChange, ~MayAbort, ~RedisFails
    PROVE  GuardsSpec => []StaleOnlyByRace
BY GuardsImplementCache, StaleNeedsRace, PTL

\* With requests on their way through the guards as well.
THEOREM GuardsSyncReplaces ==
    ASSUME OneChange
    PROVE  GuardsSpec => SyncReplacesAll
BY GuardsImplementCache, SyncReplacesTheList

-----------------------------------------------------------------------------
(***************************************************************************)
(* A verdict is an answer the tables gave.  What a call has seen since it  *)
(* was authenticated includes the tables' answer now and, once its names   *)
(* are read, the answer they give.                                         *)
(***************************************************************************)

\* This answer is among those the tables gave during the call.
Saw(q, yes) == (yes => TRUE \in call[q].held) /\ (~yes => FALSE \in call[q].held)

\* The inductive part of VerdictsWereTrue.
Witnessed ==
    \A q \in Readers, u \in Users, n \in Names :
        CallAt(q, "authorize") /\ call[q].user = u /\ call[q].need = n =>
            /\ Saw(q, n \in PermissionNames(u))
            /\ reader[q] # Idle /\ reader[q].pc = "set" => Saw(q, n \in reader[q].names)

\* A call that stays where it is sees what the tables hold after the step.
LEMMA CallsWitness ==
    ASSUME NEW c \in [Readers -> {Idle} \cup Call], Calls(c), NEW q \in Readers, NEW u \in Users,
           NEW n \in Names, c[q] # Idle, c[q].pc = "authorize", c[q].user = u, c[q].need = n
    PROVE  /\ Saw(q, n \in PermissionNames(u))'
           /\ c[q].held \subseteq call'[q].held
<1>1. Granted'[u] = PermissionNames(u)'
  BY DEF Granted
<1>2. call'[q] = [c[q] EXCEPT !.held = @ \cup {(c[q].need \in Granted'[c[q].user])}]
  BY Zenon DEF Calls
<1>3. \E h \in BOOLEAN : /\ h = (c[q].need \in Granted'[c[q].user])
                         /\ call'[q] = [c[q] EXCEPT !.held = @ \cup {h}]
  <2>1. (c[q].need \in Granted'[c[q].user]) \in BOOLEAN
    OBVIOUS
  <2>2. QED
    BY <1>2, <2>1, Zenon
<1>4. PICK h \in BOOLEAN : /\ h = (c[q].need \in Granted'[c[q].user])
                          /\ call'[q] = [c[q] EXCEPT !.held = @ \cup {h}]
  BY <1>3
<1>5. h = (n \in PermissionNames(u)')
  BY <1>1, <1>4, Zenon
<1>6. call'[q].held = c[q].held \cup {h}
  BY <1>4 DEF Call
<1>7. CASE n \in PermissionNames(u)'
  <2>1. h = TRUE
    BY <1>5, <1>7, Zenon
  <2>2. QED
    BY <1>6, <1>7, <2>1, Zenon DEF Saw
<1>8. CASE ~(n \in PermissionNames(u)')
  <2>1. h = FALSE
    BY <1>5, <1>8, Zenon
  <2>2. QED
    BY <1>6, <1>8, <2>1, Zenon DEF Saw
<1>9. QED
  BY <1>7, <1>8

\* Steps that change neither the tables nor a call that stays.
LEMMA RestWitness ==
    ASSUME Witnessed, \A v : PermissionNames(v)' = PermissionNames(v),
           \A q \in Readers : CallAt(q, "authorize")' => call'[q] = call[q],
           \A q \in Readers : reader'[q] # Idle /\ reader'[q].pc = "set" =>
              reader[q] # Idle /\ reader[q].pc = "set" /\ reader'[q].names = reader[q].names
    PROVE  Witnessed'
<1> SUFFICES ASSUME NEW q \in Readers, NEW u \in Users, NEW n \in Names,
                    CallAt(q, "authorize")', call'[q].user = u, call'[q].need = n
             PROVE  /\ Saw(q, n \in PermissionNames(u))'
                    /\ reader'[q] # Idle /\ reader'[q].pc = "set" => Saw(q, n \in reader[q].names)'
  BY DEF Witnessed
<1>1. call'[q] = call[q] /\ CallAt(q, "authorize")
  BY DEF CallAt
<1>2. Saw(q, n \in PermissionNames(u))
  BY <1>1 DEF Witnessed
<1>3. Saw(q, n \in PermissionNames(u))'
  BY <1>1, <1>2 DEF Saw
<1>4. ASSUME reader'[q] # Idle, reader'[q].pc = "set"
      PROVE  Saw(q, n \in reader[q].names)'
  <2>1. Saw(q, n \in reader[q].names) /\ reader'[q].names = reader[q].names
    BY <1>1, <1>4 DEF Witnessed
  <2>2. QED
    BY <1>1, <2>1 DEF Saw
<1>5. QED
  BY <1>3, <1>4

\* Changes, which the calls under way see.
LEMMA ChangeWitness ==
    ASSUME Witnessed, UNCHANGED reader,
           NEW c \in [Readers -> {Idle} \cup Call], Calls(c),
           \A q \in Readers : c[q] = call[q] \/ c[q] = Idle
    PROVE  Witnessed'
<1> SUFFICES ASSUME NEW q \in Readers, NEW u \in Users, NEW n \in Names,
                    CallAt(q, "authorize")', call'[q].user = u, call'[q].need = n
             PROVE  /\ Saw(q, n \in PermissionNames(u))'
                    /\ reader[q] # Idle /\ reader[q].pc = "set" => Saw(q, n \in reader[q].names)'
  BY DEF Witnessed
<1>1. c[q] # Idle /\ c[q].pc = "authorize" /\ c[q].user = u /\ c[q].need = n /\ c[q] = call[q]
  BY CallsSee DEF CallAt
<1>2. Saw(q, n \in PermissionNames(u))' /\ call[q].held \subseteq call'[q].held
  BY <1>1, CallsWitness
<1>3. ASSUME reader[q] # Idle, reader[q].pc = "set"
      PROVE  Saw(q, n \in reader[q].names)'
  <2>1. Saw(q, n \in reader[q].names)
    BY <1>1, <1>3 DEF Witnessed, CallAt
  <2>2. QED
    BY <1>2, <2>1 DEF Saw
<1>4. QED
  BY <1>2, <1>3

\* The names are read: they give the answer of the tables.
LEMMA QueryWitness ==
    ASSUME TypeOK, ReadersServe, Witnessed, NEW q \in Readers, Query(q)
    PROVE  Witnessed'
<1>1. UNCHANGED rbacVars /\ UNCHANGED call
  BY DEF Query, ReaderQuery
<1>2. /\ reader'[q].names = PermissionNames(reader[q].user)
      /\ reader[q] # Idle
      /\ \A r \in Readers \ {q} : reader'[r] = reader[r]
  BY DEF Query, ReaderQuery, TypeOK
<1> SUFFICES ASSUME NEW r \in Readers, NEW u \in Users, NEW n \in Names,
                    CallAt(r, "authorize")', call'[r].user = u, call'[r].need = n
             PROVE  /\ Saw(r, n \in PermissionNames(u))'
                    /\ reader'[r] # Idle /\ reader'[r].pc = "set" => Saw(r, n \in reader[r].names)'
  BY DEF Witnessed
<1>3. CallAt(r, "authorize") /\ call[r].user = u /\ call[r].need = n
  BY <1>1 DEF CallAt
<1>4. Saw(r, n \in PermissionNames(u))
  BY <1>3 DEF Witnessed
<1>5. PermissionNames(u)' = PermissionNames(u)
  BY <1>1, QueriesRest
<1>6. Saw(r, n \in PermissionNames(u))'
  BY <1>1, <1>4, <1>5 DEF Saw
<1>7. CASE r = q
  <2>1. reader'[r].names = PermissionNames(u)
    BY <1>2, <1>3, <1>7 DEF ReadersServe
  <2>2. QED
    BY <1>1, <1>4, <1>6, <2>1 DEF Saw
<1>8. CASE r # q
  <2>1. ASSUME reader'[r] # Idle, reader'[r].pc = "set"
        PROVE  Saw(r, n \in reader[r].names)'
    <3>1. Saw(r, n \in reader[r].names) /\ reader'[r] = reader[r]
      BY <1>2, <1>3, <1>8, <2>1 DEF Witnessed
    <3>2. QED
      BY <1>1, <3>1 DEF Saw
  <2>2. QED
    BY <1>6, <2>1
<1>9. QED
  BY <1>7, <1>8

\* A call begins with the answer of the tables.
LEMMA AuthenticateWitness ==
    ASSUME CallsOK, ReadersServe, Witnessed,
           NEW q \in Readers, NEW v \in Users, NEW m \in Names, Authenticate(q, v, m)
    PROVE  Witnessed'
<1>1. UNCHANGED rbacVars /\ UNCHANGED reader /\ call[q] = Idle
  BY DEF Authenticate, vars, cacheVars
<1>2. (m \in Granted[v]) \in BOOLEAN
  OBVIOUS
<1>3. \E h \in BOOLEAN :
         /\ h = (m \in Granted[v])
         /\ call' = [call EXCEPT ![q] = [pc |-> "authorize", user |-> v, need |-> m, held |-> {h}]]
  <2> DEFINE begun(h) == [call EXCEPT ![q] = [pc |-> "authorize", user |-> v, need |-> m, held |-> {h}]]
  <2>1. call' = [call EXCEPT ![q] = [pc |-> "authorize", user |-> v, need |-> m,
                                    held |-> {(m \in Granted[v])}]]
    BY Zenon DEF Authenticate
  <2>2. call' = begun(m \in Granted[v])
    BY <2>1, Zenon
  <2> HIDE DEF begun
  <2>3. \E h \in BOOLEAN : h = (m \in Granted[v]) /\ call' = begun(h)
    BY <1>2, <2>2, Zenon
  <2>4. QED
    BY <2>3, Zenon DEF begun
<1>4. PICK h \in BOOLEAN :
         /\ h = (m \in Granted[v])
         /\ call' = [call EXCEPT ![q] = [pc |-> "authorize", user |-> v, need |-> m, held |-> {h}]]
  BY <1>3
<1>5. Granted[v] = PermissionNames(v)
  BY DEF Granted
<1>6. call'[q].user = v /\ call'[q].need = m /\ call'[q].held = {h}
      /\ \A r \in Readers \ {q} : call'[r] = call[r]
  BY <1>4 DEF CallsOK
<1>7. Saw(q, m \in PermissionNames(v))'
  <2>1. PermissionNames(v)' = PermissionNames(v)
    BY <1>1, QueriesRest
  <2>2. CASE m \in PermissionNames(v)
    <3>1. h = TRUE
      BY <1>4, <1>5, <2>2, Zenon
    <3>2. QED
      BY <1>6, <2>1, <2>2, <3>1, Zenon DEF Saw
  <2>3. CASE ~(m \in PermissionNames(v))
    <3>1. h = FALSE
      BY <1>4, <1>5, <2>3, Zenon
    <3>2. QED
      BY <1>6, <2>1, <2>3, <3>1, Zenon DEF Saw
  <2>4. QED
    BY <2>2, <2>3
<1> SUFFICES ASSUME NEW r \in Readers, NEW u \in Users, NEW n \in Names,
                    CallAt(r, "authorize")', call'[r].user = u, call'[r].need = n
             PROVE  /\ Saw(r, n \in PermissionNames(u))'
                    /\ reader'[r] # Idle /\ reader'[r].pc = "set" => Saw(r, n \in reader[r].names)'
  BY DEF Witnessed
<1>8. CASE r = q
  BY <1>1, <1>6, <1>7, <1>8 DEF ReadersServe, CallAt
<1>9. CASE r # q
  <2>1. call'[r] = call[r] /\ CallAt(r, "authorize") /\ call[r].user = u /\ call[r].need = n
    BY <1>6, <1>9 DEF CallAt
  <2>2. /\ Saw(r, n \in PermissionNames(u))
        /\ reader[r] # Idle /\ reader[r].pc = "set" => Saw(r, n \in reader[r].names)
    BY <2>1 DEF Witnessed
  <2>3. PermissionNames(u)' = PermissionNames(u)
    BY <1>1, QueriesRest
  <2>4. QED
    BY <1>1, <2>1, <2>2, <2>3 DEF Saw
<1>10. QED
  BY <1>8, <1>9

\* Every step of Guards, with any number of changes in flight.
LEMMA WitnessStep ==
    ASSUME GuardsTypeOK, Witnessed, [GuardsNext]_gvars
    PROVE  Witnessed'
<1>1. CallsOK /\ ReadersServe /\ TypeOK
  BY DEF GuardsTypeOK, CallsOK, ReadersServe
<1>2. ASSUME NEW q \in Readers, NEW names, Decide(q, names)
      PROVE  \A r \in Readers : CallAt(r, "authorize")' => call'[r] = call[r]
  BY <1>1, <1>2 DEF Decide, Leave, CallsOK, CallAt, Call
<1>3. ASSUME NEW q \in Readers, call' = Leave(q)
      PROVE  \A r \in Readers : CallAt(r, "authorize")' => call'[r] = call[r]
  BY <1>1, <1>3 DEF Leave, CallsOK, CallAt, Call
<1>4. ASSUME NEW q \in Readers, CallStep(q)
      PROVE  Witnessed'
  <2>1. CASE Hit(q) \/ HandleOther(q)
    <3>1. UNCHANGED rbacVars /\ UNCHANGED reader
      BY <2>1 DEF Hit, HandleOther, vars, cacheVars
    <3>2. \A r \in Readers : CallAt(r, "authorize")' => call'[r] = call[r]
      BY <1>2, <1>3, <2>1 DEF Hit, HandleOther
    <3>3. QED
      BY <3>1, <3>2, QueriesRest, RestWitness
  <2>2. CASE Miss(q)
    <3>1. /\ UNCHANGED rbacVars /\ UNCHANGED call
          /\ \A r \in Readers : reader'[r] = reader[r] \/ reader'[r].pc = "query"
      BY <1>1, <2>2 DEF Miss, CacheMiss, TypeOK
    <3>2. QED
      BY <3>1, QueriesRest, RestWitness
  <2>3. CASE Query(q)
    BY <1>1, <2>3, QueryWitness DEF GuardsTypeOK, CallsOK, ReadersServe
  <2>4. CASE SetAndDecide(q)
    <3>1. /\ UNCHANGED rbacVars
          /\ \A r \in Readers : reader'[r] = reader[r] \/ reader'[r] = Idle
      BY <1>1, <2>4 DEF SetAndDecide, ReaderSet, TypeOK
    <3>2. \A r \in Readers : CallAt(r, "authorize")' => call'[r] = call[r]
      BY <1>2, <2>4 DEF SetAndDecide
    <3>3. QED
      BY <3>1, <3>2, QueriesRest, RestWitness
  <2>5. CASE QueryFails(q)
    <3>1. /\ UNCHANGED rbacVars
          /\ \A r \in Readers : reader'[r] = reader[r] \/ reader'[r] = Idle
      BY <1>1, <2>5 DEF QueryFails, ReaderAbort, TypeOK
    <3>2. \A r \in Readers : CallAt(r, "authorize")' => call'[r] = call[r]
      BY <1>3, <2>5 DEF QueryFails
    <3>3. QED
      BY <3>1, <3>2, QueriesRest, RestWitness
  <2>6. CASE HandleChange(q)
    <3>1. Leave(q) \in [Readers -> {Idle} \cup Call] /\ \A r \in Readers : Leave(q)[r] \in {call[r], Idle}
      BY <1>1 DEF Leave, CallsOK
    <3>2. QED
      BY <2>6, <3>1, ChangeWitness DEF HandleChange, cacheVars
  <2>7. QED
    BY <1>4, <2>1, <2>2, <2>3, <2>4, <2>5, <2>6 DEF CallStep
<1>5. ASSUME NEW q \in Readers, NEW u \in Users, NEW n \in Names, Authenticate(q, u, n)
      PROVE  Witnessed'
  BY <1>1, <1>5, AuthenticateWitness
<1>6. ASSUME NEW a \in Changes, ChangeGoesOn(a)
      PROVE  Witnessed'
  BY <1>1, <1>6, ChangeWitness DEF ChangeGoesOn, CallsOK, cacheVars
<1>7. ASSUME NEW a \in Changes, Invalidate(a), UNCHANGED call
      PROVE  Witnessed'
  <2>1. \A u : PermissionNames(u)' = PermissionNames(u)
    BY <1>7 DEF Invalidate, tableVars, PermissionNames
  <2>2. \A q \in Readers : \/ reader'[q] = reader[q]
                            \/ /\ reader'[q].names = reader[q].names
                               /\ reader[q] # Idle /\ reader[q].pc = "set"
    BY <1>1, <1>7 DEF Invalidate, cacheVars, TypeOK, Reader
  <2>3. QED
    BY <1>7, <2>1, <2>2, RestWitness
<1>8. ASSUME NEW u \in Users, CacheExpire(u), UNCHANGED call
      PROVE  Witnessed'
  BY <1>8, QueriesRest, RestWitness DEF CacheExpire
<1>9. ASSUME UNCHANGED gvars
      PROVE  Witnessed'
  <2>1. UNCHANGED rbacVars /\ UNCHANGED reader /\ UNCHANGED call
    BY <1>9 DEF gvars, vars, cacheVars
  <2>2. QED
    BY <2>1, QueriesRest, RestWitness
<1>10. QED
  BY <1>4, <1>5, <1>6, <1>7, <1>8, <1>9 DEF GuardsNext

\* No call is there at the start.
LEMMA WitnessInit == ASSUME GuardsInit PROVE Witnessed
BY DEF GuardsInit, Init, Witnessed, CallAt

\* A set of answers holds this one.
LEMMA AnswerIn ==
    ASSUME NEW refused \in BOOLEAN, NEW held,
           refused => FALSE \in held, ~refused => TRUE \in held
    PROVE  (~refused) \in held
<1>1. CASE refused = TRUE
  BY <1>1, Zenon
<1>2. CASE refused = FALSE
  BY <1>2, Zenon
<1>3. QED
  BY <1>1, <1>2, Zenon

\* A verdict on a cached entry: it is what the tables say unless the entry is
\* out of date, which is late or announced.
LEMMA HitWasTrue ==
    ASSUME GuardsTypeOK, Witnessed, StaleOnlyByRace, NEW q \in Readers, Hit(q)
    PROVE  \/ /\ call'[q] = Idle => FALSE \in call[q].held
              /\ call'[q] # Idle => TRUE \in call[q].held
           \/ reader[q] = Idle /\ (cache[call[q].user].late
                                   \/ \E a \in Changes : WillInvalidate(a, call[q].user))
<1>1. call[q] \in Call /\ CallAt(q, "authorize") /\ reader[q] = Idle
  BY DEF GuardsTypeOK, Hit, CallAt
<1> DEFINE u == call[q].user
           n == call[q].need
<1>2. u \in Users /\ n \in Names
  BY <1>1 DEF Call
<1>3. CASE ~cache[u].late /\ ~\E a \in Changes : WillInvalidate(a, u)
  <2>1. cache[u].names = PermissionNames(u)
    BY <1>2, <1>3 DEF StaleOnlyByRace, Fresh, Hit
  <2>2. Saw(q, n \in cache[u].names)
    BY <1>1, <1>2, <2>1 DEF Witnessed
  <2>3. CASE n \in cache[u].names
    <3>1. call'[q] = [call[q] EXCEPT !.pc = "handler", !.held = {}]
      BY <1>1, <2>3 DEF Hit, Decide, GuardsTypeOK
    <3>2. call'[q] # Idle
      BY <1>1, <3>1, EmptyCallAssumption DEF Call
    <3>3. QED
      BY <2>2, <2>3, <3>2 DEF Saw
  <2>4. CASE n \notin cache[u].names
    BY <1>1, <2>2, <2>4 DEF Saw, Hit, Decide, Leave, GuardsTypeOK
  <2>5. QED
    BY <2>3, <2>4
<1>4. QED
  BY <1>1, <1>3

\* A verdict on names read from the tables is what they said when they were read.
LEMMA ReadWasTrue ==
    ASSUME GuardsTypeOK, Witnessed, NEW q \in Readers, SetAndDecide(q)
    PROVE  /\ call'[q] = Idle => FALSE \in call[q].held
           /\ call'[q] # Idle => TRUE \in call[q].held
<1>1. CallAt(q, "authorize") /\ call[q] \in Call /\ reader[q] # Idle /\ reader[q].pc = "set"
  BY DEF GuardsTypeOK, SetAndDecide, ReaderSet, CallAt
<1>2. Saw(q, call[q].need \in reader[q].names)
  BY <1>1 DEF Witnessed, Call
<1>3. CASE call[q].need \in reader[q].names
  <2>1. call'[q] = [call[q] EXCEPT !.pc = "handler", !.held = {}]
    BY <1>3 DEF SetAndDecide, Decide, GuardsTypeOK
  <2>2. call'[q] # Idle
    BY <1>1, <2>1, EmptyCallAssumption DEF Call
  <2>3. QED
    BY <1>2, <1>3, <2>2 DEF Saw
<1>4. CASE call[q].need \notin reader[q].names
  BY <1>2, <1>4 DEF Saw, SetAndDecide, Decide, Leave, GuardsTypeOK
<1>5. QED
  BY <1>3, <1>4

\* No other step takes a call from PermissionsGuard, but for the failing query.
LEMMA OnlyVerdictsDecide ==
    ASSUME GuardsTypeOK, [GuardsNext]_gvars, NEW q \in Readers, CallAt(q, "authorize"),
           ~Hit(q), ~SetAndDecide(q), ~QueryFails(q)
    PROVE  call'[q] # Idle /\ call'[q].pc = "authorize"
<1>1. call[q] # Idle /\ call[q].pc = "authorize" /\ CallsOK
  BY DEF CallAt, GuardsTypeOK, CallsOK
<1>2. ASSUME NEW r \in Readers, CallStep(r)
      PROVE  call'[q] # Idle /\ call'[q].pc = "authorize"
  <2>1. CASE r = q
    <3>1. Miss(q) \/ Query(q)
      BY <1>2, <2>1 DEF CallStep, HandleChange, HandleOther, CallAt
    <3>2. QED
      BY <1>1, <3>1 DEF Miss, Query
  <2>2. CASE r # q /\ HandleChange(r)
    <3>1. Leave(r) \in [Readers -> {Idle} \cup Call] /\ Leave(r)[q] = call[q]
      BY <1>1, <2>2 DEF Leave, CallsOK
    <3>2. QED
      BY <1>1, <2>2, <3>1, CallsSee DEF HandleChange
  <2>3. CASE r # q /\ ~HandleChange(r)
    BY <1>1, <1>2, <2>3
       DEF CallStep, Hit, Miss, Query, SetAndDecide, QueryFails, HandleOther, Decide, Leave, CallsOK
  <2>4. QED
    BY <2>1, <2>2, <2>3
<1>3. ASSUME NEW r \in Readers, NEW u \in Users, NEW n \in Names, Authenticate(r, u, n)
      PROVE  call'[q] # Idle /\ call'[q].pc = "authorize"
  BY <1>1, <1>3 DEF Authenticate, CallsOK
<1>4. ASSUME NEW a \in Changes, ChangeGoesOn(a)
      PROVE  call'[q] # Idle /\ call'[q].pc = "authorize"
  BY <1>1, <1>4, CallsSee DEF ChangeGoesOn, CallsOK
<1>5. ASSUME UNCHANGED call
      PROVE  call'[q] # Idle /\ call'[q].pc = "authorize"
  BY <1>1, <1>5
<1>6. QED
  BY <1>2, <1>3, <1>4, <1>5 DEF GuardsNext, gvars

\* For any number of calls, users, roles and permissions: where one change runs
\* at a time, nothing dies and Redis answers, whether PermissionsGuard admits or
\* refuses, the tables gave that answer since the user was authenticated, but
\* for the two windows of a cached entry.
THEOREM VerdictsTrue ==
    ASSUME OneChange, ~MayAbort, ~RedisFails
    PROVE  GuardsSpec => VerdictsWereTrue
<1> DEFINE Refused(q) == call'[q] = Idle /\ (reader[q] = Idle \/ reader[q].pc = "set")
           Window(q) == reader[q] = Idle /\ (\/ cache[call[q].user].late
                                             \/ \E a \in Changes : WillInvalidate(a, call[q].user))
           Verdicts ==
             \A q \in Readers :
               LET u == call[q].user
                   refused == call'[q] = Idle /\ (reader[q] = Idle \/ reader[q].pc = "set")
               IN CallAt(q, "authorize") /\ (CallAt(q, "handler")' \/ refused) =>
                     \/ (~refused) \in call[q].held
                     \/ reader[q] = Idle /\ (cache[u].late \/ \E a \in Changes : WillInvalidate(a, u))
<1>1. GuardsInit => Witnessed
  BY WitnessInit
<1>2. GuardsTypeOK /\ Witnessed /\ [GuardsNext]_gvars => Witnessed'
  BY WitnessStep
<1>3. GuardsTypeOK /\ Witnessed /\ StaleOnlyByRace /\ [GuardsNext]_gvars
         => [Verdicts]_gvars
  <2> SUFFICES ASSUME GuardsTypeOK, Witnessed, StaleOnlyByRace, [GuardsNext]_gvars,
                      NEW q \in Readers, CallAt(q, "authorize"), CallAt(q, "handler")' \/ Refused(q)
               PROVE  (~Refused(q)) \in call[q].held \/ Window(q)
    OBVIOUS
  <2>1. Refused(q) \in BOOLEAN
    OBVIOUS
  <2>2. CASE Hit(q) \/ SetAndDecide(q)
    <3>1. reader[q] = Idle \/ reader[q].pc = "set"
      BY <2>2 DEF Hit, SetAndDecide, ReaderSet
    <3>2. \/ /\ Refused(q) => FALSE \in call[q].held
             /\ ~Refused(q) => TRUE \in call[q].held
          \/ Window(q)
      BY <2>2, <3>1, HitWasTrue, ReadWasTrue
    <3> HIDE DEF Refused, Window
    <3>3. QED
      BY <2>1, <3>2, AnswerIn
  <2>3. ~QueryFails(q)
    BY DEF QueryFails, Leave, CallAt, GuardsTypeOK
  <2>4. CASE ~Hit(q) /\ ~SetAndDecide(q)
    <3>1. call'[q] # Idle /\ call'[q].pc = "authorize"
      BY <2>3, <2>4, OnlyVerdictsDecide
    <3>2. QED
      BY <3>1 DEF CallAt
  <2>5. QED
    BY <2>2, <2>4
<1>4. QED
  BY <1>1, <1>2, <1>3, GuardsTypeCorrect, GuardsStaleNeedsRace, PTL DEF GuardsSpec, VerdictsWereTrue

-----------------------------------------------------------------------------
(***************************************************************************)
(* Seed: the script beside the application, for any baseline, any number   *)
(* of overlapping runs, and with anything dying or failing.                *)
(***************************************************************************)

\* The type of the slots for runs of the script.
RunsOK == seeding \in [Seeders -> {Idle} \cup SeedRun]

\* A run assigns the role only if there is a user to assign it to.
AssignsToUser == \A s \in Seeders : SeedAt(s, "assign") => SeedAdmin # NoRow

\* The position in the baseline.
LEMMA BaselineIndex ==
    /\ Len(Baseline) \in Nat \ {0}
    /\ DOMAIN Baseline = 1..Len(Baseline)
    /\ \A i \in 1..Len(Baseline) : Baseline[i] \in Names
BY SeedAssumption, EmptySeq

\* A run goes on as a record of its kind, or ends.
LEMMA RunReplaced ==
    ASSUME RunsOK, NEW s \in Seeders, NEW c \in {Idle} \cup SeedRun, seeding' = [seeding EXCEPT ![s] = c]
    PROVE  RunsOK'
BY DEF RunsOK

\* The next statement of a run.
LEMMA RunGoesOn ==
    ASSUME RunsOK, NEW s \in Seeders, seeding[s] # Idle,
           NEW pc \in {"permissions", "role", "find", "list", "grant", "user", "assign", "exit"},
           SeedGoto(s, pc)
    PROVE  RunsOK' /\ seeding' = [seeding EXCEPT ![s] = [seeding[s] EXCEPT !.pc = pc]]
BY DEF RunsOK, SeedGoto, SeedRun

\* Each statement of the script leaves the tables with their keys.
LEMMA SeedStepTables ==
    ASSUME SeedTypeOK, AssignsToUser, NEW s \in Seeders, SeedStep(s)
    PROVE  TypeOK' /\ superadmin' \in roles' \cup {NoRow}
<1>1. TablesOK /\ change \in [Changes -> ChangeStates] /\ TypeOK /\ superadmin \in roles \cup {NoRow} /\ RunsOK
  BY RbacTypeParts DEF SeedTypeOK, TypeOK, RunsOK
<1>2. ASSUME TablesOK', UNCHANGED change, UNCHANGED cacheVars
      PROVE  TypeOK'
  BY <1>1, <1>2, RbacTypeParts DEF TypeOK, cacheVars
<1>3. CASE UNCHANGED <<vars, superadmin>>
  <2>1. TypeOK'
    BY <1>1, <1>2, <1>3, TablesRest DEF vars, rbacVars
  <2>2. QED
    BY <1>1, <1>3, <2>1 DEF vars, rbacVars, tableVars
<1>4. CASE SeedPermission(s)
  <2> DEFINE name == Baseline[seeding[s].next]
  <2>1. name \in Names
    BY <1>1, <1>4, BaselineIndex DEF SeedPermission, SeedAt, RunsOK, SeedRun
  <2>2. CASE UNCHANGED nameOf
    BY <1>1, <1>2, <1>4, <2>2, TablesRest DEF SeedPermission, tableVars
  <2>3. ASSUME \A p \in PermissionRows : nameOf[p] # name,
               NEW p \in Permissions \ PermissionRows, nameOf' = [nameOf EXCEPT ![p] = name]
        PROVE  TablesOK'
    <3>1. ~NameTaken(name, p)
      BY <2>1, <2>3, RbacAssumption DEF NameTaken, PermissionRows
    <3>2. QED
      BY <1>1, <1>4, <2>1, <2>3, <3>1, TablesNamed DEF SeedPermission
  <2>4. QED
    BY <1>1, <1>2, <1>4, <2>2, <2>3 DEF SeedPermission
<1>5. CASE SeedRole(s)
  <2>1. TablesOK'
    BY <1>1, <1>5, TablesRoleAdded, TablesRest DEF SeedRole, tableVars
  <2>2. QED
    BY <1>1, <1>2, <1>5, <2>1 DEF SeedRole
<1>6. CASE SeedGrant(s)
  <2>1. UNCHANGED <<roles, nameOf, userRoles, retired, change, cacheVars, superadmin>>
    BY <1>6 DEF SeedGrant
  <2>2. ASSUME NEW p \in PermissionRows, seeding[s].role \in roles,
               rolePermissions' = rolePermissions \cup {<<seeding[s].role, p>>}
        PROVE  TablesOK'
    BY <1>1, <2>1, <2>2 DEF TablesOK, PermissionRows, NameTaken
  <2>3. ASSUME UNCHANGED rolePermissions
        PROVE  TablesOK'
    BY <1>1, <2>1, <2>3, TablesRest DEF tableVars
  <2>4. TablesOK'
    BY <1>6, <2>2, <2>3 DEF SeedGrant
  <2>5. QED
    BY <1>1, <1>2, <2>1, <2>4
<1>7. CASE SeedAssign(s)
  <2>1. UNCHANGED <<roles, nameOf, rolePermissions, retired, change, cacheVars, superadmin>>
    BY <1>7 DEF SeedAssign
  <2>2. ASSUME UNCHANGED userRoles
        PROVE  TablesOK'
    BY <1>1, <2>1, <2>2, TablesRest DEF tableVars
  <2>3. ASSUME seeding[s].role \in roles, userRoles' = userRoles \cup {<<SeedAdmin, seeding[s].role>>}
        PROVE  TablesOK'
    <3>1. SeedAdmin \in Users
      BY <1>7, SeedAssumption DEF SeedAssign, AssignsToUser
    <3>2. QED
      BY <1>1, <2>1, <2>3, <3>1, TablesAssigned
  <2>4. TablesOK'
    BY <1>7, <2>2, <2>3 DEF SeedAssign
  <2>5. QED
    BY <1>1, <1>2, <2>1, <2>4
<1>8. QED
  BY <1>3, <1>4, <1>5, <1>6, <1>7
     DEF SeedStep, SeedStart, SeedFind, SeedList, SeedUser, SeedExit, SeedAbort

\* Each statement leaves the runs as records of their kind.
LEMMA SeedStepRuns ==
    ASSUME SeedTypeOK, AssignsToUser, NEW s \in Seeders, SeedStep(s)
    PROVE  RunsOK' /\ AssignsToUser'
<1>1. RunsOK /\ (seeding[s] # Idle => seeding[s] \in SeedRun) /\ superadmin \in Roles \cup {NoRow}
  BY DEF SeedTypeOK, RunsOK, TypeOK, RbacTypeOK
<1>2. ASSUME NEW c \in {Idle} \cup SeedRun, seeding' = [seeding EXCEPT ![s] = c],
             c # Idle /\ c.pc = "assign" => SeedAdmin # NoRow
      PROVE  RunsOK' /\ AssignsToUser'
  BY <1>1, <1>2 DEF RunsOK, AssignsToUser, SeedAt
<1>3. CASE SeedStart(s)
  <2> DEFINE c(b) == [pc |-> "permissions", next |-> 1, role |-> NoRow, granting |-> {}, undisturbed |-> b]
  <2>1. \E b \in BOOLEAN : seeding' = [seeding EXCEPT ![s] = c(b)]
    <3>1. (\A a \in Changes : change[a] = Idle) \in BOOLEAN
      OBVIOUS
    <3>2. seeding' = [seeding EXCEPT ![s] = c(\A a \in Changes : change[a] = Idle)]
      BY <1>3, Zenon DEF SeedStart
    <3> HIDE DEF c
    <3>3. QED
      BY <3>1, <3>2, Zenon
  <2>2. \A b \in BOOLEAN : c(b) \in SeedRun /\ c(b).pc # "assign"
    BY BaselineIndex DEF SeedRun
  <2> HIDE DEF c
  <2>3. QED
    BY <1>2, <2>1, <2>2
<1>4. CASE SeedPermission(s)
  <2>1. CASE seeding[s].next < Len(Baseline)
    <3>1. [seeding[s] EXCEPT !.next = @ + 1] \in SeedRun
      BY <1>1, <1>4, <2>1, BaselineIndex DEF SeedPermission, SeedAt, SeedRun
    <3>2. [seeding[s] EXCEPT !.next = @ + 1].pc = "permissions"
      BY <1>1, <1>4 DEF SeedPermission, SeedAt, SeedRun
    <3>3. seeding' = [seeding EXCEPT ![s] = [seeding[s] EXCEPT !.next = @ + 1]]
      BY <1>1, <1>4, <2>1 DEF SeedPermission, RunsOK
    <3>4. QED
      BY <1>2, <3>1, <3>2, <3>3
  <2>2. CASE ~(seeding[s].next < Len(Baseline))
    <3>1. seeding' = [seeding EXCEPT ![s] = [seeding[s] EXCEPT !.pc = "role"]]
      BY <1>1, <1>4, <2>2, RunGoesOn DEF SeedPermission, SeedAt
    <3>2. QED
      BY <1>1, <1>2, <1>4, <3>1 DEF SeedPermission, SeedAt, SeedRun
  <2>3. QED
    BY <2>1, <2>2
<1>5. CASE SeedRole(s)
  <2>1. seeding' = [seeding EXCEPT ![s] = [seeding[s] EXCEPT !.pc = "find"]]
    BY <1>1, <1>5, RunGoesOn DEF SeedRole, SeedAt
  <2>2. QED
    BY <1>1, <1>2, <1>5, <2>1 DEF SeedRole, SeedAt, SeedRun
<1>6. CASE SeedFind(s)
  <2>1. CASE superadmin = NoRow
    BY <1>2, <1>6, <2>1 DEF SeedFind, SeedFail
  <2>2. CASE superadmin # NoRow
    <3>1. [seeding[s] EXCEPT !.role = superadmin, !.pc = "list"] \in SeedRun
          /\ [seeding[s] EXCEPT !.role = superadmin, !.pc = "list"].pc = "list"
      BY <1>1, <1>6 DEF SeedFind, SeedAt, SeedRun
    <3>2. seeding' = [seeding EXCEPT ![s] = [seeding[s] EXCEPT !.role = superadmin, !.pc = "list"]]
      BY <1>1, <1>6, <2>2 DEF SeedFind, RunsOK
    <3>3. QED
      BY <1>2, <3>1, <3>2
  <2>3. QED
    BY <2>1, <2>2
<1>7. CASE SeedList(s)
  <2> DEFINE pc == IF PermissionRows = {} THEN "user" ELSE "grant"
             c == [seeding[s] EXCEPT !.granting = PermissionRows, !.pc = pc]
  <2>1. c \in SeedRun /\ c.pc # "assign"
    <3>1. pc \in {"user", "grant"} /\ PermissionRows \in SUBSET Permissions
      BY DEF PermissionRows
    <3> HIDE DEF pc
    <3>2. QED
      BY <1>1, <1>7, <3>1 DEF SeedList, SeedAt, SeedRun
  <2>2. seeding' = [seeding EXCEPT ![s] = c]
    BY <1>1, <1>7 DEF SeedList, RunsOK
  <2> HIDE DEF c
  <2>3. QED
    BY <1>2, <2>1, <2>2
<1>8. CASE SeedGrant(s)
  <2>1. PICK p \in seeding[s].granting :
           \/ seeding' = [seeding EXCEPT ![s].granting = @ \ {p},
                                         ![s].pc = IF seeding[s].granting = {p} THEN "user" ELSE "grant"]
           \/ SeedFail(s)
    BY <1>8 DEF SeedGrant
  <2> DEFINE pc == IF seeding[s].granting = {p} THEN "user" ELSE "grant"
             c == [seeding[s] EXCEPT !.granting = @ \ {p}, !.pc = pc]
  <2>2. c \in SeedRun /\ c.pc # "assign"
    <3>1. pc \in {"user", "grant"}
      OBVIOUS
    <3> HIDE DEF pc
    <3>2. QED
      BY <1>1, <1>8, <3>1 DEF SeedGrant, SeedAt, SeedRun
  <2>3. seeding' = [seeding EXCEPT ![s] = c] \/ seeding' = [seeding EXCEPT ![s] = Idle]
    BY <1>1, <2>1 DEF SeedFail, RunsOK
  <2> HIDE DEF c
  <2>4. QED
    BY <1>2, <2>2, <2>3
<1>9. CASE SeedUser(s)
  <2> DEFINE pc == IF SeedAdmin = NoRow \/ <<SeedAdmin, seeding[s].role>> \in userRoles
                   THEN "exit" ELSE "assign"
  <2>1. seeding' = [seeding EXCEPT ![s] = [seeding[s] EXCEPT !.pc = pc]]
    BY <1>1, <1>9, RunGoesOn DEF SeedUser, SeedAt
  <2>2. [seeding[s] EXCEPT !.pc = pc] \in SeedRun
    BY <1>1, <1>9 DEF SeedUser, SeedAt, SeedRun
  <2>3. [seeding[s] EXCEPT !.pc = pc].pc = "assign" => SeedAdmin # NoRow
    BY <1>1, <1>9 DEF SeedUser, SeedAt, SeedRun
  <2> HIDE DEF pc
  <2>4. QED
    BY <1>2, <2>1, <2>2, <2>3
<1>10. CASE SeedAssign(s)
  <2>1. CASE SeedGoto(s, "exit")
    <3>1. seeding' = [seeding EXCEPT ![s] = [seeding[s] EXCEPT !.pc = "exit"]]
      BY <1>1, <1>10, <2>1, RunGoesOn DEF SeedAssign, SeedAt
    <3>2. QED
      BY <1>1, <1>2, <1>10, <3>1 DEF SeedAssign, SeedAt, SeedRun
  <2>2. CASE SeedFail(s)
    BY <1>2, <2>2 DEF SeedFail
  <2>3. QED
    BY <1>10, <2>1, <2>2 DEF SeedAssign
<1>11. CASE SeedExit(s) \/ SeedAbort(s)
  BY <1>2, <1>11 DEF SeedExit, SeedAbort, SeedFail
<1>12. QED
  BY <1>3, <1>4, <1>5, <1>6, <1>7, <1>8, <1>9, <1>10, <1>11 DEF SeedStep

\* What requests do beside the script.
LEMMA BesideSeedTypes ==
    ASSUME SeedTypeOK, AssignsToUser,
           \/ TablesChange
           \/ \E r \in Roles : RoleRename(r)
           \/ CacheStep /\ UNCHANGED <<superadmin, seeding>>
           \/ UNCHANGED seedVars
    PROVE  SeedTypeOK' /\ AssignsToUser'
<1>1. RunsOK /\ TypeOK /\ superadmin \in roles \cup {NoRow}
  BY DEF SeedTypeOK, RunsOK
<1>2. ASSUME seeding' = seeding \/ seeding' = Disturbed
      PROVE  RunsOK' /\ AssignsToUser'
  <2>1. ASSUME NEW s \in Seeders, seeding[s] # Idle
        PROVE  /\ [seeding[s] EXCEPT !.undisturbed = FALSE] \in SeedRun
               /\ [seeding[s] EXCEPT !.undisturbed = FALSE].pc = seeding[s].pc
    BY <1>1, <2>1 DEF RunsOK, SeedRun
  <2>2. CASE seeding' = seeding
    BY <1>1, <2>2 DEF RunsOK, AssignsToUser, SeedAt
  <2>3. CASE seeding' = Disturbed
    BY <1>1, <2>1, <2>3 DEF Disturbed, RunsOK, AssignsToUser, SeedAt
  <2>4. QED
    BY <1>2, <2>2, <2>3
<1>3. ASSUME TypeOK', superadmin' \in roles' \cup {NoRow}, seeding' = seeding \/ seeding' = Disturbed
      PROVE  SeedTypeOK' /\ AssignsToUser'
  BY <1>2, <1>3 DEF SeedTypeOK, RunsOK
<1>4. CASE TablesChange
  <2>1. TypeOK'
    BY <1>1, <1>4, TypeStep DEF TablesChange, Next
  <2>2. QED
    BY <1>3, <1>4, <2>1 DEF TablesChange
<1>5. ASSUME NEW r \in Roles, RoleRename(r)
      PROVE  SeedTypeOK' /\ AssignsToUser'
  <2>1. TypeOK'
    BY <1>1, <1>5, TypeStep DEF RoleRename
  <2>2. QED
    BY <1>3, <1>5, <2>1 DEF RoleRename, vars, rbacVars, tableVars
<1>6. CASE CacheStep /\ UNCHANGED <<superadmin, seeding>>
  <2>1. UNCHANGED roles
    BY <1>6 DEF CacheStep, Invalidate, CacheMiss, ReaderStep, ReaderQuery, ReaderSet, ReaderAbort,
                CacheExpire, rbacVars, tableVars
  <2>2. QED
    BY <1>1, <1>3, <1>6, <2>1, CacheStepTypes
<1>7. CASE UNCHANGED seedVars
  <2>1. TypeOK'
    BY <1>1, <1>7, TypeStep DEF seedVars
  <2>2. QED
    BY <1>1, <1>3, <1>7, <2>1 DEF seedVars, vars, rbacVars, tableVars
<1>8. QED
  BY <1>4, <1>5, <1>6, <1>7

\* The tables before the script has ever run.
LEMMA SeedTypeInit == ASSUME SeedInit PROVE SeedTypeOK /\ AssignsToUser
<1>1. superadmin \in roles \cup {NoRow}
  BY SeedAssumption DEF SeedInit, Init, RbacInit
<1>2. seeding = [s \in Seeders |-> Idle]
  BY DEF SeedInit
<1>3. QED
  BY <1>1, <1>2, TypeInit DEF SeedInit, SeedTypeOK, AssignsToUser, SeedAt

\* Every step of the script, and of the requests beside it, keeps the types.
LEMMA SeedTypeStep ==
    ASSUME SeedTypeOK, AssignsToUser, [SeedNext]_seedVars
    PROVE  SeedTypeOK' /\ AssignsToUser'
<1>1. ASSUME NEW s \in Seeders, SeedStep(s)
      PROVE  SeedTypeOK' /\ AssignsToUser'
  BY <1>1, SeedStepTables, SeedStepRuns DEF SeedTypeOK, RunsOK
<1>2. QED
  BY <1>1, BesideSeedTypes DEF SeedNext

\* However many runs of the script overlap with each other and with requests,
\* and wherever they die: the tables keep their keys and unique names, and the
\* name superadmin belongs to a role that is there.
THEOREM SeedTypeCorrect == SeedSpec => []SeedTypeOK
BY SeedTypeInit, SeedTypeStep, PTL DEF SeedSpec

-----------------------------------------------------------------------------
(***************************************************************************)
(* What a run of the script that no request has disturbed has done so far. *)
(* It relies on nothing that anybody takes back: rows are only added.      *)
(***************************************************************************)

\* The i-th permission of the baseline has its row.
Present(i) == \E p \in PermissionRows : nameOf[p] = Baseline[i]

\* The role has the i-th permission, or the run is yet to grant it.
Covered(s, i) ==
    \E p \in PermissionRows :
        /\ nameOf[p] = Baseline[i]
        /\ \/ <<seeding[s].role, p>> \in rolePermissions
           \/ SeedAt(s, "grant") /\ p \in seeding[s].granting

\* What has been done by the time an undisturbed run reaches its next statement.
RunOnTrack(s) ==
    /\ \A a \in Changes : change[a] = Idle
    /\ \A i \in DOMAIN Baseline :
          (SeedAt(s, "permissions") /\ seeding[s].next <= i) \/ Present(i)
    /\ seeding[s].pc \notin {"permissions", "role"} => superadmin # NoRow
    /\ seeding[s].pc \in {"list", "grant", "user", "assign", "exit"} => seeding[s].role = superadmin
    /\ seeding[s].pc \in {"grant", "user", "assign", "exit"} => \A i \in DOMAIN Baseline : Covered(s, i)
    /\ seeding[s].pc = "exit" /\ SeedAdmin # NoRow => <<SeedAdmin, superadmin>> \in userRoles

\* The inductive invariant behind SeedCompletes.
OnTrack == \A s \in Seeders : seeding[s] # Idle /\ seeding[s].undisturbed => RunOnTrack(s)

\* Rows are added at most, and no change begins.
Grows ==
    /\ UNCHANGED change
    /\ \A p \in PermissionRows : p \in PermissionRows' /\ nameOf'[p] = nameOf[p]
    /\ rolePermissions \subseteq rolePermissions' /\ userRoles \subseteq userRoles'
    /\ superadmin # NoRow => superadmin' = superadmin

\* What a run relies on stays while rows are only added.
LEMMA TrackKept ==
    ASSUME Grows, NEW s \in Seeders, RunOnTrack(s), seeding'[s] = seeding[s]
    PROVE  RunOnTrack(s)'
<1>1. \A i : Present(i) => Present(i)'
  BY DEF Present, Grows
<1>2. \A i : Covered(s, i) => Covered(s, i)'
  BY DEF Covered, Grows, SeedAt
<1>3. QED
  BY <1>1, <1>2 DEF RunOnTrack, Grows, SeedAt

\* The script itself only adds rows.
LEMMA SeedStepGrows ==
    ASSUME SeedTypeOK, NEW s \in Seeders, SeedStep(s)
    PROVE  Grows
<1>1. CASE UNCHANGED <<vars, superadmin>>
  BY <1>1 DEF vars, rbacVars, tableVars, Grows, PermissionRows
<1>2. CASE SeedPermission(s)
  <2>1. UNCHANGED <<userRoles, rolePermissions, change, superadmin>>
    BY <1>2 DEF SeedPermission
  <2>2. CASE UNCHANGED nameOf
    BY <2>1, <2>2 DEF Grows, PermissionRows
  <2>3. ASSUME NEW p \in Permissions \ PermissionRows, NEW n, nameOf' = [nameOf EXCEPT ![p] = n]
        PROVE  Grows
    BY <2>1, <2>3 DEF Grows, PermissionRows, SeedTypeOK, TypeOK, RbacTypeOK
  <2>4. QED
    BY <1>2, <2>2, <2>3 DEF SeedPermission
<1>3. CASE SeedRole(s)
  BY <1>3 DEF SeedRole, Grows, PermissionRows
<1>4. CASE SeedGrant(s) \/ SeedAssign(s)
  BY <1>4 DEF SeedGrant, SeedAssign, Grows, PermissionRows
<1>5. QED
  BY <1>1, <1>2, <1>3, <1>4 DEF SeedStep, SeedStart, SeedFind, SeedList, SeedUser, SeedExit, SeedAbort

\* While no change is in flight, requests that begin none only add rows.
LEMMA CreationGrows ==
    ASSUME SeedTypeOK, \A a \in Changes : change[a] = Idle, TablesChange, UNCHANGED change
    PROVE  Grows
<1>1. TypeOK /\ RbacTypeOK /\ superadmin \in roles \cup {NoRow}
  BY DEF SeedTypeOK, TypeOK
<1>2. ASSUME NEW a \in Changes, ChangeFind(a)
      PROVE  FALSE
  <2>1. \E c \in RoleDelete \cup PermissionDelete \cup Sync \cup Rename \cup Assignment : Begin(a, c)
    BY <1>2 DEF ChangeFind, RoleDeleteFind, SyncFind, AssignFind, RevokeFind, PermissionDeleteFind,
                RenameFind, RoleDelete, Sync, Assignment, PermissionDelete, Rename
  <2>2. QED
    BY <1>1, <2>1, EmptySlotAssumption, RbacTypeParts DEF Begin
<1>3. ASSUME NEW a \in Changes, ChangeStep(a) \/ ChangeAbort(a)
      PROVE  FALSE
  BY <1>3 DEF ChangeStep, ChangeAbort, RoleDeleteList, RoleDeleteWrite, PermissionDeleteList,
              PermissionDeleteWrite, SyncClear, SyncWrite, SyncList, RenameWrite, RenameList, AssignWrite,
              RevokeWrite, ChangeAt
<1>4. \/ \E r \in Roles : RoleCreate(r)
      \/ \E p \in Permissions, n \in Names : PermissionCreate(p, n)
  BY <1>2, <1>3 DEF TablesChange, RbacStep
<1>5. roles \subseteq roles' /\ UNCHANGED <<userRoles, rolePermissions>>
  BY <1>4 DEF RoleCreate, PermissionCreate
<1>6. \A p \in PermissionRows : p \in PermissionRows' /\ nameOf'[p] = nameOf[p]
  BY <1>1, <1>4, CreateKeeps DEF PermissionRows
<1>7. superadmin # NoRow => superadmin' = superadmin
  BY <1>1, <1>5 DEF TablesChange
<1>8. QED
  BY <1>5, <1>6, <1>7 DEF Grows

\* A run's own statements bring it on.
LEMMA OwnStepOnTrack ==
    ASSUME SeedTypeOK, AssignsToUser, NEW s \in Seeders, SeedStep(s),
           seeding[s] # Idle /\ seeding[s].undisturbed => RunOnTrack(s),
           seeding'[s] # Idle, seeding'[s].undisturbed
    PROVE  RunOnTrack(s)'
<1>1. RunsOK /\ superadmin \in Roles \cup {NoRow}
  BY DEF SeedTypeOK, RunsOK, TypeOK, RbacTypeOK
<1>2. Grows
  BY SeedStepGrows
<1>3. CASE SeedStart(s)
  <2>1. seeding'[s].pc = "permissions" /\ seeding'[s].next = 1
        /\ (seeding'[s].undisturbed <=> \A a \in Changes : change[a] = Idle)
    BY <1>1, <1>3, Zenon DEF SeedStart, RunsOK
  <2>2. \A a \in Changes : change'[a] = Idle
    BY <1>2, <2>1 DEF Grows
  <2>3. \A i \in DOMAIN Baseline : seeding'[s].next <= i
    BY <2>1, BaselineIndex
  <2>4. QED
    BY <2>1, <2>2, <2>3 DEF RunOnTrack, SeedAt
<1> SUFFICES ASSUME ~SeedStart(s), seeding[s] \in SeedRun, seeding[s] # Idle,
                    seeding'[s] \in SeedRun, RunsOK'
             PROVE  RunOnTrack(s)'
  <2>1. ~SeedStart(s) => seeding[s] # Idle
    BY DEF SeedStep, SeedPermission, SeedRole, SeedFind, SeedList, SeedGrant, SeedUser, SeedAssign,
           SeedExit, SeedAbort, SeedAt
  <2>2. RunsOK'
    BY SeedStepRuns
  <2>3. QED
    BY <1>1, <1>3, <2>1, <2>2 DEF RunsOK
<1> DEFINE old == seeding[s]
           new == seeding'[s]
<1>4. \A i : Present(i) => Present(i)'
  BY <1>2 DEF Present, Grows
<1>5. ASSUME RunOnTrack(s)
      PROVE  \A a \in Changes : change'[a] = Idle
  BY <1>2, <1>5 DEF Grows, RunOnTrack
<1>6. ASSUME NEW pc \in {"permissions", "role", "find", "list", "grant", "user", "assign", "exit"},
             SeedGoto(s, pc)
      PROVE  /\ new.pc = pc /\ new.next = old.next /\ new.role = old.role /\ new.granting = old.granting
             /\ RunOnTrack(s)
  <2>1. new = [old EXCEPT !.pc = pc]
    BY <1>1, <1>6, RunGoesOn DEF RunsOK
  <2>2. QED
    BY <2>1 DEF SeedRun
<1>7. CASE SeedPermission(s)
  <2> DEFINE name == Baseline[old.next]
  <2>1. old.pc = "permissions" /\ old.next \in 1..Len(Baseline) /\ name \in Names
    BY <1>7, BaselineIndex DEF SeedPermission, SeedAt, SeedRun
  <2>2. \E p \in PermissionRows' : nameOf'[p] = name
    <3>1. ASSUME NEW p \in PermissionRows, nameOf[p] = name
          PROVE  \E q \in PermissionRows' : nameOf'[q] = name
      BY <1>2, <3>1 DEF Grows
    <3>2. ASSUME NEW p \in Permissions, nameOf' = [nameOf EXCEPT ![p] = name]
          PROVE  \E q \in PermissionRows' : nameOf'[q] = name
      <4>1. nameOf'[p] = name /\ p \in PermissionRows'
        BY <2>1, <3>2, RbacAssumption DEF SeedTypeOK, TypeOK, RbacTypeOK, PermissionRows
      <4>2. QED
        BY <4>1
    <3>3. QED
      BY <1>7, <3>1, <3>2 DEF SeedPermission
  <2>3. CASE old.next < Len(Baseline)
    <3>1. new = [old EXCEPT !.next = @ + 1]
      BY <1>1, <1>7, <2>3 DEF SeedPermission, RunsOK
    <3>2. new.pc = "permissions" /\ new.next = old.next + 1 /\ RunOnTrack(s)
      BY <2>1, <3>1 DEF SeedRun
    <3>3. ASSUME NEW i \in DOMAIN Baseline
          PROVE  new.next <= i \/ Present(i)'
      <4>1. CASE i < old.next
        <5>1. Present(i)
          BY <3>2, <4>1, <2>1, BaselineIndex DEF RunOnTrack
        <5>2. QED
          BY <1>4, <5>1
      <4>2. CASE i = old.next
        BY <2>2, <4>2 DEF Present
      <4>3. CASE i > old.next
        BY <2>1, <3>2, <4>3, BaselineIndex
      <4>4. QED
        BY <2>1, <4>1, <4>2, <4>3, BaselineIndex
    <3>4. QED
      BY <1>5, <3>2, <3>3 DEF RunOnTrack, SeedAt
  <2>4. CASE ~(old.next < Len(Baseline))
    <3>1. new.pc = "role" /\ RunOnTrack(s)
      BY <1>6, <1>7, <2>4 DEF SeedPermission
    <3>2. ASSUME NEW i \in DOMAIN Baseline
          PROVE  Present(i)'
      <4>1. CASE i < old.next
        <5>1. Present(i)
          BY <3>1, <4>1, <2>1, BaselineIndex DEF RunOnTrack
        <5>2. QED
          BY <1>4, <5>1
      <4>2. CASE i = old.next
        BY <2>2, <4>2 DEF Present
      <4>3. QED
        BY <2>1, <2>4, <4>1, <4>2, BaselineIndex
    <3>3. QED
      BY <1>5, <3>1, <3>2 DEF RunOnTrack
  <2>5. QED
    BY <2>3, <2>4
<1>8. ASSUME RunOnTrack(s), old.pc # "permissions"
      PROVE  \A i \in DOMAIN Baseline : Present(i) /\ Present(i)'
  BY <1>4, <1>8 DEF RunOnTrack, SeedAt
<1>9. CASE SeedRole(s)
  <2>1. new.pc = "find" /\ RunOnTrack(s) /\ old.pc = "role"
    BY <1>6, <1>9 DEF SeedRole, SeedAt
  <2>2. superadmin' # NoRow
    BY <1>9, SeedAssumption DEF SeedRole
  <2>3. QED
    BY <1>5, <1>8, <2>1, <2>2 DEF RunOnTrack
<1>10. CASE SeedFind(s)
  <2>1. superadmin # NoRow /\ UNCHANGED superadmin /\ old.pc = "find"
    BY <1>1, <1>10 DEF SeedFind, SeedFail, SeedAt, RunsOK
  <2>2. new = [old EXCEPT !.role = superadmin, !.pc = "list"]
    BY <1>1, <1>10, <2>1 DEF SeedFind, RunsOK
  <2>3. new.pc = "list" /\ new.role = superadmin /\ RunOnTrack(s)
    BY <2>2 DEF SeedRun
  <2>4. QED
    BY <1>5, <1>8, <2>1, <2>3 DEF RunOnTrack
<1>11. CASE SeedList(s)
  <2> DEFINE pc == IF PermissionRows = {} THEN "user" ELSE "grant"
  <2>1. new = [old EXCEPT !.granting = PermissionRows, !.pc = pc]
        /\ old.pc = "list" /\ UNCHANGED <<superadmin, vars>>
    BY <1>1, <1>11 DEF SeedList, SeedAt, RunsOK
  <2>2. new.granting = PermissionRows /\ new.role = old.role /\ RunOnTrack(s) /\ new.pc = pc
    <3> HIDE DEF pc
    <3> QED
      BY <2>1 DEF SeedRun
  <2>3. Present(1)
    BY <1>8, <2>1, <2>2, BaselineIndex
  <2>4. new.pc = "grant"
    BY <2>2, <2>3 DEF Present
  <2>5. \A i \in DOMAIN Baseline : Covered(s, i)'
    <3> SUFFICES ASSUME NEW i \in DOMAIN Baseline
                 PROVE  Covered(s, i)'
      OBVIOUS
    <3>1. PICK p \in PermissionRows : nameOf[p] = Baseline[i]
      BY <1>8, <2>1, <2>2 DEF Present
    <3>2. p \in PermissionRows' /\ nameOf'[p] = Baseline[i] /\ p \in new.granting
      BY <1>2, <2>2, <3>1 DEF Grows
    <3>3. QED
      BY <2>4, <3>2 DEF Covered, SeedAt
  <2>6. superadmin # NoRow /\ old.role = superadmin
    BY <2>1, <2>2 DEF RunOnTrack
  <2>7. QED
    BY <1>5, <1>8, <2>1, <2>2, <2>4, <2>5, <2>6 DEF RunOnTrack
<1>12. CASE SeedGrant(s)
  <2>1. PICK p \in old.granting :
           /\ rolePermissions' = rolePermissions \cup {<<old.role, p>>}
           /\ seeding' = [seeding EXCEPT ![s].granting = @ \ {p},
                                        ![s].pc = IF old.granting = {p} THEN "user" ELSE "grant"]
    BY <1>1, <1>12 DEF SeedGrant, SeedFail, RunsOK
  <2> DEFINE pc == IF old.granting = {p} THEN "user" ELSE "grant"
  <2>2. new = [old EXCEPT !.granting = @ \ {p}, !.pc = pc]
    BY <1>1, <2>1 DEF RunsOK
  <2>3. new.granting = old.granting \ {p} /\ new.role = old.role /\ RunOnTrack(s) /\ new.pc = pc
    <3> HIDE DEF pc
    <3> QED
      BY <2>2 DEF SeedRun
  <2>4. old.pc = "grant" /\ UNCHANGED superadmin
    BY <1>12 DEF SeedGrant, SeedAt
  <2>5. ASSUME NEW i \in DOMAIN Baseline
        PROVE  Covered(s, i)'
    <3>1. PICK r \in PermissionRows : /\ nameOf[r] = Baseline[i]
                                     /\ \/ <<old.role, r>> \in rolePermissions
                                        \/ r \in old.granting
      BY <2>3, <2>4 DEF RunOnTrack, Covered
    <3>2. r \in PermissionRows' /\ nameOf'[r] = Baseline[i]
      BY <1>2, <3>1 DEF Grows
    <3>3. <<new.role, r>> \in rolePermissions' \/ (new.pc = "grant" /\ r \in new.granting)
      <4>1. CASE r = p
        BY <2>1, <2>3, <4>1
      <4>2. CASE <<old.role, r>> \in rolePermissions
        BY <2>1, <2>3, <4>2
      <4>3. CASE r # p /\ r \in old.granting
        BY <2>3, <4>3
      <4>4. QED
        BY <3>1, <4>1, <4>2, <4>3
    <3>4. QED
      BY <3>2, <3>3 DEF Covered, SeedAt
  <2>6. superadmin # NoRow /\ old.role = superadmin
    BY <2>3, <2>4 DEF RunOnTrack
  <2>7. pc \in {"user", "grant"}
    OBVIOUS
  <2> HIDE DEF pc
  <2>8. QED
    BY <1>5, <1>8, <2>3, <2>4, <2>5, <2>6, <2>7 DEF RunOnTrack
<1>13. ASSUME RunOnTrack(s), old.pc \in {"user", "assign"}, new.pc \in {"user", "assign", "exit"},
              new.role = old.role
       PROVE  /\ superadmin' # NoRow /\ new.role = superadmin' /\ superadmin' = superadmin
              /\ \A i \in DOMAIN Baseline : Covered(s, i)'
  <2>1. superadmin # NoRow /\ old.role = superadmin /\ superadmin' = superadmin
    BY <1>2, <1>13 DEF RunOnTrack, Grows
  <2>2. ASSUME NEW i \in DOMAIN Baseline
        PROVE  Covered(s, i)'
    <3>1. PICK p \in PermissionRows : nameOf[p] = Baseline[i] /\ <<old.role, p>> \in rolePermissions
      BY <1>13 DEF RunOnTrack, Covered, SeedAt
    <3>2. p \in PermissionRows' /\ nameOf'[p] = Baseline[i] /\ <<new.role, p>> \in rolePermissions'
      BY <1>2, <1>13, <3>1 DEF Grows
    <3>3. QED
      BY <3>2 DEF Covered
  <2>3. QED
    BY <1>13, <2>1, <2>2
<1>14. CASE SeedUser(s)
  <2> DEFINE pc == IF SeedAdmin = NoRow \/ <<SeedAdmin, old.role>> \in userRoles THEN "exit" ELSE "assign"
  <2>1. new.pc = pc /\ new.role = old.role /\ RunOnTrack(s) /\ old.pc = "user"
    BY <1>6, <1>14 DEF SeedUser, SeedAt
  <2>2. pc = "exit" /\ SeedAdmin # NoRow => <<SeedAdmin, old.role>> \in userRoles
    OBVIOUS
  <2>3. pc \in {"exit", "assign"}
    OBVIOUS
  <2> HIDE DEF pc
  <2>4. new.pc = "exit" /\ SeedAdmin # NoRow => <<SeedAdmin, superadmin'>> \in userRoles'
    BY <1>2, <1>13, <2>1, <2>2, <2>3 DEF Grows
  <2>5. QED
    BY <1>5, <1>8, <1>13, <2>1, <2>3, <2>4 DEF RunOnTrack
<1>15. CASE SeedAssign(s)
  <2>1. SeedGoto(s, "exit") /\ userRoles' = userRoles \cup {<<SeedAdmin, old.role>>} /\ old.pc = "assign"
    BY <1>1, <1>15 DEF SeedAssign, SeedFail, SeedAt, RunsOK
  <2>2. new.pc = "exit" /\ new.role = old.role /\ RunOnTrack(s)
    BY <1>6, <2>1
  <2>3. <<SeedAdmin, superadmin'>> \in userRoles'
    BY <1>13, <2>1, <2>2
  <2>4. QED
    BY <1>5, <1>8, <1>13, <2>1, <2>2, <2>3 DEF RunOnTrack
<1>16. ~SeedExit(s) /\ ~SeedAbort(s)
  BY <1>1 DEF SeedExit, SeedAbort, SeedFail, RunsOK
<1>17. QED
  BY <1>7, <1>9, <1>10, <1>11, <1>12, <1>14, <1>15, <1>16 DEF SeedStep

\* Every step of Seed keeps every undisturbed run on its track.
LEMMA OnTrackStep ==
    ASSUME SeedTypeOK, AssignsToUser, OnTrack, [SeedNext]_seedVars
    PROVE  OnTrack'
<1> SUFFICES ASSUME NEW r \in Seeders, seeding'[r] # Idle, seeding'[r].undisturbed
             PROVE  RunOnTrack(r)'
  BY DEF OnTrack
<1>1. RunsOK
  BY DEF SeedTypeOK, RunsOK
<1>2. ASSUME NEW s \in Seeders, SeedStep(s)
      PROVE  RunOnTrack(r)'
  <2>1. CASE r = s
    BY <1>2, <2>1, OwnStepOnTrack DEF OnTrack
  <2>2. CASE r # s
    <3>1. seeding'[r] = seeding[r]
      BY <1>1, <1>2, <2>2
         DEF SeedStep, SeedStart, SeedPermission, SeedRole, SeedFind, SeedList, SeedGrant, SeedUser,
             SeedAssign, SeedExit, SeedAbort, SeedGoto, SeedFail, RunsOK
    <3>2. QED
      BY <1>2, <3>1, SeedStepGrows, TrackKept DEF OnTrack
  <2>3. QED
    BY <2>1, <2>2
<1>3. seeding' # Disturbed
  <2>1. ASSUME seeding[r] # Idle
        PROVE  ~[seeding[r] EXCEPT !.undisturbed = FALSE].undisturbed
    BY <1>1, <2>1 DEF RunsOK, SeedRun
  <2>2. QED
    BY <2>1 DEF Disturbed
<1>4. ASSUME seeding' = seeding, Grows
      PROVE  RunOnTrack(r)'
  BY <1>4, TrackKept DEF OnTrack
<1>5. ASSUME seeding' = seeding
      PROVE  \A a \in Changes : change[a] = Idle
  BY <1>5 DEF OnTrack, RunOnTrack
<1>6. CASE TablesChange
  <2>1. UNCHANGED change /\ seeding' = seeding
    BY <1>3, <1>6 DEF TablesChange
  <2>2. QED
    BY <1>4, <1>5, <1>6, <2>1, CreationGrows
<1>7. ~\E s \in Roles : RoleRename(s)
  BY <1>3 DEF RoleRename
<1>8. CASE CacheStep /\ UNCHANGED <<superadmin, seeding>>
  <2>1. ~\E a \in Changes : Invalidate(a)
    BY <1>5, <1>8 DEF Invalidate, Invalidating
  <2>2. UNCHANGED rbacVars
    BY <1>8, <2>1 DEF CacheStep, CacheMiss, ReaderStep, ReaderQuery, ReaderSet, ReaderAbort, CacheExpire
  <2>3. Grows
    BY <1>8, <2>2 DEF Grows, rbacVars, tableVars, PermissionRows
  <2>4. QED
    BY <1>4, <1>8, <2>3
<1>9. CASE UNCHANGED seedVars
  <2>1. Grows /\ seeding' = seeding
    BY <1>9 DEF seedVars, vars, rbacVars, tableVars, Grows, PermissionRows
  <2>2. QED
    BY <1>4, <2>1
<1>10. QED
  BY <1>2, <1>6, <1>7, <1>8, <1>9 DEF SeedNext

\* For any baseline, any number of runs and any requests beside them: a run that
\* gets to its end undisturbed has made the administrator a superadmin with the
\* whole baseline, whatever runs before and beside it did and wherever they died.
THEOREM SeedDoesItsWork == SeedSpec => []SeedCompletes
<1>1. SeedInit => OnTrack
  BY DEF SeedInit, OnTrack
<1>2. SeedTypeOK /\ AssignsToUser /\ OnTrack /\ [SeedNext]_seedVars => OnTrack'
  BY OnTrackStep
<1>3. OnTrack => SeedCompletes
  BY DEF OnTrack, RunOnTrack, Covered, SeedCompletes, SeedAt
<1>4. QED
  BY <1>1, <1>2, <1>3, SeedTypeInit, SeedTypeStep, PTL DEF SeedSpec

=============================================================================
