------------------------------ MODULE Accounts ------------------------------
(***************************************************************************)
(* The users table and the operations that create a row and switch it on   *)
(* and off: POST /auth/register, POST /users, and the administrator's      *)
(* suspend, reactivate and delete (users.repository.ts, users.service.ts). *)
(*                                                                         *)
(* Every `await` on a query is a point where another request may run, so   *)
(* an operation is one action per SQL statement.  What it read before the  *)
(* await is kept in op[a] and used after it, as the code does with its     *)
(* local variables.  An operation that the code refuses without writing    *)
(* anything simply ends.                                                   *)
(*                                                                         *)
(* Definitions named for a slip (...IgnoringDeletedAt, ...Upserting) are used  *)
(* by no action: they are what the code must not become, and each breaks   *)
(* the property PROJECT.json pairs it with.                                *)
(***************************************************************************)
EXTENDS Naturals, FiniteSets

CONSTANTS
    Users,            \* the e-mail addresses; users.email is UNIQUE, so also the rows
    Registered,       \* the addresses that have a row when the behaviour starts
    Passwords,        \* passwords, and the hashes stored for them
    InitialPassword,  \* what the rows of Registered start with
    Admins,           \* who hold user:manage-status and user:delete
    Ops,              \* slots for account operations in flight
    Idle              \* an empty slot

ASSUME AccountsAssumption ==
    /\ Registered \subseteq Users
    /\ Admins \subseteq Users
    /\ InitialPassword \in Passwords

VARIABLES
    users,        \* the addresses that have a row
    isActive,     \* column is_active
    isDeleted,    \* column deleted_at is not NULL
    passwordHash, \* column password_hash
    op            \* the account operations in flight

accountVars == <<users, isActive, isDeleted, passwordHash, op>>
rowVars == <<users, isActive, isDeleted, passwordHash>>

-----------------------------------------------------------------------------
(***************************************************************************)
(* The queries of UsersRepository.                                         *)
(***************************************************************************)

\* The one query that sees soft-deleted rows too.
FindByEmail(u) == u \in users

FindById(u) == u \in users /\ ~isDeleted[u]

FindActiveByIdIgnoringDeletedAt(u) == u \in users /\ isActive[u]

FindActiveById(u) == u \in users /\ ~isDeleted[u] /\ isActive[u]

UpdateStatus(u, active) ==
    /\ isActive' = [isActive EXCEPT ![u] = active]
    /\ UNCHANGED <<users, isDeleted, passwordHash>>

SoftDelete(u) ==
    /\ isActive' = [isActive EXCEPT ![u] = FALSE]
    /\ isDeleted' = [isDeleted EXCEPT ![u] = TRUE]
    /\ UNCHANGED <<users, passwordHash>>

UpdatePassword(u, p) ==
    /\ passwordHash' = [passwordHash EXCEPT ![u] = p]
    /\ UNCHANGED <<users, isActive, isDeleted>>

CreateWithProfileUpserting(u, p) ==
    /\ users' = users \cup {u}
    /\ isActive' = [isActive EXCEPT ![u] = TRUE]
    /\ passwordHash' = [passwordHash EXCEPT ![u] = p]
    /\ UNCHANGED isDeleted

\* One transaction; a second row for the address breaks the unique
\* constraint and rolls it back.
CreateWithProfile(u, p) ==
    IF u \in users
    THEN UNCHANGED rowVars
    ELSE /\ users' = users \cup {u}
         /\ isActive' = [isActive EXCEPT ![u] = TRUE]
         /\ isDeleted' = [isDeleted EXCEPT ![u] = FALSE]
         /\ passwordHash' = [passwordHash EXCEPT ![u] = p]

-----------------------------------------------------------------------------
(***************************************************************************)
(* The operations.                                                         *)
(***************************************************************************)

CreateOp == [pc: {"insert"}, user: Users, password: Passwords]
StatusKind == {"suspend", "reactivate", "delete"}
StatusOp == [pc: {"find", "write"}, kind: StatusKind, actor: Users, user: Users]

AccountTypeOK ==
    /\ users \subseteq Users
    /\ isActive \in [Users -> BOOLEAN]
    /\ isDeleted \in [Users -> BOOLEAN]
    /\ passwordHash \in [Users -> Passwords]
    /\ op \in [Ops -> {Idle} \cup CreateOp \cup StatusOp]

AccountInit ==
    /\ users = Registered
    /\ isActive = [u \in Users |-> u \in Registered]
    /\ isDeleted = [u \in Users |-> FALSE]
    /\ passwordHash = [u \in Users |-> InitialPassword]
    /\ op = [a \in Ops |-> Idle]

\* AuthService.register and UsersService.create refuse an address that has a
\* row, deleted or not (409).
CreateFind(a, u, p) ==
    /\ op[a] = Idle
    /\ ~FindByEmail(u)
    /\ op' = [op EXCEPT ![a] = [pc |-> "insert", user |-> u, password |-> p]]
    /\ UNCHANGED rowVars

CreateInsert(a) ==
    /\ op[a] # Idle /\ op[a].pc = "insert"
    /\ CreateWithProfile(op[a].user, op[a].password)
    /\ op' = [op EXCEPT ![a] = Idle]

\* The guards of PATCH /users/:id/suspend, /reactivate and DELETE /users/:id:
\* JwtStrategy.validate reads the actor's row and lets active users in, then
\* PermissionsGuard asks for the permission.
StatusEnter(a, actor, u, kind) ==
    /\ op[a] = Idle
    /\ actor \in Admins /\ FindActiveById(actor)
    /\ op' = [op EXCEPT ![a] =
                [pc |-> "find", kind |-> kind, actor |-> actor, user |-> u]]
    /\ UNCHANGED rowVars

StatusFindAllowingSelf(a) ==
    /\ op[a] # Idle /\ op[a].pc = "find"
    /\ op' = [op EXCEPT ![a] = IF FindById(op[a].user) THEN [op[a] EXCEPT !.pc = "write"] ELSE Idle]
    /\ UNCHANGED rowVars

\* findByIdOrThrow (404), then the refusal to suspend or delete oneself (409).
StatusFind(a) ==
    /\ op[a] # Idle /\ op[a].pc = "find"
    /\ IF FindById(op[a].user) /\ (op[a].kind = "reactivate" \/ op[a].user # op[a].actor)
       THEN op' = [op EXCEPT ![a].pc = "write"]
       ELSE op' = [op EXCEPT ![a] = Idle]
    /\ UNCHANGED rowVars

StatusWrite(a) ==
    /\ op[a] # Idle /\ op[a].pc = "write"
    /\ \/ op[a].kind = "suspend" /\ UpdateStatus(op[a].user, FALSE)
       \/ op[a].kind = "reactivate" /\ UpdateStatus(op[a].user, TRUE)
       \/ op[a].kind = "delete" /\ SoftDelete(op[a].user)
    /\ op' = [op EXCEPT ![a] = Idle]

\* A statement is refused, or the process dies: nothing more is written.
OpAbort(a) ==
    /\ op[a] # Idle
    /\ op' = [op EXCEPT ![a] = Idle]
    /\ UNCHANGED rowVars

AccountStepButInsert(a) ==
    \/ \E u \in Users, p \in Passwords : CreateFind(a, u, p)
    \/ \E actor, u \in Users, kind \in StatusKind : StatusEnter(a, actor, u, kind)
    \/ StatusFind(a) \/ StatusWrite(a)
    \/ OpAbort(a)

AccountNext == \E a \in Ops : AccountStepButInsert(a) \/ CreateInsert(a)

AccountSpec == AccountInit /\ [][AccountNext]_accountVars

-----------------------------------------------------------------------------
(***************************************************************************)
(* Properties.                                                             *)
(***************************************************************************)

\* A soft-deleted account stays out for good: no later statement, not even a
\* reactivate that read the row before the delete, brings it back to
\* findActiveById, which JwtStrategy.validate and AuthService.refresh rely on.
DeletedStaysOut ==
    [][\A u \in Users : isDeleted[u] => isDeleted'[u] /\ ~FindActiveById(u)']_accountVars

\* Two registrations of one address that both passed findByEmail leave the row
\* of the first untouched: the second insert never replaces its password.
RegistrationNeverOverwrites ==
    [][\A u \in users : u \in users' /\ passwordHash'[u] = passwordHash[u]]_accountVars

\* Somebody may administrate.
AdminRemains == \E u \in Admins : FindActiveById(u)

\* suspend() and delete() refuse the actor's own account (409), but nothing asks
\* again, at the write, whether the actor may still act.  So the last active
\* administrator is lost in one way only: somebody suspends or deletes them
\* who was suspended or deleted in turn, by an operation that overlapped, after
\* JwtStrategy.validate had let them in.  Nobody locks out everybody alone.
LastAdminLostOnlyByOverlap ==
    [][AdminRemains /\ ~AdminRemains' =>
         \E a \in Ops :
            /\ op[a] # Idle /\ op'[a] # op[a]
            /\ op[a].pc = "write" /\ op[a].kind # "reactivate"
            /\ op[a].user # op[a].actor
            /\ ~FindActiveById(op[a].actor)]_accountVars

=============================================================================
