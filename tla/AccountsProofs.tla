--------------------------- MODULE AccountsProofs ---------------------------
(***************************************************************************)
(* Proofs about Accounts, for any users, administrators and slots.         *)
(***************************************************************************)
EXTENDS Accounts, TLAPS

\* The columns keep their types, and a slot only ever holds a state of an
\* operation of users.service.ts or auth.service.ts (register).
LEMMA AccountTypeStep ==
    ASSUME AccountTypeOK, AccountNext
    PROVE  AccountTypeOK'
<1> USE DEF AccountTypeOK
<1>1. ASSUME NEW a \in Ops, NEW u \in Users, NEW p \in Passwords, CreateFind(a, u, p)
      PROVE  AccountTypeOK'
  BY <1>1 DEF CreateFind, rowVars, CreateOp
<1>2. ASSUME NEW a \in Ops, NEW actor \in Users, NEW u \in Users, NEW kind \in StatusKind,
             StatusEnter(a, actor, u, kind)
      PROVE  AccountTypeOK'
  BY <1>2 DEF StatusEnter, rowVars, StatusOp
<1>3. ASSUME NEW a \in Ops, CreateInsert(a)
      PROVE  AccountTypeOK'
  <2>1. op[a] \in CreateOp
    BY <1>3 DEF CreateInsert, CreateOp, StatusOp
  <2>2. op[a].user \in Users /\ op[a].password \in Passwords
    BY <2>1 DEF CreateOp
  <2>3. QED
    BY <1>3, <2>2 DEF CreateInsert, CreateWithProfile, rowVars
<1>4. ASSUME NEW a \in Ops, StatusFind(a)
      PROVE  AccountTypeOK'
  <2>1. op[a] \in StatusOp
    BY <1>4 DEF StatusFind, CreateOp, StatusOp
  <2>2. [op[a] EXCEPT !.pc = "write"] \in StatusOp
    BY <2>1 DEF StatusOp
  <2>3. QED
    BY <1>4, <2>2 DEF StatusFind, rowVars
<1>5. ASSUME NEW a \in Ops, StatusWrite(a)
      PROVE  AccountTypeOK'
  <2>1. op[a] \in StatusOp
    BY <1>5 DEF StatusWrite, CreateOp, StatusOp
  <2>2. op[a].user \in Users /\ op[a].kind \in StatusKind
    BY <2>1 DEF StatusOp
  <2>3. QED
    BY <1>5, <2>2 DEF StatusWrite, StatusKind, UpdateStatus, SoftDelete
<1>6. ASSUME NEW a \in Ops, OpAbort(a)
      PROVE  AccountTypeOK'
  BY <1>6 DEF OpAbort, rowVars
<1>7. QED
  BY <1>1, <1>2, <1>3, <1>4, <1>5, <1>6 DEF AccountNext, AccountStepButInsert

\* The rows there are at the start have their types.
LEMMA AccountTypeInit == ASSUME AccountInit PROVE AccountTypeOK
BY AccountsAssumption DEF AccountInit, AccountTypeOK

\* The users table and the operations in flight keep their types.
THEOREM AccountTypeCorrect == AccountSpec => []AccountTypeOK
<1>1. AccountTypeOK /\ UNCHANGED accountVars => AccountTypeOK'
  BY DEF AccountTypeOK, accountVars
<1>2. QED
  BY <1>1, AccountTypeInit, AccountTypeStep, PTL DEF AccountSpec

-----------------------------------------------------------------------------
(***************************************************************************)
(* Only rows are deleted, and an operation writes only to a row it found.  *)
(***************************************************************************)

\* The inductive invariant behind DeletedStaysOut and RegistrationNeverOverwrites.
AccountInv ==
    /\ AccountTypeOK
    /\ \A u \in Users : isDeleted[u] => u \in users
    /\ \A a \in Ops : op[a] # Idle /\ op[a].pc = "write" => op[a].user \in users

\* No step of an operation loses a row or finds one that is not there.
LEMMA AccountInvStep ==
    ASSUME AccountInv, AccountNext
    PROVE  AccountInv'
<1> USE DEF AccountInv
<1>1. AccountTypeOK'
  BY AccountTypeStep
<1>2. users \subseteq users'
  BY DEF AccountNext, AccountStepButInsert, CreateFind, StatusEnter, CreateInsert, CreateWithProfile,
         StatusFind, StatusWrite, UpdateStatus, SoftDelete, OpAbort, rowVars
<1>3. \A u \in Users : isDeleted'[u] => u \in users'
  <2>1. ASSUME NEW a \in Ops, CreateInsert(a)
        PROVE  \A u \in Users : isDeleted'[u] => u \in users'
    BY <2>1 DEF CreateInsert, CreateWithProfile, rowVars, AccountTypeOK
  <2>2. ASSUME NEW a \in Ops, StatusWrite(a)
        PROVE  \A u \in Users : isDeleted'[u] => u \in users'
    BY <2>2 DEF StatusWrite, UpdateStatus, SoftDelete, AccountTypeOK
  <2>3. ASSUME UNCHANGED rowVars
        PROVE  \A u \in Users : isDeleted'[u] => u \in users'
    BY <2>3 DEF rowVars
  <2>4. QED
    BY <2>1, <2>2, <2>3
       DEF AccountNext, AccountStepButInsert, CreateFind, StatusEnter, StatusFind, OpAbort
<1>4. ASSUME NEW b \in Ops, op'[b] # Idle, op'[b].pc = "write"
      PROVE  op'[b].user \in users'
  <2>1. CASE op'[b] = op[b]
    BY <2>1, <1>2, <1>4
  <2>2. CASE op'[b] # op[b]
    <3>1. StatusFind(b) /\ op'[b] = [op[b] EXCEPT !.pc = "write"] /\ FindById(op[b].user)
      <4>1. ASSUME NEW a \in Ops, NEW u \in Users, NEW p \in Passwords, CreateFind(a, u, p)
            PROVE  FALSE
        BY <4>1, <1>4, <2>2 DEF CreateFind, AccountTypeOK
      <4>2. ASSUME NEW a \in Ops, NEW actor \in Users, NEW u \in Users, NEW kind \in StatusKind,
                   StatusEnter(a, actor, u, kind)
            PROVE  FALSE
        BY <4>2, <1>4, <2>2 DEF StatusEnter, AccountTypeOK
      <4>3. ASSUME NEW a \in Ops, CreateInsert(a) \/ StatusWrite(a) \/ OpAbort(a)
            PROVE  FALSE
        BY <4>3, <1>4, <2>2 DEF CreateInsert, StatusWrite, OpAbort, AccountTypeOK
      <4>4. ASSUME NEW a \in Ops, StatusFind(a)
            PROVE  a = b /\ op'[b] = [op[b] EXCEPT !.pc = "write"] /\ FindById(op[b].user)
        BY <4>4, <1>4, <2>2 DEF StatusFind, AccountTypeOK
      <4>5. QED
        BY <4>1, <4>2, <4>3, <4>4 DEF AccountNext, AccountStepButInsert
    <3>2. op[b] \in StatusOp
      BY <3>1 DEF StatusFind, CreateOp, StatusOp, AccountTypeOK
    <3>3. op'[b].user = op[b].user
      BY <3>1, <3>2 DEF StatusOp
    <3>4. QED
      BY <3>1, <3>3, <1>2 DEF FindById
  <2>3. QED
    BY <2>1, <2>2
<1>5. QED
  BY <1>1, <1>3, <1>4

\* Only a user with a row is deleted or about to be written.
THEOREM AccountInvariant == AccountSpec => []AccountInv
<1>1. AccountInit => AccountInv
  BY AccountTypeInit DEF AccountInit, AccountInv
<1>2. AccountInv /\ UNCHANGED accountVars => AccountInv'
  BY DEF AccountInv, AccountTypeOK, accountVars
<1>3. QED
  BY <1>1, <1>2, AccountInvStep, PTL DEF AccountSpec

\* deleted_at is only ever set, and a row that has it is nobody's active
\* account: this is what survives the race that leaves is_active true.
LEMMA DeletedStaysOutStep ==
    ASSUME AccountInv, AccountNext, NEW u \in Users, isDeleted[u]
    PROVE  isDeleted'[u] /\ ~FindActiveById(u)'
<1> USE DEF AccountInv, FindActiveById
<1>1. ASSUME NEW a \in Ops, CreateInsert(a)
      PROVE  isDeleted'[u]
  BY <1>1 DEF CreateInsert, CreateWithProfile, rowVars, AccountTypeOK
<1>2. ASSUME NEW a \in Ops, StatusWrite(a)
      PROVE  isDeleted'[u]
  BY <1>2 DEF StatusWrite, UpdateStatus, SoftDelete, AccountTypeOK
<1>3. CASE UNCHANGED rowVars
  BY <1>3 DEF rowVars
<1>4. QED
  BY <1>1, <1>2, <1>3
     DEF AccountNext, AccountStepButInsert, CreateFind, StatusEnter, StatusFind, OpAbort

\* No operation, not even a reactivate that read the row before it was deleted,
\* makes findActiveById find a deleted account again.
THEOREM DeletedNeverReturns == AccountSpec => DeletedStaysOut
<1> DEFINE StaysOut == \A u \in Users : isDeleted[u] => isDeleted'[u] /\ ~FindActiveById(u)'
<1>1. AccountInv /\ [AccountNext]_accountVars => [StaysOut]_accountVars
  BY DeletedStaysOutStep
<1>2. QED
  BY <1>1, AccountInvariant, PTL DEF AccountSpec, DeletedStaysOut

\* The unique constraint makes a second insert of an address fail, so an
\* operation of this module never touches the password of a row there is.
THEOREM RegistrationKeepsRows == AccountSpec => RegistrationNeverOverwrites
<1> DEFINE Keeps == \A u \in users : u \in users' /\ passwordHash'[u] = passwordHash[u]
<1>1. AccountInv /\ [AccountNext]_accountVars => [Keeps]_accountVars
  <2> SUFFICES ASSUME AccountInv, AccountNext, NEW u \in users
               PROVE  u \in users' /\ passwordHash'[u] = passwordHash[u]
    OBVIOUS
  <2>1. ASSUME NEW a \in Ops, CreateInsert(a)
        PROVE  u \in users' /\ passwordHash'[u] = passwordHash[u]
    BY <2>1 DEF CreateInsert, CreateWithProfile, rowVars, AccountInv, AccountTypeOK
  <2>2. ASSUME NEW a \in Ops, StatusWrite(a)
        PROVE  u \in users' /\ passwordHash'[u] = passwordHash[u]
    BY <2>2 DEF StatusWrite, UpdateStatus, SoftDelete
  <2>3. CASE UNCHANGED rowVars
    BY <2>3 DEF rowVars
  <2>4. QED
    BY <2>1, <2>2, <2>3
       DEF AccountNext, AccountStepButInsert, CreateFind, StatusEnter, StatusFind, OpAbort
<1>2. QED
  BY <1>1, AccountInvariant, PTL DEF AccountSpec, RegistrationNeverOverwrites

-----------------------------------------------------------------------------
(***************************************************************************)
(* How the last administrator is lost.  An operation about to write was    *)
(* let in for an administrator and is not about that administrator.        *)
(***************************************************************************)

ActorsSound ==
    \A a \in Ops :
        op[a] # Idle /\ op[a].pc \in {"find", "write"} =>
            /\ op[a].actor \in Admins
            /\ op[a].pc = "write" /\ op[a].kind # "reactivate" => op[a].user # op[a].actor

\* No step of an operation changes for whom another acts, or about whom.
LEMMA ActorsStep ==
    ASSUME AccountTypeOK, ActorsSound, AccountNext
    PROVE  ActorsSound'
<1>1. PICK a \in Ops : AccountStepButInsert(a) \/ CreateInsert(a)
  BY DEF AccountNext
<1>2. ASSUME NEW u \in Users, NEW p \in Passwords, CreateFind(a, u, p)
      PROVE  ActorsSound'
  BY <1>2 DEF CreateFind, ActorsSound, AccountTypeOK
<1>3. ASSUME NEW actor \in Users, NEW u \in Users, NEW kind \in StatusKind, StatusEnter(a, actor, u, kind)
      PROVE  ActorsSound'
  BY <1>3 DEF StatusEnter, ActorsSound, AccountTypeOK
<1>4. CASE StatusFind(a)
  <2>1. op[a] \in StatusOp
    BY <1>4 DEF StatusFind, CreateOp, StatusOp, AccountTypeOK
  <2>2. \/ op'[a] = Idle
        \/ /\ op'[a] = [op[a] EXCEPT !.pc = "write"]
           /\ op[a].kind = "reactivate" \/ op[a].user # op[a].actor
    BY <1>4 DEF StatusFind, AccountTypeOK
  <2>3. \/ op'[a] = Idle
        \/ /\ op'[a].actor = op[a].actor /\ op'[a].kind = op[a].kind /\ op'[a].user = op[a].user
           /\ op[a].kind = "reactivate" \/ op[a].user # op[a].actor
    BY <2>1, <2>2 DEF StatusOp
  <2>4. \A b \in Ops \ {a} : op'[b] = op[b]
    BY <1>4 DEF StatusFind, AccountTypeOK
  <2>5. op[a] # Idle /\ op[a].pc = "find"
    BY <1>4 DEF StatusFind
  <2>6. QED
    BY <2>3, <2>4, <2>5 DEF ActorsSound
<1>5. CASE StatusWrite(a) \/ CreateInsert(a) \/ OpAbort(a)
  BY <1>5 DEF StatusWrite, CreateInsert, OpAbort, ActorsSound, AccountTypeOK
<1>6. QED
  BY <1>1, <1>2, <1>3, <1>4, <1>5 DEF AccountStepButInsert

\* Only the row that is written changes.
LEMMA StatusWriteElsewhere ==
    ASSUME AccountTypeOK, NEW a \in Ops, StatusWrite(a), NEW u \in Users, FindActiveById(u),
           op[a].kind = "reactivate" \/ op[a].user # u
    PROVE  FindActiveById(u)'
BY DEF StatusWrite, UpdateStatus, SoftDelete, FindActiveById, AccountTypeOK

\* An actor who is still active outlives the statement.
LEMMA LastAdminStep ==
    ASSUME AccountTypeOK, ActorsSound, AccountNext, AdminRemains, ~AdminRemains'
    PROVE  \E a \in Ops :
              /\ op[a] # Idle /\ op'[a] # op[a]
              /\ op[a].pc = "write" /\ op[a].kind # "reactivate"
              /\ op[a].user # op[a].actor
              /\ ~FindActiveById(op[a].actor)
<1>1. PICK a \in Ops : AccountStepButInsert(a) \/ CreateInsert(a)
  BY DEF AccountNext
<1>2. PICK v \in Admins : FindActiveById(v) /\ ~FindActiveById(v)'
  BY DEF AdminRemains
<1>3. v \in Users
  BY AccountsAssumption
<1>4. CASE UNCHANGED rowVars
  BY <1>2, <1>4 DEF rowVars, FindActiveById
<1>5. CASE CreateInsert(a)
  BY <1>2, <1>3, <1>5 DEF CreateInsert, CreateWithProfile, rowVars, FindActiveById, AccountTypeOK
<1>6. CASE StatusWrite(a)
  <2>1. op[a] # Idle /\ op[a].pc = "write" /\ op'[a] = Idle
    BY <1>6 DEF StatusWrite, AccountTypeOK
  <2>2. op[a].kind # "reactivate" /\ op[a].user = v
    BY <1>2, <1>3, <1>6, StatusWriteElsewhere
  <2>3. op[a].actor \in Admins /\ op[a].actor # op[a].user
    BY <2>1, <2>2 DEF ActorsSound
  <2>4. PICK w \in Admins : w = op[a].actor
    BY <2>3
  <2>5. w \in Users /\ ~FindActiveById(w)'
    BY AccountsAssumption DEF AdminRemains
  <2>6. ~FindActiveById(w)
    BY <1>6, <2>3, <2>4, <2>5, StatusWriteElsewhere
  <2>7. QED
    BY <2>1, <2>2, <2>3, <2>4, <2>6
<1>7. QED
  BY <1>1, <1>4, <1>5, <1>6
     DEF AccountStepButInsert, CreateFind, StatusEnter, StatusFind, OpAbort

\* Nobody acts at the start.
LEMMA ActorsInit == ASSUME AccountInit PROVE ActorsSound
BY DEF AccountInit, ActorsSound

\* However many operations overlap and die, the last administrator falls only to
\* an actor who had been suspended or deleted since the guards let them in.
THEOREM LastAdminNeedsOverlap == AccountSpec => LastAdminLostOnlyByOverlap
<1> DEFINE Overlapped ==
       AdminRemains /\ ~AdminRemains' =>
         \E a \in Ops :
            /\ op[a] # Idle /\ op'[a] # op[a]
            /\ op[a].pc = "write" /\ op[a].kind # "reactivate"
            /\ op[a].user # op[a].actor
            /\ ~FindActiveById(op[a].actor)
<1>1. AccountTypeOK /\ ActorsSound /\ [AccountNext]_accountVars => [Overlapped]_accountVars
  BY LastAdminStep
<1>2. ActorsSound /\ UNCHANGED accountVars => ActorsSound'
  BY DEF ActorsSound, accountVars
<1>3. QED
  BY <1>1, <1>2, ActorsInit, ActorsStep, AccountTypeCorrect, PTL DEF AccountSpec, LastAdminLostOnlyByOverlap

=============================================================================
