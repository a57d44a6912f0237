--------------------------- MODULE SessionsProofs ---------------------------
(***************************************************************************)
(* Proofs about Sessions for any number of users, requests and tokens, any *)
(* interleaving and any abort.                                             *)
(***************************************************************************)
EXTENDS Sessions, AccountsProofs, SequenceTheorems

-----------------------------------------------------------------------------
(***************************************************************************)
(* What each statement does to the table, row by row.                      *)
(***************************************************************************)

\* A row is appended; those before it keep their place and contents.
LEMMA CreateRows ==
    ASSUME tokens \in Seq(Row),
           NEW u \in Users, NEW parent \in Nat, NEW login \in Nat, NEW p \in Passwords,
           Create(u, parent, login, p)
    PROVE  /\ tokens' \in Seq(Row)
           /\ Len(tokens') = Len(tokens) + 1
           /\ DOMAIN tokens' = 1..(Len(tokens) + 1)
           /\ \A t \in Ids : tokens'[t] = tokens[t]
           /\ tokens'[Len(tokens) + 1] =
                [owner |-> u, isRevoked |-> FALSE, isExpired |-> FALSE, replacedBy |-> 0,
                 parent |-> parent, login |-> login, openedWith |-> p]
<1> DEFINE row == [owner |-> u, isRevoked |-> FALSE, isExpired |-> FALSE, replacedBy |-> 0,
                   parent |-> parent, login |-> login, openedWith |-> p]
<1>1. row \in Row
  BY DEF Row
<1>2. tokens' = Append(tokens, row)
  BY DEF Create
<1> HIDE DEF row
<1>3. QED
  BY <1>1, <1>2, AppendProperties DEF Ids, row

\* Any update that rewrites rows in place, one by one, keeps the table a table.
LEMMA RewrittenRows ==
    ASSUME tokens \in Seq(Row),
           NEW f, f = [t \in Ids |-> f[t]], \A t \in Ids : f[t] \in Row
    PROVE  f \in Seq(Row) /\ Len(f) = Len(tokens) /\ DOMAIN f = Ids
<1>1. Len(tokens) \in Nat /\ Ids = 1..Len(tokens)
  BY DEF Ids
<1>2. f \in [1..Len(tokens) -> Row]
  BY <1>1
<1>3. f \in Seq(Row)
  BY <1>1, <1>2, SeqDef
<1>4. Len(f) = Len(tokens)
  BY <1>1, <1>2, <1>3, LenProperties
<1>5. QED
  BY <1>1, <1>2, <1>3, <1>4

\* One row is revoked, and linked when a successor is given.
LEMMA RevokeRows ==
    ASSUME tokens \in Seq(Row), NEW t \in Ids, NEW new \in Nat, Revoke(t, new)
    PROVE  /\ tokens' \in Seq(Row)
           /\ Len(tokens') = Len(tokens)
           /\ DOMAIN tokens' = Ids
           /\ \A s \in Ids : s # t => tokens'[s] = tokens[s]
           /\ tokens'[t] = [tokens[t] EXCEPT !.isRevoked = TRUE,
                                !.replacedBy = IF new = 0 THEN @ ELSE new]
<1>1. /\ tokens' = [s \in Ids |-> tokens'[s]]
      /\ \A s \in Ids : s # t => tokens'[s] = tokens[s]
      /\ tokens'[t] = [tokens[t] EXCEPT !.isRevoked = TRUE,
                                !.replacedBy = IF new = 0 THEN @ ELSE new]
  BY DEF Revoke, Ids
<1>2. \A s \in Ids : tokens[s] \in Row
  BY DEF Ids
<1>3. tokens'[t] \in Row
  BY <1>1, <1>2 DEF Row
<1>4. QED
  BY <1>1, <1>2, <1>3, RewrittenRows

\* Every token of the user is revoked and nothing else changes.
LEMMA RevokeAllRows ==
    ASSUME tokens \in Seq(Row), NEW u, RevokeAllForUser(u)
    PROVE  /\ tokens' \in Seq(Row)
           /\ Len(tokens') = Len(tokens)
           /\ DOMAIN tokens' = Ids
           /\ \A t \in Ids : tokens[t].owner # u => tokens'[t] = tokens[t]
           /\ \A t \in Ids : tokens[t].owner = u =>
                tokens'[t] = [tokens[t] EXCEPT !.isRevoked = TRUE]
<1>1. /\ tokens' = [t \in Ids |-> tokens'[t]]
      /\ \A t \in Ids : tokens[t].owner # u => tokens'[t] = tokens[t]
      /\ \A t \in Ids : tokens[t].owner = u =>
           tokens'[t] = [tokens[t] EXCEPT !.isRevoked = TRUE]
  BY DEF RevokeAllForUser
<1>2. \A t \in Ids : tokens[t] \in Row
  BY DEF Ids
<1>3. \A t \in Ids : tokens'[t] \in Row
  BY <1>1, <1>2 DEF Row
<1>4. QED
  BY <1>1, <1>3, RewrittenRows

\* The expiry date of one row passes.
LEMMA ExpireRows ==
    ASSUME tokens \in Seq(Row), NEW t \in Ids, Expire(t)
    PROVE  /\ tokens' \in Seq(Row)
           /\ Len(tokens') = Len(tokens)
           /\ DOMAIN tokens' = Ids
           /\ \A s \in Ids : s # t => tokens'[s] = tokens[s]
           /\ tokens'[t] = [tokens[t] EXCEPT !.isExpired = TRUE]
<1>1. /\ tokens' = [s \in Ids |-> tokens'[s]]
      /\ \A s \in Ids : s # t => tokens'[s] = tokens[s]
      /\ tokens'[t] = [tokens[t] EXCEPT !.isExpired = TRUE]
  BY DEF Expire, Ids
<1>2. \A s \in Ids : tokens[s] \in Row
  BY DEF Ids
<1>3. tokens'[t] \in Row
  BY <1>1, <1>2 DEF Row
<1>4. QED
  BY <1>1, <1>2, <1>3, RewrittenRows

-----------------------------------------------------------------------------
(***************************************************************************)
(* The inductive invariant.  A request in flight holds ids of rows of its  *)
(* user; a rotation that has stored a successor holds a younger row of the *)
(* same user rotated from the old one; a rotation past its last write      *)
(* leaves the old row revoked and linked.  Those are what makes the three  *)
(* safety properties survive every statement of every other request.       *)
(***************************************************************************)

\* The presented token is a row of the request's user.
HoldsToken(r) == req[r].token \in Ids /\ tokens[req[r].token].owner = req[r].user

\* The successor a rotation has stored is a younger row of the same user.
HoldsSuccessor(r) ==
    /\ req[r].new \in Ids
    /\ req[r].new > req[r].token
    /\ tokens[req[r].new].parent = req[r].token
    /\ tokens[req[r].new].owner = req[r].user

\* Revoked and linked to a successor.
Spent(t) == ~Live(t) /\ tokens[t].replacedBy # 0

\* Whatever this row was rotated from is spent.
SpendsItsParent(n) == tokens[n].parent # 0 => Spent(tokens[n].parent)

\* Where a request carries the token it was sent.
TokenPc == {"reuse", "expire", "rotate.issue", "logout", "rotate.revoke", "rotate.check"}

\* What a request in flight relies on, by its next statement.
Sound(r) ==
    req[r] # Idle =>
        /\ req[r].pc \in TokenPc => HoldsToken(r)
        /\ req[r].pc \in {"rotate.revoke", "rotate.check"} => HoldsSuccessor(r)
        /\ req[r].pc = "rotate.check" => Spent(req[r].token)

\* Every request in flight is sound.
RequestsSound == \A r \in Requests : Sound(r)

\* A row is rotated from a row that is there.
ParentsOlder == \A t \in Ids : tokens[t].parent # 0 => tokens[t].parent \in Ids

\* A revocation reaches no further than the table did.
CutWithinTable == \A u \in Users : cut[u] <= Len(tokens)

\* What every statement keeps of the table.
TableInv ==
    /\ tokens \in Seq(Row)
    /\ cut \in [Users -> Nat]
    /\ ParentsOlder
    /\ CutWithinTable
    /\ RevokeAllIsFinal
    /\ RotationChain

\* The inductive invariant.
Inv ==
    /\ TypeOK
    /\ TableInv
    /\ RequestsSound
    /\ AnsweredRotationSpends

\* What no statement does to a row there is: remove it, give it to someone
\* else, rewrite its past, un-revoke it or unlink it.
RowsKept ==
    /\ Ids \subseteq DOMAIN tokens'
    /\ \A t \in Ids :
        /\ tokens'[t].owner = tokens[t].owner
        /\ tokens'[t].parent = tokens[t].parent
        /\ tokens[t].isRevoked => tokens'[t].isRevoked
        /\ tokens[t].replacedBy # 0 => tokens'[t].replacedBy # 0

\* The types of a row's fields.
LEMMA RowFields ==
    ASSUME tokens \in Seq(Row), NEW t \in Ids
    PROVE  /\ tokens[t] \in Row
           /\ t \in Nat \ {0} /\ Len(tokens) \in Nat /\ t <= Len(tokens)
           /\ tokens[t].owner \in Users /\ tokens[t].isRevoked \in BOOLEAN
           /\ tokens[t].replacedBy \in Nat /\ tokens[t].parent \in Nat
           /\ tokens[t].login \in Nat /\ tokens[t].openedWith \in Passwords
<1>1. tokens[t] \in Row /\ t \in Nat \ {0} /\ Len(tokens) \in Nat /\ t <= Len(tokens)
  BY DEF Ids
<1>2. QED
  BY <1>1 DEF Row

\* Appending keeps the table's invariant: the new row lies beyond every cut.
LEMMA CreateKeeps ==
    ASSUME TableInv,
           NEW u \in Users, NEW parent \in Nat, NEW login \in Nat, NEW p \in Passwords,
           parent = 0 \/ parent \in Ids,
           Create(u, parent, login, p), UNCHANGED cut
    PROVE  TableInv' /\ RowsKept
<1> DEFINE n == Len(tokens) + 1
<1>1. /\ tokens' \in Seq(Row) /\ Len(tokens') = n /\ Ids' = 1..n
      /\ \A t \in Ids : tokens'[t] = tokens[t]
      /\ tokens'[n].owner = u /\ tokens'[n].parent = parent /\ tokens'[n].replacedBy = 0
  <2>1. tokens \in Seq(Row)
    BY DEF TableInv
  <2>2. /\ tokens' \in Seq(Row) /\ Len(tokens') = n /\ DOMAIN tokens' = 1..n
        /\ \A t \in Ids : tokens'[t] = tokens[t]
        /\ tokens'[n] =
             [owner |-> u, isRevoked |-> FALSE, isExpired |-> FALSE, replacedBy |-> 0,
              parent |-> parent, login |-> login, openedWith |-> p]
    BY <2>1, CreateRows
  <2>3. QED
    BY <2>2 DEF Ids
<1>2. Len(tokens) \in Nat /\ Ids = 1..Len(tokens)
  BY DEF TableInv, Ids
<1>3. Ids' = Ids \cup {n}
  BY <1>1, <1>2
<1>4. RowsKept
  BY <1>1, <1>3 DEF RowsKept, Ids
<1>5. ParentsOlder'
  BY <1>1, <1>3 DEF TableInv, ParentsOlder
<1>6. CutWithinTable'
  BY <1>1, <1>2 DEF TableInv, CutWithinTable
<1>7. RevokeAllIsFinal'
  BY <1>1, <1>2, <1>3 DEF TableInv, RevokeAllIsFinal, CutWithinTable, Live
<1>8. RotationChain'
  BY <1>1, <1>2, <1>3 DEF TableInv, RotationChain, Live
<1>9. QED
  BY <1>1, <1>4, <1>5, <1>6, <1>7, <1>8 DEF TableInv

\* Revoking one row keeps it, and so does linking it to a younger row of the
\* same user that was rotated from it.
LEMMA RevokeKeeps ==
    ASSUME TableInv, NEW t \in Ids, NEW new \in Nat,
           new # 0 => /\ new \in Ids /\ new > t
                      /\ tokens[new].parent = t /\ tokens[new].owner = tokens[t].owner,
           Revoke(t, new), UNCHANGED cut
    PROVE  TableInv' /\ RowsKept /\ Len(tokens') = Len(tokens)
<1>1. /\ tokens' \in Seq(Row) /\ Len(tokens') = Len(tokens) /\ Ids' = Ids
      /\ \A s \in Ids : s # t => tokens'[s] = tokens[s]
      /\ tokens'[t] = [tokens[t] EXCEPT !.isRevoked = TRUE,
                           !.replacedBy = IF new = 0 THEN @ ELSE new]
  BY RevokeRows DEF TableInv, Ids
<1>2. tokens[t] \in Row
  BY RowFields DEF TableInv
<1>3. /\ tokens'[t].isRevoked
      /\ tokens'[t].replacedBy = (IF new = 0 THEN tokens[t].replacedBy ELSE new)
      /\ tokens'[t].owner = tokens[t].owner /\ tokens'[t].parent = tokens[t].parent
  BY <1>1, <1>2 DEF Row
<1>4. RowsKept
  BY <1>1, <1>3 DEF RowsKept, Ids
<1>5. \A s \in Ids : tokens'[s].owner = tokens[s].owner /\ tokens'[s].parent = tokens[s].parent
  BY <1>4 DEF RowsKept
<1>6. ParentsOlder' /\ CutWithinTable'
  BY <1>1, <1>5 DEF TableInv, ParentsOlder, CutWithinTable
<1>7. RevokeAllIsFinal'
  BY <1>1, <1>4 DEF TableInv, RevokeAllIsFinal, RowsKept, Live
<1>8. RotationChain'
  <2> SUFFICES ASSUME NEW s \in Ids, tokens'[s].replacedBy # 0
               PROVE  /\ tokens'[s].isRevoked
                      /\ tokens'[s].replacedBy \in Ids /\ tokens'[s].replacedBy > s
                      /\ tokens'[tokens'[s].replacedBy].parent = s
                      /\ tokens'[tokens'[s].replacedBy].owner = tokens'[s].owner
    BY <1>1 DEF RotationChain, Live
  <2>1. CASE s = t /\ new # 0
    BY <2>1, <1>3, <1>5
  <2>2. CASE s = t /\ new = 0
    BY <2>2, <1>3, <1>5 DEF TableInv, RotationChain, Live
  <2>3. CASE s # t
    BY <2>3, <1>1, <1>5 DEF TableInv, RotationChain, Live
  <2>4. QED
    BY <2>1, <2>2, <2>3
<1>9. QED
  BY <1>1, <1>4, <1>6, <1>7, <1>8 DEF TableInv

\* Revoking all rows of a user keeps it, with every row there is below the cut.
LEMMA RevokeAllKeeps ==
    ASSUME TableInv, NEW u \in Users, RevokeAllForUser(u)
    PROVE  TableInv' /\ RowsKept /\ Len(tokens') = Len(tokens)
<1>1. /\ tokens' \in Seq(Row) /\ Len(tokens') = Len(tokens) /\ Ids' = Ids
      /\ \A t \in Ids : tokens[t].owner # u => tokens'[t] = tokens[t]
      /\ \A t \in Ids : tokens[t].owner = u =>
           tokens'[t] = [tokens[t] EXCEPT !.isRevoked = TRUE]
  BY RevokeAllRows DEF TableInv, Ids
<1>2. \A t \in Ids :
        /\ tokens'[t].owner = tokens[t].owner /\ tokens'[t].parent = tokens[t].parent
        /\ tokens'[t].replacedBy = tokens[t].replacedBy
        /\ tokens[t].isRevoked => tokens'[t].isRevoked
        /\ tokens[t].owner = u => tokens'[t].isRevoked
  BY <1>1, RowFields DEF TableInv, Row
<1>3. cut' = [cut EXCEPT ![u] = Len(tokens)] /\ Len(tokens) \in Nat
  BY DEF RevokeAllForUser, TableInv
<1>4. RowsKept
  BY <1>1, <1>2 DEF RowsKept, Ids
<1>5. ParentsOlder'
  BY <1>1, <1>2 DEF TableInv, ParentsOlder
<1>6. CutWithinTable' /\ cut' \in [Users -> Nat]
  BY <1>1, <1>3 DEF TableInv, CutWithinTable
<1>7. RevokeAllIsFinal'
  BY <1>1, <1>2, <1>3, RowFields DEF TableInv, RevokeAllIsFinal, Live
<1>8. RotationChain'
  BY <1>1, <1>2 DEF TableInv, RotationChain, Live
<1>9. QED
  BY <1>1, <1>4, <1>5, <1>6, <1>7, <1>8 DEF TableInv

\* An expiry changes nothing that the table's invariant speaks of.
LEMMA ExpireKeeps ==
    ASSUME TableInv, NEW t \in Ids, Expire(t)
    PROVE  TableInv' /\ RowsKept /\ Len(tokens') = Len(tokens)
<1>1. /\ tokens' \in Seq(Row) /\ Len(tokens') = Len(tokens) /\ Ids' = Ids
      /\ \A s \in Ids : s # t => tokens'[s] = tokens[s]
      /\ tokens'[t] = [tokens[t] EXCEPT !.isExpired = TRUE]
  BY ExpireRows DEF TableInv, Ids
<1>2. \A s \in Ids :
        /\ tokens'[s].owner = tokens[s].owner /\ tokens'[s].parent = tokens[s].parent
        /\ tokens'[s].replacedBy = tokens[s].replacedBy
        /\ tokens'[s].isRevoked = tokens[s].isRevoked
  BY <1>1, RowFields DEF TableInv, Row
<1>3. cut' = cut
  BY DEF Expire
<1>4. RowsKept
  BY <1>1, <1>2 DEF RowsKept, Ids
<1>5. ParentsOlder' /\ CutWithinTable' /\ cut' \in [Users -> Nat]
  BY <1>1, <1>2, <1>3 DEF TableInv, ParentsOlder, CutWithinTable
<1>6. RevokeAllIsFinal'
  BY <1>1, <1>2, <1>3 DEF TableInv, RevokeAllIsFinal, Live
<1>7. RotationChain'
  BY <1>1, <1>2 DEF TableInv, RotationChain, Live
<1>8. QED
  BY <1>1, <1>4, <1>5, <1>6, <1>7 DEF TableInv

-----------------------------------------------------------------------------
(***************************************************************************)
(* From the table to the whole state.                                      *)
(***************************************************************************)

\* What writes no row keeps the table's invariant.
LEMMA TableUnchanged ==
    ASSUME TableInv, UNCHANGED <<tokens, cut>>
    PROVE  TableInv' /\ RowsKept
<1>1. TableInv'
  BY DEF TableInv, ParentsOlder, CutWithinTable, RevokeAllIsFinal, RotationChain, Live, Ids
<1>2. RowsKept
  BY DEF RowsKept, Ids
<1>3. QED
  BY <1>1, <1>2

\* What a request in flight carries, by its pc.
LEMMA RequestShape ==
    ASSUME TypeOK, NEW r \in Requests, req[r] # Idle
    PROVE  /\ req[r] \in Request
           /\ req[r].user \in Users
           /\ req[r].pc \in {"login.issue", "reset.write"} => req[r].password \in Passwords
           /\ req[r].pc \in TokenPc => req[r].token \in Nat \ {0}
           /\ req[r].pc \in {"rotate.revoke", "rotate.check"} =>
                req[r] \in RotateReq /\ req[r].new \in Nat \ {0}
<1>1. req[r] \in Request
  BY DEF TypeOK
<1>2. QED
  BY <1>1 DEF Request, LoginReq, TokenReq, RotateReq, UserReq, ResetReq, TokenPc

\* A request that does not move keeps what it relies on, whatever the others do.
LEMMA StaysSound ==
    ASSUME Inv, RowsKept, NEW r \in Requests, req'[r] = req[r]
    PROVE  Sound(r)'
<1>1. Sound(r)
  BY DEF Inv, RequestsSound
<1>2. QED
  BY <1>1 DEF Sound, HoldsToken, HoldsSuccessor, Spent, Live, RowsKept, TokenPc, Ids

\* One request moves: the invariant holds after its step if the table keeps
\* its own, the request's new state is sound and what it hands out is spent.
LEMMA RequestStep ==
    ASSUME Inv, AccountTypeOK', TableInv', RowsKept,
           NEW r \in Requests, NEW state \in {Idle} \cup Request, Goto(r, state),
           Sound(r)',
           \A n \in handedOut' \ handedOut :
              n \in Ids' /\ SpendsItsParent(n)',
           \A t \in spared' \ spared : t \in Ids'
    PROVE  Inv'
<1>1. req' \in [Requests -> {Idle} \cup Request] /\ \A q \in Requests \ {r} : req'[q] = req[q]
  BY DEF Goto, Inv, TypeOK
<1>2. RequestsSound'
  BY <1>1, StaysSound DEF RequestsSound
<1>3. handedOut' \subseteq Ids'
  BY DEF Inv, TypeOK, RowsKept, Ids
<1>4. AnsweredRotationSpends'
  <2>1. ASSUME NEW n \in handedOut
        PROVE  SpendsItsParent(n)'
    <3>1. n \in Ids /\ tokens'[n].parent = tokens[n].parent
      BY DEF Inv, TypeOK, RowsKept
    <3>2. tokens[n].parent # 0 => tokens[n].parent \in Ids /\ Spent(tokens[n].parent)
      BY <3>1 DEF Inv, TableInv, ParentsOlder, AnsweredRotationSpends, Spent
    <3>3. QED
      BY <3>1, <3>2 DEF RowsKept, SpendsItsParent, Spent, Live
  <2>2. \A n \in handedOut' : SpendsItsParent(n)'
    BY <2>1
  <2>3. QED
    BY <2>2 DEF AnsweredRotationSpends, SpendsItsParent, Spent
<1>5. spared' \subseteq Ids'
  BY DEF Inv, TypeOK, RowsKept, Ids
<1>6. TypeOK'
  BY <1>1, <1>3, <1>5 DEF TypeOK, TableInv
<1>7. QED
  BY <1>2, <1>4, <1>6 DEF Inv

\* Session requests that leave the users table alone keep its types.
LEMMA AccountsKept ==
    ASSUME AccountTypeOK, UNCHANGED accountVars
    PROVE  AccountTypeOK'
BY DEF AccountTypeOK, accountVars

-----------------------------------------------------------------------------
(***************************************************************************)
(* One lemma for the requests that arrive, one for those that only revoke, *)
(* one for each remaining step.                                            *)
(***************************************************************************)

\* An arriving request reads the table and holds, at most, an id it read there.
LEMMA ArriveInv ==
    ASSUME Inv, NEW r \in Requests, Arrive(r)
    PROVE  Inv'
<1> DEFINE Reads(state) == /\ state \in Request /\ Goto(r, state)
                           /\ UNCHANGED <<accountVars, tokens, handedOut, cut, spared>>
<1>1. ASSUME NEW state, Reads(state), Sound(r)'
      PROVE  Inv'
  BY <1>1, TableUnchanged, AccountsKept, RequestStep DEF Inv, TypeOK
<1>2. ASSUME NEW state, Reads(state)
      PROVE  req'[r] = state
  BY <1>2 DEF Goto, Inv, TypeOK
<1>3. ASSUME NEW u \in Users, NEW p \in Passwords, LoginFind(r, u, p)
      PROVE  Inv'
  <2> DEFINE state == [pc |-> "login.issue", user |-> u, password |-> p]
  <2>1. Reads(state)
    BY <1>3 DEF LoginFind, Request, LoginReq
  <2>2. Sound(r)'
    BY <2>1, <1>2 DEF Sound, TokenPc
  <2>3. QED
    BY <1>1, <2>1, <2>2
<1>4. ASSUME NEW u \in Users, NEW p \in Passwords, ResetFind(r, u, p)
      PROVE  Inv'
  <2> DEFINE state == [pc |-> "reset.write", user |-> u, password |-> p]
  <2>1. Reads(state)
    BY <1>4 DEF ResetFind, Request, ResetReq
  <2>2. Sound(r)'
    BY <2>1, <1>2 DEF Sound, TokenPc
  <2>3. QED
    BY <1>1, <2>1, <2>2
<1>5. ASSUME NEW u \in Users, LogoutAllEnter(r, u)
      PROVE  Inv'
  <2> DEFINE state == [pc |-> "logoutAll", user |-> u]
  <2>1. Reads(state)
    BY <1>5 DEF LogoutAllEnter, Request, UserReq
  <2>2. Sound(r)'
    BY <2>1, <1>2 DEF Sound, TokenPc
  <2>3. QED
    BY <1>1, <2>1, <2>2
<1>6. ASSUME NEW t \in Ids, RefreshFind(r, t) \/ LogoutFind(r, t)
      PROVE  Inv'
  <2>1. PICK pc \in {"reuse", "expire", "rotate.issue", "logout"} :
          /\ Goto(r, [pc |-> pc, user |-> tokens[t].owner, token |-> t])
          /\ UNCHANGED <<accountVars, tokens, handedOut, cut, spared>>
    BY <1>6 DEF RefreshFind, LogoutFind
  <2>2. t \in Nat \ {0} /\ tokens[t].owner \in Users
    BY RowFields DEF Inv, TableInv
  <2> DEFINE state == [pc |-> pc, user |-> tokens[t].owner, token |-> t]
  <2>3. Reads(state)
    BY <2>1, <2>2 DEF Request, TokenReq
  <2>4. req'[r] = state
    BY <2>3, <1>2
  <2>5. Sound(r)'
    BY <2>3, <2>4 DEF Sound, HoldsToken, Ids
  <2>6. QED
    BY <1>1, <2>3, <2>5
<1>7. QED
  BY <1>3, <1>4, <1>5, <1>6 DEF Arrive

\* A request that ends holds nothing.
LEMMA FinishedSound ==
    ASSUME TypeOK, NEW r \in Requests, Finish(r)
    PROVE  Goto(r, Idle) /\ Sound(r)'
<1>1. req'[r] = Idle
  BY DEF Finish, Goto, TypeOK
<1>2. QED
  BY <1>1 DEF Finish, Sound

\* Revoking all sessions of the request's user ends the request.
LEMMA RevokeAllInv ==
    ASSUME Inv, NEW r \in Requests, req[r] # Idle,
           RevokeAllForUser(req[r].user), Finish(r), UNCHANGED <<accountVars, handedOut, spared>>
    PROVE  Inv'
<1>1. req[r].user \in Users
  BY RequestShape DEF Inv
<1>2. TableInv' /\ RowsKept
  BY <1>1, RevokeAllKeeps DEF Inv
<1>3. QED
  BY <1>2, FinishedSound, AccountsKept, RequestStep DEF Inv, TypeOK

\* Requests that revoke the one token they carry keep the invariant.
LEMMA RevokeOneInv ==
    ASSUME Inv, NEW r \in Requests, ExpireRevoke(r) \/ LogoutRevoke(r)
    PROVE  Inv'
<1>1. /\ req[r] # Idle /\ req[r].pc \in TokenPc
      /\ Revoke(req[r].token, 0) /\ Finish(r) /\ UNCHANGED <<accountVars, handedOut, cut, spared>>
  BY DEF ExpireRevoke, LogoutRevoke, At, TokenPc
<1>2. req[r].token \in Ids
  BY <1>1 DEF Inv, RequestsSound, Sound, HoldsToken
<1>3. TableInv' /\ RowsKept
  BY <1>1, <1>2, RevokeKeeps DEF Inv
<1>4. QED
  BY <1>1, <1>3, FinishedSound, AccountsKept, RequestStep DEF Inv, TypeOK

\* A login hands out a token that has no parent.
LEMMA LoginIssueInv ==
    ASSUME Inv, NEW r \in Requests, LoginIssue(r)
    PROVE  Inv'
<1> DEFINE n == Len(tokens) + 1
<1>1. req[r] # Idle /\ req[r].pc = "login.issue"
  BY DEF LoginIssue, At
<1>2. req[r].user \in Users /\ req[r].password \in Passwords
  BY <1>1, RequestShape DEF Inv
<1>3. tokens \in Seq(Row) /\ Len(tokens) \in Nat /\ n \in Nat
  BY DEF Inv, TableInv
<1>4. Create(req[r].user, 0, n, req[r].password) /\ UNCHANGED cut
  BY DEF LoginIssue
<1>5. TableInv' /\ RowsKept
  BY <1>2, <1>3, <1>4, CreateKeeps DEF Inv
<1>6. DOMAIN tokens' = 1..n /\ tokens'[n].parent = 0
  <2>1. /\ DOMAIN tokens' = 1..n
        /\ tokens'[n] = [owner |-> req[r].user, isRevoked |-> FALSE, isExpired |-> FALSE,
                replacedBy |-> 0, parent |-> 0, login |-> n, openedWith |-> req[r].password]
    BY <1>2, <1>3, <1>4, CreateRows
  <2>2. QED
    BY <2>1
<1>7. \A m \in handedOut' \ handedOut : m \in Ids' /\ SpendsItsParent(m)'
  <2> SUFFICES ASSUME NEW m \in handedOut' \ handedOut
               PROVE  m \in Ids' /\ SpendsItsParent(m)'
    OBVIOUS
  <2>1. m = n
    BY DEF LoginIssue
  <2>2. m \in Ids' /\ tokens'[m].parent = 0
    BY <1>3, <1>6, <2>1 DEF Ids
  <2>3. QED
    BY <2>2 DEF SpendsItsParent
<1>8. Finish(r) /\ UNCHANGED accountVars
  BY DEF LoginIssue
<1>9. \A t \in spared' \ spared : t \in Ids'
  BY <1>3, <1>6 DEF LoginIssue, SpareNewIf, Ids
<1>10. QED
  BY <1>5, <1>7, <1>8, <1>9, FinishedSound, AccountsKept, RequestStep DEF Inv, TypeOK

\* The stored successor is younger, of the same user and rotated from the old.
LEMMA RotateIssueInv ==
    ASSUME Inv, NEW r \in Requests, RotateIssue(r)
    PROVE  Inv'
<1> DEFINE n == Len(tokens) + 1
           old == req[r].token
           state == [pc |-> "rotate.revoke", user |-> req[r].user, token |-> old, new |-> n]
<1>1. req[r] # Idle /\ req[r].pc = "rotate.issue"
  BY DEF RotateIssue, At
<1>2. req[r].user \in Users /\ old \in Nat \ {0}
  BY <1>1, RequestShape DEF Inv, TokenPc
<1>3. old \in Ids /\ tokens[old].owner = req[r].user
  BY <1>1 DEF Inv, RequestsSound, Sound, HoldsToken, TokenPc
<1>4. /\ tokens \in Seq(Row) /\ n \in Nat \ {0} /\ Ids = 1..Len(tokens)
      /\ tokens[old].login \in Nat /\ tokens[old].openedWith \in Passwords
  BY <1>3, RowFields DEF Inv, TableInv, Ids
<1>5. Create(req[r].user, old, tokens[old].login, tokens[old].openedWith) /\ UNCHANGED cut
  BY DEF RotateIssue
<1>6. TableInv' /\ RowsKept
  BY <1>2, <1>3, <1>4, <1>5, CreateKeeps DEF Inv
<1>7. /\ DOMAIN tokens' = 1..n /\ tokens'[old] = tokens[old]
      /\ tokens'[n].parent = old /\ tokens'[n].owner = req[r].user
  <2>1. /\ DOMAIN tokens' = 1..n
        /\ \A t \in Ids : tokens'[t] = tokens[t]
        /\ tokens'[n] = [owner |-> req[r].user, isRevoked |-> FALSE, isExpired |-> FALSE,
                replacedBy |-> 0, parent |-> old, login |-> tokens[old].login,
                openedWith |-> tokens[old].openedWith]
    BY <1>2, <1>4, <1>5, CreateRows
  <2>2. QED
    BY <2>1, <1>3
<1>8. Goto(r, state) /\ state \in Request /\ UNCHANGED <<accountVars, handedOut>>
  BY <1>2, <1>4 DEF RotateIssue, Request, RotateReq
<1>9. Sound(r)'
  <2>1. req'[r] = state
    BY <1>8 DEF Goto, Inv, TypeOK
  <2>2. HoldsToken(r)' /\ HoldsSuccessor(r)'
    BY <2>1, <1>2, <1>3, <1>4, <1>7 DEF HoldsToken, HoldsSuccessor, Ids
  <2>3. QED
    BY <2>1, <2>2 DEF Sound
<1>10. \A t \in spared' \ spared : t \in Ids'
  BY <1>4, <1>7 DEF RotateIssue, SpareNewIf, Ids
<1>11. QED
  BY <1>6, <1>8, <1>9, <1>10, AccountsKept, RequestStep DEF Inv, TypeOK

\* The old token is revoked and linked to the successor the request stored.
LEMMA RotateRevokeInv ==
    ASSUME Inv, NEW r \in Requests, RotateRevoke(r)
    PROVE  Inv'
<1> DEFINE old == req[r].token
           new == req[r].new
           state == [req[r] EXCEPT !.pc = "rotate.check"]
<1>1. req[r] # Idle /\ req[r].pc = "rotate.revoke"
  BY DEF RotateRevoke, At
<1>2. req[r] \in RotateReq
  BY <1>1, RequestShape DEF Inv
<1>3. HoldsToken(r) /\ HoldsSuccessor(r)
  BY <1>1 DEF Inv, RequestsSound, Sound, TokenPc
<1>4. Revoke(old, new) /\ UNCHANGED <<accountVars, handedOut, cut, spared>>
  BY DEF RotateRevoke
<1>5. TableInv' /\ RowsKept
  <2>1. old \in Ids /\ new \in Nat /\ new \in Ids /\ new > old
        /\ tokens[new].parent = old /\ tokens[new].owner = tokens[old].owner
    BY <1>2, <1>3 DEF HoldsToken, HoldsSuccessor, RotateReq
  <2>2. QED
    BY <1>4, <2>1, RevokeKeeps DEF Inv
<1>6. tokens'[old].isRevoked /\ tokens'[old].replacedBy # 0
  <2>1. /\ old \in Ids /\ tokens \in Seq(Row) /\ tokens[old] \in Row /\ new \in Nat \ {0}
    BY <1>2, <1>3, RowFields DEF HoldsToken, RotateReq, Inv, TableInv
  <2>2. tokens'[old] = [tokens[old] EXCEPT !.isRevoked = TRUE,
                             !.replacedBy = IF new = 0 THEN @ ELSE new]
    BY <1>4, <2>1, RevokeRows
  <2>3. QED
    BY <2>1, <2>2 DEF Row
<1>7. req'[r] = state /\ Goto(r, state) /\ state \in Request
  BY <1>2 DEF RotateRevoke, Goto, Inv, TypeOK, RotateReq, Request
<1>8. Sound(r)'
  <2>1. /\ req'[r].pc = "rotate.check" /\ req'[r].token = old
        /\ req'[r].new = new /\ req'[r].user = req[r].user
    BY <1>2, <1>7 DEF RotateReq
  <2>2. HoldsToken(r)' /\ HoldsSuccessor(r)'
    BY <1>3, <1>5, <2>1 DEF HoldsToken, HoldsSuccessor, RowsKept, Ids
  <2>3. Spent(req[r].token)'
    BY <1>6, <2>1 DEF Spent, Live
  <2>4. QED
    BY <2>1, <2>2, <2>3 DEF Sound
<1>9. QED
  BY <1>4, <1>5, <1>7, <1>8, AccountsKept, RequestStep DEF Inv, TypeOK

\* What a refresh hands out was rotated from a token by now spent.
LEMMA RotateCheckInv ==
    ASSUME Inv, NEW r \in Requests, RotateCheck(r)
    PROVE  Inv'
<1>1. req[r] # Idle /\ req[r].pc = "rotate.check" /\ UNCHANGED <<accountVars, tokens, cut, spared>>
  BY DEF RotateCheck, At
<1>2. req[r] \in RotateReq /\ req[r].user \in Users
  BY <1>1, RequestShape DEF Inv
<1>3. HoldsToken(r) /\ HoldsSuccessor(r) /\ Spent(req[r].token)
  BY <1>1 DEF Inv, RequestsSound, Sound, TokenPc
<1>4. TableInv' /\ RowsKept /\ AccountTypeOK'
  BY <1>1, TableUnchanged, AccountsKept DEF Inv, TypeOK
<1>5. CASE FindActiveById(req[r].user)
  <2>1. Finish(r) /\ \A n \in handedOut' \ handedOut : n = req[r].new
    BY <1>5 DEF RotateCheck
  <2>2. req[r].new \in Ids' /\ SpendsItsParent(req[r].new)
    BY <1>1, <1>3 DEF HoldsSuccessor, SpendsItsParent, Ids
  <2>3. \A n \in handedOut' \ handedOut : n \in Ids' /\ SpendsItsParent(n)'
    BY <1>1, <2>1, <2>2 DEF SpendsItsParent, Spent, Live
  <2>4. QED
    BY <1>1, <1>4, <2>1, <2>3, FinishedSound, RequestStep DEF Inv
<1>6. CASE ~FindActiveById(req[r].user)
  <2> DEFINE state == [pc |-> "drop", user |-> req[r].user]
  <2>1. Goto(r, state) /\ UNCHANGED handedOut /\ state \in Request
    BY <1>2, <1>6 DEF RotateCheck, Request, UserReq
  <2>2. req'[r] = state
    BY <2>1 DEF Goto, Inv, TypeOK
  <2>3. Sound(r)'
    BY <2>2 DEF Sound, TokenPc
  <2>4. QED
    BY <1>1, <1>4, <2>1, <2>3, RequestStep DEF Inv
<1>7. QED
  BY <1>5, <1>6

\* updatePassword leaves the tokens alone; what is left to do needs no token.
LEMMA ResetWriteInv ==
    ASSUME Inv, NEW r \in Requests, ResetWrite(r)
    PROVE  Inv'
<1> DEFINE state == [pc |-> "reset.revoke", user |-> req[r].user]
<1>1. req[r] # Idle /\ req[r].pc = "reset.write"
  BY DEF ResetWrite, At
<1>2. req[r].user \in Users /\ req[r].password \in Passwords
  BY <1>1, RequestShape DEF Inv
<1>3. Goto(r, state) /\ state \in Request /\ UNCHANGED <<tokens, handedOut, cut, spared>>
  BY <1>2 DEF ResetWrite, Request, UserReq
<1>4. AccountTypeOK'
  BY <1>2 DEF ResetWrite, UpdatePassword, Inv, TypeOK, AccountTypeOK
<1>5. Sound(r)'
  <2>1. req'[r] = state
    BY <1>3 DEF Goto, Inv, TypeOK
  <2>2. QED
    BY <2>1 DEF Sound, TokenPc
<1>6. QED
  BY <1>3, <1>4, <1>5, TableUnchanged, RequestStep DEF Inv

\* Every statement of a request keeps the invariant.
LEMMA StepInv ==
    ASSUME Inv, NEW r \in Requests, Step(r)
    PROVE  Inv'
<1>1. CASE ReuseRevokeAll(r) \/ DropRevokeAll(r) \/ LogoutAllRevoke(r) \/ ResetRevoke(r)
  BY <1>1, RevokeAllInv DEF ReuseRevokeAll, DropRevokeAll, LogoutAllRevoke, ResetRevoke, At
<1>2. CASE ExpireRevoke(r) \/ LogoutRevoke(r)
  BY <1>2, RevokeOneInv
<1>3. QED
  BY <1>1, <1>2, LoginIssueInv, RotateIssueInv, RotateRevokeInv, RotateCheckInv, ResetWriteInv
     DEF Step

\* An abort, an expiry and the administrator's operations.
LEMMA OtherInv ==
    ASSUME Inv
    PROVE  /\ \A r \in Requests : Abort(r) => Inv'
           /\ \A t \in Ids : Expire(t) => Inv'
           /\ AccountNext /\ UNCHANGED sessionVars => Inv'
<1>1. ASSUME NEW r \in Requests, Abort(r)
      PROVE  Inv'
  <2>1. \A t \in spared' \ spared : t \in Ids'
    BY <1>1 DEF Abort, SpareOld, Ids
  <2>2. QED
    BY <1>1, <2>1, TableUnchanged, AccountsKept, FinishedSound, RequestStep DEF Abort, Inv, TypeOK
<1>2. ASSUME AccountTypeOK', TableInv', RowsKept, UNCHANGED <<req, handedOut, spared>>
      PROVE  Inv'
  <2>1. RequestsSound'
    BY <1>2, StaysSound DEF RequestsSound
  <2>2. handedOut' \subseteq Ids' /\ spared' \subseteq Ids'
    BY <1>2 DEF Inv, TypeOK, RowsKept, Ids
  <2>3. AnsweredRotationSpends'
    BY <1>2 DEF Inv, TypeOK, TableInv, ParentsOlder, AnsweredRotationSpends, RowsKept, Live
  <2>4. QED
    BY <1>2, <2>1, <2>2, <2>3 DEF Inv, TypeOK, TableInv
<1>3. ASSUME NEW t \in Ids, Expire(t)
      PROVE  Inv'
  BY <1>2, <1>3, ExpireKeeps, AccountsKept DEF Expire, Inv, TypeOK
<1>4. ASSUME AccountNext, UNCHANGED sessionVars
      PROVE  Inv'
  BY <1>2, <1>4, TableUnchanged, AccountTypeStep DEF sessionVars, Inv, TypeOK
<1>5. QED
  BY <1>1, <1>3, <1>4

-----------------------------------------------------------------------------
(***************************************************************************)
(* The theorems.                                                           *)
(***************************************************************************)

\* The invariant holds of the empty table.
LEMMA InvInit ==
    ASSUME Init
    PROVE  Inv
<1>1. AccountTypeOK
  BY AccountTypeInit DEF Init
<1>2. tokens = <<>> /\ tokens \in Seq(Row) /\ Ids = {} /\ Len(tokens) = 0
  BY DEF Init, Ids
<1>3. TypeOK
  BY <1>1, <1>2 DEF Init, TypeOK
<1>4. TableInv
  BY <1>2 DEF Init, TableInv, ParentsOlder, CutWithinTable, RevokeAllIsFinal, RotationChain
<1>5. RequestsSound /\ AnsweredRotationSpends
  BY DEF Init, RequestsSound, Sound, AnsweredRotationSpends
<1>6. QED
  BY <1>3, <1>4, <1>5 DEF Inv

\* Every step keeps the invariant.
LEMMA InvStep ==
    ASSUME Inv, [Next]_vars
    PROVE  Inv'
<1>1. CASE UNCHANGED vars
  <2>1. AccountTypeOK' /\ TableInv' /\ RowsKept
    BY <1>1, TableUnchanged, AccountsKept DEF vars, sessionVars, Inv, TypeOK
  <2>2. RequestsSound'
    BY <1>1, <2>1, StaysSound DEF RequestsSound, vars, sessionVars
  <2>3. TypeOK' /\ AnsweredRotationSpends'
    BY <1>1, <2>1 DEF vars, sessionVars, Inv, TypeOK, TableInv, AnsweredRotationSpends, Live, Ids
  <2>4. QED
    BY <2>1, <2>2, <2>3 DEF Inv
<1>2. CASE Next
  BY <1>2, ArriveInv, StepInv, OtherInv DEF Next
<1>3. QED
  BY <1>1, <1>2

\* The invariant holds of every reachable state, whatever the constants.
THEOREM InductiveInvariant == Spec => []Inv
BY InvInit, InvStep, PTL DEF Spec

\* Every variable keeps its type: in particular no token id is ever dangling.
THEOREM TypeCorrect == Spec => []TypeOK
BY InductiveInvariant, PTL DEF Inv

\* revokeAllForUser is final for every token there was.
THEOREM RevokeAllFinal == Spec => []RevokeAllIsFinal
<1>1. Inv => RevokeAllIsFinal
  BY DEF Inv, TableInv
<1>2. QED
  BY <1>1, InductiveInvariant, PTL

\* replaced_by_id links a dead token to a younger one of the same user.
THEOREM ChainsAreSound == Spec => []RotationChain
<1>1. Inv => RotationChain
  BY DEF Inv, TableInv
<1>2. QED
  BY <1>1, InductiveInvariant, PTL

\* No refresh is answered while the token it was given is still good.
THEOREM AnswersSpendTokens == Spec => []AnsweredRotationSpends
<1>1. Inv => AnsweredRotationSpends
  BY DEF Inv
<1>2. QED
  BY <1>1, InductiveInvariant, PTL

\* One user's requests never revoke another user's token.
LEMMA OwnerRevokes ==
    ASSUME Inv, Next, NEW t \in Ids, Live(t), ~Live(t)'
    PROVE  \E r \in Requests : /\ req[r] # Idle /\ req'[r] # req[r]
                               /\ req[r].user = tokens[t].owner
<1> USE DEF Live
<1>0. tokens \in Seq(Row) /\ tokens[t] \in Row /\ tokens[t].isRevoked = FALSE
  BY RowFields DEF Inv, TableInv
<1>1. CASE tokens' = tokens
  BY <1>1
<1>2. ASSUME NEW s \in Ids, Expire(s)
      PROVE  FALSE
  BY <1>0, <1>2, ExpireRows DEF Row
<1>3. ASSUME NEW u, NEW parent, NEW login, NEW p, Create(u, parent, login, p)
      PROVE  FALSE
  BY <1>0, <1>3 DEF Create, Ids
<1>4. ASSUME NEW r \in Requests, req[r] # Idle, Finish(r), RevokeAllForUser(req[r].user)
      PROVE  req'[r] # req[r] /\ req[r].user = tokens[t].owner
  BY <1>0, <1>4 DEF RevokeAllForUser, Finish, Goto, Inv, TypeOK
<1>5. ASSUME NEW r \in Requests, req[r] # Idle, Finish(r), HoldsToken(r), Revoke(req[r].token, 0)
      PROVE  req'[r] # req[r] /\ req[r].user = tokens[t].owner
  <2>1. t = req[r].token
    BY <1>0, <1>5, RevokeRows DEF HoldsToken
  <2>2. QED
    BY <1>5, <2>1 DEF HoldsToken, Finish, Goto, Inv, TypeOK
<1>6. ASSUME NEW r \in Requests, RotateRevoke(r)
      PROVE  req[r] # Idle /\ req'[r] # req[r] /\ req[r].user = tokens[t].owner
  <2>1. req[r] # Idle /\ req[r].pc = "rotate.revoke"
    BY <1>6 DEF RotateRevoke, At
  <2>2. HoldsToken(r) /\ req[r] \in RotateReq
    BY <2>1, RequestShape DEF Inv, RequestsSound, Sound, TokenPc
  <2>3. req'[r].pc = "rotate.check"
    BY <1>6, <2>2 DEF RotateRevoke, RotateReq, Inv, TypeOK
  <2>4. t = req[r].token
    BY <1>0, <1>6, <2>2, RevokeRows DEF RotateRevoke, HoldsToken, RotateReq
  <2>5. QED
    BY <2>1, <2>2, <2>3, <2>4 DEF HoldsToken
<1>7. ASSUME NEW r \in Requests, Arrive(r) \/ RotateCheck(r) \/ ResetWrite(r) \/ Abort(r)
      PROVE  tokens' = tokens
  BY <1>7 DEF Arrive, LoginFind, ResetFind, RefreshFind, LogoutFind, LogoutAllEnter,
              RotateCheck, ResetWrite, Abort
<1>8. ASSUME NEW r \in Requests, Step(r)
      PROVE  \E q \in Requests : /\ req[q] # Idle /\ req'[q] # req[q]
                                 /\ req[q].user = tokens[t].owner
  <2>1. CASE LoginIssue(r) \/ RotateIssue(r)
    BY <1>3, <2>1 DEF LoginIssue, RotateIssue
  <2>2. CASE ReuseRevokeAll(r) \/ DropRevokeAll(r) \/ LogoutAllRevoke(r) \/ ResetRevoke(r)
    BY <1>4, <2>2 DEF ReuseRevokeAll, DropRevokeAll, LogoutAllRevoke, ResetRevoke, At
  <2>3. CASE ExpireRevoke(r) \/ LogoutRevoke(r)
    <3>1. req[r] # Idle /\ Finish(r) /\ HoldsToken(r) /\ Revoke(req[r].token, 0)
      BY <2>3 DEF ExpireRevoke, LogoutRevoke, At, Inv, RequestsSound, Sound, TokenPc
    <3>2. QED
      BY <1>5, <3>1
  <2>4. CASE RotateRevoke(r)
    BY <1>6, <2>4
  <2>5. CASE RotateCheck(r) \/ ResetWrite(r)
    BY <1>1, <1>7, <2>5
  <2>6. QED
    BY <1>8, <2>1, <2>2, <2>3, <2>4, <2>5 DEF Step
<1>9. QED
  BY <1>1, <1>2, <1>7, <1>8 DEF Next, sessionVars

\* No request revokes a token of anyone but its own user.
THEOREM OnlyOwnersRevoke == Spec => RevokedOnlyForItsOwner
<1> DEFINE ForItsOwner ==
       \A t \in Ids : Live(t) /\ ~Live(t)' =>
          \E r \in Requests : /\ req[r] # Idle /\ req'[r] # req[r]
                              /\ req[r].user = tokens[t].owner
<1>1. Inv /\ [Next]_vars => [ForItsOwner]_vars
  BY OwnerRevokes
<1>2. QED
  BY <1>1, InductiveInvariant, PTL DEF Spec, RevokedOnlyForItsOwner

-----------------------------------------------------------------------------
\* Session requests beside operations on accounts change nothing an operation
\* relies on: the last administrator is still lost by an overlap only.
THEOREM LastAdminNeedsOverlapBesideSessions == Spec => LastAdminLostOnlyByOverlap
<1> DEFINE Overlapped ==
       AdminRemains /\ ~AdminRemains' =>
         \E a \in Ops :
            /\ op[a] # Idle /\ op'[a] # op[a]
            /\ op[a].pc = "write" /\ op[a].kind # "reactivate"
            /\ op[a].user # op[a].actor
            /\ ~FindActiveById(op[a].actor)
<1>1. ASSUME [Next]_vars
      PROVE  AccountNext \/ UNCHANGED <<users, isActive, isDeleted, op>>
  <2>1. ASSUME NEW r \in Requests, Arrive(r) \/ Step(r) \/ Abort(r)
        PROVE  UNCHANGED <<users, isActive, isDeleted, op>>
    BY <2>1 DEF Arrive, LoginFind, ResetFind, RefreshFind, LogoutFind, LogoutAllEnter, Step, LoginIssue,
                ReuseRevokeAll, ExpireRevoke, RotateIssue, RotateRevoke, RotateCheck, DropRevokeAll,
                LogoutRevoke, LogoutAllRevoke, ResetWrite, ResetRevoke, Abort, UpdatePassword, accountVars
  <2>2. QED
    BY <1>1, <2>1 DEF Next, Expire, vars, accountVars
<1>2. TypeOK /\ ActorsSound /\ [Next]_vars => ActorsSound' /\ [Overlapped]_accountVars
  <2> SUFFICES ASSUME TypeOK, ActorsSound, [Next]_vars
               PROVE  ActorsSound' /\ [Overlapped]_accountVars
    OBVIOUS
  <2>1. CASE AccountNext
    BY <2>1, ActorsStep, LastAdminStep DEF TypeOK
  <2>2. CASE UNCHANGED <<users, isActive, isDeleted, op>>
    BY <2>2 DEF ActorsSound, AdminRemains, FindActiveById
  <2>3. QED
    BY <1>1, <2>1, <2>2
<1>3. Init => ActorsSound
  BY ActorsInit DEF Init
<1>4. QED
  BY <1>2, <1>3, TypeCorrect, PTL DEF Spec, LastAdminLostOnlyByOverlap

-----------------------------------------------------------------------------
(***************************************************************************)
(* Requests that do not overlap.  Whatever a rotation has read is still so *)
(* when it writes: the token it was given is good until the request itself *)
(* revokes it, so its sessions have not been ended and nobody was given    *)
(* another successor.                                                      *)
(***************************************************************************)

\* The hypothesis of what follows.
OneRequest == \A r, s \in Requests : r = s

\* What other modules do beside the sessions: no row of users goes or gets
\* another password, and no session request moves.
BesideSessions ==
    /\ UNCHANGED sessionVars
    /\ \A u \in users : u \in users' /\ passwordHash'[u] = passwordHash[u]

SessionMove ==
    \/ \E r \in Requests : Arrive(r) \/ Step(r) \/ Abort(r)
    \/ \E t \in Ids : Expire(t)
    \/ BesideSessions

\* A token about to be exchanged may still be.
StillGood ==
    \A r \in Requests : At(r, "rotate.issue") \/ At(r, "rotate.revoke") => Live(req[r].token)

\* A rotation about to answer is the first to answer with a successor.
FirstAnswer ==
    \A r \in Requests : At(r, "rotate.check") => \A n \in handedOut : tokens[n].parent # req[r].token

\* The successor stored is the youngest row, alive, in the session of the old.
SuccessorStored ==
    \A r \in Requests : At(r, "rotate.revoke") =>
        /\ req[r].new = Len(tokens) /\ Live(req[r].new)
        /\ tokens[req[r].new].login = tokens[req[r].token].login

\* The inductive invariant of requests that do not overlap.
AloneInv == StillGood /\ FirstAnswer /\ SuccessorStored /\ ExchangedOnce /\ NoSessionOutlivesRevokeAll

\* No row is added, given to another session or brought back to life.
RowsFade ==
    /\ Len(tokens') = Len(tokens) /\ DOMAIN tokens' = Ids
    /\ \A t \in Ids :
        /\ tokens'[t].owner = tokens[t].owner /\ tokens'[t].parent = tokens[t].parent
        /\ tokens'[t].login = tokens[t].login /\ tokens'[t].openedWith = tokens[t].openedWith
        /\ tokens[t].isRevoked => tokens'[t].isRevoked

\* The three ways to update rows let them fade.
LEMMA RevokeFades ==
    ASSUME tokens \in Seq(Row), NEW t \in Ids, NEW new \in Nat, Revoke(t, new)
    PROVE  RowsFade /\ tokens'[t].isRevoked /\ \A s \in Ids : s # t => tokens'[s] = tokens[s]
<1>1. /\ Len(tokens') = Len(tokens) /\ DOMAIN tokens' = Ids
      /\ \A s \in Ids : s # t => tokens'[s] = tokens[s]
      /\ tokens'[t] = [tokens[t] EXCEPT !.isRevoked = TRUE,
                           !.replacedBy = IF new = 0 THEN @ ELSE new]
  BY RevokeRows
<1>2. tokens[t] \in Row
  BY RowFields
<1>3. QED
  BY <1>1, <1>2 DEF Row, RowsFade

LEMMA RevokeAllFades ==
    ASSUME tokens \in Seq(Row), NEW u, RevokeAllForUser(u)
    PROVE  /\ RowsFade
           /\ \A t \in Ids : tokens[t].owner = u => tokens'[t].isRevoked
<1>1. /\ Len(tokens') = Len(tokens) /\ DOMAIN tokens' = Ids
      /\ \A t \in Ids : tokens[t].owner # u => tokens'[t] = tokens[t]
      /\ \A t \in Ids : tokens[t].owner = u =>
           tokens'[t] = [tokens[t] EXCEPT !.isRevoked = TRUE]
  BY RevokeAllRows
<1>2. \A t \in Ids : tokens[t] \in Row
  BY RowFields
<1>3. QED
  BY <1>1, <1>2 DEF Row, RowsFade

LEMMA ExpireFades ==
    ASSUME tokens \in Seq(Row), NEW t \in Ids, Expire(t)
    PROVE  RowsFade /\ \A s \in Ids : tokens'[s].isRevoked = tokens[s].isRevoked
<1>1. /\ Len(tokens') = Len(tokens) /\ DOMAIN tokens' = Ids
      /\ \A s \in Ids : s # t => tokens'[s] = tokens[s]
      /\ tokens'[t] = [tokens[t] EXCEPT !.isExpired = TRUE]
  BY ExpireRows
<1>2. tokens[t] \in Row
  BY RowFields
<1>3. QED
  BY <1>1, <1>2 DEF Row, RowsFade

\* The slot of the request that moves, and there is no other.
LEMMA OnlyMover ==
    ASSUME OneRequest, TypeOK, NEW r \in Requests, NEW state, Goto(r, state)
    PROVE  req'[r] = state /\ \A q \in Requests : q = r
BY DEF OneRequest, TypeOK, Goto

\* Fading keeps what is said of rows, if a revocation ends what it cuts off.
LEMMA FadingKeeps ==
    ASSUME Inv, ExchangedOnce, NoSessionOutlivesRevokeAll, RowsFade, UNCHANGED handedOut,
           \A t \in Ids : cut'[tokens[t].owner] # cut[tokens[t].owner] => tokens'[t].isRevoked
    PROVE  ExchangedOnce' /\ NoSessionOutlivesRevokeAll'
<1>1. handedOut \subseteq Ids
  BY DEF Inv, TypeOK
<1>2. ExchangedOnce'
  BY <1>1 DEF ExchangedOnce, RowsFade
<1>3. NoSessionOutlivesRevokeAll'
  BY DEF NoSessionOutlivesRevokeAll, RowsFade, Live, Ids
<1>4. QED
  BY <1>2, <1>3

\* A request that reads, or ends, or leaves the tokens alone.
LEMMA QuietAlone ==
    ASSUME OneRequest, Inv, AloneInv, NEW r \in Requests, NEW state, Goto(r, state),
           UNCHANGED <<tokens, handedOut, cut>>,
           state # Idle => /\ state.pc \notin {"rotate.revoke", "rotate.check"}
                           /\ state.pc = "rotate.issue" => Live(state.token)
    PROVE  AloneInv'
<1>1. req'[r] = state /\ \A q \in Requests : q = r
  BY OnlyMover DEF Inv
<1>2. StillGood' /\ FirstAnswer' /\ SuccessorStored'
  BY <1>1 DEF StillGood, FirstAnswer, SuccessorStored, At, Live
<1>3. ExchangedOnce' /\ NoSessionOutlivesRevokeAll'
  BY DEF AloneInv, ExchangedOnce, NoSessionOutlivesRevokeAll, Live, Ids
<1>4. QED
  BY <1>2, <1>3 DEF AloneInv

\* A request that ends has nothing left to be sound about.
LEMMA EndAlone ==
    ASSUME OneRequest, TypeOK, NEW r \in Requests, Finish(r)
    PROVE  StillGood' /\ FirstAnswer' /\ SuccessorStored'
<1>1. \A q \in Requests : req'[q] = Idle
  BY OnlyMover DEF Finish
<1>2. QED
  BY <1>1 DEF StillGood, FirstAnswer, SuccessorStored, At

\* Requests that end by revoking one token or all.
LEMMA RevokingAlone ==
    ASSUME OneRequest, Inv, AloneInv, NEW r \in Requests,
           \/ ReuseRevokeAll(r) \/ DropRevokeAll(r) \/ LogoutAllRevoke(r) \/ ResetRevoke(r)
           \/ ExpireRevoke(r) \/ LogoutRevoke(r)
    PROVE  AloneInv'
<1>1. tokens \in Seq(Row) /\ TypeOK
  BY DEF Inv, TableInv
<1>2. req[r] # Idle /\ Finish(r) /\ UNCHANGED handedOut
  BY DEF ReuseRevokeAll, DropRevokeAll, LogoutAllRevoke, ResetRevoke, ExpireRevoke, LogoutRevoke, At
<1>3. /\ RowsFade
      /\ \A t \in Ids : cut'[tokens[t].owner] # cut[tokens[t].owner] => tokens'[t].isRevoked
  <2>1. CASE ReuseRevokeAll(r) \/ DropRevokeAll(r) \/ LogoutAllRevoke(r) \/ ResetRevoke(r)
    <3>1. RevokeAllForUser(req[r].user)
      BY <2>1 DEF ReuseRevokeAll, DropRevokeAll, LogoutAllRevoke, ResetRevoke
    <3>2. cut' = [cut EXCEPT ![req[r].user] = Len(tokens)]
      BY <3>1 DEF RevokeAllForUser
    <3>3. \A t \in Ids : cut'[tokens[t].owner] # cut[tokens[t].owner] => tokens[t].owner = req[r].user
      BY <1>1, <3>2 DEF TypeOK
    <3>4. QED
      BY <1>1, <3>1, <3>3, RevokeAllFades
  <2>2. CASE ExpireRevoke(r) \/ LogoutRevoke(r)
    <3>1. HoldsToken(r) /\ Revoke(req[r].token, 0) /\ UNCHANGED cut
      BY <2>2 DEF ExpireRevoke, LogoutRevoke, At, Inv, RequestsSound, Sound, TokenPc
    <3>2. QED
      BY <1>1, <3>1, RevokeFades DEF HoldsToken
  <2>3. QED
    BY <2>1, <2>2
<1>4. QED
  BY <1>1, <1>2, <1>3, FadingKeeps, EndAlone DEF AloneInv

\* A login opens a session beyond every cut.
LEMMA LoginIssueAlone ==
    ASSUME OneRequest, Inv, AloneInv, NEW r \in Requests, LoginIssue(r)
    PROVE  AloneInv'
<1> DEFINE n == Len(tokens) + 1
<1>1. /\ tokens \in Seq(Row) /\ TypeOK /\ CutWithinTable /\ Ids = 1..Len(tokens)
      /\ Len(tokens) \in Nat /\ n \in Nat /\ handedOut \subseteq Ids
  BY DEF Inv, TableInv, TypeOK, Ids
<1>2. req[r].user \in Users /\ req[r].password \in Passwords
  BY RequestShape DEF Inv, LoginIssue, At
<1>3. /\ DOMAIN tokens' = 1..n
      /\ \A t \in Ids : tokens'[t] = tokens[t]
      /\ tokens'[n].owner = req[r].user /\ tokens'[n].parent = 0 /\ tokens'[n].login = n
  <2>1. Create(req[r].user, 0, n, req[r].password)
    BY DEF LoginIssue
  <2>2. /\ DOMAIN tokens' = 1..n
        /\ \A t \in Ids : tokens'[t] = tokens[t]
        /\ tokens'[n] = [owner |-> req[r].user, isRevoked |-> FALSE, isExpired |-> FALSE,
                replacedBy |-> 0, parent |-> 0, login |-> n, openedWith |-> req[r].password]
    BY <1>1, <1>2, <2>1, CreateRows
  <2>3. QED
    BY <2>2
<1>4. /\ Finish(r) /\ UNCHANGED cut
      /\ \A m \in handedOut' : m \in handedOut \/ m = n
  BY DEF LoginIssue
<1>5. ExchangedOnce'
  BY <1>1, <1>3, <1>4 DEF AloneInv, ExchangedOnce
<1>6. NoSessionOutlivesRevokeAll'
  <2> SUFFICES ASSUME NEW t \in Ids', tokens'[t].login <= cut[tokens'[t].owner]
               PROVE  ~Live(t)'
    BY <1>4 DEF NoSessionOutlivesRevokeAll
  <2>1. CASE t = n
    BY <1>1, <1>2, <1>3, <2>1 DEF CutWithinTable, TypeOK
  <2>2. CASE t # n
    <3>1. t \in Ids
      BY <1>1, <1>3, <2>2 DEF Ids
    <3>2. QED
      BY <1>3, <3>1 DEF AloneInv, NoSessionOutlivesRevokeAll, Live
  <2>3. QED
    BY <2>1, <2>2
<1>7. QED
  BY <1>1, <1>4, <1>5, <1>6, EndAlone DEF AloneInv

\* A successor joins a session that is not over, for its token is good.
LEMMA RotateIssueAlone ==
    ASSUME OneRequest, Inv, AloneInv, NEW r \in Requests, RotateIssue(r)
    PROVE  AloneInv'
<1> DEFINE n == Len(tokens) + 1
           old == req[r].token
           state == [pc |-> "rotate.revoke", user |-> req[r].user, token |-> old, new |-> n]
<1>1. /\ tokens \in Seq(Row) /\ TypeOK /\ Ids = 1..Len(tokens)
      /\ Len(tokens) \in Nat /\ handedOut \subseteq Ids
  BY DEF Inv, TableInv, TypeOK, Ids
<1>2. At(r, "rotate.issue") /\ req[r].user \in Users /\ old \in Nat \ {0}
  BY RequestShape DEF RotateIssue, At, Inv, TokenPc
<1>3. old \in Ids /\ tokens[old].owner = req[r].user /\ Live(old)
  BY <1>2 DEF Inv, RequestsSound, Sound, HoldsToken, TokenPc, At, AloneInv, StillGood
<1>4. tokens[old].login \in Nat /\ tokens[old].openedWith \in Passwords
  BY <1>1, <1>3, RowFields
<1>5. /\ DOMAIN tokens' = 1..n /\ Len(tokens') = n
      /\ \A t \in Ids : tokens'[t] = tokens[t]
      /\ tokens'[n].owner = req[r].user /\ tokens'[n].login = tokens[old].login
      /\ ~tokens'[n].isRevoked
  <2>1. Create(req[r].user, old, tokens[old].login, tokens[old].openedWith)
    BY DEF RotateIssue
  <2>2. /\ DOMAIN tokens' = 1..n /\ Len(tokens') = n
        /\ \A t \in Ids : tokens'[t] = tokens[t]
        /\ tokens'[n] = [owner |-> req[r].user, isRevoked |-> FALSE, isExpired |-> FALSE,
                replacedBy |-> 0, parent |-> old, login |-> tokens[old].login,
                openedWith |-> tokens[old].openedWith]
    BY <1>1, <1>2, <1>4, <2>1, CreateRows
  <2>3. QED
    BY <2>2
<1>6. Goto(r, state) /\ UNCHANGED <<handedOut, cut>>
  BY DEF RotateIssue
<1>7. req'[r] = state /\ \A q \in Requests : q = r
  BY <1>1, <1>6, OnlyMover
<1>8. StillGood' /\ FirstAnswer' /\ SuccessorStored'
  <2>1. ~tokens'[old].isRevoked /\ tokens'[n].login = tokens'[old].login
    BY <1>3, <1>5 DEF Live
  <2>2. QED
    BY <1>5, <1>7, <2>1 DEF StillGood, FirstAnswer, SuccessorStored, At, Live
<1>9. ExchangedOnce'
  BY <1>1, <1>5, <1>6 DEF AloneInv, ExchangedOnce
<1>10. NoSessionOutlivesRevokeAll'
  <2> SUFFICES ASSUME NEW t \in Ids', tokens'[t].login <= cut[tokens'[t].owner]
               PROVE  ~Live(t)'
    BY <1>6 DEF NoSessionOutlivesRevokeAll
  <2>1. CASE t = n
    BY <1>3, <1>5, <2>1 DEF AloneInv, NoSessionOutlivesRevokeAll
  <2>2. CASE t # n
    <3>1. t \in Ids
      BY <1>1, <1>5, <2>2 DEF Ids
    <3>2. QED
      BY <1>5, <3>1 DEF AloneInv, NoSessionOutlivesRevokeAll, Live
  <2>3. QED
    BY <2>1, <2>2
<1>11. QED
  BY <1>8, <1>9, <1>10 DEF AloneInv

\* The token is revoked, and no client holds a successor of it: AnsweredRotationSpends.
LEMMA RotateRevokeAlone ==
    ASSUME OneRequest, Inv, AloneInv, NEW r \in Requests, RotateRevoke(r)
    PROVE  AloneInv'
<1> DEFINE state == [req[r] EXCEPT !.pc = "rotate.check"]
<1>1. tokens \in Seq(Row) /\ TypeOK /\ handedOut \subseteq Ids
  BY DEF Inv, TableInv, TypeOK
<1>2. At(r, "rotate.revoke") /\ req[r] \in RotateReq
  BY RequestShape DEF RotateRevoke, At, Inv
<1>3. req[r].token \in Ids /\ req[r].token # 0 /\ Live(req[r].token) /\ req[r].new \in Nat
  BY <1>2 DEF Inv, RequestsSound, Sound, HoldsToken, TokenPc, At, AloneInv, StillGood, RotateReq
<1>4. RowsFade
  BY <1>1, <1>3, RevokeFades DEF RotateRevoke
<1>5. Goto(r, state) /\ UNCHANGED <<handedOut, cut>>
  BY DEF RotateRevoke, Goto
<1>6. req'[r] = state /\ state.pc = "rotate.check" /\ state.token = req[r].token
  BY <1>1, <1>2, <1>5, OnlyMover DEF RotateReq
<1>7. \A q \in Requests : q = r
  BY DEF OneRequest
<1>8. \A n \in handedOut : tokens'[n].parent # req[r].token
  BY <1>1, <1>3, <1>4 DEF Inv, AnsweredRotationSpends, RowsFade
<1>9. StillGood' /\ FirstAnswer' /\ SuccessorStored'
  BY <1>5, <1>6, <1>7, <1>8 DEF StillGood, FirstAnswer, SuccessorStored, At
<1>10. QED
  BY <1>4, <1>5, <1>9, FadingKeeps DEF AloneInv

\* The successor is handed out, or the account is no longer active.
LEMMA RotateCheckAlone ==
    ASSUME OneRequest, Inv, AloneInv, NEW r \in Requests, RotateCheck(r)
    PROVE  AloneInv'
<1>1. At(r, "rotate.check") /\ UNCHANGED <<tokens, cut>> /\ TypeOK
  BY DEF RotateCheck, Inv
<1>2. CASE FindActiveById(req[r].user)
  <2>1. Finish(r) /\ \A m \in handedOut' : m \in handedOut \/ m = req[r].new
    BY <1>2 DEF RotateCheck
  <2>2. tokens[req[r].new].parent = req[r].token
    BY <1>1 DEF Inv, RequestsSound, Sound, HoldsSuccessor, At
  <2>3. \A m \in handedOut : tokens[m].parent # req[r].token
    BY <1>1 DEF AloneInv, FirstAnswer
  <2>4. ExchangedOnce'
    BY <1>1, <2>1, <2>2, <2>3 DEF AloneInv, ExchangedOnce
  <2>5. NoSessionOutlivesRevokeAll'
    BY <1>1 DEF AloneInv, NoSessionOutlivesRevokeAll, Live, Ids
  <2>6. QED
    BY <1>1, <2>1, <2>4, <2>5, EndAlone DEF AloneInv
<1>3. CASE ~FindActiveById(req[r].user)
  <2>1. Goto(r, [pc |-> "drop", user |-> req[r].user]) /\ UNCHANGED handedOut
    BY <1>3 DEF RotateCheck
  <2>2. QED
    BY <1>1, <2>1, QuietAlone
<1>4. QED
  BY <1>2, <1>3

\* An arriving request, one that dies and resetPassword's write.
LEMMA ArriveAlone ==
    ASSUME OneRequest, Inv, AloneInv, NEW r \in Requests, Arrive(r) \/ ResetWrite(r) \/ Abort(r)
    PROVE  AloneInv'
<1>1. ASSUME NEW u \in Users, NEW p \in Passwords, LoginFind(r, u, p) \/ ResetFind(r, u, p)
      PROVE  AloneInv'
  <2>1. PICK pc \in {"login.issue", "reset.write"} :
          Goto(r, [pc |-> pc, user |-> u, password |-> p]) /\ UNCHANGED <<tokens, handedOut, cut>>
    BY <1>1 DEF LoginFind, ResetFind
  <2>2. QED
    BY <2>1, QuietAlone
<1>2. ASSUME NEW t \in Ids, RefreshFind(r, t) \/ LogoutFind(r, t)
      PROVE  AloneInv'
  <2>1. PICK pc \in {"reuse", "expire", "rotate.issue", "logout"} :
          /\ Goto(r, [pc |-> pc, user |-> tokens[t].owner, token |-> t])
          /\ pc = "rotate.issue" => Live(t)
          /\ UNCHANGED <<tokens, handedOut, cut>>
    BY <1>2 DEF RefreshFind, LogoutFind, Live
  <2>2. QED
    BY <2>1, QuietAlone
<1>3. ASSUME NEW u \in Users, LogoutAllEnter(r, u)
      PROVE  AloneInv'
  BY <1>3, QuietAlone DEF LogoutAllEnter
<1>4. CASE ResetWrite(r)
  BY <1>4, QuietAlone DEF ResetWrite
<1>5. CASE Abort(r)
  BY <1>5, QuietAlone DEF Abort, Finish
<1>6. QED
  BY <1>1, <1>2, <1>3, <1>4, <1>5 DEF Arrive

\* An expiry date passes, or the sessions rest.
LEMMA RestAlone ==
    ASSUME Inv, AloneInv, RowsFade, UNCHANGED <<req, handedOut, cut>>,
           \A s \in Ids : tokens'[s].isRevoked = tokens[s].isRevoked
    PROVE  AloneInv'
<1>1. /\ \A r \in Requests : At(r, "rotate.issue") \/ At(r, "rotate.revoke") => req[r].token \in Ids
      /\ \A r \in Requests : At(r, "rotate.revoke") => req[r].new \in Ids
      /\ handedOut \subseteq Ids
  BY DEF Inv, TypeOK, RequestsSound, Sound, HoldsToken, HoldsSuccessor, At, TokenPc
<1>2. StillGood' /\ FirstAnswer' /\ SuccessorStored'
  BY <1>1 DEF AloneInv, StillGood, FirstAnswer, SuccessorStored, At, Live, RowsFade
<1>3. QED
  BY <1>2, FadingKeeps DEF AloneInv

\* Every step keeps the invariant.
LEMMA AloneStep ==
    ASSUME OneRequest, Inv, AloneInv, SessionMove
    PROVE  AloneInv'
<1>1. ASSUME NEW t \in Ids, Expire(t)
      PROVE  AloneInv'
  <2>1. tokens \in Seq(Row)
    BY DEF Inv, TableInv
  <2>2. QED
    BY <1>1, <2>1, ExpireFades, RestAlone DEF Expire
<1>2. CASE BesideSessions
  <2>1. UNCHANGED <<tokens, req, handedOut, cut>>
    BY <1>2 DEF BesideSessions, sessionVars
  <2>2. RowsFade
    BY <2>1 DEF RowsFade, Ids
  <2>3. QED
    BY <2>1, <2>2, RestAlone
<1>3. ASSUME NEW r \in Requests, Step(r)
      PROVE  AloneInv'
  BY <1>3, RevokingAlone, LoginIssueAlone, RotateIssueAlone, RotateRevokeAlone, RotateCheckAlone,
     ArriveAlone DEF Step
<1>4. QED
  BY <1>1, <1>2, <1>3, ArriveAlone DEF SessionMove

\* No request is there at the start.
LEMMA AloneInit == ASSUME Init PROVE AloneInv
BY DEF Init, AloneInv, StillGood, FirstAnswer, SuccessorStored, ExchangedOnce,
       NoSessionOutlivesRevokeAll, At, Ids

\* Operations on accounts remove no row and set no password of one there is.
LEMMA AccountsBeside ==
    ASSUME AccountTypeOK, AccountNext, UNCHANGED sessionVars
    PROVE  BesideSessions
<1> SUFFICES ASSUME NEW u \in users
             PROVE  u \in users' /\ passwordHash'[u] = passwordHash[u]
  BY DEF BesideSessions
<1>1. ASSUME NEW a \in Ops, CreateInsert(a)
      PROVE  u \in users' /\ passwordHash'[u] = passwordHash[u]
  BY <1>1 DEF CreateInsert, CreateWithProfile, rowVars, AccountTypeOK
<1>2. ASSUME NEW a \in Ops, AccountStepButInsert(a)
      PROVE  UNCHANGED <<users, passwordHash>>
  BY <1>2 DEF AccountStepButInsert, CreateFind, StatusEnter, StatusFind, StatusWrite, OpAbort,
              UpdateStatus, SoftDelete, rowVars
<1>3. QED
  BY <1>1, <1>2 DEF AccountNext

\* What Sessions does is made of these moves.
LEMMA NextMoves ==
    ASSUME TypeOK, [Next]_vars
    PROVE  SessionMove
<1>1. CASE UNCHANGED vars
  BY <1>1 DEF SessionMove, BesideSessions, vars, accountVars
<1>2. CASE Next
  BY <1>2, AccountsBeside DEF Next, SessionMove, TypeOK
<1>3. QED
  BY <1>1, <1>2

\* Requests that do not overlap keep AloneInv, whatever dies in between.
THEOREM AloneInvariant == ASSUME OneRequest PROVE Spec => []AloneInv
<1>1. Inv /\ AloneInv /\ [Next]_vars => AloneInv'
  BY NextMoves, AloneStep DEF Inv
<1>2. QED
  BY <1>1, AloneInit, InductiveInvariant, PTL DEF Spec

\* Where requests do not overlap a client is given one successor of a token,
\* even if rotations die between their statements and are tried again.
THEOREM ExchangedOnceAlone == ASSUME OneRequest PROVE Spec => []ExchangedOnce
<1>1. AloneInv => ExchangedOnce
  BY DEF AloneInv
<1>2. QED
  BY <1>1, AloneInvariant, PTL

\* Where requests do not overlap nothing of a session that was ended with all
\* of its user's is alive, not even a later row, and even if requests die.
THEOREM NoSessionOutlivesAlone == ASSUME OneRequest PROVE Spec => []NoSessionOutlivesRevokeAll
<1>1. AloneInv => NoSessionOutlivesRevokeAll
  BY DEF AloneInv
<1>2. QED
  BY <1>1, AloneInvariant, PTL


-----------------------------------------------------------------------------
(***************************************************************************)
(* Requests that overlap and die as they may.  A row younger than the last *)
(* revocation of its owner's sessions, and not spared, belongs to a        *)
(* session opened after that revocation, with the password there is, or a  *)
(* reset is still to end it.  This holds of dead rows too: a rotation that *)
(* has read such a row may store a successor of it at any later time.      *)
(***************************************************************************)

\* A reset has written a password of the user and is to end the sessions.
ResetPending(u) == \E r \in Requests : At(r, "reset.revoke") /\ req[r].user = u

\* Every session, and every login about to be answered, is of a row of users.
OwnersThere ==
    /\ \A t \in Ids : tokens[t].owner \in users
    /\ \A r \in Requests : At(r, "login.issue") => req[r].user \in users

\* Of a row its last revocation did not reach.
UnsparedKept ==
    \A t \in Ids :
        t \notin spared /\ t > cut[tokens[t].owner] =>
            /\ tokens[t].login > cut[tokens[t].owner]
            /\ \/ tokens[t].openedWith = passwordHash[tokens[t].owner]
               \/ ResetPending(tokens[t].owner)

\* The inductive invariant of sessions that are spared.
SparedInv == OwnersThere /\ UnsparedKept

\* A request that is no reset about to revoke takes no such reset away.
LEMMA ResetsPend ==
    ASSUME TypeOK, NEW r \in Requests, ~At(r, "reset.revoke"), NEW state, Goto(r, state),
           NEW u, ResetPending(u)
    PROVE  ResetPending(u)'
<1>1. PICK q \in Requests : At(q, "reset.revoke") /\ req[q].user = u
  BY DEF ResetPending
<1>2. q # r /\ req'[q] = req[q]
  BY <1>1 DEF Goto, TypeOK
<1>3. QED
  BY <1>1, <1>2 DEF ResetPending, At

\* A request that does not turn to issuing a login keeps the owners there.
LEMMA OwnersStay ==
    ASSUME TypeOK, OwnersThere, RowsFade, NEW r \in Requests, NEW state, Goto(r, state),
           state # Idle /\ state.pc = "login.issue" => state.user \in users,
           UNCHANGED users
    PROVE  OwnersThere'
<1>1. \A t \in DOMAIN tokens' : tokens'[t].owner \in users
  BY DEF OwnersThere, RowsFade, Ids
<1>2. ASSUME NEW q \in Requests, At(q, "login.issue")'
      PROVE  req'[q].user \in users
  BY <1>2 DEF OwnersThere, Goto, At, TypeOK
<1>3. QED
  BY <1>1, <1>2 DEF OwnersThere, Ids

\* Rows that fade stay right while the password does and resets are pending,
\* however far revocations reach.
LEMMA FadingSpares ==
    ASSUME Inv, SparedInv, RowsFade, UNCHANGED spared,
           \A u \in users : passwordHash'[u] = passwordHash[u],
           \A u \in Users : cut'[u] = cut[u] \/ cut'[u] = Len(tokens),
           \A u \in Users : cut'[u] < Len(tokens) /\ ResetPending(u) => ResetPending(u)'
    PROVE  UnsparedKept'
<1> SUFFICES ASSUME NEW t \in DOMAIN tokens', NEW u, u = tokens'[t].owner,
                    t \notin spared, t > cut'[u]
             PROVE  /\ tokens'[t].login > cut'[u]
                    /\ tokens'[t].openedWith = passwordHash'[u] \/ ResetPending(u)'
  BY DEF UnsparedKept, ResetPending, At, Ids
<1>1. /\ t \in Ids /\ t \in 1..Len(tokens) /\ Len(tokens) \in Nat
      /\ u \in Users /\ u \in users /\ cut[u] \in Nat /\ tokens[t].owner = u
      /\ tokens'[t].login = tokens[t].login /\ tokens'[t].openedWith = tokens[t].openedWith
  BY RowFields DEF Inv, TableInv, SparedInv, OwnersThere, RowsFade, Ids
<1>2. cut'[u] = cut[u]
  BY <1>1
<1>3. /\ tokens[t].login > cut[u]
      /\ tokens[t].openedWith = passwordHash[u] \/ ResetPending(u)
  BY <1>1, <1>2 DEF SparedInv, UnsparedKept
<1>4. ResetPending(u) => ResetPending(u)'
  BY <1>1, <1>2
<1>5. QED
  BY <1>1, <1>2, <1>3, <1>4

\* Requests that read.
LEMMA ArriveSpares ==
    ASSUME Inv, SparedInv, NEW r \in Requests, Arrive(r)
    PROVE  SparedInv'
<1>1. /\ TypeOK /\ req[r] = Idle /\ ~At(r, "reset.revoke")
      /\ UNCHANGED <<users, passwordHash, tokens, cut, spared>>
  BY DEF Inv, Arrive, LoginFind, ResetFind, RefreshFind, LogoutFind, LogoutAllEnter, accountVars, At
<1>2. RowsFade
  BY <1>1 DEF RowsFade, Ids
<1>3. \E state : /\ Goto(r, state)
                 /\ state # Idle /\ state.pc = "login.issue" => state.user \in users
  <2>1. ASSUME NEW u \in Users, NEW p \in Passwords, LoginFind(r, u, p)
        PROVE  \E state : /\ Goto(r, state)
                          /\ state # Idle /\ state.pc = "login.issue" => state.user \in users
    <3> DEFINE state == [pc |-> "login.issue", user |-> u, password |-> p]
    <3>1. Goto(r, state) /\ state.user \in users
      BY <2>1 DEF LoginFind, FindActiveById
    <3> HIDE DEF state
    <3>2. QED
      BY <3>1
  <2>2. ASSUME NEW t \in Ids, RefreshFind(r, t) \/ LogoutFind(r, t)
        PROVE  \E state : Goto(r, state) /\ state.pc # "login.issue"
    <3>1. PICK pc \in {"reuse", "expire", "rotate.issue", "logout"} :
            Goto(r, [pc |-> pc, user |-> tokens[t].owner, token |-> t])
      BY <2>2 DEF RefreshFind, LogoutFind
    <3> DEFINE state == [pc |-> pc, user |-> tokens[t].owner, token |-> t]
    <3>2. Goto(r, state) /\ state.pc # "login.issue"
      BY <3>1
    <3> HIDE DEF state
    <3>3. QED
      BY <3>2
  <2>3. ASSUME NEW u \in Users, NEW p \in Passwords, ResetFind(r, u, p)
        PROVE  \E state : Goto(r, state) /\ state.pc # "login.issue"
    <3> DEFINE state == [pc |-> "reset.write", user |-> u, password |-> p]
    <3>1. Goto(r, state) /\ state.pc # "login.issue"
      BY <2>3 DEF ResetFind
    <3> HIDE DEF state
    <3>2. QED
      BY <3>1
  <2>4. ASSUME NEW u \in Users, LogoutAllEnter(r, u)
        PROVE  \E state : Goto(r, state) /\ state.pc # "login.issue"
    <3> DEFINE state == [pc |-> "logoutAll", user |-> u]
    <3>1. Goto(r, state) /\ state.pc # "login.issue"
      BY <2>4 DEF LogoutAllEnter
    <3> HIDE DEF state
    <3>2. QED
      BY <3>1
  <2>5. QED
    BY <2>1, <2>2, <2>3, <2>4 DEF Arrive
<1>4. PICK state : /\ Goto(r, state)
                   /\ state # Idle /\ state.pc = "login.issue" => state.user \in users
  BY <1>3
<1>5. OwnersThere'
  BY <1>1, <1>2, <1>4, OwnersStay DEF SparedInv
<1>6. UnsparedKept'
  BY <1>1, <1>2, <1>4, ResetsPend, FadingSpares
<1>7. QED
  BY <1>5, <1>6 DEF SparedInv

\* Requests that revoke or answer: none of them but a reset was a pending one,
\* and a reset reaches every row of its user.
LEMMA RevokeSpares ==
    ASSUME Inv, SparedInv, NEW r \in Requests,
           \/ ReuseRevokeAll(r) \/ DropRevokeAll(r) \/ LogoutAllRevoke(r) \/ ResetRevoke(r)
           \/ ExpireRevoke(r) \/ LogoutRevoke(r) \/ RotateRevoke(r) \/ RotateCheck(r)
    PROVE  SparedInv'
<1>1. tokens \in Seq(Row) /\ TypeOK /\ UNCHANGED <<users, passwordHash, spared>>
  BY DEF Inv, TableInv, ReuseRevokeAll, DropRevokeAll, LogoutAllRevoke, ResetRevoke, ExpireRevoke,
         LogoutRevoke, RotateRevoke, RotateCheck, accountVars
<1>2. /\ RowsFade
      /\ \A u \in Users : cut'[u] = cut[u] \/ cut'[u] = Len(tokens)
      /\ ResetRevoke(r) => req[r].user \in Users /\ cut'[req[r].user] = Len(tokens)
  <2>1. CASE ReuseRevokeAll(r) \/ DropRevokeAll(r) \/ LogoutAllRevoke(r) \/ ResetRevoke(r)
    <3>1. req[r] # Idle /\ RevokeAllForUser(req[r].user)
      BY <2>1 DEF ReuseRevokeAll, DropRevokeAll, LogoutAllRevoke, ResetRevoke, At
    <3>2. req[r].user \in Users
      BY <3>1, RequestShape DEF Inv
    <3>3. RowsFade
      BY <1>1, <3>1, RevokeAllFades
    <3>4. cut' = [cut EXCEPT ![req[r].user] = Len(tokens)]
      BY <3>1 DEF RevokeAllForUser
    <3>5. QED
      BY <1>1, <3>2, <3>3, <3>4 DEF TypeOK
  <2>2. CASE ExpireRevoke(r) \/ LogoutRevoke(r) \/ RotateRevoke(r)
    <3>1. /\ HoldsToken(r) /\ UNCHANGED cut
          /\ Revoke(req[r].token, 0) \/ (Revoke(req[r].token, req[r].new) /\ At(r, "rotate.revoke"))
      BY <2>2 DEF ExpireRevoke, LogoutRevoke, RotateRevoke, At, Inv, RequestsSound, Sound, TokenPc
    <3>2. At(r, "rotate.revoke") => req[r].new \in Nat
      BY RequestShape DEF Inv, At
    <3>3. RowsFade
      BY <1>1, <3>1, <3>2, RevokeFades DEF HoldsToken
    <3>4. ~ResetRevoke(r)
      BY <2>2 DEF ExpireRevoke, LogoutRevoke, RotateRevoke, ResetRevoke, At
    <3>5. QED
      BY <3>1, <3>3, <3>4
  <2>3. CASE RotateCheck(r)
    BY <2>3 DEF RotateCheck, RowsFade, Ids, ResetRevoke, At
  <2>4. QED
    BY <2>1, <2>2, <2>3
<1>3. \E state : Goto(r, state) /\ (state # Idle => state.pc # "login.issue")
  <2>1. CASE Finish(r)
    BY <2>1 DEF Finish
  <2>2. CASE RotateRevoke(r)
    <3> DEFINE state == [req[r] EXCEPT !.pc = "rotate.check"]
    <3>1. req[r] \in RotateReq
      BY <2>2, RequestShape DEF RotateRevoke, At, Inv
    <3>2. Goto(r, state) /\ state.pc = "rotate.check"
      BY <2>2, <3>1 DEF RotateRevoke, Goto, RotateReq
    <3> HIDE DEF state
    <3>3. QED
      BY <3>2
  <2>3. CASE RotateCheck(r) /\ ~Finish(r)
    <3> DEFINE state == [pc |-> "drop", user |-> req[r].user]
    <3>1. Goto(r, state) /\ state.pc = "drop"
      BY <2>3 DEF RotateCheck
    <3> HIDE DEF state
    <3>2. QED
      BY <3>1
  <2>4. QED
    BY <2>1, <2>2, <2>3 DEF ReuseRevokeAll, DropRevokeAll, LogoutAllRevoke, ResetRevoke, ExpireRevoke,
                            LogoutRevoke, RotateRevoke, RotateCheck
<1>4. PICK state : Goto(r, state) /\ (state # Idle => state.pc # "login.issue")
  BY <1>3
<1>5. OwnersThere'
  BY <1>1, <1>2, <1>4, OwnersStay DEF SparedInv
<1>6. ASSUME NEW u \in Users, cut'[u] < Len(tokens), ResetPending(u)
      PROVE  ResetPending(u)'
  <2>1. CASE ~At(r, "reset.revoke")
    BY <1>1, <1>4, <1>6, <2>1, ResetsPend
  <2>2. CASE At(r, "reset.revoke")
    <3>1. ResetRevoke(r)
      BY <2>2 DEF ReuseRevokeAll, DropRevokeAll, LogoutAllRevoke, ExpireRevoke,
                  LogoutRevoke, RotateRevoke, RotateCheck, At
    <3>2. u # req[r].user
      BY <1>1, <1>2, <1>6, <3>1
    <3>3. PICK q \in Requests : At(q, "reset.revoke") /\ req[q].user = u
      BY <1>6 DEF ResetPending
    <3>4. q # r /\ req'[q] = req[q]
      BY <1>1, <1>4, <3>2, <3>3 DEF Goto, TypeOK
    <3>5. QED
      BY <3>3, <3>4 DEF ResetPending, At
  <2>3. QED
    BY <2>1, <2>2
<1>7. UnsparedKept'
  BY <1>1, <1>2, <1>6, FadingSpares
<1>8. QED
  BY <1>5, <1>7 DEF SparedInv

\* A new row is right, or spared: a login's is checked against the password
\* there is, a rotation's belongs to the session of the row it is rotated from.
LEMMA IssueSpares ==
    ASSUME Inv, SparedInv, NEW r \in Requests, LoginIssue(r) \/ RotateIssue(r)
    PROVE  SparedInv'
<1> DEFINE n == Len(tokens) + 1
           u == req[r].user
           old == req[r].token
<1>1. /\ tokens \in Seq(Row) /\ TypeOK /\ Ids = 1..Len(tokens)
      /\ Len(tokens) \in Nat /\ n \in Nat \ {0} /\ cut \in [Users -> Nat]
      /\ UNCHANGED <<users, passwordHash, cut>> /\ ~At(r, "reset.revoke")
  BY DEF Inv, TableInv, Ids, LoginIssue, RotateIssue, accountVars, At
<1>2. u \in Users /\ u \in users /\ cut[u] \in Nat /\ cut[u] < n
  <2>1. req[r] # Idle /\ u \in Users
    BY RequestShape DEF Inv, LoginIssue, RotateIssue, At
  <2>2. u \in users
    <3>1. CASE LoginIssue(r)
      BY <3>1 DEF SparedInv, OwnersThere, LoginIssue
    <3>2. CASE RotateIssue(r)
      BY <3>2 DEF SparedInv, OwnersThere, RotateIssue, Inv, RequestsSound, Sound, HoldsToken, TokenPc, At
    <3>3. QED
      BY <3>1, <3>2
  <2>3. cut[u] \in Nat /\ cut[u] <= Len(tokens)
    BY <1>1, <2>1 DEF Inv, TableInv, CutWithinTable
  <2>4. QED
    BY <1>1, <2>1, <2>2, <2>3
<1>3. PICK p \in Passwords, parent \in Nat, login \in Nat :
        /\ Create(u, parent, login, p)
        /\ spared' = spared \/ spared' = spared \cup {n}
        /\ n \notin spared' => login > cut[u] /\ (p = passwordHash[u] \/ ResetPending(u))
  <2>1. CASE LoginIssue(r)
    <3>1. req[r].password \in Passwords
      BY <2>1, RequestShape DEF Inv, LoginIssue, At
    <3>2. /\ Create(u, 0, n, req[r].password)
          /\ spared' = IF req[r].password # passwordHash[u] THEN spared \cup {n} ELSE spared
      BY <2>1 DEF LoginIssue, SpareNewIf
    <3>3. QED
      BY <1>1, <1>2, <3>1, <3>2
  <2>2. CASE RotateIssue(r)
    <3>1. At(r, "rotate.issue")
      BY <2>2 DEF RotateIssue
    <3>2. old \in Ids /\ tokens[old].owner = u
      BY <3>1 DEF Inv, RequestsSound, Sound, HoldsToken, TokenPc, At
    <3>3. tokens[old].login \in Nat /\ tokens[old].openedWith \in Passwords /\ old \in Nat
      BY <1>1, <3>2, RowFields
    <3>4. /\ Create(u, old, tokens[old].login, tokens[old].openedWith)
          /\ spared' = IF old \in spared \/ old <= cut[u] THEN spared \cup {n} ELSE spared
      BY <2>2 DEF RotateIssue, SpareNewIf
    <3>5. n \notin spared' =>
             /\ tokens[old].login > cut[u]
             /\ tokens[old].openedWith = passwordHash[u] \/ ResetPending(u)
      BY <1>2, <3>2, <3>3, <3>4 DEF SparedInv, UnsparedKept
    <3> HIDE DEF n, u, old
    <3>6. QED
      BY <3>3, <3>4, <3>5
  <2>3. QED
    BY <2>1, <2>2
<1>4. /\ DOMAIN tokens' = 1..n
      /\ \A t \in Ids : tokens'[t] = tokens[t]
      /\ tokens'[n].owner = u /\ tokens'[n].openedWith = p /\ tokens'[n].login = login
  <2>1. /\ DOMAIN tokens' = 1..n
        /\ \A t \in Ids : tokens'[t] = tokens[t]
        /\ tokens'[n] = [owner |-> u, isRevoked |-> FALSE, isExpired |-> FALSE, replacedBy |-> 0,
                parent |-> parent, login |-> login, openedWith |-> p]
    <3>1. u \in Users /\ Create(u, parent, login, p)
      BY <1>2, <1>3
    <3> HIDE DEF u
    <3>2. QED
      BY <1>1, <3>1, CreateRows
  <2> HIDE DEF n, u
  <2>2. QED
    BY <2>1
<1>5. \A t \in DOMAIN tokens' : t \in Ids \/ t = n
  BY <1>1, <1>4
<1>6. \E state : Goto(r, state) /\ (state # Idle => state.pc # "login.issue")
  <2>1. CASE LoginIssue(r)
    BY <2>1 DEF LoginIssue, Finish
  <2>2. CASE RotateIssue(r)
    <3> DEFINE state == [pc |-> "rotate.revoke", user |-> u, token |-> old, new |-> n]
    <3>1. Goto(r, state) /\ state.pc = "rotate.revoke"
      BY <2>2 DEF RotateIssue
    <3> HIDE DEF state
    <3>2. QED
      BY <3>1
  <2>3. QED
    BY <2>1, <2>2
<1>7. PICK state : Goto(r, state) /\ (state # Idle => state.pc # "login.issue")
  BY <1>6
<1>8. \A v : ResetPending(v) => ResetPending(v)'
  BY <1>1, <1>7, ResetsPend
<1>9. OwnersThere'
  <2>1. \A t \in DOMAIN tokens' : tokens'[t].owner \in users
    BY <1>2, <1>4, <1>5 DEF SparedInv, OwnersThere
  <2>2. ASSUME NEW q \in Requests, At(q, "login.issue")'
        PROVE  req'[q].user \in users
    BY <1>1, <1>7, <2>2 DEF SparedInv, OwnersThere, Goto, At, TypeOK
  <2>3. QED
    BY <1>1, <2>1, <2>2 DEF OwnersThere, Ids
<1>10. UnsparedKept'
  <2> SUFFICES ASSUME NEW t \in DOMAIN tokens', NEW v, v = tokens'[t].owner,
                      t \notin spared', t > cut[v]
               PROVE  /\ tokens'[t].login > cut[v]
                      /\ tokens'[t].openedWith = passwordHash[v] \/ ResetPending(v)'
    BY <1>1 DEF UnsparedKept, ResetPending, At, Ids
  <2> HIDE DEF n, u, old
  <2>1. CASE t \in Ids
    <3>1. tokens'[t] = tokens[t] /\ t \notin spared
      BY <1>3, <1>4, <2>1
    <3>2. /\ tokens[t].login > cut[v]
          /\ tokens[t].openedWith = passwordHash[v] \/ ResetPending(v)
      BY <2>1, <3>1 DEF SparedInv, UnsparedKept
    <3>3. QED
      BY <1>8, <3>1, <3>2
  <2>2. CASE t = n
    BY <1>3, <1>4, <1>8, <2>2
  <2>3. QED
    BY <1>5, <2>1, <2>2
<1>11. QED
  BY <1>9, <1>10 DEF SparedInv

\* A password is written; its request is there to end the user's sessions.
LEMMA ResetWriteSpares ==
    ASSUME Inv, SparedInv, NEW r \in Requests, ResetWrite(r)
    PROVE  SparedInv'
<1> DEFINE u == req[r].user
           state == [pc |-> "reset.revoke", user |-> u]
<1>1. /\ TypeOK /\ Goto(r, state) /\ UNCHANGED <<tokens, cut, spared>> /\ At(r, "reset.write")
      /\ users' = users /\ passwordHash' = [passwordHash EXCEPT ![u] = req[r].password]
  BY DEF Inv, ResetWrite, UpdatePassword
<1>2. req'[r] = state /\ ~At(r, "reset.revoke")
  BY <1>1 DEF Goto, TypeOK, At
<1>3. OwnersThere'
  <2>1. RowsFade
    BY <1>1 DEF RowsFade, Ids
  <2>2. state.pc # "login.issue"
    OBVIOUS
  <2> HIDE DEF state
  <2>3. QED
    BY <1>1, <2>1, <2>2, OwnersStay DEF SparedInv
<1>4. req'[r] # Idle
  <2>1. state \in Request
    BY <1>1, RequestShape DEF Request, UserReq, Inv, At
  <2>2. QED
    BY <1>2, <2>1, EmptyRequestAssumption
<1>5. \A v : ResetPending(v) => ResetPending(v)'
  <2> HIDE DEF state
  <2>1. QED
    BY <1>1, <1>2, ResetsPend
<1>6. \A v \in Users : v # u => passwordHash'[v] = passwordHash[v]
  BY <1>1 DEF TypeOK, AccountTypeOK
<1>7. \A t \in Ids : tokens[t].owner \in Users
  BY RowFields DEF Inv, TableInv
<1>8. UnsparedKept'
  <2> SUFFICES ASSUME NEW t \in Ids, NEW v, v = tokens[t].owner, t \notin spared, t > cut[v]
               PROVE  /\ tokens[t].login > cut[v]
                      /\ tokens[t].openedWith = passwordHash'[v] \/ ResetPending(v)'
    BY <1>1 DEF UnsparedKept, ResetPending, At, Ids
  <2>1. /\ tokens[t].login > cut[v]
        /\ tokens[t].openedWith = passwordHash[v] \/ ResetPending(v)
    BY DEF SparedInv, UnsparedKept
  <2>2. v \in Users /\ (v = u => ResetPending(v)')
    <3>1. v = u => ResetPending(v)'
      <4> SUFFICES ASSUME v = req[r].user
                   PROVE  ResetPending(v)'
        OBVIOUS
      <4>1. req'[r] # Idle /\ req'[r].pc = "reset.revoke" /\ req'[r].user = v
        BY <1>2, <1>4
      <4>2. QED
        BY <4>1 DEF ResetPending, At
    <3>2. QED
      BY <1>7, <3>1
  <2> HIDE DEF u
  <2>3. QED
    BY <1>5, <1>6, <2>1, <2>2
<1>9. QED
  BY <1>3, <1>8 DEF SparedInv

\* A reset that dies before its revocation spares the sessions it leaves; any
\* other request that dies changes nothing.
LEMMA AbortSpares ==
    ASSUME Inv, SparedInv, NEW r \in Requests, Abort(r)
    PROVE  SparedInv'
<1>1. /\ TypeOK /\ Goto(r, Idle) /\ UNCHANGED <<users, passwordHash, tokens, cut>>
  BY DEF Inv, Abort, Finish, accountVars
<1>2. RowsFade
  BY <1>1 DEF RowsFade, Ids
<1>3. OwnersThere'
  BY <1>1, <1>2, OwnersStay DEF SparedInv
<1>4. CASE ~At(r, "reset.revoke")
  <2>1. UNCHANGED spared
    BY <1>4 DEF Abort
  <2>2. UnsparedKept'
    BY <1>1, <1>2, <1>4, <2>1, ResetsPend, FadingSpares
  <2>3. QED
    BY <1>3, <2>2 DEF SparedInv
<1>5. CASE At(r, "reset.revoke")
  <2> DEFINE u == req[r].user
  <2>1. spared' = spared \cup {t \in Ids : tokens[t].owner = u /\ tokens[t].openedWith # passwordHash[u]}
    BY <1>5 DEF Abort, SpareOld
  <2>2. UnsparedKept'
    <3> SUFFICES ASSUME NEW t \in Ids, NEW v, v = tokens[t].owner, t \notin spared', t > cut[v]
                 PROVE  /\ tokens[t].login > cut[v]
                        /\ tokens[t].openedWith = passwordHash[v] \/ ResetPending(v)'
      BY <1>1 DEF UnsparedKept, ResetPending, At, Ids
    <3>1. t \notin spared /\ (v = u => tokens[t].openedWith = passwordHash[u])
      BY <2>1
    <3>2. /\ tokens[t].login > cut[v]
          /\ tokens[t].openedWith = passwordHash[v] \/ ResetPending(v)
      BY <3>1 DEF SparedInv, UnsparedKept
    <3>3. CASE v = u
      BY <3>1, <3>2, <3>3
    <3>4. CASE v # u /\ ResetPending(v)
      <4>1. PICK q \in Requests : At(q, "reset.revoke") /\ req[q].user = v
        BY <3>4 DEF ResetPending
      <4>2. q # r /\ req'[q] = req[q]
        BY <1>1, <3>4, <4>1 DEF Goto, TypeOK
      <4>3. ResetPending(v)'
        BY <4>1, <4>2 DEF ResetPending, At
      <4>4. QED
        BY <3>2, <4>3
    <3>5. QED
      BY <3>2, <3>3, <3>4
  <2>3. QED
    BY <1>3, <2>2 DEF SparedInv
<1>6. QED
  BY <1>4, <1>5

\* An expiry date passes, or the sessions rest.
LEMMA RestSpares ==
    ASSUME Inv, SparedInv, RowsFade, UNCHANGED <<req, cut, spared>>,
           \A u \in users : u \in users' /\ passwordHash'[u] = passwordHash[u]
    PROVE  SparedInv'
<1>1. OwnersThere'
  BY DEF SparedInv, OwnersThere, RowsFade, Ids, At
<1>2. \A u : ResetPending(u) => ResetPending(u)'
  BY DEF ResetPending, At
<1>3. UnsparedKept'
  BY <1>2, FadingSpares
<1>4. QED
  BY <1>1, <1>3 DEF SparedInv

\* Every step keeps the invariant.
LEMMA SparedStep ==
    ASSUME Inv, SparedInv, SessionMove
    PROVE  SparedInv'
<1>1. ASSUME NEW t \in Ids, Expire(t)
      PROVE  SparedInv'
  <2>1. tokens \in Seq(Row)
    BY DEF Inv, TableInv
  <2>2. QED
    BY <1>1, <2>1, ExpireFades, RestSpares DEF Expire, accountVars
<1>2. CASE BesideSessions
  <2>1. UNCHANGED <<tokens, req, cut, spared>> /\ \A u \in users : u \in users' /\ passwordHash'[u] = passwordHash[u]
    BY <1>2 DEF BesideSessions, sessionVars
  <2>2. RowsFade
    BY <2>1 DEF RowsFade, Ids
  <2>3. QED
    BY <2>1, <2>2, RestSpares
<1>3. ASSUME NEW r \in Requests, Step(r)
      PROVE  SparedInv'
  BY <1>3, RevokeSpares, IssueSpares, ResetWriteSpares DEF Step
<1>4. QED
  BY <1>1, <1>2, <1>3, ArriveSpares, AbortSpares DEF SessionMove

\* No session is there at the start.
LEMMA SparedInit == ASSUME Init PROVE SparedInv
BY DEF Init, SparedInv, OwnersThere, UnsparedKept, At, Ids

\* A row that is alive is younger than the last revocation of its owner's.
LEMMA SparedShown ==
    ASSUME Inv, SparedInv
    PROVE  OnlySparedSessionsOutlive
<1> SUFFICES ASSUME NEW t \in Ids, Live(t), t \notin spared
             PROVE  /\ tokens[t].login > cut[tokens[t].owner]
                    /\ \/ tokens[t].openedWith = passwordHash[tokens[t].owner]
                       \/ ResetPending(tokens[t].owner)
  BY DEF OnlySparedSessionsOutlive, ResetPending
<1>1. t \in Nat /\ cut[tokens[t].owner] \in Nat
  BY RowFields DEF Inv, TableInv, Ids
<1>2. t > cut[tokens[t].owner]
  BY <1>1 DEF Inv, TableInv, RevokeAllIsFinal
<1>3. QED
  BY <1>2 DEF SparedInv, UnsparedKept

\* However requests overlap and die, only a spared session is alive beyond a
\* revocation of all its user's or with another password than its user has.
THEOREM OnlySparedOutlive == Spec => []OnlySparedSessionsOutlive
<1>1. Inv /\ SparedInv /\ [Next]_vars => SparedInv'
  BY NextMoves, SparedStep DEF Inv
<1>2. Inv /\ SparedInv => OnlySparedSessionsOutlive
  BY SparedShown
<1>3. QED
  BY <1>1, <1>2, SparedInit, InductiveInvariant, PTL DEF Spec

-----------------------------------------------------------------------------
(***************************************************************************)
(* Requests that neither overlap nor die implement SessionFamilies.  The   *)
(* rows that count are all but the successor of a rotation that has not    *)
(* yet revoked the old token.                                              *)
(***************************************************************************)

\* Where the rows that count end, before and after a step.
LEMMA Bar ==
    ASSUME Inv
    PROVE  /\ Len(tokens) \in Nat /\ Ids = 1..Len(tokens)
           /\ issuedBar \in Nat /\ issuedBar <= Len(tokens)
<1>1. Len(tokens) \in Nat /\ Ids = 1..Len(tokens)
  BY DEF Inv, TableInv, Ids
<1>2. ASSUME NEW r \in Requests, At(r, "rotate.revoke")
      PROVE  Len(tokens) # 0
  <2>1. req[r].new \in Ids
    BY <1>2 DEF Inv, RequestsSound, Sound, HoldsSuccessor, At
  <2>2. QED
    BY <1>1, <2>1
<1>3. QED
  BY <1>1, <1>2 DEF issuedBar

\* Nothing that counts changes.
LEMMA BarStays ==
    ASSUME Inv, issuedBar' = issuedBar,
           \A t \in 1..issuedBar : /\ tokens'[t].owner = tokens[t].owner
                                   /\ tokens'[t].login = tokens[t].login
                                   /\ tokens'[t].isRevoked = tokens[t].isRevoked
    PROVE  UNCHANGED Families!vars
BY DEF Families!vars, holderBar, sessionBar, aliveBar, Live

\* Sessions end: one token, or all of a user, is no longer alive.
LEMMA FamiliesClose ==
    ASSUME OneRequest, Inv, NEW r \in Requests, 
           \/ ReuseRevokeAll(r) \/ DropRevokeAll(r) \/ LogoutAllRevoke(r) \/ ResetRevoke(r)
           \/ ExpireRevoke(r) \/ LogoutRevoke(r)
    PROVE  [Families!Next]_Families!vars
<1>1. /\ tokens \in Seq(Row) /\ TypeOK /\ Finish(r) /\ req[r] # Idle /\ ~At(r, "rotate.revoke")
      /\ \A q \in Requests : q = r
  BY DEF Inv, TableInv, OneRequest, At, ReuseRevokeAll, DropRevokeAll, LogoutAllRevoke, ResetRevoke,
         ExpireRevoke, LogoutRevoke
<1>2. RowsFade
  <2>1. CASE ReuseRevokeAll(r) \/ DropRevokeAll(r) \/ LogoutAllRevoke(r) \/ ResetRevoke(r)
    BY <1>1, <2>1, RevokeAllFades DEF ReuseRevokeAll, DropRevokeAll, LogoutAllRevoke, ResetRevoke
  <2>2. CASE ExpireRevoke(r) \/ LogoutRevoke(r)
    <3>1. HoldsToken(r) /\ Revoke(req[r].token, 0)
      BY <2>2 DEF ExpireRevoke, LogoutRevoke, At, Inv, RequestsSound, Sound, TokenPc
    <3>2. QED
      BY <1>1, <3>1, RevokeFades DEF HoldsToken
  <2>3. QED
    BY <2>1, <2>2
<1>3. /\ issuedBar = Len(tokens) /\ issuedBar' = Len(tokens)
      /\ Ids = 1..Len(tokens) /\ Len(tokens) \in Nat
  <2>1. req'[r] = Idle
    BY <1>1, OnlyMover DEF Finish
  <2>2. (~\E q \in Requests : At(q, "rotate.revoke")) /\ (~\E q \in Requests : At(q, "rotate.revoke")')
    BY <1>1, <2>1 DEF At
  <2>3. QED
    BY <1>2, <2>2, Bar DEF issuedBar, RowsFade
<1>4. holderBar' = holderBar /\ sessionBar' = sessionBar
  BY <1>2, <1>3 DEF holderBar, sessionBar, RowsFade
<1>5. CASE ReuseRevokeAll(r) \/ DropRevokeAll(r) \/ LogoutAllRevoke(r) \/ ResetRevoke(r)
  <2> DEFINE u == req[r].user
  <2>1. u \in Users
    BY <1>1, RequestShape
  <2>2. /\ \A t \in Ids : tokens[t].owner # u => tokens'[t] = tokens[t]
        /\ \A t \in Ids : tokens[t].owner = u => tokens'[t].isRevoked
    <3>1. RevokeAllForUser(u)
      BY <1>5 DEF ReuseRevokeAll, DropRevokeAll, LogoutAllRevoke, ResetRevoke
    <3>2. QED
      BY <1>1, <3>1, RevokeAllRows, RevokeAllFades
  <2>3. aliveBar' = {t \in aliveBar : holderBar[t] # u}
    BY <1>3, <2>2 DEF aliveBar, holderBar, Live
  <2>4. Families!CloseAll(u)
    BY <1>4, <2>3 DEF Families!CloseAll
  <2>5. QED
    BY <2>1, <2>4 DEF Families!Next
<1>6. CASE ExpireRevoke(r) \/ LogoutRevoke(r)
  <2> DEFINE t == req[r].token
  <2>1. t \in Ids /\ Revoke(t, 0)
    BY <1>6 DEF ExpireRevoke, LogoutRevoke, At, Inv, RequestsSound, Sound, TokenPc, HoldsToken
  <2>2. tokens'[t].isRevoked /\ \A s \in Ids : s # t => tokens'[s] = tokens[s]
    BY <1>1, <2>1, RevokeFades
  <2> HIDE DEF t
  <2>3. aliveBar' = aliveBar \ {t}
    BY <1>3, <2>1, <2>2 DEF aliveBar, Live
  <2>4. CASE t \in aliveBar
    <3>1. Families!Close(t)
      BY <1>4, <2>3 DEF Families!Close
    <3>2. QED
      BY <2>4, <3>1 DEF Families!Next
  <2>5. CASE t \notin aliveBar
    BY <1>4, <2>3, <2>5 DEF Families!vars
  <2>6. QED
    BY <2>4, <2>5
<1>7. QED
  BY <1>5, <1>6

\* A login opens a session.
LEMMA FamiliesOpen ==
    ASSUME OneRequest, Inv, NEW r \in Requests, LoginIssue(r)
    PROVE  Families!Next
<1> DEFINE n == Len(tokens) + 1
           u == req[r].user
<1>1. /\ tokens \in Seq(Row) /\ TypeOK /\ Finish(r) /\ At(r, "login.issue")
      /\ \A q \in Requests : q = r
      /\ Len(tokens) \in Nat /\ Ids = 1..Len(tokens) /\ n \in Nat
  BY Bar DEF Inv, TableInv, OneRequest, LoginIssue
<1>2. u \in Users /\ req[r].password \in Passwords
  BY <1>1, RequestShape DEF At
<1>3. /\ Len(tokens') = n
      /\ \A t \in Ids : tokens'[t] = tokens[t]
      /\ tokens'[n].owner = u /\ tokens'[n].login = n /\ ~tokens'[n].isRevoked
  <2>1. Create(u, 0, n, req[r].password)
    BY DEF LoginIssue
  <2>2. /\ Len(tokens') = n
        /\ \A t \in Ids : tokens'[t] = tokens[t]
        /\ tokens'[n] = [owner |-> u, isRevoked |-> FALSE, isExpired |-> FALSE, replacedBy |-> 0,
                parent |-> 0, login |-> n, openedWith |-> req[r].password]
    BY <1>1, <1>2, <2>1, CreateRows
  <2>3. QED
    BY <2>2
<1>4. issuedBar = Len(tokens) /\ issuedBar' = n
  <2>1. req'[r] = Idle
    BY <1>1, OnlyMover DEF Finish
  <2>2. (~\E q \in Requests : At(q, "rotate.revoke")) /\ (~\E q \in Requests : At(q, "rotate.revoke")')
    BY <1>1, <2>1 DEF At
  <2>3. QED
    BY <1>3, <2>2 DEF issuedBar
<1> HIDE DEF n, u
<1>5. holderBar' = Append(holderBar, u)
  BY <1>1, <1>2, <1>3, <1>4 DEF holderBar, n
<1>6. sessionBar' = Append(sessionBar, Len(sessionBar) + 1)
  BY <1>1, <1>3, <1>4 DEF sessionBar, n
<1>7. aliveBar' = aliveBar \cup {Len(holderBar) + 1}
  <2>1. Len(holderBar) + 1 = n
    BY <1>1, <1>4 DEF holderBar, n
  <2>2. QED
    BY <1>1, <1>3, <1>4, <2>1 DEF aliveBar, Live, n
<1>8. Families!Open(u)
  BY <1>5, <1>6, <1>7 DEF Families!Open
<1>9. QED
  BY <1>2, <1>8 DEF Families!Next


\* A successor that is stored does not count yet.
LEMMA FamiliesStore ==
    ASSUME OneRequest, Inv, NEW r \in Requests, RotateIssue(r)
    PROVE  UNCHANGED Families!vars
<1> DEFINE n == Len(tokens) + 1
           old == req[r].token
           state == [pc |-> "rotate.revoke", user |-> req[r].user, token |-> old, new |-> n]
<1>1. /\ tokens \in Seq(Row) /\ TypeOK /\ At(r, "rotate.issue") /\ Goto(r, state)
      /\ \A q \in Requests : q = r
      /\ Len(tokens) \in Nat /\ Ids = 1..Len(tokens)
  BY Bar DEF Inv, TableInv, OneRequest, RotateIssue
<1>2. /\ req[r].user \in Users /\ old \in Ids /\ old \in Nat \ {0}
      /\ tokens[old].login \in Nat /\ tokens[old].openedWith \in Passwords
  BY <1>1, RequestShape, RowFields DEF At, Inv, RequestsSound, Sound, HoldsToken, TokenPc
<1>3. Len(tokens') = n /\ \A t \in Ids : tokens'[t] = tokens[t]
  <2>1. Create(req[r].user, old, tokens[old].login, tokens[old].openedWith)
    BY DEF RotateIssue
  <2>2. QED
    BY <1>1, <1>2, <2>1, CreateRows
<1>4. issuedBar = Len(tokens) /\ issuedBar' = Len(tokens)
  <2>1. state \in Request
    BY <1>1, <1>2 DEF Request, RotateReq
  <2>2. req'[r] = state /\ state # Idle /\ state.pc = "rotate.revoke"
    BY <1>1, <2>1, EmptyRequestAssumption, OnlyMover
  <2>3. \E q \in Requests : req'[q] # Idle /\ req'[q].pc = "rotate.revoke"
    BY <2>2
  <2>4. issuedBar' = Len(tokens') - 1
    BY <2>3 DEF issuedBar, At
  <2>5. issuedBar = Len(tokens)
    BY <1>1 DEF issuedBar, At
  <2>6. QED
    BY <1>1, <1>3, <2>4, <2>5
<1>5. QED
  BY <1>1, <1>3, <1>4, BarStays

\* From the statement that revokes the old token its successor counts: the
\* exchange is one step, and a session never has two tokens alive.
LEMMA FamiliesExchange ==
    ASSUME OneRequest, Inv, AloneInv, NEW r \in Requests, RotateRevoke(r)
    PROVE  Families!Next
<1> DEFINE old == req[r].token
           n == req[r].new
           state == [req[r] EXCEPT !.pc = "rotate.check"]
<1>1. /\ tokens \in Seq(Row) /\ TypeOK /\ At(r, "rotate.revoke") /\ req[r] \in RotateReq
      /\ \A q \in Requests : q = r
      /\ Len(tokens) \in Nat /\ Ids = 1..Len(tokens)
  BY Bar, RequestShape DEF Inv, TableInv, OneRequest, RotateRevoke, At
<1>2. /\ old \in Ids /\ Live(old) /\ n > old /\ n = Len(tokens) /\ n \in Ids /\ Live(n)
      /\ tokens[n].owner = tokens[old].owner /\ tokens[n].login = tokens[old].login
  BY <1>1 DEF Inv, RequestsSound, Sound, HoldsToken, HoldsSuccessor, TokenPc, At,
              AloneInv, StillGood, SuccessorStored
<1>3. /\ RowsFade /\ tokens'[old].isRevoked
      /\ \A t \in Ids : t # old => tokens'[t] = tokens[t]
  BY <1>1, <1>2, RevokeFades DEF RotateRevoke, RotateReq
<1>4. Goto(r, state) /\ state.pc = "rotate.check"
  BY <1>1 DEF RotateRevoke, Goto, RotateReq
<1>5. issuedBar = n - 1 /\ issuedBar' = n
  <2>1. issuedBar = Len(tokens) - 1
    BY <1>1 DEF issuedBar
  <2>2. req'[r].pc = "rotate.check"
    BY <1>1, <1>4, OnlyMover
  <2>3. ~\E q \in Requests : At(q, "rotate.revoke")'
    BY <1>1, <2>2 DEF At
  <2>4. issuedBar' = Len(tokens')
    BY <2>3 DEF issuedBar
  <2>5. QED
    BY <1>2, <1>3, <2>1, <2>4 DEF RowsFade
<1>6. n \in Nat \ {0} /\ old \in 1..(n - 1) /\ Ids = 1..n
  BY <1>1, <1>2
<1> HIDE DEF n, old
<1>7. holderBar' = Append(holderBar, holderBar[old])
  BY <1>2, <1>3, <1>5, <1>6 DEF holderBar, RowsFade
<1>8. sessionBar' = Append(sessionBar, sessionBar[old])
  BY <1>2, <1>3, <1>5, <1>6 DEF sessionBar, RowsFade
<1>9. aliveBar' = (aliveBar \ {old}) \cup {Len(holderBar) + 1}
  <2>1. Len(holderBar) + 1 = n
    BY <1>5, <1>6 DEF holderBar
  <2>2. \A t \in Ids : Live(t)' <=> Live(t) /\ t # old
    BY <1>3 DEF Live
  <2>3. QED
    BY <1>2, <1>5, <1>6, <2>1, <2>2 DEF aliveBar
<1>10. old \in aliveBar
  BY <1>2, <1>5, <1>6 DEF aliveBar
<1>11. Families!Exchange(old)
  BY <1>7, <1>8, <1>9 DEF Families!Exchange
<1>12. QED
  BY <1>10, <1>11 DEF Families!Next

\* Reading, answering and writing a password are no steps of a session, nor is
\* an expiry before the token is presented.
LEMMA FamiliesRest ==
    ASSUME OneRequest, Inv,
           \/ \E r \in Requests : Arrive(r) \/ RotateCheck(r) \/ ResetWrite(r)
           \/ \E t \in Ids : Expire(t)
           \/ BesideSessions
    PROVE  UNCHANGED Families!vars
<1>1. tokens \in Seq(Row) /\ TypeOK
  BY DEF Inv, TableInv
<1>2. ASSUME NEW r \in Requests, Arrive(r) \/ RotateCheck(r) \/ ResetWrite(r)
      PROVE  UNCHANGED Families!vars
  <2>1. UNCHANGED tokens /\ ~At(r, "rotate.revoke")
    BY <1>2 DEF Arrive, LoginFind, ResetFind, RefreshFind, LogoutFind, LogoutAllEnter,
                RotateCheck, ResetWrite, At
  <2>2. \E state : Goto(r, state) /\ (state = Idle \/ state.pc # "rotate.revoke")
    <3> DEFINE Elsewhere == \E state : Goto(r, state) /\ (state = Idle \/ state.pc # "rotate.revoke")
    <3>1. ASSUME NEW t \in Ids, RefreshFind(r, t) \/ LogoutFind(r, t)
          PROVE  Elsewhere
      <4>1. PICK pc \in {"reuse", "expire", "rotate.issue", "logout"} :
               Goto(r, [pc |-> pc, user |-> tokens[t].owner, token |-> t])
        BY <3>1 DEF RefreshFind, LogoutFind
      <4>2. QED
        BY <4>1
    <3>2. ASSUME NEW u \in Users, NEW p \in Passwords, LoginFind(r, u, p) \/ ResetFind(r, u, p)
          PROVE  Elsewhere
      <4>1. PICK pc \in {"login.issue", "reset.write"} : Goto(r, [pc |-> pc, user |-> u, password |-> p])
        BY <3>2 DEF LoginFind, ResetFind
      <4>2. QED
        BY <4>1
    <3>3. ASSUME NEW u \in Users, LogoutAllEnter(r, u)
          PROVE  Elsewhere
      BY <3>3 DEF LogoutAllEnter
    <3>4. ASSUME RotateCheck(r)
          PROVE  Elsewhere
      BY <3>4 DEF RotateCheck, Finish
    <3>5. ASSUME ResetWrite(r)
          PROVE  Elsewhere
      BY <3>5 DEF ResetWrite
    <3> HIDE DEF Elsewhere
    <3>6. Elsewhere
      BY <1>2, <3>1, <3>2, <3>3, <3>4, <3>5 DEF Arrive
    <3>7. QED
      BY <3>6 DEF Elsewhere
  <2>3. PICK state : Goto(r, state) /\ (state = Idle \/ state.pc # "rotate.revoke")
    BY <2>2
  <2>4. req'[r] = state /\ \A q \in Requests : q = r
    BY <1>1, <2>3, OnlyMover
  <2>5. (~\E q \in Requests : At(q, "rotate.revoke")) /\ (~\E q \in Requests : At(q, "rotate.revoke")')
    BY <2>1, <2>3, <2>4 DEF At
  <2>6. issuedBar' = issuedBar
    BY <2>1, <2>5 DEF issuedBar
  <2>7. QED
    BY <2>1, <2>6, BarStays
<1>3. ASSUME NEW t \in Ids, Expire(t)
      PROVE  UNCHANGED Families!vars
  <2>1. RowsFade /\ \A s \in Ids : tokens'[s].isRevoked = tokens[s].isRevoked
    BY <1>1, <1>3, ExpireFades
  <2>2. issuedBar' = issuedBar
    BY <1>3, <2>1 DEF issuedBar, At, Expire, RowsFade
  <2>3. 1..issuedBar \subseteq Ids
    BY Bar
  <2>4. QED
    BY <2>1, <2>2, <2>3, BarStays DEF RowsFade
<1>4. CASE BesideSessions
  <2>1. UNCHANGED <<tokens, req>>
    BY <1>4 DEF BesideSessions, sessionVars
  <2>2. issuedBar' = issuedBar
    BY <2>1 DEF issuedBar, At
  <2>3. QED
    BY <2>1, <2>2, BarStays
<1>5. QED
  BY <1>2, <1>3, <1>4

\* Every step is one of the abstract sessions, or none.
LEMMA FamiliesStep ==
    ASSUME OneRequest, ~MayAbort, Inv, AloneInv, SessionMove
    PROVE  [Families!Next]_Families!vars
<1>1. ASSUME NEW r \in Requests, Step(r)
      PROVE  [Families!Next]_Families!vars
  BY <1>1, FamiliesClose, FamiliesOpen, FamiliesStore, FamiliesExchange, FamiliesRest DEF Step
<1>2. QED
  BY <1>1, FamiliesRest DEF SessionMove, Abort

\* The empty table is no session.
LEMMA FamiliesInit == ASSUME Init PROVE Families!Init
<1>1. issuedBar = 0
  BY DEF Init, issuedBar, At
<1>2. holderBar = <<>> /\ sessionBar = <<>> /\ aliveBar = {}
  BY <1>1 DEF holderBar, sessionBar, aliveBar
<1>3. QED
  BY <1>2 DEF Families!Init

\* Where requests neither overlap nor die, refresh_tokens and the four statements
\* of a rotation implement the abstract sessions.
THEOREM SessionsImplementFamilies ==
    ASSUME OneRequest, ~MayAbort
    PROVE  Spec => ImplementsSessionFamilies
<1>1. Inv /\ AloneInv /\ [Next]_vars => [Families!Next]_Families!vars
  BY NextMoves, FamiliesStep DEF Inv
<1>2. QED
  BY <1>1, FamiliesInit, AloneInvariant, InductiveInvariant, PTL
     DEF Spec, ImplementsSessionFamilies, Families!Spec

=============================================================================
