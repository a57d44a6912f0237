------------------------------ MODULE Sessions ------------------------------
(***************************************************************************)
(* Sign-in sessions: the refresh_tokens table and the requests that read   *)
(* and write it (auth.service.ts, refresh-tokens.service.ts and its        *)
(* repository), over the users rows of module Accounts.                    *)
(*                                                                         *)
(* A token's id is its place in the sequence tokens: rows are appended,    *)
(* updated and never deleted.  A request is one action per SQL statement;  *)
(* what it keeps across an await is in req[r].  A client may present any   *)
(* token that was ever sent to it: the current cookie, the one of another  *)
(* tab, or an old one whose replacement never arrived.                     *)
(*                                                                         *)
(* Fields and variables marked (h) are history: the code does not keep     *)
(* them, no guard reads them, they let the properties speak of the past.   *)
(*                                                                         *)
(* Not in the model: a token nobody issued, a refresh without a cookie and *)
(* a refused login end without any effect; audit and log records; the      *)
(* length of the expiry, which may pass at any time.                       *)
(***************************************************************************)
EXTENDS Accounts, Sequences

CONSTANTS
    Requests,   \* slots for session requests in flight
    MaxTokens,  \* bound: no request that may append a row starts beyond it
    MayAbort    \* whether statements fail and the process may die midway

ASSUME SessionsAssumption ==
    MaxTokens \in Nat /\ MayAbort \in BOOLEAN /\ IsFiniteSet(Requests)

VARIABLES
    tokens,     \* the refresh_tokens table
    handedOut,  \* ids of the tokens that an answer brought to a client
    req,        \* the session requests in flight
    cut,        \* (h) cut[u]: the rows there were at the last revokeAllForUser(u)
    spared      \* (h) the rows of sessions that a race or a dead request saved from an end

sessionVars == <<tokens, handedOut, req, cut, spared>>
vars == <<accountVars, sessionVars>>

Ids == DOMAIN tokens

Row == [owner: Users, isRevoked: BOOLEAN, isExpired: BOOLEAN,
        replacedBy: Nat,       \* 0 for NULL
        parent: Nat,           \* (h) the row it was rotated from, 0 after a login
        login: Nat,            \* (h) the row its session was opened with
        openedWith: Passwords] \* (h) the password its session was opened with

Live(t) == ~tokens[t].isRevoked
Ended(t) == t \in Ids /\ ~Live(t)

\* The states of a request between two statements.
LoginReq  == [pc: {"login.issue"}, user: Users, password: Passwords]
TokenReq  == [pc: {"reuse", "expire", "rotate.issue", "logout"}, user: Users, token: Nat \ {0}]
RotateReq == [pc: {"rotate.revoke", "rotate.check"}, user: Users, token: Nat \ {0}, new: Nat \ {0}]
UserReq   == [pc: {"drop", "logoutAll", "reset.revoke"}, user: Users]
ResetReq  == [pc: {"reset.write"}, user: Users, password: Passwords]

Request == LoginReq \cup TokenReq \cup RotateReq \cup UserReq \cup ResetReq

\* A request in flight is not taken for an empty slot.
ASSUME EmptyRequestAssumption == Idle \notin Request

At(r, pc) == req[r] # Idle /\ req[r].pc = pc

TypeOK ==
    /\ AccountTypeOK
    /\ tokens \in Seq(Row)
    /\ handedOut \subseteq Ids
    /\ req \in [Requests -> {Idle} \cup Request]
    /\ cut \in [Users -> Nat]
    /\ spared \subseteq Ids

Init ==
    /\ AccountInit
    /\ tokens = <<>>
    /\ handedOut = {}
    /\ req = [r \in Requests |-> Idle]
    /\ cut = [u \in Users |-> 0]
    /\ spared = {}

-----------------------------------------------------------------------------
(***************************************************************************)
(* The statements of RefreshTokensRepository.                              *)
(***************************************************************************)

Create(u, parent, login, password) ==
    tokens' = Append(tokens,
        [owner |-> u, isRevoked |-> FALSE, isExpired |-> FALSE, replacedBy |-> 0,
         parent |-> parent, login |-> login, openedWith |-> password])

\* UPDATE ... WHERE id = t; replacedBy is set only when it is given.
Revoke(t, new) ==
    tokens' = [tokens EXCEPT ![t].isRevoked = TRUE,
                             ![t].replacedBy = IF new = 0 THEN @ ELSE new]

RevokeAllUnexpired(u) ==
    /\ tokens' = [t \in Ids |->
                    IF tokens[t].owner = u /\ ~tokens[t].isExpired
                    THEN [tokens[t] EXCEPT !.isRevoked = TRUE] ELSE tokens[t]]
    /\ cut' = [cut EXCEPT ![u] = Len(tokens)]

\* UPDATE ... WHERE user_id = u AND is_revoked = false.
RevokeAllForUser(u) ==
    /\ tokens' = [t \in Ids |->
                    IF tokens[t].owner = u THEN [tokens[t] EXCEPT !.isRevoked = TRUE]
                                           ELSE tokens[t]]
    /\ cut' = [cut EXCEPT ![u] = Len(tokens)]

-----------------------------------------------------------------------------
(***************************************************************************)
(* How a session is spared: the row about to be appended belongs to one    *)
(* whose password was changed after login checked it, or is rotated from a *)
(* row that a revokeAllForUser reached after it was read, or from a spared *)
(* one; or a reset dies between its password and its revocation.           *)
(***************************************************************************)

SpareNewIf(late) == spared' = IF late THEN spared \cup {Len(tokens) + 1} ELSE spared

SpareOld(u) ==
    spared' = spared \cup {t \in Ids : /\ tokens[t].owner = u
                                       /\ tokens[t].openedWith # passwordHash[u]}

-----------------------------------------------------------------------------
(***************************************************************************)
(* Requests.                                                               *)
(***************************************************************************)

Goto(r, state) == req' = [req EXCEPT ![r] = state]
Finish(r) == Goto(r, Idle)

\* The bound on rows, kept by reserving one for each request about to append.
Room == Len(tokens) + Cardinality({r \in Requests : At(r, "login.issue") \/ At(r, "rotate.issue")})
            < MaxTokens

\* AuthService.login: the row is read once; isActive, deletedAt and the
\* password are checked against what was read.  A refused login just ends.
LoginFind(r, u, p) ==
    /\ req[r] = Idle /\ Room
    /\ FindActiveById(u)
    /\ passwordHash[u] = p
    /\ Goto(r, [pc |-> "login.issue", user |-> u, password |-> p])
    /\ UNCHANGED <<accountVars, tokens, handedOut, cut, spared>>

\* The token is stored and the answer sent, which may be lost on the way.
LoginIssue(r) ==
    /\ At(r, "login.issue")
    /\ Create(req[r].user, 0, Len(tokens) + 1, req[r].password)
    /\ \E arrived \in SUBSET {Len(tokens) + 1} : handedOut' = handedOut \cup arrived
    /\ SpareNewIf(req[r].password # passwordHash[req[r].user])
    /\ Finish(r)
    /\ UNCHANGED <<accountVars, cut>>

RefreshFindIgnoringReuse(r, t) ==
    /\ req[r] = Idle /\ Room
    /\ t \in handedOut
    /\ Goto(r, [pc |-> "rotate.issue", user |-> tokens[t].owner, token |-> t])
    /\ UNCHANGED <<accountVars, tokens, handedOut, cut, spared>>

\* RefreshTokensService.rotate: findByTokenHash and the branches on what it read.
RefreshFind(r, t) ==
    /\ req[r] = Idle
    /\ t \in handedOut
    /\ LET row == tokens[t]
           goto(pc) == Goto(r, [pc |-> pc, user |-> row.owner, token |-> t])
       IN \/ row.isRevoked /\ goto("reuse")
          \/ ~row.isRevoked /\ row.isExpired /\ goto("expire")
          \/ ~row.isRevoked /\ ~row.isExpired /\ Room /\ goto("rotate.issue")
    /\ UNCHANGED <<accountVars, tokens, handedOut, cut, spared>>

ReuseRevokePresentedOnly(r) ==
    /\ At(r, "reuse")
    /\ Revoke(req[r].token, 0)
    /\ Finish(r)
    /\ UNCHANGED <<accountVars, handedOut, cut, spared>>

ReuseRevokeAllRetrying(r) ==
    /\ At(r, "reuse")
    /\ RevokeAllForUser(req[r].user)
    /\ UNCHANGED <<accountVars, handedOut, req, spared>>

\* A revoked token is taken for a stolen one: every session of the user ends.
ReuseRevokeAll(r) ==
    /\ At(r, "reuse")
    /\ RevokeAllForUser(req[r].user)
    /\ Finish(r)
    /\ UNCHANGED <<accountVars, handedOut, spared>>

ExpireRevoke(r) ==
    /\ At(r, "expire")
    /\ Revoke(req[r].token, 0)
    /\ Finish(r)
    /\ UNCHANGED <<accountVars, handedOut, cut, spared>>

RotateIssueLosingTheOld(r) ==
    /\ At(r, "rotate.issue")
    /\ LET old == req[r].token
       IN /\ Create(req[r].user, old, tokens[old].login, tokens[old].openedWith)
          /\ SpareNewIf(old \in spared \/ old <= cut[req[r].user])
    /\ Goto(r, [pc |-> "rotate.revoke", user |-> req[r].user, new |-> Len(tokens) + 1])
    /\ UNCHANGED <<accountVars, handedOut, cut>>

\* The successor is stored first ...
RotateIssue(r) ==
    /\ At(r, "rotate.issue")
    /\ LET old == req[r].token
       IN /\ Create(req[r].user, old, tokens[old].login, tokens[old].openedWith)
          /\ SpareNewIf(old \in spared \/ old <= cut[req[r].user])
    /\ Goto(r, [pc |-> "rotate.revoke", user |-> req[r].user,
                token |-> req[r].token, new |-> Len(tokens) + 1])
    /\ UNCHANGED <<accountVars, handedOut, cut>>

RotateRevokeForgotten(r) ==
    /\ At(r, "rotate.revoke")
    /\ req' = [req EXCEPT ![r].pc = "rotate.check"]
    /\ UNCHANGED <<accountVars, tokens, handedOut, cut, spared>>

RotateRevokeUnlinked(r) ==
    /\ At(r, "rotate.revoke")
    /\ Revoke(req[r].token, 0)
    /\ req' = [req EXCEPT ![r].pc = "rotate.check"]
    /\ UNCHANGED <<accountVars, handedOut, cut, spared>>

RotateRevokeSwapped(r) ==
    /\ At(r, "rotate.revoke")
    /\ Revoke(req[r].new, req[r].token)
    /\ req' = [req EXCEPT ![r].pc = "rotate.check"]
    /\ UNCHANGED <<accountVars, handedOut, cut, spared>>

\* ... then the old token is revoked, whatever has become of it meanwhile.
RotateRevoke(r) ==
    /\ At(r, "rotate.revoke")
    /\ Revoke(req[r].token, req[r].new)
    /\ req' = [req EXCEPT ![r].pc = "rotate.check"]
    /\ UNCHANGED <<accountVars, handedOut, cut, spared>>

RotateCheckWithoutDrop(r) ==
    /\ At(r, "rotate.check")
    /\ \E arrived \in SUBSET {req[r].new} :
          handedOut' = IF FindActiveById(req[r].user) THEN handedOut \cup arrived ELSE handedOut
    /\ Finish(r)
    /\ UNCHANGED <<accountVars, tokens, cut, spared>>

\* AuthService.refresh: the user must still be active; otherwise all go.
RotateCheck(r) ==
    /\ At(r, "rotate.check")
    /\ IF FindActiveById(req[r].user)
       THEN /\ \E arrived \in SUBSET {req[r].new} : handedOut' = handedOut \cup arrived
            /\ Finish(r)
       ELSE /\ Goto(r, [pc |-> "drop", user |-> req[r].user])
            /\ UNCHANGED handedOut
    /\ UNCHANGED <<accountVars, tokens, cut, spared>>

DropRevokeAll(r) ==
    /\ At(r, "drop")
    /\ RevokeAllForUser(req[r].user)
    /\ Finish(r)
    /\ UNCHANGED <<accountVars, handedOut, spared>>

\* RefreshTokensService.revoke: nothing to do for a token already revoked.
LogoutFind(r, t) ==
    /\ req[r] = Idle
    /\ t \in handedOut /\ Live(t)
    /\ Goto(r, [pc |-> "logout", user |-> tokens[t].owner, token |-> t])
    /\ UNCHANGED <<accountVars, tokens, handedOut, cut, spared>>

LogoutRevoke(r) ==
    /\ At(r, "logout")
    /\ Revoke(req[r].token, 0)
    /\ Finish(r)
    /\ UNCHANGED <<accountVars, handedOut, cut, spared>>

\* POST /auth/logout-all carries an access token, so the user once got an
\* answer; JwtStrategy.validate reads the row, then the handler revokes.
LogoutAllEnter(r, u) ==
    /\ req[r] = Idle
    /\ \E t \in handedOut : tokens[t].owner = u
    /\ FindActiveById(u)
    /\ Goto(r, [pc |-> "logoutAll", user |-> u])
    /\ UNCHANGED <<accountVars, tokens, handedOut, cut, spared>>

LogoutAllRevoke(r) ==
    /\ At(r, "logoutAll")
    /\ RevokeAllForUser(req[r].user)
    /\ Finish(r)
    /\ UNCHANGED <<accountVars, handedOut, spared>>

\* AuthService.resetPassword from the moment its one-time token is consumed
\* (module OneTimeTokens): findById, updatePassword, revokeAllForUser.
ResetFind(r, u, p) ==
    /\ req[r] = Idle
    /\ FindById(u)
    /\ Goto(r, [pc |-> "reset.write", user |-> u, password |-> p])
    /\ UNCHANGED <<accountVars, tokens, handedOut, cut, spared>>

ResetWriteOnly(r) ==
    /\ At(r, "reset.write")
    /\ UpdatePassword(req[r].user, req[r].password)
    /\ Finish(r)
    /\ UNCHANGED <<op, tokens, handedOut, cut, spared>>

ResetWrite(r) ==
    /\ At(r, "reset.write")
    /\ UpdatePassword(req[r].user, req[r].password)
    /\ Goto(r, [pc |-> "reset.revoke", user |-> req[r].user])
    /\ UNCHANGED <<op, tokens, handedOut, cut, spared>>

ResetRevoke(r) ==
    /\ At(r, "reset.revoke")
    /\ RevokeAllForUser(req[r].user)
    /\ Finish(r)
    /\ UNCHANGED <<accountVars, handedOut, spared>>

\* A statement is refused, or the process dies: what was written stays, the
\* rest of the request never happens.
Abort(r) ==
    /\ MayAbort
    /\ req[r] # Idle
    /\ Finish(r)
    /\ IF At(r, "reset.revoke") THEN SpareOld(req[r].user) ELSE UNCHANGED spared
    /\ UNCHANGED <<accountVars, tokens, handedOut, cut>>

\* The expiry date of a token passes.
Expire(t) ==
    /\ ~tokens[t].isExpired
    /\ tokens' = [tokens EXCEPT ![t].isExpired = TRUE]
    /\ UNCHANGED <<accountVars, handedOut, req, cut, spared>>

Arrive(r) ==
    \/ \E u \in Users, p \in Passwords : LoginFind(r, u, p) \/ ResetFind(r, u, p)
    \/ \E t \in Ids : RefreshFind(r, t) \/ LogoutFind(r, t)
    \/ \E u \in Users : LogoutAllEnter(r, u)

Step(r) ==
    \/ LoginIssue(r)
    \/ ReuseRevokeAll(r) \/ ExpireRevoke(r)
    \/ RotateIssue(r) \/ RotateRevoke(r) \/ RotateCheck(r) \/ DropRevokeAll(r)
    \/ LogoutRevoke(r) \/ LogoutAllRevoke(r)
    \/ ResetWrite(r) \/ ResetRevoke(r)

Next ==
    \/ \E r \in Requests : Arrive(r) \/ Step(r) \/ Abort(r)
    \/ \E t \in Ids : Expire(t)
    \/ AccountNext /\ UNCHANGED sessionVars

Spec == Init /\ [][Next]_vars

\* Node runs every continuation and PostgreSQL answers every statement, so a
\* request in flight takes its next step; nothing makes clients send any.
FairSpec == Spec /\ \A r \in Requests : WF_vars(Step(r))

-----------------------------------------------------------------------------
(***************************************************************************)
(* Safety under any interleaving and any abort.                            *)
(***************************************************************************)

\* What revokeAllForUser ended stays ended: no rotation, logout or expiry still
\* in flight gives a token that existed then its life back.
RevokeAllIsFinal ==
    \A t \in Ids : t <= cut[tokens[t].owner] => ~Live(t)

\* replaced_by_id always leads from a dead token to a younger one, rotated from
\* it for the same user: following it never loops, never reaches another user.
RotationChain ==
    \A t \in Ids :
        LET next == tokens[t].replacedBy
        IN next # 0 => /\ ~Live(t)
                       /\ next \in Ids /\ next > t
                       /\ tokens[next].parent = t
                       /\ tokens[next].owner = tokens[t].owner

\* A client that holds the successor knows the token it presented is spent: it
\* is revoked and linked, if not to this successor then to a rival one.
AnsweredRotationSpends ==
    \A n \in handedOut :
        LET old == tokens[n].parent
        IN old # 0 => ~Live(old) /\ tokens[old].replacedBy # 0

\* Of the sessions that logout-all, a reset, a detected reuse or an inactive
\* account should have ended, or that were opened with another password, only
\* the spared ones are alive: those whose login or rotation had done its check
\* before, or whose reset died after updatePassword.
OnlySparedSessionsOutlive ==
    \A t \in Ids : Live(t) /\ t \notin spared =>
        LET u == tokens[t].owner
        IN /\ tokens[t].login > cut[u]
           /\ \/ tokens[t].openedWith = passwordHash[u]
              \/ \E r \in Requests : At(r, "reset.revoke") /\ req[r].user = u

\* Nobody's token is revoked by anyone's request but its owner's.
RevokedOnlyForItsOwner ==
    [][\A t \in Ids : Live(t) /\ ~Live(t)' =>
          \E r \in Requests : /\ req[r] # Idle /\ req'[r] # req[r]
                              /\ req[r].user = tokens[t].owner]_vars

-----------------------------------------------------------------------------
(***************************************************************************)
(* Promises that rotation and revokeAllForUser keep while requests do not  *)
(* overlap; an overlap can break each of them.                             *)
(***************************************************************************)

\* A refresh token is exchanged once: at most one successor reaches a client.
ExchangedOnce ==
    \A m, n \in handedOut :
        tokens[m].parent = tokens[n].parent /\ tokens[m].parent # 0 => m = n

\* After logout-all, reset or a detected reuse no earlier session is alive, not
\* even through a successor of one of its tokens.
NoSessionOutlivesRevokeAll ==
    \A t \in Ids : tokens[t].login <= cut[tokens[t].owner] => ~Live(t)

-----------------------------------------------------------------------------
(***************************************************************************)
(* One request at a time and nothing aborted, the table implements         *)
(* SessionFamilies: the successor a rotation has stored counts as issued   *)
(* from the statement that revokes the old token, so the exchange is one   *)
(* step and a session never has two live tokens.                           *)
(***************************************************************************)

issuedBar == IF \E r \in Requests : At(r, "rotate.revoke") THEN Len(tokens) - 1 ELSE Len(tokens)
holderBar == [t \in 1..issuedBar |-> tokens[t].owner]
sessionBar == [t \in 1..issuedBar |-> tokens[t].login]
aliveBar == {t \in 1..issuedBar : Live(t)}

Families == INSTANCE SessionFamilies
                WITH holder <- holderBar, session <- sessionBar, alive <- aliveBar

ImplementsSessionFamilies == Families!Spec

-----------------------------------------------------------------------------
(***************************************************************************)
(* Liveness, when nothing aborts.                                          *)
(***************************************************************************)

\* Every request is answered.
RequestsEnd == \A r \in Requests : req[r] # Idle ~> req[r] = Idle

\* Whoever presents a revoked token ends every session its owner had.
ReuseEndsAllSessions ==
    \A t \in 1..MaxTokens, u \in Users :
        /\ t \in Ids /\ tokens[t].owner = u
        /\ \E r \in Requests : At(r, "reuse") /\ req[r].user = u
        ~> Ended(t)

\* A suspended or deleted account that refreshes loses every session it had,
\* unless it is reactivated meanwhile: suspend() itself leaves them alone.
InactiveRefreshEndsSessions ==
    \A t \in 1..MaxTokens, u \in Users :
        /\ t \in Ids /\ tokens[t].owner = u /\ ~FindActiveById(u)
        /\ \E r \in Requests : At(r, "rotate.check") /\ req[r].user = u
        ~> Ended(t) \/ FindActiveById(u)

=============================================================================
