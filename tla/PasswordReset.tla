--------------------------- MODULE PasswordReset ---------------------------
(***************************************************************************)
(* POST /auth/forgot-password and /auth/reset-password beside the sessions *)
(* they end: the links of OneTimeTokens (here the rows of                  *)
(* password_reset_tokens) composed with Sessions.                          *)
(*                                                                         *)
(* A reset holds a slot of Jobs from the consumption of its link until     *)
(* findById, and a slot of Requests from there to its end; until findById  *)
(* it has read nothing but the link.                                       *)
(***************************************************************************)
EXTENDS Sessions, OneTimeTokens

VARIABLE changed \* (h) how often updatePassword has run for a user

resetVars == <<vars, linkVars, changed>>

ResetJob == [pc: {"invalidate", "create", "reset.find"}, user: Users]

ResetTypeOK ==
    /\ TypeOK
    /\ links \in Seq(Link)
    /\ mailed \subseteq LinkIds
    /\ job \in [Jobs -> {Idle} \cup ResetJob]
    /\ changed \in [Users -> Nat]

ResetInit ==
    /\ Init
    /\ LinksInit
    /\ changed = [u \in Users |-> 0]

-----------------------------------------------------------------------------

\* forgotPassword answers the same for an unknown, suspended or deleted account
\* and does nothing.
ForgotPassword(j, u) ==
    IF FindByEmail(u) /\ FindActiveById(u)
    THEN IssueStart(j, u) /\ UNCHANGED <<vars, changed>>
    ELSE UNCHANGED resetVars

\* resetPassword: the link is spent first ...
ResetConsume(j, t) ==
    /\ Consume(j, t, "reset.find")
    /\ UNCHANGED <<vars, changed>>

\* ... then findById, which lets suspended accounts pass but not deleted ones,
\* and the request goes on in Sessions.
ResetEnter(j, r, p) ==
    /\ JobAt(j, "reset.find")
    /\ IF FindById(job[j].user) THEN ResetFind(r, job[j].user, p) ELSE UNCHANGED vars
    /\ JobFinish(j)
    /\ UNCHANGED <<links, mailed, changed>>

ChangePassword(r) ==
    /\ ResetWrite(r)
    /\ changed' = [changed EXCEPT ![req[r].user] = @ + 1]
    /\ UNCHANGED linkVars

\* The requests of Sessions but reset-password, which starts from a link here.
SessionArrive(r) ==
    \/ \E u \in Users, p \in Passwords : LoginFind(r, u, p)
    \/ \E t \in Ids : RefreshFind(r, t) \/ LogoutFind(r, t)
    \/ \E u \in Users : LogoutAllEnter(r, u)

SessionStep(r) ==
    \/ LoginIssue(r)
    \/ ReuseRevokeAll(r) \/ ExpireRevoke(r)
    \/ RotateIssue(r) \/ RotateRevoke(r) \/ RotateCheck(r) \/ DropRevokeAll(r)
    \/ LogoutRevoke(r) \/ LogoutAllRevoke(r)
    \/ ResetRevoke(r)

LinkStep(j) ==
    \/ IssueInvalidate(j) \/ IssueCreate(j)
    \/ JobAbort(j)

\* suspend, reactivate or delete in one step; their own interleavings are in
\* Accounts.
SetStatus(u) ==
    /\ FindById(u)
    /\ \/ \E active \in BOOLEAN : UpdateStatus(u, active)
       \/ SoftDelete(u)
    /\ UNCHANGED <<op, sessionVars, linkVars, changed>>

ResetNext ==
    \/ \E j \in Jobs :
          \/ \E u \in Users : ForgotPassword(j, u)
          \/ \E t \in LinkIds : ResetConsume(j, t)
          \/ \E r \in Requests, p \in Passwords : ResetEnter(j, r, p)
          \/ LinkStep(j) /\ UNCHANGED <<vars, changed>>
    \/ \E r \in Requests :
          \/ ChangePassword(r)
          \/ (SessionArrive(r) \/ SessionStep(r) \/ Abort(r)) /\ UNCHANGED <<linkVars, changed>>
    \/ \E t \in Ids : Expire(t) /\ UNCHANGED <<linkVars, changed>>
    \/ \E t \in LinkIds : LinkExpire(t) /\ UNCHANGED <<vars, changed>>
    \/ \E u \in Users : SetStatus(u)

ResetSpec == ResetInit /\ [][ResetNext]_resetVars

-----------------------------------------------------------------------------
(***************************************************************************)
(* Properties.                                                             *)
(***************************************************************************)

\* What the repository says of issue(): one link per user is good at any time.
\* True where requests that issue links do not overlap, even if they die
\* between invalidating and inserting (LinksBoundedByOverlap is the rest).
OneUsableLink == \A u \in Users : Cardinality(UsableLinks(u)) <= 1

\* A password is changed at most once for each link of its owner that was
\* consumed; a reset that dies midway costs the link and changes nothing more.
ChangedByOwnLinks ==
    \A u \in Users :
        changed[u] <= Cardinality({t \in LinkIds : links[t].owner = u /\ links[t].uses > 0})

=============================================================================
