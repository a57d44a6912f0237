-------------------------- MODULE EmailVerification --------------------------
(***************************************************************************)
(* E-mail verification: POST /auth/verify-email and /resend-verification,  *)
(* and the link that registration sends, over the rows of Accounts and the *)
(* links of OneTimeTokens.  A user an administrator creates is verified    *)
(* from the start and is sent no link.                                     *)
(***************************************************************************)
EXTENDS OneTimeTokens

VARIABLES
    verified, \* column email_verified_at is not NULL
    marked,   \* (h) how often markEmailVerified has run for a user
    audited   \* (h) how many email_verification.completed entries there are

besideAccounts == <<linkVars, verified, marked, audited>>
verificationVars == <<accountVars, besideAccounts>>

VerificationJob ==
    [pc: {"invalidate", "create", "verify.find", "verify.mark", "verify.audit"}, user: Users]

VerificationTypeOK ==
    /\ AccountTypeOK
    /\ links \in Seq(Link)
    /\ mailed \subseteq LinkIds
    /\ job \in [Jobs -> {Idle} \cup VerificationJob]
    /\ verified \in [Users -> BOOLEAN]
    /\ marked \in [Users -> Nat] /\ audited \in [Users -> Nat]

VerificationInit ==
    /\ AccountInit
    /\ LinksInit
    /\ verified = [u \in Users |-> FALSE]
    /\ marked = [u \in Users |-> 0]
    /\ audited = [u \in Users |-> 0]

-----------------------------------------------------------------------------

\* register: the row is inserted unverified and the request goes on to issue a
\* link, without looking at the row again.
RegisterInsert(a, j) ==
    /\ CreateInsert(a)
    /\ IF op[a].user \in users THEN UNCHANGED linkVars ELSE IssueStart(j, op[a].user)
    /\ UNCHANGED <<verified, marked, audited>>

\* UsersService.create: email_verified_at is set by the insert.
AdminInsert(a) ==
    /\ CreateInsert(a)
    /\ verified' = [verified EXCEPT ![op[a].user] = @ \/ op[a].user \notin users]
    /\ UNCHANGED <<linkVars, marked, audited>>

\* resendVerification: silently ends for an unknown, inactive, deleted or
\* already verified account.
Resend(j, u) ==
    /\ FindActiveById(u) /\ ~verified[u]
    /\ IssueStart(j, u)
    /\ UNCHANGED <<accountVars, verified, marked, audited>>

\* verifyEmail: the link is consumed first ...
VerifyConsume(j, t) ==
    /\ Consume(j, t, "verify.find")
    /\ UNCHANGED <<accountVars, verified, marked, audited>>

VerifyFindAnyway(j) ==
    /\ JobAt(j, "verify.find")
    /\ IF FindById(job[j].user) THEN JobGoto(j, [job[j] EXCEPT !.pc = "verify.mark"])
                                ELSE JobFinish(j)
    /\ UNCHANGED <<accountVars, links, mailed, verified, marked, audited>>

\* ... then findById, and email_verified_at as that query saw it decides.
VerifyFind(j) ==
    /\ JobAt(j, "verify.find")
    /\ IF FindById(job[j].user) /\ ~verified[job[j].user]
       THEN JobGoto(j, [job[j] EXCEPT !.pc = "verify.mark"])
       ELSE JobFinish(j)
    /\ UNCHANGED <<accountVars, links, mailed, verified, marked, audited>>

VerifyMark(j) ==
    /\ JobAt(j, "verify.mark")
    /\ verified' = [verified EXCEPT ![job[j].user] = TRUE]
    /\ marked' = [marked EXCEPT ![job[j].user] = @ + 1]
    /\ JobGoto(j, [job[j] EXCEPT !.pc = "verify.audit"])
    /\ UNCHANGED <<accountVars, links, mailed, audited>>

\* AuditLogService.record never throws: an entry it cannot write is lost.
VerifyAudit(j) ==
    /\ JobAt(j, "verify.audit")
    /\ \E written \in {0, 1} : audited' = [audited EXCEPT ![job[j].user] = @ + written]
    /\ JobFinish(j)
    /\ UNCHANGED <<accountVars, links, mailed, verified, marked>>

JobStep(j) ==
    \/ (IssueInvalidate(j) \/ IssueCreate(j)) /\ UNCHANGED <<accountVars, verified, marked, audited>>
    \/ VerifyFind(j) \/ VerifyMark(j) \/ VerifyAudit(j)

VerificationNext ==
    \/ \E j \in Jobs :
          \/ \E u \in Users : Resend(j, u)
          \/ \E t \in LinkIds : VerifyConsume(j, t)
          \/ JobStep(j)
          \/ JobAbort(j) /\ UNCHANGED <<accountVars, verified, marked, audited>>
          \/ \E a \in Ops : RegisterInsert(a, j)
    \/ \E t \in LinkIds : LinkExpire(t) /\ UNCHANGED <<accountVars, verified, marked, audited>>
    \/ \E a \in Ops : AdminInsert(a)
    \/ \E a \in Ops : AccountStepButInsert(a) /\ UNCHANGED besideAccounts

VerificationSpec == VerificationInit /\ [][VerificationNext]_verificationVars

-----------------------------------------------------------------------------
(***************************************************************************)
(* Properties.                                                             *)
(***************************************************************************)

\* Nobody is verified by a link that was sent to someone else, or by none: a
\* row that verifyEmail marked belongs to the owner of a consumed link, and it
\* was not marked more often than links of that owner were consumed.
MarkedByOwnLinks ==
    \A u \in Users :
        marked[u] <= Cardinality({t \in LinkIds : links[t].owner = u /\ links[t].uses > 0})

\* A comment in verifyEmail promises not to write the column or record the
\* event again when two different links of a user are used.  That is so up to
\* the requests that read the row before one of them has written it.
VerifiedAgainOnlyByOverlap ==
    \A u \in Users : marked[u] <= Cardinality(Jobs) /\ audited[u] <= marked[u]

=============================================================================
