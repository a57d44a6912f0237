---------------------------- MODULE OneTimeTokens ----------------------------
(***************************************************************************)
(* Links sent by e-mail: the tables password_reset_tokens and              *)
(* email_verification_tokens have the same shape and the same three        *)
(* statements, and their services the same issue() and consume().  This    *)
(* module has the table and those steps; EmailVerification composes them   *)
(* into the requests of AuthService.                                       *)
(*                                                                         *)
(* A link's id is its place in the sequence links.  What a request keeps   *)
(* across an await is in job[j].                                           *)
(***************************************************************************)
EXTENDS Accounts, Sequences

CONSTANTS
    Jobs,     \* slots for requests in flight that issue or consume links
    MaxLinks  \* bound: no request that may append a row starts beyond it

ASSUME LinksAssumption == MaxLinks \in Nat /\ IsFiniteSet(Jobs)

VARIABLES
    links,  \* the table
    mailed, \* ids of the links that reached a mailbox
    job     \* the requests in flight

linkVars == <<links, mailed, job>>

LinkIds == DOMAIN links

Link == [owner: Users, isUsed: BOOLEAN, isExpired: BOOLEAN,
         uses: Nat] \* (h) how often it was consumed

\* is_used = false AND expires_at > now().
Usable(t) == ~links[t].isUsed /\ ~links[t].isExpired

JobAt(j, pc) == job[j] # Idle /\ job[j].pc = pc
JobGoto(j, state) == job' = [job EXCEPT ![j] = state]
JobFinish(j) == JobGoto(j, Idle)

LinksInit ==
    /\ links = <<>>
    /\ mailed = {}
    /\ job = [j \in Jobs |-> Idle]

-----------------------------------------------------------------------------

\* The bound on rows, kept by reserving one for each request about to append.
LinkRoom ==
    Len(links) + Cardinality({j \in Jobs : JobAt(j, "invalidate") \/ JobAt(j, "create")}) < MaxLinks

\* issue(userId) begins.
IssueStart(j, u) ==
    /\ job[j] = Idle /\ LinkRoom
    /\ JobGoto(j, [pc |-> "invalidate", user |-> u])
    /\ UNCHANGED <<links, mailed>>

InvalidateNothing(j) ==
    /\ JobAt(j, "invalidate")
    /\ JobGoto(j, [job[j] EXCEPT !.pc = "create"])
    /\ UNCHANGED <<links, mailed>>

\* invalidateAllForUser: UPDATE ... WHERE user_id = u AND is_used = false.
IssueInvalidate(j) ==
    /\ JobAt(j, "invalidate")
    /\ links' = [t \in LinkIds |->
                   IF links[t].owner = job[j].user THEN [links[t] EXCEPT !.isUsed = TRUE]
                                                   ELSE links[t]]
    /\ JobGoto(j, [job[j] EXCEPT !.pc = "create"])
    /\ UNCHANGED mailed

\* The mail arrives, or is lost, or the transport throws, which issuers only log.
SendMail(t) == mailed' \in {mailed, mailed \cup {t}}

\* The row is inserted, the link sent.
IssueCreate(j) ==
    /\ JobAt(j, "create")
    /\ links' = Append(links, [owner |-> job[j].user, isUsed |-> FALSE,
                               isExpired |-> FALSE, uses |-> 0])
    /\ SendMail(Len(links) + 1)
    /\ JobFinish(j)

MarkUsed(t) == links' = [links EXCEPT ![t].isUsed = TRUE, ![t].uses = @ + 1]

ConsumeEvenUsed(j, t, pc) ==
    /\ job[j] = Idle
    /\ t \in mailed /\ ~links[t].isExpired
    /\ MarkUsed(t)
    /\ JobGoto(j, [pc |-> pc, user |-> links[t].owner])
    /\ UNCHANGED mailed

ConsumeForgettingOwner(j, t, pc) ==
    /\ job[j] = Idle
    /\ t \in mailed /\ Usable(t)
    /\ MarkUsed(t)
    /\ JobGoto(j, [pc |-> pc])
    /\ UNCHANGED mailed

\* consume(rawToken), one UPDATE ... WHERE is_used = false AND expires_at > now
\* RETURNING: of the requests that carry a link only the first finds it.  The
\* others are refused and end.
Consume(j, t, pc) ==
    /\ job[j] = Idle
    /\ t \in mailed /\ Usable(t)
    /\ MarkUsed(t)
    /\ JobGoto(j, [pc |-> pc, user |-> links[t].owner])
    /\ UNCHANGED mailed

\* A statement is refused, or the process dies, between two steps.
JobAbort(j) ==
    /\ job[j] # Idle
    /\ JobFinish(j)
    /\ UNCHANGED <<links, mailed>>

LinkExpire(t) ==
    /\ ~links[t].isExpired
    /\ links' = [links EXCEPT ![t].isExpired = TRUE]
    /\ UNCHANGED <<mailed, job>>

-----------------------------------------------------------------------------
(***************************************************************************)
(* Properties.                                                             *)
(***************************************************************************)

\* A link works once, whichever requests carry it at the same moment.
ConsumedOnce == \A t \in LinkIds : links[t].uses <= 1

UsableLinks(u) == {t \in LinkIds : links[t].owner = u /\ ~links[t].isUsed}

\* password-reset-tokens.repository.ts says there is one active token per user
\* at any time.  Two requests that both invalidate before either inserts leave
\* two; but every request kills those it finds, so a user has at most as many
\* good links as requests can overlap, however often one is asked for.
LinksBoundedByOverlap == \A u \in Users : Cardinality(UsableLinks(u)) <= Cardinality(Jobs)

=============================================================================
