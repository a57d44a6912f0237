------------------------------ MODULE Browsers ------------------------------
(***************************************************************************)
(* The browsers before the session endpoints: the refresh token travels    *)
(* only in a cookie (auth.controller.ts, refresh-cookie.helper.ts), so     *)
(* what a request presents is what the jar holds when it is sent, and what *)
(* an answer sets or clears takes effect when it arrives - in any order,   *)
(* or never.  The handlers behind the endpoints are those of Sessions.     *)
(*                                                                         *)
(* A slot of Requests is taken until its answer has arrived.  An answer    *)
(* without a cookie (401, 500, the reset) changes no jar.                  *)
(***************************************************************************)
EXTENDS Sessions

CONSTANTS
    Browsers,
    Home,   \* Home[b]: the users who sign in on browser b
    Nobody  \* sender of a request that is not there

ASSUME BrowsersAssumption ==
    /\ Home \in [Browsers -> SUBSET Users]
    /\ Nobody \notin Browsers

VARIABLES
    jar,      \* the token in the cookie, 0 for none
    from,     \* the browser that waits for the answer of a request
    answer,   \* {} or the cookie in an answer on its way: a token, 0 to clear
    troubled, \* (h) browsers that lost an answer or whose requests overlapped,
              \*     and that have not signed in undisturbed since
    out       \* (h) sessions whose sign-out was served to an untroubled browser

browserVars == <<jar, from, answer, troubled, out>>
bvars == <<vars, browserVars>>

BrowserTypeOK ==
    /\ TypeOK
    /\ jar \in [Browsers -> handedOut \cup {0}]
    /\ from \in [Requests -> Browsers \cup {Nobody}]
    /\ answer \in [Requests -> {{}} \cup {{c} : c \in handedOut \cup {0}}]
    /\ troubled \subseteq Browsers
    /\ out \subseteq Ids
    \* a request is in a slot whose sender waits for it and has no answer yet
    /\ \A r \in Requests : /\ req[r] # Idle => from[r] # Nobody /\ answer[r] = {}
                           /\ answer[r] # {} => from[r] # Nobody

BrowserInit ==
    /\ Init
    /\ jar = [b \in Browsers |-> 0]
    /\ from = [r \in Requests |-> Nobody]
    /\ answer = [r \in Requests |-> {}]
    /\ troubled = {}
    /\ out = {}

Waiting(b) == {r \in Requests : from[r] = b}

-----------------------------------------------------------------------------
(***************************************************************************)
(* Requests leave a browser.                                               *)
(***************************************************************************)

Send(b, r) ==
    /\ from[r] = Nobody
    /\ from' = [from EXCEPT ![r] = b]
    /\ troubled' = IF Waiting(b) = {} THEN troubled ELSE troubled \cup {b}
    /\ UNCHANGED <<jar, answer, out>>

SignIn(b, r) == \E u \in Home[b], p \in Passwords : LoginFind(r, u, p) /\ Send(b, r)

Refresh(b, r) == jar[b] # 0 /\ RefreshFind(r, jar[b]) /\ Send(b, r)

SignOut(b, r) == jar[b] # 0 /\ LogoutFind(r, jar[b]) /\ Send(b, r)

SignOutEverywhere(b, r) == \E u \in Home[b] : LogoutAllEnter(r, u) /\ Send(b, r)

ResetFrom(b, r) == \E u \in Home[b], p \in Passwords : ResetFind(r, u, p) /\ Send(b, r)

-----------------------------------------------------------------------------
(***************************************************************************)
(* Answers leave the server.                                               *)
(***************************************************************************)

Free(r) ==
    /\ from' = [from EXCEPT ![r] = Nobody]
    /\ answer' = [answer EXCEPT ![r] = {}]

\* The answer of r is sent with this cookie and will arrive; {}: it will not.
Answer(r, cookie) ==
    IF cookie = {}
    THEN Free(r) /\ troubled' = troubled \cup {from[r]}
    ELSE answer' = [answer EXCEPT ![r] = cookie] /\ UNCHANGED <<from, troubled>>

SetCookieAtSignInOnly(r) ==
    /\ LoginIssue(r) \/ RotateCheck(r)
    /\ req'[r] = Idle
    /\ IF At(r, "login.issue") THEN Answer(r, handedOut' \ handedOut)
                               ELSE Free(r) /\ UNCHANGED troubled
    /\ UNCHANGED <<jar, out>>

\* login, refresh: the new token is in the cookie.
SetCookie(r) ==
    /\ LoginIssue(r) \/ RotateCheck(r)
    /\ req'[r] = Idle
    /\ Answer(r, handedOut' \ handedOut)
    /\ UNCHANGED <<jar, out>>

\* Request r of browser b signs the session of t out.
SignedOut(b, r, t) ==
    out' = IF b \in troubled \/ Waiting(b) \ {r} # {} THEN out ELSE out \cup {tokens[t].login}

\* logout, logout-all: the cookie is cleared.
ClearCookie(r) ==
    /\ \/ LogoutRevoke(r) /\ SignedOut(from[r], r, req[r].token)
       \/ LogoutAllRevoke(r) /\ UNCHANGED out
    /\ \E arrived \in SUBSET {0} : Answer(r, arrived)
    /\ UNCHANGED jar

\* logout without a cookie, or with a token that is revoked already, succeeds
\* and clears the cookie too.
SignOutAgain(b, r) ==
    /\ req[r] = Idle /\ from[r] = Nobody
    /\ IF jar[b] = 0 THEN UNCHANGED out ELSE ~Live(jar[b]) /\ SignedOut(b, r, jar[b])
    /\ \/ /\ from' = [from EXCEPT ![r] = b]
          /\ answer' = [answer EXCEPT ![r] = {0}]
          /\ troubled' = IF Waiting(b) = {} THEN troubled ELSE troubled \cup {b}
       \/ UNCHANGED <<from, answer>> /\ troubled' = troubled \cup {b}
    /\ UNCHANGED <<vars, jar>>

\* Refused with 401, or the reset's answer: the cookie stays as it is.
LeaveCookie(r) ==
    /\ ReuseRevokeAll(r) \/ ExpireRevoke(r) \/ DropRevokeAll(r) \/ ResetRevoke(r)
    /\ Free(r)
    /\ UNCHANGED <<jar, troubled, out>>

\* The handler has more to do before it answers.
GoOn(r) ==
    /\ RotateIssue(r) \/ RotateRevoke(r) \/ RotateCheck(r) \/ ResetWrite(r)
    /\ req'[r] # Idle
    /\ UNCHANGED browserVars

ServerStep(r) == SetCookie(r) \/ ClearCookie(r) \/ LeaveCookie(r) \/ GoOn(r)

\* The handler throws, or the process dies: no cookie comes back.
AbortAnswer(r) ==
    /\ Abort(r)
    /\ Free(r)
    /\ troubled' = troubled \cup {from[r]}
    /\ UNCHANGED <<jar, out>>

-----------------------------------------------------------------------------
(***************************************************************************)
(* Answers reach the browser, in any order; cookies expire with the token. *)
(***************************************************************************)

Deliver(r) ==
    /\ answer[r] # {}
    /\ LET b == from[r]
           cookie == CHOOSE c \in answer[r] : TRUE
       IN /\ jar' = [jar EXCEPT ![b] = cookie]
          /\ troubled' = IF Waiting(b) = {r} /\ cookie # 0 /\ tokens[cookie].login = cookie
                         THEN troubled \ {b} ELSE troubled
    /\ Free(r)
    /\ UNCHANGED <<vars, out>>

CookieExpire(b) ==
    /\ jar[b] # 0 /\ tokens[jar[b]].isExpired
    /\ jar' = [jar EXCEPT ![b] = 0]
    /\ UNCHANGED <<vars, from, answer, troubled, out>>

BrowserStep(b, r) ==
    \/ SignIn(b, r) \/ Refresh(b, r) \/ SignOut(b, r) \/ SignOutAgain(b, r)
    \/ SignOutEverywhere(b, r) \/ ResetFrom(b, r)

BrowserNext ==
    \/ \E b \in Browsers, r \in Requests : BrowserStep(b, r)
    \/ \E r \in Requests : ServerStep(r) \/ AbortAnswer(r) \/ Deliver(r)
    \/ \E b \in Browsers : CookieExpire(b)
    \/ (\E t \in Ids : Expire(t)) /\ UNCHANGED browserVars
    \/ AccountNext /\ UNCHANGED <<sessionVars, browserVars>>

BrowserSpec == BrowserInit /\ [][BrowserNext]_bvars

\* As FairSpec of Sessions: the server finishes what it has begun; no browser
\* need send anything, no answer need arrive.
FairBrowserSpec == BrowserSpec /\ \A r \in Requests : WF_bvars(ServerStep(r))

-----------------------------------------------------------------------------
(***************************************************************************)
(* Properties.                                                             *)
(***************************************************************************)

\* A revoked token presented again counts as stolen and ends every session of
\* its user, on all devices (refresh-tokens.service.ts:72-83).  An honest
\* browser presents one only with a reason: its sessions were ended from
\* elsewhere, the token has expired (the refusal revokes it and leaves the
\* cookie), an answer is still on its way, or one was lost or overlapped with
\* another request of the same browser, another tab say.
StaleCookiesHaveAReason ==
    \A b \in Browsers :
        jar[b] # 0 /\ ~Live(jar[b]) =>
            \/ jar[b] <= cut[tokens[jar[b]].owner]
            \/ tokens[jar[b]].isExpired
            \/ Waiting(b) # {}
            \/ b \in troubled

\* "Logout (device saat ini)" (auth.controller.ts:178-203) succeeds even when
\* there was nothing to revoke.  Unless an answer was lost or requests of the
\* browser overlapped, the session it was for is over: no token of it is alive,
\* neither the one in the cookie nor a successor.
SignedOutSessionsEnd == \A t \in Ids : tokens[t].login \in out => ~Live(t)

=============================================================================
