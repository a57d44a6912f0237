-------------------------- MODULE SessionFamilies --------------------------
(***************************************************************************)
(* What sign-in sessions promise their clients, with every request taken   *)
(* as a single step.  A login opens a session with one live token; the     *)
(* live token is exchanged for the next one; a session ends by itself      *)
(* (logout, expiry) or with all of its user's sessions (logout-all, reset, *)
(* reuse of a spent token, an account no longer active).  So a session     *)
(* never has two live tokens, and what has ended stays ended.              *)
(***************************************************************************)
EXTENDS Naturals, Sequences

CONSTANT Users

VARIABLES
    holder,  \* whose the tokens issued so far are
    session, \* the session of each: the token it was opened with
    alive    \* those that may be exchanged

vars == <<holder, session, alive>>

Init == holder = <<>> /\ session = <<>> /\ alive = {}

Open(u) ==
    /\ holder' = Append(holder, u)
    /\ session' = Append(session, Len(session) + 1)
    /\ alive' = alive \cup {Len(holder) + 1}

Exchange(t) ==
    /\ holder' = Append(holder, holder[t])
    /\ session' = Append(session, session[t])
    /\ alive' = (alive \ {t}) \cup {Len(holder) + 1}

Close(t) ==
    /\ alive' = alive \ {t}
    /\ UNCHANGED <<holder, session>>

CloseAll(u) ==
    /\ alive' = {t \in alive : holder[t] # u}
    /\ UNCHANGED <<holder, session>>

Next ==
    \/ \E u \in Users : Open(u) \/ CloseAll(u)
    \/ \E t \in alive : Exchange(t) \/ Close(t)

Spec == Init /\ [][Next]_vars

=============================================================================
