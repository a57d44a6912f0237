--------------------------- MODULE BrowsersProofs ---------------------------
(***************************************************************************)
(* Proofs about Browsers, for any users, browsers and overlapping requests *)
(* and any abort, late or lost answer.                                     *)
(***************************************************************************)
EXTENDS Browsers, SessionsProofs

-----------------------------------------------------------------------------
(***************************************************************************)
(* The invariant.                                                          *)
(***************************************************************************)

\* What request r holds of token n: the one it presented, or the one it will
\* answer with.
Carries(r, n) == req[r] # Idle /\ req[r].pc \in TokenPc /\ req[r].token = n

Brings(r, n) ==
    \/ req[r] # Idle /\ req[r].pc \in {"rotate.revoke", "rotate.check"} /\ req[r].new = n
    \/ answer[r] = {n}

\* The tokens that are, or may soon be, in the jar of b or presented by it.
Shown(b, n) == jar[b] = n \/ \E r \in Waiting(b) : Carries(r, n) \/ Brings(r, n)

\* A session's rows: its login is its oldest row, and one user's.
LoginsSound ==
    \A t \in Ids :
        LET row == tokens[t]
        IN /\ row.login \in Ids /\ row.login <= t
           /\ tokens[row.login].owner = row.owner
           /\ row.parent = 0 => row.login = t
           /\ row.parent # 0 => /\ row.parent \in Ids /\ row.parent < t
                               /\ row.login = tokens[row.parent].login

ExpiredSound == \A r \in Requests : At(r, "expire") => tokens[req[r].token].isExpired

\* No session is shown at two browsers.
OneBrowserPerSession ==
    \A b, c \in Browsers : \A m, n \in Ids :
        Shown(b, m) /\ Shown(c, n) /\ tokens[m].login = tokens[n].login => b = c

\* A token on its way to its browser is nowhere else; only revokeAllForUser
\* can have ended it, and if it opens a session it is the only token of it.
FreshOnTheWay ==
    \A r \in Requests : \A n \in Ids :
        Brings(r, n) =>
            /\ \A b \in Browsers : jar[b] # n
            /\ \A q \in Requests : ~Carries(q, n) /\ (Brings(q, n) => q = r)
            /\ ~Live(n) => n <= cut[tokens[n].owner]
            /\ tokens[n].login = n => \A m \in Ids : tokens[m].login = n => m = n

Excused(n) == Live(n) \/ n <= cut[tokens[n].owner] \/ tokens[n].isExpired

\* An untroubled browser waits for one request at most, which presents what is
\* in the jar unless that has expired meanwhile; what is in the jar is good or
\* excused until the request spends it.
Steady(b) ==
    /\ \A q, r \in Waiting(b) : q = r
    /\ Waiting(b) = {} /\ jar[b] # 0 => Excused(jar[b])
    /\ \A r \in Waiting(b) :
        jar[b] # 0 =>
          /\ req[r] # Idle =>
              /\ req[r].pc \in TokenPc => req[r].token = jar[b]
              /\ req[r].pc = "drop" => tokens[jar[b]].owner = req[r].user
              /\ req[r].pc \notin {"reuse", "expire", "rotate.check", "drop"} => Excused(jar[b])
          /\ \A n \in Ids : answer[r] = {n} /\ tokens[n].parent # 0 => jar[b] = tokens[n].parent

\* ... and the live tokens of the sessions it knows are those it knows.
KnowsItsSessions(b) ==
    \A m, n \in Ids :
        Shown(b, m) /\ Live(n) /\ tokens[n].login = tokens[m].login =>
            Shown(b, n) \/ \E r \in Waiting(b) : At(r, "drop")

Untroubled == \A b \in Browsers : b \notin troubled => Steady(b) /\ KnowsItsSessions(b)

\* A session signed out has no live token and no request that could add one.
OutForGood ==
    /\ \A t \in Ids : tokens[t].login \in out => ~Live(t)
    /\ \A r \in Requests : At(r, "rotate.issue") => tokens[req[r].token].login \notin out

BrowserInv ==
    /\ LoginsSound
    /\ ExpiredSound
    /\ OneBrowserPerSession
    /\ FreshOnTheWay
    /\ Untroubled
    /\ OutForGood

FullInv == Inv /\ BrowserTypeOK /\ BrowserInv

-----------------------------------------------------------------------------
(***************************************************************************)
(* What every step does to rows that are there already, and which steps    *)
(* take a token's life.                                                    *)
(***************************************************************************)

RowsSteady ==
    /\ Ids' = Ids
    /\ \A t \in Ids :
        /\ tokens'[t].owner = tokens[t].owner
        /\ tokens'[t].parent = tokens[t].parent
        /\ tokens'[t].login = tokens[t].login
        /\ tokens[t].isRevoked => tokens'[t].isRevoked
        /\ tokens[t].isExpired => tokens'[t].isExpired
    /\ \A u \in Users : cut[u] <= cut'[u]

\* A step that writes no row keeps rows steady.
LEMMA RowsUnchanged ==
    ASSUME Inv, UNCHANGED <<tokens, cut>>
    PROVE  RowsSteady /\ \A t \in Ids : Live(t) => Live(t)'
<1>1. \A u \in Users : cut[u] \in Nat
  BY DEF Inv, TableInv
<1>2. QED
  BY <1>1 DEF RowsSteady, Ids, Live

\* Revoking one row takes the life of that token only.
LEMMA RevokeSteady ==
    ASSUME Inv, NEW t \in Ids, NEW new \in Nat, Revoke(t, new), UNCHANGED cut
    PROVE  /\ RowsSteady
           /\ \A n \in Ids : Live(n) /\ ~Live(n)' => n = t
           /\ ~Live(t)'
<1>1. \A u \in Users : cut[u] \in Nat
  BY DEF Inv, TableInv
<1>2. /\ Ids' = Ids
      /\ \A s \in Ids : s # t => tokens'[s] = tokens[s]
      /\ tokens'[t] = [tokens[t] EXCEPT !.isRevoked = TRUE,
                           !.replacedBy = IF new = 0 THEN @ ELSE new]
  BY RevokeRows DEF Inv, TableInv, Ids
<1>3. tokens[t] \in Row
  BY RowFields DEF Inv, TableInv
<1>4. /\ tokens'[t].owner = tokens[t].owner /\ tokens'[t].parent = tokens[t].parent
      /\ tokens'[t].login = tokens[t].login /\ tokens'[t].isExpired = tokens[t].isExpired
      /\ tokens'[t].isRevoked
  BY <1>2, <1>3 DEF Row
<1>5. ASSUME NEW s \in Ids
      PROVE  /\ tokens'[s].owner = tokens[s].owner /\ tokens'[s].parent = tokens[s].parent
             /\ tokens'[s].login = tokens[s].login
             /\ tokens[s].isRevoked => tokens'[s].isRevoked
             /\ tokens[s].isExpired => tokens'[s].isExpired
             /\ s # t => Live(s)' = Live(s)
  BY <1>2, <1>4 DEF Live
<1>6. QED
  BY <1>1, <1>2, <1>4, <1>5 DEF RowsSteady, Live

\* revokeAllForUser takes lives of the user's tokens only, and puts them below the cut.
LEMMA RevokeAllSteady ==
    ASSUME Inv, NEW u \in Users, RevokeAllForUser(u)
    PROVE  /\ RowsSteady
           /\ \A n \in Ids : Live(n) /\ ~Live(n)' => n <= cut'[tokens[n].owner]
           /\ \A n \in Ids : tokens[n].owner = u => ~Live(n)' /\ n <= cut'[u]
<1>1. /\ Ids' = Ids
      /\ \A t \in Ids : tokens[t].owner # u => tokens'[t] = tokens[t]
      /\ \A t \in Ids : tokens[t].owner = u =>
           tokens'[t] = [tokens[t] EXCEPT !.isRevoked = TRUE]
  BY RevokeAllRows DEF Inv, TableInv, Ids
<1>2. \A t \in Ids : tokens[t] \in Row /\ t \in Nat /\ t <= Len(tokens) /\ Len(tokens) \in Nat
  BY RowFields DEF Inv, TableInv
<1>3. \A t \in Ids :
        /\ tokens'[t].owner = tokens[t].owner /\ tokens'[t].parent = tokens[t].parent
        /\ tokens'[t].login = tokens[t].login /\ tokens'[t].isExpired = tokens[t].isExpired
        /\ tokens[t].isRevoked => tokens'[t].isRevoked
        /\ tokens[t].owner = u => tokens'[t].isRevoked
        /\ tokens[t].owner # u => tokens'[t].isRevoked = tokens[t].isRevoked
  BY <1>1, <1>2 DEF Row
<1>4. /\ cut' = [cut EXCEPT ![u] = Len(tokens)] /\ cut \in [Users -> Nat]
      /\ Len(tokens) \in Nat /\ \A v \in Users : cut[v] <= Len(tokens)
  BY DEF RevokeAllForUser, Inv, TableInv, CutWithinTable
<1>5. \A v \in Users : cut[v] <= cut'[v]
  BY <1>4
<1>6. cut'[u] = Len(tokens)
  BY <1>4
<1>7. QED
  BY <1>1, <1>2, <1>3, <1>5, <1>6 DEF RowsSteady, Live

\* An expiry takes nobody's life.
LEMMA ExpireSteady ==
    ASSUME Inv, NEW t \in Ids, Expire(t)
    PROVE  RowsSteady /\ \A n \in Ids : Live(n) => Live(n)'
<1>1. \A u \in Users : cut[u] \in Nat
  BY DEF Inv, TableInv
<1>2. /\ Ids' = Ids /\ UNCHANGED cut
      /\ \A s \in Ids : s # t => tokens'[s] = tokens[s]
      /\ tokens'[t] = [tokens[t] EXCEPT !.isExpired = TRUE]
  BY ExpireRows DEF Inv, TableInv, Ids, Expire
<1>3. tokens[t] \in Row
  BY RowFields DEF Inv, TableInv
<1>4. /\ tokens'[t].owner = tokens[t].owner /\ tokens'[t].parent = tokens[t].parent
      /\ tokens'[t].login = tokens[t].login /\ tokens'[t].isExpired
      /\ tokens'[t].isRevoked = tokens[t].isRevoked
  BY <1>2, <1>3 DEF Row
<1>5. ASSUME NEW s \in Ids
      PROVE  /\ tokens'[s].owner = tokens[s].owner /\ tokens'[s].parent = tokens[s].parent
             /\ tokens'[s].login = tokens[s].login
             /\ tokens'[s].isRevoked = tokens[s].isRevoked
             /\ tokens[s].isExpired => tokens'[s].isExpired
  BY <1>2, <1>4
<1>6. QED
  BY <1>1, <1>2, <1>5 DEF RowsSteady, Live

\* Rows that stay keep their login.
LEMMA LoginsStay ==
    ASSUME LoginsSound, RowsSteady
    PROVE  LoginsSound'
<1> SUFFICES ASSUME NEW t \in Ids
             PROVE  LET row == tokens'[t]
                    IN /\ row.login \in Ids /\ row.login <= t
                       /\ tokens'[row.login].owner = row.owner
                       /\ row.parent = 0 => row.login = t
                       /\ row.parent # 0 => row.parent \in Ids /\ row.parent < t
                                            /\ row.login = tokens'[row.parent].login
  BY DEF LoginsSound, RowsSteady
<1>1. /\ tokens[t].login \in Ids /\ tokens[t].login <= t
      /\ tokens[tokens[t].login].owner = tokens[t].owner
      /\ tokens[t].parent = 0 => tokens[t].login = t
      /\ tokens[t].parent # 0 => /\ tokens[t].parent \in Ids /\ tokens[t].parent < t
                                 /\ tokens[t].login = tokens[tokens[t].parent].login
  BY DEF LoginsSound
<1>2. QED
  BY <1>1 DEF RowsSteady

-----------------------------------------------------------------------------
(***************************************************************************)
(* A step of one request, of one browser.                                  *)
(***************************************************************************)

Changes(r, state, f, a) ==
    /\ req' = [req EXCEPT ![r] = state]
    /\ from' = [from EXCEPT ![r] = f]
    /\ answer' = [answer EXCEPT ![r] = a]

\* The request and the jar of b hold no other tokens than before, and no token
\* dies but the one it carries or by a revokeAllForUser.
NothingNew(r, b) ==
    \A n \in Ids :
        /\ Carries(r, n)' => Carries(r, n) \/ jar[b] = n
        /\ Brings(r, n)' => Brings(r, n)
        /\ jar'[b] = n => jar[b] = n \/ (Brings(r, n) /\ ~Brings(r, n)' /\ ~Carries(r, n)')
        /\ Live(n) /\ ~Live(n)' => Carries(r, n) \/ n <= cut'[tokens[n].owner]

\* Other browsers do not notice.
OnlyAt(b) == \A c \in Browsers \ {b} : jar'[c] = jar[c] /\ (c \in troubled' <=> c \in troubled)

\* The other requests are where they were.
LEMMA ChangesElsewhere ==
    ASSUME FullInv, NEW r \in Requests, NEW state, NEW f, NEW a, Changes(r, state, f, a)
    PROVE  /\ req'[r] = state /\ from'[r] = f /\ answer'[r] = a
           /\ \A q \in Requests \ {r} :
                 /\ req'[q] = req[q] /\ from'[q] = from[q] /\ answer'[q] = answer[q]
                 /\ \A n : Carries(q, n)' = Carries(q, n) /\ Brings(q, n)' = Brings(q, n)
                 /\ \A pc : At(q, pc)' = At(q, pc)
<1>1. /\ req'[r] = state /\ from'[r] = f /\ answer'[r] = a
      /\ \A q \in Requests \ {r} : req'[q] = req[q] /\ from'[q] = from[q] /\ answer'[q] = answer[q]
  BY DEF FullInv, Inv, TypeOK, BrowserTypeOK, Changes
<1>2. QED
  BY <1>1 DEF Carries, Brings, At

\* What a request holds is shown at the browser that waits for it.
LEMMA HoldersWait ==
    ASSUME BrowserTypeOK, BrowserInv, NEW r \in Requests, NEW n \in Ids, Carries(r, n) \/ Brings(r, n)
    PROVE  from[r] \in Browsers /\ r \in Waiting(from[r]) /\ Shown(from[r], n)
<1>1. from[r] # Nobody
  BY DEF BrowserTypeOK, Carries, Brings
<1>2. from[r] \in Browsers
  BY <1>1 DEF BrowserTypeOK
<1>3. QED
  BY <1>2 DEF Waiting, Shown

\* The types after a step of one request, from the types of what it sets.
LEMMA TypedAfter ==
    ASSUME FullInv, Inv', NEW r \in Requests, NEW state, NEW f \in Browsers \cup {Nobody},
           NEW a \in {{}} \cup {{c} : c \in handedOut' \cup {0}}, Changes(r, state, f, a),
           handedOut \subseteq handedOut', Ids \subseteq Ids',
           jar' \in [Browsers -> handedOut' \cup {0}], troubled' \subseteq Browsers, out' \subseteq Ids',
           state # Idle => f # Nobody /\ a = {},
           a # {} => f # Nobody
    PROVE  BrowserTypeOK'
<1>1. TypeOK'
  BY DEF Inv
<1>2. from' \in [Requests -> Browsers \cup {Nobody}]
  BY DEF Changes, FullInv, BrowserTypeOK
<1>3. answer' \in [Requests -> {{}} \cup {{c} : c \in handedOut' \cup {0}}]
  <2>1. \A q \in Requests : answer[q] \in {{}} \cup {{c} : c \in handedOut' \cup {0}}
    BY DEF FullInv, BrowserTypeOK
  <2>2. QED
    BY <2>1 DEF Changes, FullInv, BrowserTypeOK
<1>4. \A q \in Requests : /\ req'[q] # Idle => from'[q] # Nobody /\ answer'[q] = {}
                          /\ answer'[q] # {} => from'[q] # Nobody
  BY ChangesElsewhere DEF FullInv, BrowserTypeOK
<1>5. QED
  BY <1>1, <1>2, <1>3, <1>4 DEF BrowserTypeOK

\* A step in which nothing is held that was not held before.
Moves(r, b, state, f, a) ==
    /\ Changes(r, state, f, a)
    /\ from[r] \in {b, Nobody} /\ f \in {b, Nobody}
    /\ RowsSteady
    /\ NothingNew(r, b)
    /\ OnlyAt(b)

\* Nothing is shown at a browser that was not shown there before.
LEMMA ShownShrinks ==
    ASSUME FullInv, BrowserTypeOK', NEW r \in Requests, NEW b \in Browsers,
           NEW state, NEW f, NEW a, Moves(r, b, state, f, a),
           NEW c \in Browsers, NEW n \in Ids, Shown(c, n)'
    PROVE  Shown(c, n)
<1>1. CASE jar'[c] = n
  <2>1. jar[c] = n \/ (c = b /\ Brings(r, n))
    BY <1>1 DEF Moves, NothingNew, OnlyAt
  <2>2. ASSUME c = b, Brings(r, n)
        PROVE  Shown(c, n)
    <3>1. from[r] # Nobody /\ Shown(from[r], n)
      BY <2>2, HoldersWait DEF FullInv, BrowsersAssumption, BrowserTypeOK, Brings
    <3>2. QED
      BY <2>2, <3>1 DEF Moves
  <2>3. QED
    BY <2>1, <2>2 DEF Shown
<1>2. ASSUME NEW q \in Waiting(c)', Carries(q, n)' \/ Brings(q, n)'
      PROVE  Shown(c, n)
  <2>1. q \in Requests /\ from'[q] = c
    BY <1>2 DEF Waiting
  <2>2. CASE q # r
    <3>1. from[q] = c /\ (Carries(q, n) \/ Brings(q, n))
      BY <1>2, <2>1, <2>2, ChangesElsewhere DEF Moves
    <3>2. QED
      BY <2>1, <3>1 DEF Shown, Waiting
  <2>3. CASE q = r
    <3>1. c = b
      BY <2>1, <2>3, ChangesElsewhere, BrowsersAssumption DEF Moves
    <3>2. Carries(r, n) \/ Brings(r, n) \/ jar[b] = n
      BY <1>2, <2>3 DEF Moves, NothingNew
    <3>3. CASE jar[b] = n
      BY <3>1, <3>3 DEF Shown
    <3>4. CASE Carries(r, n) \/ Brings(r, n)
      <4>1. from[r] \in Browsers /\ Shown(from[r], n)
        BY <3>4, HoldersWait DEF FullInv
      <4>2. QED
        BY <3>1, <4>1, BrowsersAssumption DEF Moves
    <3>5. QED
      BY <3>2, <3>3, <3>4
  <2>4. QED
    BY <2>2, <2>3
<1>3. QED
  BY <1>1, <1>2 DEF Shown

\* Where nothing new is held, sessions stay at their browser and tokens on their way fresh.
LEMMA SharedStays ==
    ASSUME FullInv, BrowserTypeOK', NEW r \in Requests, NEW b \in Browsers,
           NEW state, NEW f, NEW a, Moves(r, b, state, f, a)
    PROVE  OneBrowserPerSession' /\ FreshOnTheWay'
<1>1. Ids' = Ids /\ \A n \in Ids : tokens'[n].login = tokens[n].login /\ tokens'[n].owner = tokens[n].owner
  BY DEF Moves, RowsSteady
<1>2. OneBrowserPerSession'
  <2> SUFFICES ASSUME NEW c \in Browsers, NEW d \in Browsers, NEW m \in Ids, NEW n \in Ids,
                      Shown(c, m)', Shown(d, n)', tokens[m].login = tokens[n].login
               PROVE  c = d
    BY <1>1 DEF OneBrowserPerSession
  <2>1. Shown(c, m) /\ Shown(d, n)
    BY ShownShrinks
  <2>2. QED
    BY <2>1 DEF FullInv, BrowserInv, OneBrowserPerSession
<1>3. FreshOnTheWay'
  <2> SUFFICES ASSUME NEW s \in Requests, NEW n \in Ids, Brings(s, n)'
               PROVE  /\ \A c \in Browsers : jar'[c] # n
                      /\ \A q \in Requests : ~Carries(q, n)' /\ (Brings(q, n)' => q = s)
                      /\ ~Live(n)' => n <= cut'[tokens'[n].owner]
                      /\ tokens'[n].login = n => \A m \in Ids : tokens'[m].login = n => m = n
    BY <1>1 DEF FreshOnTheWay
  <2>1. \A q \in Requests : Brings(q, n)' => Brings(q, n)
    BY ChangesElsewhere DEF Moves, NothingNew
  <2>2. /\ \A c \in Browsers : jar[c] # n
        /\ \A q \in Requests : ~Carries(q, n) /\ (Brings(q, n) => q = s)
        /\ ~Live(n) => n <= cut[tokens[n].owner]
        /\ tokens[n].login = n => \A m \in Ids : tokens[m].login = n => m = n
    BY <2>1 DEF FullInv, BrowserInv, FreshOnTheWay
  <2>3. \A q \in Requests : ~Carries(q, n)'
    BY <2>2, ChangesElsewhere DEF Moves, NothingNew
  <2>4. \A c \in Browsers : jar'[c] # n
    BY <2>1, <2>2 DEF Moves, NothingNew, OnlyAt
  <2>5. ~Live(n)' => n <= cut'[tokens'[n].owner]
    <3>1. n \in Nat /\ tokens[n].owner \in Users
      BY RowFields DEF FullInv, Inv, TableInv
    <3>2. cut[tokens[n].owner] <= cut'[tokens[n].owner]
          /\ cut[tokens[n].owner] \in Nat
      BY <3>1 DEF Moves, RowsSteady, FullInv, Inv, TableInv
    <3>3. Live(n) /\ ~Live(n)' => n <= cut'[tokens[n].owner]
      BY <2>2 DEF Moves, NothingNew
    <3>4. cut'[tokens[n].owner] \in Int
      BY <3>1 DEF FullInv, BrowserTypeOK, TypeOK
    <3>5. QED
      BY <1>1, <2>2, <3>1, <3>2, <3>3, <3>4
  <2>6. QED
    BY <1>1, <2>1, <2>2, <2>3, <2>4, <2>5
<1>4. QED
  BY <1>2, <1>3

\* A dead token that was excused stays so.
LEMMA ExcusedStays ==
    ASSUME Inv, TypeOK', RowsSteady, NEW n \in Ids, Excused(n),
           Live(n) /\ ~Live(n)' => n <= cut'[tokens[n].owner]
    PROVE  Excused(n)'
<1>1. /\ n \in Nat /\ tokens[n].owner \in Users /\ tokens'[n].owner = tokens[n].owner
      /\ cut[tokens[n].owner] \in Nat /\ cut'[tokens[n].owner] \in Nat
      /\ cut[tokens[n].owner] <= cut'[tokens[n].owner]
      /\ tokens[n].isExpired => tokens'[n].isExpired
  BY RowFields DEF Inv, TableInv, TypeOK, RowsSteady
<1>2. QED
  BY <1>1 DEF Excused

\* A browser with other things waiting, or none, keeps what it knew.
LEMMA OthersStay ==
    ASSUME FullInv, BrowserTypeOK', NEW r \in Requests, NEW b \in Browsers,
           NEW state, NEW f, NEW a, Moves(r, b, state, f, a),
           NEW c \in Browsers, c # b, c \notin troubled'
    PROVE  (Steady(c) /\ KnowsItsSessions(c))'
<1>1. c \notin troubled /\ jar'[c] = jar[c]
  BY DEF Moves, OnlyAt
<1>2. Waiting(c)' = Waiting(c) /\ r \notin Waiting(c)
  BY ChangesElsewhere, BrowsersAssumption DEF Moves, Waiting
<1>3. Steady(c) /\ KnowsItsSessions(c)
  BY <1>1 DEF FullInv, BrowserInv, Untroubled
<1>4. \A q \in Waiting(c) :
         /\ req'[q] = req[q] /\ answer'[q] = answer[q]
         /\ \A n : Carries(q, n)' = Carries(q, n) /\ Brings(q, n)' = Brings(q, n)
         /\ At(q, "drop")' = At(q, "drop")
  BY <1>2, ChangesElsewhere DEF Moves, Waiting
<1>5. \A n \in Ids : Shown(c, n)' <=> Shown(c, n)
  BY <1>1, <1>2, <1>4 DEF Shown
<1>6. jar[c] # 0 => jar[c] \in Ids
  BY DEF FullInv, BrowserTypeOK, TypeOK
<1>7. ASSUME NEW k \in Ids, k = jar[c], Excused(k)
      PROVE  Excused(k)'
  <2>1. ~Carries(r, k)
    <3> SUFFICES ASSUME Carries(r, k) PROVE FALSE
      OBVIOUS
    <3>1. from[r] \in Browsers /\ Shown(from[r], k)
      BY HoldersWait DEF FullInv
    <3>2. Shown(c, k)
      BY <1>7 DEF Shown
    <3>3. from[r] = c
      BY <3>1, <3>2 DEF FullInv, BrowserInv, OneBrowserPerSession
    <3>4. QED
      BY <3>3, BrowsersAssumption DEF Moves
  <2>2. Live(k) /\ ~Live(k)' => k <= cut'[tokens[k].owner]
    BY <2>1 DEF Moves, NothingNew
  <2>3. QED
    BY <1>7, <2>2, ExcusedStays DEF FullInv, Moves, BrowserTypeOK
<1> DEFINE ExcusedAfter == \/ ~tokens'[jar[c]].isRevoked
                           \/ jar[c] <= cut'[tokens'[jar[c]].owner]
                           \/ tokens'[jar[c]].isExpired
<1>8. jar[c] # 0 /\ Excused(jar[c]) => ExcusedAfter
  BY <1>6, <1>7 DEF Excused, Live
<1> HIDE DEF ExcusedAfter
<1>9. Steady(c)'
  <2>1. \A n \in Ids : tokens'[n].owner = tokens[n].owner /\ tokens'[n].parent = tokens[n].parent
    BY DEF Moves, RowsSteady
  <2>2. Ids' = Ids
    BY DEF Moves, RowsSteady
  <2>3. /\ \A p, q \in Waiting(c)' : p = q
        /\ Waiting(c)' = {} /\ jar'[c] # 0 => ExcusedAfter
    BY <1>1, <1>2, <1>3, <1>8 DEF Steady
  <2>4. ASSUME NEW q \in Waiting(c)', jar'[c] # 0
        PROVE  /\ req'[q] # Idle =>
                  /\ req'[q].pc \in TokenPc => req'[q].token = jar'[c]
                  /\ req'[q].pc = "drop" => tokens'[jar'[c]].owner = req'[q].user
                  /\ req'[q].pc \notin {"reuse", "expire", "rotate.check", "drop"} => ExcusedAfter
               /\ \A n \in Ids' : answer'[q] = {n} /\ tokens'[n].parent # 0 => jar'[c] = tokens'[n].parent
    BY <1>1, <1>2, <1>3, <1>4, <1>6, <1>8, <2>1, <2>2, <2>4 DEF Steady
  <2>5. ExcusedAfter <=> Excused(jar[c])'
    BY <1>1 DEF Excused, Live, ExcusedAfter
  <2>6. QED
    BY <2>3, <2>4, <2>5 DEF Steady
<1>10. KnowsItsSessions(c)'
  <2> SUFFICES ASSUME NEW m \in Ids, NEW n \in Ids, Shown(c, m)', Live(n)',
                      tokens'[n].login = tokens'[m].login
               PROVE  Shown(c, n)' \/ \E q \in Waiting(c)' : At(q, "drop")'
    BY DEF KnowsItsSessions, Moves, RowsSteady
  <2>1. Shown(c, m) /\ Live(n) /\ tokens[n].login = tokens[m].login
    BY <1>5 DEF Moves, RowsSteady, Live
  <2>2. Shown(c, n) \/ \E q \in Waiting(c) : At(q, "drop")
    BY <1>3, <2>1 DEF KnowsItsSessions
  <2>3. QED
    BY <1>2, <1>4, <1>5, <2>2
<1>11. QED
  BY <1>9, <1>10

\* A request that found its token expired need not look again.
LEMMA ExpiredStays ==
    ASSUME FullInv, RowsSteady, NEW r \in Requests,
           \A q \in Requests \ {r} : req'[q] = req[q],
           At(r, "expire")' => tokens'[req'[r].token].isExpired
    PROVE  ExpiredSound'
<1> SUFFICES ASSUME NEW q \in Requests \ {r}, At(q, "expire")
             PROVE  tokens'[req'[q].token].isExpired
  BY DEF ExpiredSound, At
<1>1. req[q].token \in Ids
  BY DEF FullInv, Inv, RequestsSound, Sound, HoldsToken, At, TokenPc
<1>2. tokens[req[q].token].isExpired
  BY DEF FullInv, BrowserInv, ExpiredSound
<1>3. QED
  BY <1>1, <1>2 DEF RowsSteady

\* The sessions signed out now have no life left, and those before get none.
LastSigh(r) ==
    /\ out \subseteq out'
    /\ \A t \in Ids : tokens[t].login \in out' \ out => ~Live(t)'
    /\ \A q \in Requests : At(q, "rotate.issue")' =>
          tokens[req'[q].token].login \notin IF q = r THEN out' ELSE out' \ out

\* Sessions signed out stay without life.
LEMMA OutStays ==
    ASSUME FullInv, Inv', RowsSteady, NEW r \in Requests,
           \A q \in Requests \ {r} : req'[q] = req[q], LastSigh(r)
    PROVE  OutForGood'
<1>1. \A t \in Ids : tokens[t].login \in out => ~Live(t)'
  BY DEF FullInv, BrowserInv, OutForGood, RowsSteady, Live
<1>2. \A t \in Ids' : tokens'[t].login \in out' => ~Live(t)'
  BY <1>1 DEF RowsSteady, LastSigh
<1>3. ASSUME NEW q \in Requests, At(q, "rotate.issue")'
      PROVE  tokens'[req'[q].token].login \notin out'
  <2>1. req'[q].token \in Ids'
    BY <1>3 DEF Inv, RequestsSound, Sound, HoldsToken, At, TokenPc
  <2>2. tokens[req'[q].token].login \notin out'
    <3>1. CASE q = r
      BY <1>3, <3>1 DEF LastSigh
    <3>2. CASE q # r
      <4>1. At(q, "rotate.issue") /\ req'[q] = req[q]
        BY <1>3, <3>2 DEF At
      <4>2. tokens[req'[q].token].login \notin out
        BY <4>1 DEF FullInv, BrowserInv, OutForGood
      <4>3. tokens[req'[q].token].login \notin out' \ out
        BY <1>3, <3>2 DEF LastSigh
      <4>4. QED
        BY <4>2, <4>3
    <3>3. QED
      BY <3>1, <3>2
  <2>3. QED
    BY <2>1, <2>2 DEF RowsSteady
<1>4. QED
  BY <1>2, <1>3 DEF OutForGood

\* A step of one request preserves the invariant if what it does to its own
\* browser does.
LEMMA MoveKeeps ==
    ASSUME FullInv, Inv', NEW r \in Requests, NEW b \in Browsers, NEW state,
           NEW f \in Browsers \cup {Nobody},
           NEW a \in {{}} \cup {{c} : c \in handedOut' \cup {0}}, Moves(r, b, state, f, a),
           handedOut \subseteq handedOut',
           jar' \in [Browsers -> handedOut' \cup {0}], troubled' \subseteq Browsers, out' \subseteq Ids,
           state # Idle => f # Nobody /\ a = {},
           a # {} => f # Nobody,
           At(r, "expire")' => tokens'[req'[r].token].isExpired,
           LastSigh(r),
           BrowserTypeOK' /\ b \notin troubled' => (Steady(b) /\ KnowsItsSessions(b))'
    PROVE  FullInv'
<1>1. BrowserTypeOK'
  BY TypedAfter DEF Moves, RowsSteady
<1>2. LoginsSound'
  BY LoginsStay DEF Moves, FullInv, BrowserInv
<1>3. OneBrowserPerSession' /\ FreshOnTheWay'
  BY <1>1, SharedStays
<1>4. \A q \in Requests \ {r} : req'[q] = req[q]
  BY ChangesElsewhere DEF Moves
<1>5. ExpiredSound' /\ OutForGood'
  BY <1>4, ExpiredStays, OutStays DEF Moves
<1>6. Untroubled'
  <2> SUFFICES ASSUME NEW c \in Browsers, c \notin troubled'
               PROVE  (Steady(c) /\ KnowsItsSessions(c))'
    BY DEF Untroubled
  <2>1. CASE c = b
    BY <1>1, <2>1
  <2>2. CASE c # b
    BY <1>1, <2>2, OthersStay
  <2>3. QED
    BY <2>1, <2>2
<1>7. QED
  BY <1>1, <1>2, <1>3, <1>5, <1>6 DEF FullInv, BrowserInv

\* An untroubled browser waits for one request alone.
LEMMA AloneWaits ==
    ASSUME FullInv, NEW b \in Browsers, b \notin troubled, NEW r \in Waiting(b)
    PROVE  Waiting(b) = {r} /\ Steady(b) /\ KnowsItsSessions(b)
BY DEF FullInv, BrowserInv, Untroubled, Steady

-----------------------------------------------------------------------------
(***************************************************************************)
(* Requests leave a browser.                                               *)
(***************************************************************************)

\* A slot nobody waits for holds nothing.
LEMMA FreeSlot ==
    ASSUME FullInv, NEW r \in Requests, from[r] = Nobody
    PROVE  /\ req[r] = Idle /\ answer[r] = {}
           /\ answer = [answer EXCEPT ![r] = {}]
           /\ \A n : ~Carries(r, n) /\ ~Brings(r, n)
           /\ \A pc : ~At(r, pc)
<1>1. req[r] = Idle /\ answer[r] = {}
  BY DEF FullInv, BrowserTypeOK
<1>2. answer = [answer EXCEPT ![r] = {}]
  BY <1>1 DEF FullInv, BrowserTypeOK
<1>3. QED
  BY <1>1, <1>2 DEF Carries, Brings, At

\* The request presents nothing, or what is in the jar.
LEMMA ArrivalKeeps ==
    ASSUME FullInv, Inv', NEW r \in Requests, NEW b \in Browsers, Send(b, r),
           NEW state, Goto(r, state), UNCHANGED <<tokens, handedOut, cut>>,
           state.pc \in {"login.issue", "logoutAll", "reset.write", "reuse", "expire",
                         "rotate.issue", "logout"},
           state.pc \in TokenPc => jar[b] # 0 /\ state.token = jar[b],
           state.pc = "expire" => tokens[jar[b]].isExpired,
           state.pc \in {"rotate.issue", "logout"} => Live(jar[b])
    PROVE  FullInv'
<1>1. from[r] = Nobody /\ UNCHANGED <<jar, answer, out>>
  BY DEF Send
<1>2. /\ req[r] = Idle /\ answer[r] = {}
      /\ \A n : ~Carries(r, n) /\ ~Brings(r, n)
      /\ Changes(r, state, b, {})
  BY <1>1, FreeSlot DEF Send, Goto, Changes
<1>3. RowsSteady /\ \A t \in Ids : Live(t)' = Live(t)
  BY RowsUnchanged DEF FullInv, Live
<1>4. req'[r] = state /\ from'[r] = b /\ answer'[r] = {}
  BY <1>2, ChangesElsewhere
<1>5. \A n : /\ Carries(r, n)' => n = jar[b]
             /\ ~Brings(r, n)'
  BY <1>4 DEF Carries, Brings, TokenPc
<1>6. NothingNew(r, b)
  BY <1>1, <1>3, <1>5 DEF NothingNew
<1>7. OnlyAt(b) /\ troubled' \subseteq Browsers
  BY <1>1 DEF OnlyAt, Send, FullInv, BrowserTypeOK
<1>8. Moves(r, b, state, b, {})
  BY <1>1, <1>2, <1>3, <1>6, <1>7 DEF Moves
<1>9. At(r, "expire")' => tokens'[req'[r].token].isExpired
  BY <1>4 DEF At, TokenPc
<1>10. LastSigh(r)
  <2>1. At(r, "rotate.issue")' => tokens[req'[r].token].login \notin out
    <3> SUFFICES ASSUME At(r, "rotate.issue")' PROVE tokens[req'[r].token].login \notin out
      OBVIOUS
    <3>1. req'[r].token = jar[b] /\ Live(jar[b]) /\ jar[b] # 0
      BY <1>4 DEF At, TokenPc
    <3>2. jar[b] \in Ids
      BY <3>1 DEF FullInv, BrowserTypeOK, TypeOK
    <3>3. QED
      BY <3>1, <3>2 DEF FullInv, BrowserInv, OutForGood
  <2>2. QED
    BY <1>1, <2>1 DEF LastSigh
<1>11. ASSUME BrowserTypeOK', b \notin troubled'
       PROVE  (Steady(b) /\ KnowsItsSessions(b))'
  <2>1. b \notin troubled /\ Waiting(b) = {}
    BY <1>11 DEF Send
  <2>2. Waiting(b)' = {r}
    BY <1>2, <1>4, <2>1, ChangesElsewhere DEF Waiting
  <2>3. Steady(b) /\ KnowsItsSessions(b)
    BY <2>1 DEF FullInv, BrowserInv, Untroubled
  <2>4. jar[b] # 0 => Excused(jar[b]) /\ Excused(jar[b])'
    BY <1>1, <2>1, <2>3 DEF Steady, Excused, Live
  <2>5. Steady(b)'
    <3>1. \A p, q \in Waiting(b)' : p = q
      BY <2>2
    <3>2. jar'[b] = jar[b] /\ ~At(r, "drop")' /\ req'[r].pc # "drop"
      BY <1>1, <1>4 DEF At
    <3>3. req'[r].pc \in TokenPc => req'[r].token = jar'[b]
      BY <1>1, <1>4
    <3>4. \A n : answer'[r] # {n}
      BY <1>4
    <3>5. QED
      BY <1>1, <2>2, <2>4, <3>1, <3>2, <3>3, <3>4 DEF Steady
  <2>6. KnowsItsSessions(b)'
    <3> SUFFICES ASSUME NEW m \in Ids, NEW n \in Ids, Shown(b, m)', Live(n),
                        tokens[n].login = tokens[m].login
                 PROVE  Shown(b, n)'
      BY <1>3 DEF KnowsItsSessions, RowsSteady
    <3>1. Shown(b, m)
      BY <1>8, <1>11, ShownShrinks
    <3>2. Shown(b, n)
      BY <2>1, <2>3, <3>1 DEF KnowsItsSessions
    <3>3. jar'[b] = n
      BY <1>1, <2>1, <3>2 DEF Shown
    <3>4. QED
      BY <3>3 DEF Shown
  <2>7. QED
    BY <2>5, <2>6
<1>12. jar' \in [Browsers -> handedOut' \cup {0}] /\ out' \subseteq Ids /\ handedOut \subseteq handedOut'
  BY <1>1 DEF FullInv, BrowserTypeOK
<1>13. b # Nobody
  BY BrowsersAssumption
<1>14. QED
  BY <1>7, <1>8, <1>9, <1>10, <1>11, <1>12, <1>13, MoveKeeps

\* Every request that leaves a browser keeps the invariant.
LEMMA LeavingStep ==
    ASSUME FullInv, Inv', NEW b \in Browsers, NEW r \in Requests,
           SignIn(b, r) \/ Refresh(b, r) \/ SignOut(b, r) \/ SignOutEverywhere(b, r) \/ ResetFrom(b, r)
    PROVE  FullInv'
<1>1. CASE SignIn(b, r)
  <2>1. PICK u \in Home[b], p \in Passwords : LoginFind(r, u, p) /\ Send(b, r)
    BY <1>1 DEF SignIn
  <2> DEFINE state == [pc |-> "login.issue", user |-> u, password |-> p]
  <2>2. Goto(r, state) /\ UNCHANGED <<tokens, handedOut, cut>> /\ state.pc = "login.issue"
    BY <2>1 DEF LoginFind
  <2> HIDE DEF state
  <2>3. QED
    BY <2>1, <2>2, ArrivalKeeps DEF TokenPc
<1>2. CASE SignOutEverywhere(b, r)
  <2>1. PICK u \in Home[b] : LogoutAllEnter(r, u) /\ Send(b, r)
    BY <1>2 DEF SignOutEverywhere
  <2> DEFINE state == [pc |-> "logoutAll", user |-> u]
  <2>2. Goto(r, state) /\ UNCHANGED <<tokens, handedOut, cut>> /\ state.pc = "logoutAll"
    BY <2>1 DEF LogoutAllEnter
  <2> HIDE DEF state
  <2>3. QED
    BY <2>1, <2>2, ArrivalKeeps DEF TokenPc
<1>3. CASE ResetFrom(b, r)
  <2>1. PICK u \in Home[b], p \in Passwords : ResetFind(r, u, p) /\ Send(b, r)
    BY <1>3 DEF ResetFrom
  <2> DEFINE state == [pc |-> "reset.write", user |-> u, password |-> p]
  <2>2. Goto(r, state) /\ UNCHANGED <<tokens, handedOut, cut>> /\ state.pc = "reset.write"
    BY <2>1 DEF ResetFind
  <2> HIDE DEF state
  <2>3. QED
    BY <2>1, <2>2, ArrivalKeeps DEF TokenPc
<1>4. CASE Refresh(b, r) \/ SignOut(b, r)
  <2>1. jar[b] # 0 /\ Send(b, r) /\ (RefreshFind(r, jar[b]) \/ LogoutFind(r, jar[b]))
    BY <1>4 DEF Refresh, SignOut
  <2>2. PICK pc \in {"reuse", "expire", "rotate.issue", "logout"} :
          /\ Goto(r, [pc |-> pc, user |-> tokens[jar[b]].owner, token |-> jar[b]])
          /\ UNCHANGED <<tokens, handedOut, cut>>
          /\ pc = "expire" => tokens[jar[b]].isExpired
          /\ pc \in {"rotate.issue", "logout"} => Live(jar[b])
    BY <2>1 DEF RefreshFind, LogoutFind, Live
  <2> DEFINE state == [pc |-> pc, user |-> tokens[jar[b]].owner, token |-> jar[b]]
  <2>3. Goto(r, state) /\ state.pc = pc /\ state.token = jar[b]
    BY <2>2
  <2> HIDE DEF state
  <2>4. QED
    BY <2>1, <2>2, <2>3, ArrivalKeeps
<1>5. QED
  BY <1>1, <1>2, <1>3, <1>4

\* Nobody else is about to rotate a token of a session that b knows.
LEMMA NobodyElseRotates ==
    ASSUME FullInv, NEW b \in Browsers, NEW t \in Ids, Shown(b, t),
           NEW q \in Requests, At(q, "rotate.issue"), tokens[req[q].token].login = tokens[t].login
    PROVE  q \in Waiting(b) /\ Carries(q, req[q].token)
<1>1. req[q].token \in Ids /\ Carries(q, req[q].token)
  BY DEF FullInv, Inv, RequestsSound, Sound, HoldsToken, At, TokenPc, Carries
<1>2. from[q] \in Browsers /\ q \in Waiting(from[q]) /\ Shown(from[q], req[q].token)
  BY <1>1, HoldersWait DEF FullInv
<1>3. from[q] = b
  BY <1>1, <1>2 DEF FullInv, BrowserInv, OneBrowserPerSession
<1>4. QED
  BY <1>1, <1>2, <1>3

\* So does a logout that finds nothing to revoke.
LEMMA SignOutAgainStep ==
    ASSUME FullInv, Inv', NEW b \in Browsers, NEW r \in Requests, SignOutAgain(b, r)
    PROVE  FullInv'
<1>1. /\ req[r] = Idle /\ from[r] = Nobody
      /\ UNCHANGED <<req, jar, tokens, handedOut, cut>>
  BY DEF SignOutAgain, vars, sessionVars
<1>2. /\ answer[r] = {} /\ answer = [answer EXCEPT ![r] = {}]
      /\ \A n : ~Carries(r, n) /\ ~Brings(r, n)
  BY <1>1, FreeSlot
<1>3. req = [req EXCEPT ![r] = Idle] /\ from = [from EXCEPT ![r] = Nobody]
  BY <1>1 DEF FullInv, BrowserTypeOK, TypeOK
<1>4. PICK f \in {b, Nobody}, a \in {{}, {0}} :
         /\ Changes(r, Idle, f, a)
         /\ a = {0} => f = b /\ troubled' = IF Waiting(b) = {} THEN troubled ELSE troubled \cup {b}
         /\ a = {} => f = Nobody /\ troubled' = troubled \cup {b}
  BY <1>1, <1>2, <1>3 DEF SignOutAgain, Changes
<1>5. RowsSteady /\ \A t \in Ids : Live(t)' = Live(t)
  BY <1>1, RowsUnchanged DEF FullInv, Live
<1>6. req'[r] = Idle /\ from'[r] = f /\ answer'[r] = a
  BY <1>4, ChangesElsewhere
<1>7. \A n \in Ids : ~Carries(r, n)' /\ ~Brings(r, n)'
  <2>1. 0 \notin Ids
    BY RowFields DEF FullInv, Inv, TableInv
  <2>2. QED
    BY <1>6, <2>1 DEF Carries, Brings
<1>8. OnlyAt(b) /\ troubled' \subseteq Browsers
  BY <1>1, <1>4 DEF OnlyAt, FullInv, BrowserTypeOK
<1>9. Moves(r, b, Idle, f, a)
  BY <1>1, <1>4, <1>5, <1>7, <1>8 DEF Moves, NothingNew
<1>10. UNCHANGED out \/ /\ jar[b] # 0 /\ ~Live(jar[b]) /\ b \notin troubled /\ Waiting(b) \ {r} = {}
                        /\ out' = out \cup {tokens[jar[b]].login}
  BY DEF SignOutAgain, SignedOut
<1>11. ASSUME jar[b] # 0, ~Live(jar[b]), b \notin troubled, Waiting(b) \ {r} = {},
              out' = out \cup {tokens[jar[b]].login}
       PROVE  LastSigh(r) /\ out' \subseteq Ids
  <2> DEFINE t == jar[b]
  <2>1. Waiting(b) = {} /\ t \in Ids /\ Shown(b, t)
    BY <1>1, <1>11, BrowsersAssumption DEF Waiting, FullInv, BrowserTypeOK, TypeOK, Shown
  <2>2. ASSUME NEW n \in Ids, tokens[n].login = tokens[t].login
        PROVE  ~Live(n)'
    <3>1. Live(n) => Shown(b, n)
      BY <1>11, <2>1, <2>2 DEF FullInv, BrowserInv, Untroubled, KnowsItsSessions
    <3>2. Shown(b, n) => n = t
      BY <2>1 DEF Shown
    <3>3. QED
      BY <1>5, <1>11, <3>1, <3>2
  <2>3. ASSUME NEW q \in Requests, At(q, "rotate.issue")'
        PROVE  q # r /\ tokens[req'[q].token].login # tokens[t].login
    <3>1. At(q, "rotate.issue") /\ req'[q] = req[q]
      BY <1>1, <2>3 DEF At
    <3>2. QED
      BY <1>1, <2>1, <3>1, NobodyElseRotates DEF At
  <2>4. LastSigh(r)
    BY <1>1, <1>11, <2>2, <2>3 DEF LastSigh
  <2>5. tokens[t].login \in Ids
    BY <2>1 DEF FullInv, BrowserInv, LoginsSound
  <2>6. QED
    BY <1>11, <2>4, <2>5 DEF FullInv, BrowserTypeOK
<1>12. LastSigh(r) /\ out' \subseteq Ids
  <2>1. CASE UNCHANGED out
    BY <1>1, <2>1 DEF LastSigh, At, FullInv, BrowserTypeOK
  <2>2. QED
    BY <1>10, <1>11, <2>1
<1>13. ASSUME BrowserTypeOK', b \notin troubled'
       PROVE  (Steady(b) /\ KnowsItsSessions(b))'
  <2>1. b \notin troubled /\ Waiting(b) = {} /\ answer'[r] = {0} /\ from'[r] = b
    BY <1>4, <1>6, <1>13
  <2>2. Waiting(b)' = {r}
    BY <1>4, <2>1, ChangesElsewhere DEF Waiting
  <2>3. KnowsItsSessions(b)
    BY <2>1 DEF FullInv, BrowserInv, Untroubled
  <2>4. Steady(b)'
    <3>1. \A n \in Ids' : answer'[r] # {n}
      <4>1. 0 \notin Ids'
        BY <1>5, RowFields DEF RowsSteady, FullInv, Inv, TableInv
      <4>2. QED
        BY <2>1, <4>1
    <3>2. QED
      BY <1>6, <2>2, <3>1 DEF Steady
  <2>5. KnowsItsSessions(b)'
    <3> SUFFICES ASSUME NEW m \in Ids, NEW n \in Ids, Shown(b, m)', Live(n),
                        tokens[n].login = tokens[m].login
                 PROVE  Shown(b, n)'
      BY <1>5 DEF KnowsItsSessions, RowsSteady
    <3>1. Shown(b, m)
      BY <1>9, <1>13, ShownShrinks
    <3>2. Shown(b, n)
      BY <2>1, <2>3, <3>1 DEF KnowsItsSessions
    <3>3. jar'[b] = n
      BY <1>1, <2>1, <3>2 DEF Shown
    <3>4. QED
      BY <3>3 DEF Shown
  <2>6. QED
    BY <2>4, <2>5
<1>14. /\ jar' \in [Browsers -> handedOut' \cup {0}] /\ handedOut \subseteq handedOut'
       /\ a \in {{}} \cup {{c} : c \in handedOut' \cup {0}}
       /\ At(r, "expire")' => tokens'[req'[r].token].isExpired
       /\ b # Nobody
  BY <1>1, <1>6, BrowsersAssumption DEF FullInv, BrowserTypeOK, At
<1>15. a # {} => f # Nobody
  BY <1>4, <1>14
<1>16. QED
  BY <1>8, <1>9, <1>12, <1>13, <1>14, <1>15, MoveKeeps

-----------------------------------------------------------------------------
(***************************************************************************)
(* Requests end at the server.                                             *)
(***************************************************************************)

\* A request that runs has a browser that waits for it, and no answer yet.
LEMMA ServedBrowser ==
    ASSUME FullInv, NEW r \in Requests, req[r] # Idle
    PROVE  /\ from[r] \in Browsers /\ from[r] # Nobody /\ answer[r] = {}
           /\ r \in Waiting(from[r])
BY DEF FullInv, BrowserTypeOK, Waiting

\* The request is answered with cookie a, or leaves its slot.
LEMMA FinishKeeps ==
    ASSUME FullInv, Inv', NEW r \in Requests, req[r] # Idle, NEW b, b = from[r],
           NEW f, NEW a, Changes(r, Idle, f, a), RowsSteady, UNCHANGED jar,
           \/ f = b /\ a # {} /\ troubled' = troubled
           \/ f = Nobody /\ a = {} /\ troubled' \in {troubled, troubled \cup {b}},
           a \in {{}} \cup {{c} : c \in handedOut' \cup {0}},
           handedOut \subseteq handedOut', out' \subseteq Ids, LastSigh(r),
           \A n \in Ids : a = {n} => Brings(r, n),
           \A n \in Ids : Live(n) /\ ~Live(n)' => Carries(r, n) \/ n <= cut'[tokens[n].owner],
           Waiting(b) = {r} /\ b \notin troubled' /\ Steady(b) /\ KnowsItsSessions(b) =>
              /\ \A m, n \in Ids :
                    /\ jar[b] = m \/ a = {m}
                    /\ Live(n)' /\ tokens[n].login = tokens[m].login
                    => jar[b] = n \/ a = {n}
              /\ \A k \in Ids : k = jar[b] /\ f = Nobody => Excused(k)'
              /\ \A n \in Ids : a = {n} /\ tokens[n].parent # 0 /\ jar[b] # 0 => jar[b] = tokens[n].parent
    PROVE  FullInv'
<1>1. b \in Browsers /\ b # Nobody /\ r \in Waiting(b)
  BY ServedBrowser
<1>2. req'[r] = Idle /\ from'[r] = f /\ answer'[r] = a
  BY ChangesElsewhere
<1>3. \A n \in Ids : ~Carries(r, n)' /\ (Brings(r, n)' <=> a = {n})
  BY <1>2 DEF Carries, Brings
<1>4. NothingNew(r, b)
  BY <1>3 DEF NothingNew
<1>5. OnlyAt(b) /\ troubled' \subseteq Browsers
  BY <1>1 DEF OnlyAt, FullInv, BrowserTypeOK
<1>6. Moves(r, b, Idle, f, a)
  BY <1>4, <1>5 DEF Moves
<1>7. jar' \in [Browsers -> handedOut' \cup {0}]
  BY DEF FullInv, BrowserTypeOK
<1>8. ASSUME BrowserTypeOK', b \notin troubled'
      PROVE  (Steady(b) /\ KnowsItsSessions(b))'
  <2>1. b \notin troubled
    BY <1>8
  <2>2. Waiting(b) = {r} /\ Steady(b) /\ KnowsItsSessions(b)
    BY <1>1, <2>1, AloneWaits
  <2>3. Waiting(b)' = IF f = b THEN {r} ELSE {}
    BY <1>1, <1>2, <2>2, ChangesElsewhere DEF Waiting
  <2>4. /\ \A m, n \in Ids :
              /\ jar[b] = m \/ a = {m}
              /\ Live(n)' /\ tokens[n].login = tokens[m].login
              => jar[b] = n \/ a = {n}
        /\ \A k \in Ids : k = jar[b] /\ f = Nobody => Excused(k)'
        /\ \A n \in Ids : a = {n} /\ tokens[n].parent # 0 /\ jar[b] # 0 => jar[b] = tokens[n].parent
    BY <1>8, <2>2
  <2>5. KnowsItsSessions(b)'
    <3> SUFFICES ASSUME NEW m \in Ids, NEW n \in Ids, Shown(b, m)', Live(n)',
                        tokens[n].login = tokens[m].login
                 PROVE  Shown(b, n)'
      BY DEF KnowsItsSessions, RowsSteady
    <3>1. jar[b] = m \/ a = {m}
      BY <1>3, <2>3 DEF Shown
    <3>2. jar[b] = n \/ a = {n}
      BY <2>4, <3>1
    <3>3. CASE jar[b] = n
      BY <3>3 DEF Shown
    <3>4. CASE a = {n}
      <4>1. r \in Waiting(b)'
        BY <1>1, <2>3, <3>4
      <4>2. QED
        BY <1>3, <3>4, <4>1 DEF Shown
    <3>5. QED
      BY <3>2, <3>3, <3>4
  <2>6. Steady(b)'
    <3>1. jar[b] # 0 => jar[b] \in Ids
      BY <1>1 DEF FullInv, BrowserTypeOK, TypeOK
    <3>2. Waiting(b)' = {} /\ jar[b] # 0 =>
             \/ ~tokens'[jar[b]].isRevoked
             \/ jar[b] <= cut'[tokens'[jar[b]].owner]
             \/ tokens'[jar[b]].isExpired
      BY <2>3, <2>4, <3>1 DEF Excused, Live
    <3>3. \A n \in Ids : a = {n} /\ tokens'[n].parent # 0 /\ jar[b] # 0 => jar[b] = tokens'[n].parent
      BY <2>4 DEF RowsSteady
    <3>4. Ids' = Ids
      BY DEF RowsSteady
    <3>5. \A p, q \in Waiting(b)' : p = q
      BY <2>3
    <3>6. Waiting(b)' = {} /\ jar'[b] # 0 => Excused(jar[b])'
      BY <3>2 DEF Excused, Live
    <3>7. QED
      BY <1>2, <2>3, <3>3, <3>4, <3>5, <3>6 DEF Steady
  <2>7. QED
    BY <2>5, <2>6
<1>9. ~At(r, "expire")'
  BY <1>2 DEF At
<1>10. f \in Browsers \cup {Nobody} /\ (a # {} => f # Nobody)
  BY <1>1
<1>11. QED
  BY <1>1, <1>5, <1>6, <1>7, <1>8, <1>9, <1>10, MoveKeeps

\* The cookie sent back may arrive, or is lost and the browser in trouble.
LEMMA AnswerChanges ==
    ASSUME FullInv, NEW r \in Requests, req[r] # Idle, Finish(r), NEW cookie, Answer(r, cookie)
    PROVE  \/ /\ cookie # {} /\ Changes(r, Idle, from[r], cookie) /\ troubled' = troubled
           \/ /\ cookie = {} /\ Changes(r, Idle, Nobody, {}) /\ troubled' = troubled \cup {from[r]}
<1>1. from = [from EXCEPT ![r] = from[r]]
  BY DEF FullInv, BrowserTypeOK
<1>2. QED
  BY <1>1 DEF Answer, Free, Changes, Finish, Goto

\* The same for an answer that may be lost on its way.
LEMMA AnswerKeeps ==
    ASSUME FullInv, Inv', NEW r \in Requests, req[r] # Idle, Finish(r),
           NEW b \in Browsers, b = from[r], NEW a, Answer(r, a), RowsSteady, UNCHANGED jar,
           a \in {{}} \cup {{c} : c \in handedOut' \cup {0}},
           handedOut \subseteq handedOut', out' \subseteq Ids, LastSigh(r),
           \A n \in Ids : a = {n} => Brings(r, n),
           \A n \in Ids : Live(n) /\ ~Live(n)' => Carries(r, n) \/ n <= cut'[tokens[n].owner],
           Waiting(b) = {r} /\ b \notin troubled' /\ Steady(b) /\ KnowsItsSessions(b) =>
              /\ \A m, n \in Ids :
                    /\ jar[b] = m \/ a = {m}
                    /\ Live(n)' /\ tokens[n].login = tokens[m].login
                    => jar[b] = n \/ a = {n}
              /\ \A n \in Ids : a = {n} /\ tokens[n].parent # 0 /\ jar[b] # 0 => jar[b] = tokens[n].parent
    PROVE  FullInv'
<1>1. \/ a # {} /\ Changes(r, Idle, b, a) /\ troubled' = troubled
      \/ a = {} /\ Changes(r, Idle, Nobody, {}) /\ troubled' = troubled \cup {b}
  BY AnswerChanges
<1>2. b # Nobody
  BY BrowsersAssumption
<1>3. ASSUME a # {}
      PROVE  FullInv'
  <2>1. Changes(r, Idle, b, a) /\ troubled' = troubled
    BY <1>1, <1>3
  <2>2. QED
    BY <1>2, <1>3, <2>1, FinishKeeps
<1>4. ASSUME a = {}
      PROVE  FullInv'
  <2>1. Changes(r, Idle, Nobody, a) /\ troubled' = troubled \cup {b}
    BY <1>1, <1>4
  <2>2. b \in troubled'
    BY <2>1
  <2>3. QED
    BY <1>2, <1>4, <2>1, <2>2, FinishKeeps
<1>5. QED
  BY <1>3, <1>4

\* A request that has ended adds no token to a session signed out.
LEMMA NoneRotatesAfter ==
    ASSUME FullInv, NEW r \in Requests, Finish(r), UNCHANGED out
    PROVE  LastSigh(r) /\ out' \subseteq Ids
<1>1. ~At(r, "rotate.issue")'
  BY DEF FullInv, Inv, TypeOK, Finish, Goto, At
<1>2. QED
  BY <1>1 DEF LastSigh, FullInv, BrowserTypeOK

\* Where an untroubled browser waits for r alone, what it knows is in the jar or
\* held by r.
LEMMA KnownThere ==
    ASSUME FullInv, NEW r \in Requests, NEW b, Waiting(b) = {r}, KnowsItsSessions(b), ~At(r, "drop"),
           NEW m \in Ids, NEW n \in Ids, jar[b] = m \/ Carries(r, m) \/ Brings(r, m),
           Live(n), tokens[n].login = tokens[m].login
    PROVE  jar[b] = n \/ Carries(r, n) \/ Brings(r, n)
<1>1. Shown(b, m)
  BY DEF Shown
<1>2. Shown(b, n)
  BY <1>1 DEF KnowsItsSessions
<1>3. QED
  BY <1>2 DEF Shown

\* refresh: the successor goes to the browser whose token is spent.
LEMMA RefreshedStep ==
    ASSUME FullInv, Inv', NEW r \in Requests, RotateCheck(r), req'[r] = Idle,
           Answer(r, handedOut' \ handedOut), UNCHANGED <<jar, out>>
    PROVE  FullInv'
<1> PICK b \in Browsers : b = from[r]
  BY ServedBrowser DEF RotateCheck, At
<1> DEFINE new == req[r].new
           a == handedOut' \ handedOut
<1>1. /\ req[r] # Idle /\ req[r].pc = "rotate.check" /\ UNCHANGED <<tokens, cut>>
  BY DEF RotateCheck, At
<1>2. req[r] \in RotateReq
  BY <1>1, RequestShape DEF FullInv, Inv
<1>3. HoldsToken(r) /\ HoldsSuccessor(r) /\ Spent(req[r].token)
  BY <1>1 DEF FullInv, Inv, RequestsSound, Sound, TokenPc
<1>4. Brings(r, new) /\ Carries(r, req[r].token) /\ \A n : Carries(r, n) => n = req[r].token
  BY <1>1 DEF Brings, Carries, TokenPc
<1>5. Finish(r)
  BY DEF RotateCheck, Finish, Goto, FullInv, Inv, TypeOK
<1>6. a \in {{}, {new}} /\ handedOut \subseteq handedOut'
  BY DEF RotateCheck
<1>7. RowsSteady /\ \A t \in Ids : Live(t)' = Live(t)
  BY <1>1, RowsUnchanged DEF FullInv, Live
<1>8. /\ \/ a # {} /\ Changes(r, Idle, b, a) /\ troubled' = troubled
         \/ a = {} /\ Changes(r, Idle, Nobody, {}) /\ troubled' = troubled \cup {b}
  BY <1>1, <1>5, AnswerChanges
<1>9. LastSigh(r) /\ out' \subseteq Ids
  BY <1>5, NoneRotatesAfter
<1>10. a \in {{}} \cup {{c} : c \in handedOut' \cup {0}}
  BY <1>6
<1>11. \A n \in Ids : a = {n} => n = new /\ Brings(r, n)
  BY <1>4, <1>6
<1>12. ~At(r, "drop") /\ answer[r] = {} /\ new \in Ids /\ \A n : Brings(r, n) => n = new
  BY <1>1, <1>3, ServedBrowser DEF At, HoldsSuccessor, Brings
<1>13. ASSUME Waiting(b) = {r}, b \notin troubled', Steady(b), KnowsItsSessions(b)
       PROVE  /\ \A m, n \in Ids :
                    /\ jar[b] = m \/ a = {m}
                    /\ Live(n)' /\ tokens[n].login = tokens[m].login
                    => jar[b] = n \/ a = {n}
              /\ a # {}
              /\ \A n \in Ids : a = {n} /\ tokens[n].parent # 0 /\ jar[b] # 0 => jar[b] = tokens[n].parent
  <2>1. a = {new}
    BY <1>6, <1>8, <1>13
  <2>2. ASSUME NEW m \in Ids, NEW n \in Ids, jar[b] = m \/ a = {m}, Live(n)',
               tokens[n].login = tokens[m].login
        PROVE  jar[b] = n \/ a = {n}
    <3>1. jar[b] = n \/ Carries(r, n) \/ Brings(r, n)
      BY <1>7, <1>11, <1>12, <1>13, <2>2, KnownThere
    <3>2. ~Carries(r, n)
      BY <1>3, <1>4, <1>7, <2>2 DEF Spent
    <3>3. QED
      BY <1>12, <2>1, <3>1, <3>2
  <2>3. jar[b] # 0 => jar[b] = req[r].token
    BY <1>1, <1>13 DEF Steady, TokenPc
  <2>4. QED
    BY <1>3, <1>11, <2>1, <2>2, <2>3 DEF HoldsSuccessor
<1> HIDE DEF a
<1>14. Answer(r, a)
  BY DEF a
<1>15. QED
  BY <1>1, <1>5, <1>6, <1>7, <1>9, <1>10, <1>11, <1>13, <1>14, AnswerKeeps

\* logout: the one token alive in the session of an untroubled browser that
\* waits for nothing else is the one revoked.
LEMMA SignedOutStep ==
    ASSUME FullInv, Inv', NEW r \in Requests, LogoutRevoke(r), SignedOut(from[r], r, req[r].token),
           NEW a \in {{}, {0}}, Answer(r, a), UNCHANGED jar
    PROVE  FullInv'
<1> PICK b \in Browsers : b = from[r]
  BY ServedBrowser DEF LogoutRevoke, At
<1> PICK t \in Ids : t = req[r].token
  BY DEF LogoutRevoke, At, FullInv, Inv, RequestsSound, Sound, HoldsToken, TokenPc
<1>1. /\ req[r] # Idle /\ req[r].pc = "logout" /\ Revoke(t, 0) /\ Finish(r)
      /\ UNCHANGED <<handedOut, cut>>
  BY DEF LogoutRevoke, At
<1>2. t \in Ids /\ Carries(r, t) /\ answer[r] = {}
      /\ \A n : (Carries(r, n) => n = t) /\ ~Brings(r, n)
  BY <1>1, ServedBrowser DEF FullInv, Inv, RequestsSound, Sound, HoldsToken, TokenPc, Carries, Brings
<1>3. b \in Browsers /\ Shown(b, t) /\ r \in Waiting(b)
  BY <1>2, HoldersWait DEF FullInv
<1>4. /\ RowsSteady
      /\ \A n \in Ids : Live(n) /\ ~Live(n)' => n = t
      /\ ~Live(t)'
      /\ \A n \in Ids : Live(n)' => Live(n) /\ n # t
  <2>1. /\ RowsSteady /\ ~Live(t)'
        /\ \A n \in Ids : Live(n) /\ ~Live(n)' => n = t
    BY <1>1, <1>2, RevokeSteady DEF FullInv
  <2>2. QED
    BY <2>1 DEF RowsSteady, Live
<1>5. ~At(r, "drop") /\ 0 \notin Ids
  BY <1>1, RowFields DEF At, FullInv, Inv, TableInv
<1>6. \/ a # {} /\ Changes(r, Idle, b, a) /\ troubled' = troubled
      \/ a = {} /\ Changes(r, Idle, Nobody, {}) /\ troubled' = troubled \cup {b}
  BY <1>1, AnswerChanges
<1>7. UNCHANGED out \/ /\ b \notin troubled /\ Waiting(b) = {r} /\ out' = out \cup {tokens[t].login}
  BY <1>3 DEF SignedOut
<1>8. ASSUME b \notin troubled, Waiting(b) = {r}, out' = out \cup {tokens[t].login}
      PROVE  LastSigh(r) /\ out' \subseteq Ids
  <2>1. ASSUME NEW n \in Ids, tokens[n].login = tokens[t].login
        PROVE  ~Live(n)'
    <3>1. Live(n) => jar[b] = n \/ n = t
      BY <1>2, <1>3, <1>5, <1>8, <2>1, AloneWaits, KnownThere
    <3>2. jar[b] # 0 => jar[b] = t
      BY <1>1, <1>3, <1>8, AloneWaits DEF Steady, TokenPc
    <3>3. QED
      BY <1>4, <1>5, <3>1, <3>2
  <2>2. ASSUME NEW q \in Requests, At(q, "rotate.issue")'
        PROVE  q # r /\ tokens[req'[q].token].login # tokens[t].login
    <3>1. q # r /\ At(q, "rotate.issue") /\ req'[q] = req[q]
      BY <1>1, <2>2 DEF Finish, Goto, At, FullInv, Inv, TypeOK
    <3>2. QED
      BY <1>2, <1>3, <1>8, <3>1, NobodyElseRotates
  <2>3. tokens[t].login \in Ids /\ out \subseteq Ids
    BY <1>2 DEF FullInv, BrowserInv, LoginsSound, BrowserTypeOK
  <2>4. QED
    BY <1>8, <2>1, <2>2, <2>3 DEF LastSigh
<1>9. LastSigh(r) /\ out' \subseteq Ids
  BY <1>1, <1>7, <1>8, NoneRotatesAfter
<1>10. a \in {{}} \cup {{c} : c \in handedOut' \cup {0}} /\ \A n \in Ids : a # {n}
  BY <1>5
<1>11. ASSUME Waiting(b) = {r}, b \notin troubled', Steady(b), KnowsItsSessions(b)
       PROVE  /\ \A m, n \in Ids :
                    /\ jar[b] = m \/ a = {m}
                    /\ Live(n)' /\ tokens[n].login = tokens[m].login
                    => jar[b] = n \/ a = {n}
              /\ a # {}
  <2>1. a # {}
    BY <1>6, <1>11
  <2>2. ASSUME NEW m \in Ids, NEW n \in Ids, jar[b] = m \/ a = {m}, Live(n)',
               tokens[n].login = tokens[m].login
        PROVE  jar[b] = n
    BY <1>2, <1>4, <1>5, <1>10, <1>11, <2>2, KnownThere
  <2>3. QED
    BY <2>1, <2>2
<1>12. \A n \in Ids : Live(n) /\ ~Live(n)' => Carries(r, n) \/ n <= cut'[tokens[n].owner]
  BY <1>2, <1>4
<1>13. QED
  BY <1>1, <1>4, <1>9, <1>10, <1>11, <1>12, AnswerKeeps

\* logout-all: what it ends, it ends for everybody.
LEMMA SignedOutEverywhereStep ==
    ASSUME FullInv, Inv', NEW r \in Requests, LogoutAllRevoke(r),
           NEW a \in {{}, {0}}, Answer(r, a), UNCHANGED <<jar, out>>
    PROVE  FullInv'
<1> PICK b \in Browsers : b = from[r]
  BY ServedBrowser DEF LogoutAllRevoke, At
<1>1. /\ req[r] # Idle /\ req[r].pc = "logoutAll" /\ RevokeAllForUser(req[r].user) /\ Finish(r)
      /\ UNCHANGED handedOut
  BY DEF LogoutAllRevoke, At
<1>2. req[r].user \in Users /\ answer[r] = {} /\ \A n : ~Carries(r, n) /\ ~Brings(r, n)
  BY <1>1, RequestShape, ServedBrowser DEF FullInv, Inv, Carries, Brings, TokenPc
<1>3. /\ RowsSteady
      /\ \A n \in Ids : Live(n) /\ ~Live(n)' => n <= cut'[tokens[n].owner]
      /\ \A n \in Ids : Live(n)' => Live(n)
  <2>1. RowsSteady /\ \A n \in Ids : Live(n) /\ ~Live(n)' => n <= cut'[tokens[n].owner]
    BY <1>1, <1>2, RevokeAllSteady DEF FullInv
  <2>2. QED
    BY <2>1 DEF RowsSteady, Live
<1>4. ~At(r, "drop") /\ 0 \notin Ids
  BY <1>1, RowFields DEF At, FullInv, Inv, TableInv
<1>5. \/ a # {} /\ Changes(r, Idle, b, a) /\ troubled' = troubled
      \/ a = {} /\ Changes(r, Idle, Nobody, {}) /\ troubled' = troubled \cup {b}
  BY <1>1, AnswerChanges
<1>6. LastSigh(r) /\ out' \subseteq Ids
  BY <1>1, NoneRotatesAfter
<1>7. a \in {{}} \cup {{c} : c \in handedOut' \cup {0}} /\ \A n \in Ids : a # {n}
  BY <1>4
<1>8. ASSUME Waiting(b) = {r}, b \notin troubled', Steady(b), KnowsItsSessions(b)
      PROVE  /\ \A m, n \in Ids :
                   /\ jar[b] = m \/ a = {m}
                   /\ Live(n)' /\ tokens[n].login = tokens[m].login
                   => jar[b] = n \/ a = {n}
             /\ a # {}
  <2>1. a # {}
    BY <1>5, <1>8
  <2>2. ASSUME NEW m \in Ids, NEW n \in Ids, jar[b] = m \/ a = {m}, Live(n)',
               tokens[n].login = tokens[m].login
        PROVE  jar[b] = n
    BY <1>2, <1>3, <1>4, <1>7, <1>8, <2>2, KnownThere
  <2>3. QED
    BY <2>1, <2>2
<1>9. QED
  BY <1>1, <1>3, <1>6, <1>7, <1>8, AnswerKeeps

\* Refused with 401, or reset: what the browser keeps in its jar is excused.
LEMMA LeavingKeeps ==
    ASSUME FullInv, Inv', NEW r \in Requests, req[r] # Idle, Finish(r), Free(r),
           UNCHANGED <<jar, troubled, out, handedOut>>, RowsSteady,
           NEW b \in Browsers, b = from[r],
           \A n \in Ids : Live(n) /\ ~Live(n)' => Carries(r, n) \/ n <= cut'[tokens[n].owner],
           \A k \in Ids : k = jar[b] /\ Waiting(b) = {r} /\ Steady(b) => Excused(k)',
           \A m, n \in Ids : /\ jar[b] = m /\ n # m /\ Waiting(b) = {r} /\ Steady(b) /\ KnowsItsSessions(b)
                             /\ tokens[n].login = tokens[m].login
                             => ~Live(n)'
    PROVE  FullInv'
<1>1. Changes(r, Idle, Nobody, {})
  BY DEF Finish, Goto, Free, Changes
<1>2. LastSigh(r) /\ out' \subseteq Ids
  BY NoneRotatesAfter
<1>3. b # Nobody
  BY BrowsersAssumption
<1> DEFINE a == {}
<1>4. \A n : a # {n}
  OBVIOUS
<1>5. a \in {{}} \cup {{c} : c \in handedOut' \cup {0}}
  OBVIOUS
<1>6. a = {} /\ Changes(r, Idle, Nobody, a)
  BY <1>1
<1> HIDE DEF a
<1>7. Waiting(b) = {r} /\ b \notin troubled' /\ Steady(b) /\ KnowsItsSessions(b) =>
         /\ \A m, n \in Ids :
               /\ jar[b] = m \/ a = {m}
               /\ Live(n)' /\ tokens[n].login = tokens[m].login
               => jar[b] = n \/ a = {n}
         /\ \A k \in Ids : k = jar[b] /\ Nobody = Nobody => Excused(k)'
         /\ \A n \in Ids : a = {n} /\ tokens[n].parent # 0 /\ jar[b] # 0 => jar[b] = tokens[n].parent
  BY <1>4
<1>8. \A n \in Ids : a = {n} => Brings(r, n)
  BY <1>4
<1>9. troubled' = troubled /\ jar' = jar /\ handedOut \subseteq handedOut'
  OBVIOUS
<1>10. QED
  BY <1>2, <1>3, <1>5, <1>6, <1>7, <1>8, <1>9, FinishKeeps

\* Refusals and resets keep the invariant.
LEMMA LeaveCookieStep ==
    ASSUME FullInv, Inv', NEW r \in Requests, LeaveCookie(r)
    PROVE  FullInv'
<1>1. /\ req[r] # Idle /\ Finish(r) /\ Free(r) /\ UNCHANGED <<jar, troubled, out, handedOut>>
      /\ req[r].pc \in {"reuse", "expire", "drop", "reset.revoke"}
  BY DEF LeaveCookie, ReuseRevokeAll, ExpireRevoke, DropRevokeAll, ResetRevoke, At
<1> PICK b \in Browsers : b = from[r]
  BY <1>1, ServedBrowser
<1>2. /\ answer[r] = {} /\ \A n : ~Brings(r, n)
      /\ \A n : Carries(r, n) <=> req[r].pc \in {"reuse", "expire"} /\ n = req[r].token
  BY <1>1, ServedBrowser DEF Brings, Carries, TokenPc
<1>3. ASSUME NEW m \in Ids, NEW n \in Ids, jar[b] = m, n # m, Waiting(b) = {r}, Steady(b),
             KnowsItsSessions(b), tokens[n].login = tokens[m].login, req[r].pc # "drop"
      PROVE  ~Live(n)
  <2>1. Live(n) => jar[b] = n \/ Carries(r, n)
    BY <1>2, <1>3, KnownThere DEF At
  <2>2. 0 \notin Ids
    BY RowFields DEF FullInv, Inv, TableInv
  <2>3. Carries(r, n) => jar[b] = n
    BY <1>1, <1>2, <1>3, <2>2 DEF Steady, TokenPc
  <2>4. QED
    BY <1>3, <2>1, <2>3
<1>4. 0 \notin Ids /\ \A k \in Ids : tokens[k].owner \in Users
  BY RowFields DEF FullInv, Inv, TableInv
<1>5. CASE req[r].pc # "expire"
  <2>1. PICK u \in Users : u = req[r].user
    BY <1>1, RequestShape DEF FullInv, Inv
  <2>2. RevokeAllForUser(u)
    BY <1>1, <1>5, <2>1 DEF LeaveCookie, ReuseRevokeAll, ExpireRevoke, DropRevokeAll, ResetRevoke, At
  <2>3. /\ RowsSteady
        /\ \A n \in Ids : Live(n) /\ ~Live(n)' => n <= cut'[tokens[n].owner]
        /\ \A n \in Ids : tokens[n].owner = u => ~Live(n)' /\ n <= cut'[u]
        /\ \A n \in Ids : ~Live(n) => ~Live(n)'
    <3>1. /\ RowsSteady
          /\ \A n \in Ids : Live(n) /\ ~Live(n)' => n <= cut'[tokens[n].owner]
          /\ \A n \in Ids : tokens[n].owner = u => ~Live(n)' /\ n <= cut'[u]
      BY <2>2, RevokeAllSteady DEF FullInv
    <3>2. QED
      BY <3>1 DEF RowsSteady, Live
  <2>4. ASSUME NEW k \in Ids, k = jar[b], Waiting(b) = {r}, Steady(b)
        PROVE  Excused(k)'
    <3>1. CASE req[r].pc \in {"reuse", "drop"}
      <4>1. tokens[k].owner = u
        BY <1>1, <1>4, <2>1, <2>4, <3>1
           DEF Steady, FullInv, Inv, RequestsSound, Sound, HoldsToken, TokenPc
      <4>2. k <= cut'[u] /\ tokens'[k].owner = u
        BY <2>3, <4>1 DEF RowsSteady
      <4>3. QED
        BY <4>2 DEF Excused
    <3>2. CASE req[r].pc = "reset.revoke"
      <4>1. Excused(k)
        BY <1>1, <1>4, <2>4, <3>2 DEF Steady
      <4>2. QED
        BY <2>3, <4>1, ExcusedStays DEF FullInv, Inv
    <3>3. QED
      BY <1>1, <1>5, <3>1, <3>2
  <2>5. ASSUME NEW m \in Ids, NEW n \in Ids, jar[b] = m, n # m, Waiting(b) = {r}, Steady(b),
               KnowsItsSessions(b), tokens[n].login = tokens[m].login
        PROVE  ~Live(n)'
    <3>1. CASE req[r].pc = "drop"
      <4>1. tokens[m].owner = u
        BY <1>1, <1>4, <2>1, <2>5, <3>1 DEF Steady
      <4>2. tokens[n].owner = tokens[m].owner
        BY <2>5 DEF FullInv, BrowserInv, LoginsSound
      <4>3. QED
        BY <2>3, <4>1, <4>2
    <3>2. CASE req[r].pc # "drop"
      BY <1>3, <2>3, <2>5, <3>2
    <3>3. QED
      BY <3>1, <3>2
  <2>6. QED
    BY <1>1, <2>3, <2>4, <2>5, LeavingKeeps
<1>6. CASE req[r].pc = "expire"
  <2>1. PICK t \in Ids : t = req[r].token /\ tokens[t].isExpired
    BY <1>1, <1>6 DEF FullInv, Inv, RequestsSound, Sound, HoldsToken, TokenPc, BrowserInv, ExpiredSound, At
  <2>2. Revoke(t, 0) /\ UNCHANGED cut
    BY <1>1, <1>6, <2>1 DEF LeaveCookie, ReuseRevokeAll, ExpireRevoke, DropRevokeAll, ResetRevoke, At
  <2>3. /\ RowsSteady
        /\ \A n \in Ids : Live(n) /\ ~Live(n)' => n = t
        /\ \A n \in Ids : ~Live(n) => ~Live(n)'
    <3>1. /\ RowsSteady
          /\ \A n \in Ids : Live(n) /\ ~Live(n)' => n = t
      BY <2>2, RevokeSteady DEF FullInv
    <3>2. QED
      BY <3>1 DEF RowsSteady, Live
  <2>4. Carries(r, t)
    BY <1>2, <1>6, <2>1
  <2>5. ASSUME NEW k \in Ids, k = jar[b], Waiting(b) = {r}, Steady(b)
        PROVE  Excused(k)'
    <3>1. k = t
      BY <1>1, <1>4, <1>6, <2>1, <2>5 DEF Steady, TokenPc
    <3>2. tokens'[k].isExpired
      BY <2>1, <2>3, <3>1 DEF RowsSteady
    <3>3. QED
      BY <3>2 DEF Excused
  <2>6. QED
    BY <1>1, <1>3, <1>6, <2>3, <2>4, <2>5, LeavingKeeps
<1>7. QED
  BY <1>5, <1>6

\* The handler threw, or the process died: the browser is in trouble.
LEMMA AbortAnswerStep ==
    ASSUME FullInv, Inv', NEW r \in Requests, AbortAnswer(r)
    PROVE  FullInv'
<1>1. /\ req[r] # Idle /\ Finish(r) /\ Free(r) /\ UNCHANGED <<jar, out, tokens, cut, handedOut>>
  BY DEF AbortAnswer, Abort
<1> PICK b \in Browsers : b = from[r]
  BY <1>1, ServedBrowser
<1>2. RowsSteady /\ \A n \in Ids : Live(n) => Live(n)'
  BY <1>1, RowsUnchanged DEF FullInv
<1>3. LastSigh(r) /\ out' \subseteq Ids
  BY <1>1, NoneRotatesAfter
<1>4. Answer(r, {})
  BY DEF AbortAnswer, Answer
<1> DEFINE a == {}
<1>5. a \in {{}} \cup {{c} : c \in handedOut' \cup {0}} /\ \A n : a # {n}
  OBVIOUS
<1>6. Changes(r, Idle, Nobody, a) /\ troubled' = troubled \cup {b} /\ b \in troubled' /\ a = {}
  BY <1>1 DEF Finish, Goto, Free, Changes, AbortAnswer
<1>7. b # Nobody
  BY BrowsersAssumption
<1> HIDE DEF a
<1>8. QED
  BY <1>1, <1>2, <1>3, <1>5, <1>6, <1>7, FinishKeeps

-----------------------------------------------------------------------------
(***************************************************************************)
(* Requests go on.                                                         *)
(***************************************************************************)

\* The browser of an unfinished request does not notice its statements.
LEMMA GoingOnKeeps ==
    ASSUME FullInv, Inv', NEW r \in Requests, req[r] # Idle, NEW b \in Browsers, b = from[r],
           NEW state, state # Idle, Goto(r, state), UNCHANGED <<browserVars, handedOut>>, RowsSteady,
           state.pc \in {"rotate.check", "drop", "reset.revoke"},
           state.pc = "rotate.check" =>
              req[r].pc = "rotate.revoke" /\ state.token = req[r].token /\ state.new = req[r].new,
           state.pc = "drop" => /\ req[r].pc \in TokenPc
                                /\ tokens[req[r].token].owner = state.user,
           state.pc = "reset.revoke" => req[r].pc = "reset.write",
           \A n \in Ids : Live(n) /\ ~Live(n)' => Carries(r, n) /\ state.pc = "rotate.check"
    PROVE  FullInv'
<1>1. b # Nobody /\ answer[r] = {} /\ r \in Waiting(b)
  BY ServedBrowser, BrowsersAssumption
<1>2. UNCHANGED <<jar, from, answer, troubled, out>>
  BY DEF browserVars
<1>3. Changes(r, state, b, {})
  BY <1>1, <1>2 DEF Changes, Goto, FullInv, BrowserTypeOK
<1>4. req'[r] = state /\ from'[r] = b /\ answer'[r] = {}
  BY <1>3, ChangesElsewhere
<1>5. /\ \A n : Carries(r, n)' => Carries(r, n)
      /\ \A n : Brings(r, n)' => Brings(r, n)
      /\ state.pc # "drop" => \A n : Carries(r, n) \/ Brings(r, n) => Carries(r, n)' \/ Brings(r, n)'
  BY <1>1, <1>4 DEF Carries, Brings, TokenPc
<1>6. NothingNew(r, b)
  BY <1>2, <1>5 DEF NothingNew
<1>7. OnlyAt(b)
  BY <1>2 DEF OnlyAt
<1>8. Moves(r, b, state, b, {})
  BY <1>3, <1>6, <1>7 DEF Moves
<1>9. ~At(r, "expire")' /\ ~At(r, "rotate.issue")'
  BY <1>4 DEF At
<1>10. LastSigh(r)
  BY <1>2, <1>9 DEF LastSigh
<1>11. /\ jar' \in [Browsers -> handedOut' \cup {0}] /\ troubled' \subseteq Browsers /\ out' \subseteq Ids
       /\ handedOut \subseteq handedOut'
  BY <1>2 DEF FullInv, BrowserTypeOK
<1>12. ASSUME BrowserTypeOK', b \notin troubled'
       PROVE  (Steady(b) /\ KnowsItsSessions(b))'
  <2>1. Waiting(b) = {r} /\ Steady(b) /\ KnowsItsSessions(b)
    BY <1>1, <1>2, <1>12, AloneWaits
  <2>2. Waiting(b)' = {r}
    BY <1>2, <2>1 DEF Waiting
  <2>3. jar[b] # 0 => jar[b] \in Ids
    BY DEF FullInv, BrowserTypeOK, TypeOK
  <2>4. Steady(b)'
    <3>1. ASSUME jar[b] # 0
          PROVE  /\ state.pc \in TokenPc => state.token = jar[b]
                 /\ state.pc = "drop" => tokens'[jar[b]].owner = state.user
                 /\ state.pc = "reset.revoke" => Excused(jar[b])'
      <4>1. /\ req[r].pc \in TokenPc => req[r].token = jar[b]
            /\ req[r].pc \notin {"reuse", "expire", "rotate.check", "drop"} => Excused(jar[b])
        BY <2>1, <3>1 DEF Steady
      <4>2. state.pc \in TokenPc => state.token = jar[b]
        BY <4>1 DEF TokenPc
      <4>3. state.pc = "drop" => tokens'[jar[b]].owner = state.user
        BY <2>3, <3>1, <4>1 DEF RowsSteady
      <4>4. ASSUME state.pc = "reset.revoke"
            PROVE  Excused(jar[b])'
        <5>1. PICK k \in Ids : k = jar[b]
          BY <2>3, <3>1
        <5>2. Excused(k)
          BY <4>1, <4>4, <5>1
        <5>3. Live(k) => Live(k)'
          BY <4>4
        <5>4. Excused(k)'
          BY <5>2, <5>3, ExcusedStays DEF FullInv, Inv
        <5>5. QED
          BY <1>2, <5>1, <5>4 DEF Excused, Live
      <4>5. QED
        BY <4>2, <4>3, <4>4
    <3>2. \A p, q \in Waiting(b)' : p = q
      BY <2>2
    <3>3. \A n : answer'[r] # {n}
      BY <1>4
    <3>4. QED
      BY <1>2, <1>4, <2>2, <3>1, <3>2, <3>3 DEF Steady
  <2>5. KnowsItsSessions(b)'
    <3> SUFFICES ASSUME NEW m \in Ids, NEW n \in Ids, Shown(b, m)', Live(n)',
                        tokens[n].login = tokens[m].login
                 PROVE  Shown(b, n)' \/ At(r, "drop")'
      BY <2>2 DEF KnowsItsSessions, RowsSteady
    <3>1. CASE state.pc = "drop"
      BY <1>4, <3>1 DEF At
    <3>2. CASE state.pc # "drop"
      <4>1. Shown(b, m)
        BY <1>8, <1>12, ShownShrinks
      <4>2. Live(n) /\ ~At(r, "drop")
        BY <3>2 DEF RowsSteady, Live, At, TokenPc
      <4>3. Shown(b, n)
        BY <2>1, <4>1, <4>2 DEF KnowsItsSessions
      <4>4. QED
        BY <1>2, <1>5, <2>1, <2>2, <3>2, <4>3 DEF Shown
    <3>3. QED
      BY <3>1, <3>2
  <2>6. QED
    BY <2>4, <2>5
<1>13. state # Idle => b # Nobody /\ {} = {}
  BY <1>1
<1>14. QED
  BY <1>8, <1>9, <1>10, <1>11, <1>12, <1>13, MoveKeeps

\* The statements in the middle of a rotation and of a reset keep it.
LEMMA GoOnStep ==
    ASSUME FullInv, Inv', NEW r \in Requests, RotateRevoke(r) \/ RotateCheck(r) \/ ResetWrite(r),
           req'[r] # Idle, UNCHANGED browserVars
    PROVE  FullInv'
<1>1. req[r] # Idle /\ req \in [Requests -> {Idle} \cup Request]
  BY DEF RotateRevoke, RotateCheck, ResetWrite, At, FullInv, Inv, TypeOK
<1> PICK b \in Browsers : b = from[r]
  BY <1>1, ServedBrowser
<1>2. CASE RotateRevoke(r)
  <2>1. /\ req[r].pc = "rotate.revoke" /\ Revoke(req[r].token, req[r].new) /\ UNCHANGED <<handedOut, cut>>
        /\ req' = [req EXCEPT ![r].pc = "rotate.check"]
    BY <1>2 DEF RotateRevoke, At
  <2>2. PICK t \in Ids, new \in Ids : t = req[r].token /\ new = req[r].new
    BY <1>1, <2>1 DEF FullInv, Inv, RequestsSound, Sound, HoldsToken, HoldsSuccessor, TokenPc
  <2>3. RowsSteady /\ \A n \in Ids : Live(n) /\ ~Live(n)' => n = t
    <3>1. new \in Nat
      BY RowFields DEF FullInv, Inv, TableInv
    <3>2. QED
      BY <2>1, <2>2, <3>1, RevokeSteady DEF FullInv
  <2>4. Carries(r, t)
    BY <1>1, <2>1, <2>2 DEF Carries, TokenPc
  <2> DEFINE state == [req[r] EXCEPT !.pc = "rotate.check"]
  <2>5. req[r] \in RotateReq
    BY <1>1, <2>1, RequestShape DEF FullInv, Inv
  <2>6. Goto(r, state) /\ state.pc = "rotate.check" /\ state.token = req[r].token /\ state.new = req[r].new
    BY <2>1, <2>5 DEF Goto, RotateReq
  <2>7. state # Idle
    BY <1>1, <2>6 DEF Goto
  <2> HIDE DEF state
  <2>8. QED
    BY <1>1, <2>1, <2>3, <2>4, <2>6, <2>7, GoingOnKeeps
<1>3. CASE RotateCheck(r)
  <2>1. /\ req[r].pc = "rotate.check" /\ UNCHANGED <<tokens, cut, handedOut>>
        /\ Goto(r, [pc |-> "drop", user |-> req[r].user])
    BY <1>1, <1>3 DEF RotateCheck, At, Finish, Goto
  <2>2. HoldsToken(r)
    BY <1>1, <2>1 DEF FullInv, Inv, RequestsSound, Sound, TokenPc
  <2>3. RowsSteady /\ \A n \in Ids : Live(n) => Live(n)'
    BY <2>1, RowsUnchanged DEF FullInv
  <2> DEFINE state == [pc |-> "drop", user |-> req[r].user]
  <2>4. Goto(r, state) /\ state.pc = "drop" /\ state.user = req[r].user
    BY <2>1
  <2>5. state # Idle
    BY <1>1, <2>4 DEF Goto
  <2> HIDE DEF state
  <2>6. req[r].pc \in TokenPc /\ tokens[req[r].token].owner = state.user
    BY <2>1, <2>2, <2>4 DEF HoldsToken, TokenPc
  <2>7. QED
    BY <1>1, <2>1, <2>3, <2>4, <2>5, <2>6, GoingOnKeeps
<1>4. CASE ResetWrite(r)
  <2>1. /\ req[r].pc = "reset.write" /\ UNCHANGED <<tokens, cut, handedOut>>
        /\ Goto(r, [pc |-> "reset.revoke", user |-> req[r].user])
    BY <1>4 DEF ResetWrite, At
  <2>2. RowsSteady /\ \A n \in Ids : Live(n) => Live(n)'
    BY <2>1, RowsUnchanged DEF FullInv
  <2> DEFINE state == [pc |-> "reset.revoke", user |-> req[r].user]
  <2>3. Goto(r, state) /\ state.pc = "reset.revoke"
    BY <2>1
  <2>4. state # Idle
    BY <1>1, <2>3 DEF Goto
  <2> HIDE DEF state
  <2>5. QED
    BY <1>1, <2>1, <2>2, <2>3, <2>4, GoingOnKeeps
<1>5. QED
  BY <1>2, <1>3, <1>4

-----------------------------------------------------------------------------
(***************************************************************************)
(* Answers arrive.                                                         *)
(***************************************************************************)

\* An answer that arrives keeps it: the cookie it brings was nowhere else.
LEMMA DeliverStep ==
    ASSUME FullInv, Inv', NEW r \in Requests, Deliver(r)
    PROVE  FullInv'
<1>1. /\ answer[r] # {} /\ Free(r) /\ UNCHANGED <<req, tokens, handedOut, cut, out>>
  BY DEF Deliver, vars, sessionVars
<1> PICK b \in Browsers : b = from[r]
  BY <1>1 DEF FullInv, BrowserTypeOK
<1>2. PICK c \in handedOut \cup {0} : answer[r] = {c}
  BY <1>1 DEF FullInv, BrowserTypeOK
<1>3. /\ jar' = [jar EXCEPT ![b] = c]
      /\ troubled' = IF Waiting(b) = {r} /\ c # 0 /\ tokens[c].login = c
                     THEN troubled \ {b} ELSE troubled
  <2>1. c = CHOOSE d \in answer[r] : TRUE
    BY <1>2
  <2>2. QED
    BY <2>1 DEF Deliver
<1>4. req[r] = Idle /\ 0 \notin Ids /\ handedOut \subseteq Ids /\ b # Nobody /\ r \in Waiting(b)
  BY <1>1, RowFields, BrowsersAssumption
     DEF FullInv, BrowserTypeOK, TypeOK, Inv, TableInv, Waiting
<1>5. Changes(r, Idle, Nobody, {})
  BY <1>1, <1>4 DEF Free, Changes, FullInv, Inv, TypeOK
<1>6. req'[r] = Idle /\ from'[r] = Nobody /\ answer'[r] = {}
  BY <1>5, ChangesElsewhere
<1>7. RowsSteady /\ \A n \in Ids : Live(n)' = Live(n)
  BY <1>1, RowsUnchanged DEF FullInv, Live
<1>8. \A n \in Ids : /\ ~Carries(r, n) /\ ~Carries(r, n)' /\ ~Brings(r, n)'
                     /\ Brings(r, n) <=> n = c
  BY <1>2, <1>4, <1>6 DEF Carries, Brings
<1>9. jar'[b] = c /\ \A d \in Browsers \ {b} : jar'[d] = jar[d]
  BY <1>3 DEF FullInv, BrowserTypeOK
<1>10. NothingNew(r, b)
  BY <1>7, <1>8, <1>9 DEF NothingNew
<1>11. OnlyAt(b) /\ troubled' \subseteq Browsers
  BY <1>3, <1>9 DEF OnlyAt, FullInv, BrowserTypeOK
<1>12. Moves(r, b, Idle, Nobody, {})
  BY <1>5, <1>7, <1>10, <1>11 DEF Moves
<1>13. jar' \in [Browsers -> handedOut' \cup {0}] /\ out' \subseteq Ids
  BY <1>1, <1>3 DEF FullInv, BrowserTypeOK
<1>14. LastSigh(r) /\ ~At(r, "expire")'
  BY <1>1, <1>6 DEF LastSigh, At
<1>15. c # 0 => /\ ~Live(c) => c <= cut[tokens[c].owner]
                /\ tokens[c].login = c => \A m \in Ids : tokens[m].login = c => m = c
  BY <1>4, <1>8 DEF FullInv, BrowserInv, FreshOnTheWay
<1>16. ASSUME BrowserTypeOK', b \notin troubled'
       PROVE  (Steady(b) /\ KnowsItsSessions(b))'
  <2>1. Waiting(b) = {r}
    <3>1. CASE b \in troubled
      BY <1>3, <1>16, <3>1
    <3>2. CASE b \notin troubled
      BY <1>4, <3>2, AloneWaits
    <3>3. QED
      BY <3>1, <3>2
  <2>2. Waiting(b)' = {}
    BY <1>4, <1>5, <2>1, ChangesElsewhere DEF Waiting
  <2>3. Steady(b)'
    <3>1. c # 0 => Excused(c)
      BY <1>15 DEF Excused
    <3>2. c # 0 => Excused(c)'
      BY <1>1, <3>1 DEF Excused, Live
    <3>3. jar'[b] # 0 => Excused(jar[b])'
      BY <1>9, <3>2 DEF Excused, Live
    <3>4. QED
      BY <2>2, <3>3 DEF Steady
  <2>4. KnowsItsSessions(b)'
    <3> SUFFICES ASSUME NEW m \in Ids, NEW n \in Ids, Shown(b, m)', Live(n),
                        tokens[n].login = tokens[m].login
                 PROVE  Shown(b, n)'
      BY <1>7 DEF KnowsItsSessions, RowsSteady
    <3>1. m = c
      BY <1>9, <2>2 DEF Shown
    <3>2. CASE tokens[c].login = c
      <4>1. n = c
        BY <1>4, <1>15, <3>1, <3>2
      <4>2. QED
        BY <1>9, <4>1 DEF Shown
    <3>3. CASE tokens[c].login # c
      <4>1. Steady(b) /\ KnowsItsSessions(b)
        BY <1>3, <1>4, <1>16, <3>3, AloneWaits
      <4>2. jar[b] = n \/ n = c
        BY <1>4, <1>8, <2>1, <3>1, <4>1, KnownThere DEF At
      <4>3. tokens[c].parent # 0
        BY <3>1, <3>3 DEF FullInv, BrowserInv, LoginsSound
      <4>4. jar[b] = n => n = tokens[c].parent
        BY <1>2, <1>4, <2>1, <3>1, <4>1, <4>3 DEF Steady
      <4>5. ~Live(tokens[c].parent)
        BY <1>4, <3>1, <4>3 DEF FullInv, Inv, AnsweredRotationSpends
      <4>6. n = c
        BY <4>2, <4>4, <4>5
      <4>7. QED
        BY <1>9, <4>6 DEF Shown
    <3>4. QED
      BY <3>2, <3>3
  <2>5. QED
    BY <2>3, <2>4
<1>17. handedOut \subseteq handedOut'
  BY <1>1
<1>18. QED
  BY <1>11, <1>12, <1>13, <1>14, <1>16, <1>17, MoveKeeps

-----------------------------------------------------------------------------
(***************************************************************************)
(* Nobody moves: a token or a cookie expires, an account changes.          *)
(***************************************************************************)

\* A session that b is shown without its jar it knows without its jar.
LEMMA KnownWithoutJar ==
    ASSUME FullInv, NEW b \in Browsers, Steady(b), NEW r \in Waiting(b),
           NEW m \in Ids, NEW n \in Ids, Carries(r, m) \/ Brings(r, m),
           jar[b] = n, Live(n), tokens[n].login = tokens[m].login
    PROVE  Carries(r, n) \/ Brings(r, n)
<1>1. r \in Requests /\ 0 \notin Ids
  BY RowFields DEF Waiting, FullInv, Inv, TableInv
<1>2. CASE req[r] # Idle /\ req[r].pc \in TokenPc
  <2>1. req[r].token = n
    BY <1>1, <1>2 DEF Steady
  <2>2. QED
    BY <1>2, <2>1 DEF Carries
<1>3. CASE ~(req[r] # Idle /\ req[r].pc \in TokenPc)
  <2>1. answer[r] = {m} /\ Brings(r, m)
    BY <1>3 DEF Carries, Brings, TokenPc
  <2>2. CASE tokens[m].parent # 0
    <3>1. n = tokens[m].parent
      BY <1>1, <2>1, <2>2 DEF Steady
    <3>2. m \in handedOut
      <4>1. PICK c \in handedOut \cup {0} : answer[r] = {c}
        BY <1>1, <2>1 DEF FullInv, BrowserTypeOK
      <4>2. QED
        BY <1>1, <2>1, <4>1
    <3>3. ~Live(n)
      BY <2>2, <3>1, <3>2 DEF FullInv, Inv, AnsweredRotationSpends
    <3>4. QED
      BY <3>3
  <2>3. CASE tokens[m].parent = 0
    <3>1. tokens[m].login = m
      BY <2>3 DEF FullInv, BrowserInv, LoginsSound
    <3>2. n = m
      BY <1>1, <2>1, <3>1 DEF FullInv, BrowserInv, FreshOnTheWay
    <3>3. QED
      BY <2>1, <3>2
  <2>4. QED
    BY <2>2, <2>3
<1>4. QED
  BY <1>2, <1>3

\* Time and accounts pass browsers by, but for cookies that expire.
LEMMA StillKeeps ==
    ASSUME FullInv, Inv', UNCHANGED <<req, from, answer, troubled, out, handedOut, cut>>,
           RowsSteady, \A n \in Ids : Live(n)' = Live(n),
           jar' \in [Browsers -> handedOut \cup {0}], \A b \in Browsers : jar'[b] \in {jar[b], 0}
    PROVE  FullInv'
<1>1. \A q \in Requests : \A n : Carries(q, n)' = Carries(q, n) /\ Brings(q, n)' = Brings(q, n)
  BY DEF Carries, Brings
<1>2. \A b : Waiting(b)' = Waiting(b)
  BY DEF Waiting
<1>3. 0 \notin Ids
  BY RowFields DEF FullInv, Inv, TableInv
<1>4. \A b \in Browsers : \A n \in Ids : Shown(b, n)' => Shown(b, n)
  BY <1>1, <1>2, <1>3 DEF Shown, Waiting
<1>5. /\ Ids' = Ids
      /\ \A n \in Ids : /\ tokens'[n].login = tokens[n].login /\ tokens'[n].owner = tokens[n].owner
                        /\ tokens'[n].parent = tokens[n].parent
                        /\ Excused(n) => Excused(n)'
  BY DEF RowsSteady, Excused
<1>6. BrowserTypeOK'
  BY <1>5 DEF FullInv, BrowserTypeOK, Inv
<1>7. LoginsSound' /\ OneBrowserPerSession'
  BY <1>4, <1>5, LoginsStay DEF FullInv, BrowserInv, OneBrowserPerSession
<1>8. FreshOnTheWay'
  <2> SUFFICES ASSUME NEW s \in Requests, NEW n \in Ids, Brings(s, n)
               PROVE  /\ \A b \in Browsers : jar'[b] # n
                      /\ \A q \in Requests : ~Carries(q, n)' /\ (Brings(q, n)' => q = s)
                      /\ ~Live(n)' => n <= cut'[tokens'[n].owner]
                      /\ tokens'[n].login = n => \A m \in Ids : tokens'[m].login = n => m = n
    BY <1>1, <1>5 DEF FreshOnTheWay
  <2>1. /\ \A b \in Browsers : jar[b] # n
        /\ \A q \in Requests : ~Carries(q, n) /\ (Brings(q, n) => q = s)
        /\ ~Live(n) => n <= cut[tokens[n].owner]
        /\ tokens[n].login = n => \A m \in Ids : tokens[m].login = n => m = n
    BY DEF FullInv, BrowserInv, FreshOnTheWay
  <2>2. QED
    BY <1>1, <1>3, <1>5, <2>1
<1>9. ExpiredSound'
  <2> SUFFICES ASSUME NEW q \in Requests, At(q, "expire")
               PROVE  tokens'[req[q].token].isExpired
    BY DEF ExpiredSound, At
  <2>1. req[q].token \in Ids
    BY DEF FullInv, Inv, RequestsSound, Sound, HoldsToken, At, TokenPc
  <2>2. QED
    BY <2>1 DEF FullInv, BrowserInv, ExpiredSound, RowsSteady
<1>10. OutForGood'
  <2>1. \A t \in Ids' : tokens'[t].login \in out' => ~Live(t)'
    BY <1>5 DEF FullInv, BrowserInv, OutForGood
  <2>2. ASSUME NEW q \in Requests, At(q, "rotate.issue")
        PROVE  tokens'[req[q].token].login \notin out
    <3>1. req[q].token \in Ids
      BY <2>2 DEF FullInv, Inv, RequestsSound, Sound, HoldsToken, At, TokenPc
    <3>2. QED
      BY <1>5, <2>2, <3>1 DEF FullInv, BrowserInv, OutForGood
  <2>3. QED
    BY <2>1, <2>2 DEF OutForGood, At
<1>11. ASSUME NEW b \in Browsers, b \notin troubled
       PROVE  (Steady(b) /\ KnowsItsSessions(b))'
  <2>1. Steady(b) /\ KnowsItsSessions(b)
    BY <1>11 DEF FullInv, BrowserInv, Untroubled
  <2>2. Steady(b)'
    <3>1. \A p, q \in Waiting(b)' : p = q
      BY <1>2, <2>1 DEF Steady
    <3>2. CASE jar'[b] = 0
      BY <3>1, <3>2 DEF Steady
    <3>3. CASE jar'[b] # 0
      <4>1. PICK k \in Ids : k = jar[b] /\ k = jar'[b]
        BY <3>3 DEF FullInv, BrowserTypeOK, TypeOK
      <4>2. /\ Waiting(b) = {} => Excused(k)
            /\ \A r \in Waiting(b) :
                  /\ req[r] # Idle =>
                      /\ req[r].pc \in TokenPc => req[r].token = k
                      /\ req[r].pc = "drop" => tokens[k].owner = req[r].user
                      /\ req[r].pc \notin {"reuse", "expire", "rotate.check", "drop"} => Excused(k)
                  /\ \A n \in Ids : answer[r] = {n} /\ tokens[n].parent # 0 => k = tokens[n].parent
        BY <1>3, <2>1, <4>1 DEF Steady
      <4>3. Excused(k) => Excused(jar[b])'
        BY <1>5, <4>1 DEF Excused, Live
      <4>4. QED
        BY <1>2, <1>5, <3>1, <4>1, <4>2, <4>3 DEF Steady
    <3>4. QED
      BY <3>2, <3>3
  <2>3. KnowsItsSessions(b)'
    <3> SUFFICES ASSUME NEW m \in Ids, NEW n \in Ids, Shown(b, m)', Live(n),
                        tokens[n].login = tokens[m].login
                 PROVE  Shown(b, n)' \/ \E r \in Waiting(b) : At(r, "drop")
      BY <1>2, <1>5 DEF KnowsItsSessions, At
    <3>1. Shown(b, n) \/ \E r \in Waiting(b) : At(r, "drop")
      BY <1>4, <2>1 DEF KnowsItsSessions
    <3>2. CASE jar'[b] = jar[b]
      BY <1>1, <1>2, <3>1, <3>2 DEF Shown, Waiting
    <3>3. CASE jar'[b] = 0
      <4>1. PICK r \in Waiting(b) : Carries(r, m) \/ Brings(r, m)
        BY <1>1, <1>2, <1>3, <3>3 DEF Shown, Waiting
      <4>2. jar[b] = n => Carries(r, n) \/ Brings(r, n)
        BY <2>1, <4>1, KnownWithoutJar
      <4>3. Shown(b, n) => \E q \in Waiting(b) : Carries(q, n) \/ Brings(q, n)
        BY <4>2 DEF Shown
      <4>4. QED
        BY <1>1, <1>2, <3>1, <4>3 DEF Shown, Waiting
    <3>4. QED
      BY <3>2, <3>3
  <2>4. QED
    BY <2>2, <2>3
<1>12. Untroubled'
  BY <1>11 DEF Untroubled
<1>13. QED
  BY <1>6, <1>7, <1>8, <1>9, <1>10, <1>12 DEF FullInv, BrowserInv

\* Expiry, account operations and stutters keep the invariant.
LEMMA StillStep ==
    ASSUME FullInv, Inv',
           \/ \E b \in Browsers : CookieExpire(b)
           \/ (\E t \in Ids : Expire(t)) /\ UNCHANGED browserVars
           \/ AccountNext /\ UNCHANGED <<sessionVars, browserVars>>
           \/ UNCHANGED bvars
    PROVE  FullInv'
<1>1. ASSUME NEW b \in Browsers, CookieExpire(b)
      PROVE  FullInv'
  <2>1. /\ UNCHANGED <<tokens, req, from, answer, troubled, out, handedOut, cut>>
        /\ jar' = [jar EXCEPT ![b] = 0]
    BY <1>1 DEF CookieExpire, vars, sessionVars
  <2>2. RowsSteady /\ \A n \in Ids : Live(n)' = Live(n)
    BY <2>1, RowsUnchanged DEF FullInv, Live
  <2>3. /\ jar' \in [Browsers -> handedOut \cup {0}] /\ \A c \in Browsers : jar'[c] \in {jar[c], 0}
    BY <2>1 DEF FullInv, BrowserTypeOK
  <2>4. QED
    BY <2>1, <2>2, <2>3, StillKeeps
<1>2. ASSUME NEW t \in Ids, Expire(t), UNCHANGED browserVars
      PROVE  FullInv'
  <2>1. UNCHANGED <<req, jar, from, answer, troubled, out, handedOut, cut>>
    BY <1>2 DEF Expire, browserVars
  <2>2. RowsSteady /\ \A n \in Ids : Live(n)' = Live(n)
    <3>1. RowsSteady /\ \A n \in Ids : Live(n) => Live(n)'
      BY <1>2, ExpireSteady DEF FullInv
    <3>2. QED
      BY <3>1 DEF RowsSteady, Live
  <2>3. /\ jar' \in [Browsers -> handedOut \cup {0}] /\ \A c \in Browsers : jar'[c] \in {jar[c], 0}
    BY <2>1 DEF FullInv, BrowserTypeOK
  <2>4. QED
    BY <2>1, <2>2, <2>3, StillKeeps
<1>3. ASSUME UNCHANGED <<sessionVars, browserVars>>
      PROVE  FullInv'
  <2>1. UNCHANGED <<tokens, req, jar, from, answer, troubled, out, handedOut, cut>>
    BY <1>3 DEF sessionVars, browserVars
  <2>2. RowsSteady /\ \A n \in Ids : Live(n)' = Live(n)
    BY <2>1, RowsUnchanged DEF FullInv, Live
  <2>3. /\ jar' \in [Browsers -> handedOut \cup {0}] /\ \A c \in Browsers : jar'[c] \in {jar[c], 0}
    BY <2>1 DEF FullInv, BrowserTypeOK
  <2>4. QED
    BY <2>1, <2>2, <2>3, StillKeeps
<1>4. QED
  BY <1>1, <1>2, <1>3 DEF bvars, vars

-----------------------------------------------------------------------------
(***************************************************************************)
(* Tokens are issued.                                                      *)
(***************************************************************************)

\* Row n is new: it opens a session, or continues one that request r carries.
Appended(r, n) ==
    /\ Ids' = Ids \cup {n} /\ n \notin Ids /\ n \in Nat \ {0} /\ \A t \in Ids : t < n
    /\ \A t \in Ids : tokens'[t] = tokens[t]
    /\ Live(n)'
    /\ \/ tokens'[n].login = n /\ tokens'[n].parent = 0
       \/ \E old \in Ids : /\ Carries(r, old)
                           /\ tokens'[n].parent = old /\ tokens'[n].owner = tokens[old].owner
                           /\ tokens'[n].login = tokens[old].login /\ tokens[old].login \notin out

\* Request r, which brought nothing, is the only one to hold the new token.
Issues(r, b, n) ==
    /\ \A m \in Ids : (Carries(r, m)' <=> Carries(r, m)) /\ ~Brings(r, m) /\ ~Brings(r, m)'
    /\ ~Carries(r, n)'
    /\ \A q \in Requests \ {r} :
          /\ req'[q] = req[q] /\ from'[q] = from[q] /\ answer'[q] = answer[q]
          /\ \A k : Carries(q, k)' = Carries(q, k) /\ Brings(q, k)' = Brings(q, k)
          /\ \A pc : At(q, pc)' = At(q, pc)
    /\ from[r] = b /\ from'[r] \in {b, Nobody}

\* A row that is not there is in no jar and in no request.
LEMMA NobodyHoldsYet ==
    ASSUME FullInv, NEW n, n \notin Ids, n # 0
    PROVE  /\ \A b \in Browsers : jar[b] # n
           /\ \A q \in Requests : ~Carries(q, n) /\ ~Brings(q, n)
<1>1. \A b \in Browsers : jar[b] # n
  BY DEF FullInv, BrowserTypeOK, TypeOK
<1>2. ASSUME NEW q \in Requests
      PROVE  ~Carries(q, n) /\ ~Brings(q, n)
  <2>1. answer[q] # {n}
    <3>1. PICK c \in handedOut \cup {0} : answer[q] = {} \/ answer[q] = {c}
      BY DEF FullInv, BrowserTypeOK
    <3>2. c # n
      BY DEF FullInv, BrowserTypeOK, TypeOK
    <3>3. QED
      BY <3>1, <3>2
  <2>2. QED
    BY <2>1 DEF Carries, Brings, FullInv, Inv, RequestsSound, Sound, HoldsToken, HoldsSuccessor
<1>3. QED
  BY <1>1, <1>2

\* The new token is shown at the browser of its request only.
LEMMA NewShown ==
    ASSUME FullInv, NEW r \in Requests, NEW b \in Browsers, NEW n, Appended(r, n), Issues(r, b, n),
           UNCHANGED jar
    PROVE  /\ \A c \in Browsers : \A m \in Ids : Shown(c, m)' => Shown(c, m)
           /\ \A c \in Browsers : Shown(c, n)' => c = b
           /\ \A q \in Requests : ~Carries(q, n)' /\ (Brings(q, n)' => q = r)
           /\ \A c \in Browsers : jar[c] # n
<1>1. n # 0
  BY DEF Appended
<1>2. /\ \A c \in Browsers : jar[c] # n
      /\ \A q \in Requests : ~Carries(q, n) /\ ~Brings(q, n)
  BY <1>1, NobodyHoldsYet DEF Appended
<1>3. \A q \in Requests : ~Carries(q, n)' /\ (Brings(q, n)' => q = r)
  BY <1>2 DEF Issues
<1>4. b # Nobody
  BY BrowsersAssumption
<1>5. ASSUME NEW c \in Browsers, Shown(c, n)'
      PROVE  c = b
  <2>1. r \in Waiting(c)'
    BY <1>2, <1>3, <1>5 DEF Shown, Waiting
  <2>2. QED
    BY <2>1, BrowsersAssumption DEF Waiting, Issues
<1>6. ASSUME NEW c \in Browsers, NEW m \in Ids, Shown(c, m)'
      PROVE  Shown(c, m)
  <2>1. CASE jar[c] = m
    BY <2>1 DEF Shown
  <2>2. CASE jar[c] # m
    <3>1. PICK q \in Requests : from'[q] = c /\ (Carries(q, m)' \/ Brings(q, m)')
      BY <1>6, <2>2 DEF Shown, Waiting
    <3>2. from[q] = c /\ (Carries(q, m) \/ Brings(q, m))
      BY <3>1, <1>4, BrowsersAssumption DEF Issues
    <3>3. QED
      BY <3>2 DEF Shown, Waiting
  <2>3. QED
    BY <2>1, <2>2
<1>7. QED
  BY <1>2, <1>3, <1>5, <1>6

\* The new token is of a session of that browser, or of none before.
LEMMA AppendedShared ==
    ASSUME FullInv, Inv', NEW r \in Requests, NEW b \in Browsers, NEW n, Appended(r, n), Issues(r, b, n),
           UNCHANGED <<jar, cut>>
    PROVE  LoginsSound' /\ OneBrowserPerSession' /\ FreshOnTheWay'
<1>1. /\ Ids' = Ids \cup {n} /\ n \notin Ids /\ n \in Nat
      /\ \A t \in Ids : t < n /\ tokens'[t] = tokens[t]
      /\ Live(n)'
  BY DEF Appended
<1>2. /\ \A c \in Browsers : \A m \in Ids : Shown(c, m)' => Shown(c, m)
      /\ \A c \in Browsers : Shown(c, n)' => c = b
      /\ \A q \in Requests : ~Carries(q, n)' /\ (Brings(q, n)' => q = r)
      /\ \A c \in Browsers : jar[c] # n
  BY NewShown
<1>3. \A t \in Ids : /\ tokens[t].login \in Ids /\ tokens[t].login <= t
                     /\ tokens[tokens[t].login].owner = tokens[t].owner
                     /\ tokens[t].parent = 0 => tokens[t].login = t
                     /\ tokens[t].parent # 0 => /\ tokens[t].parent \in Ids /\ tokens[t].parent < t
                                                /\ tokens[t].login = tokens[tokens[t].parent].login
  BY DEF FullInv, BrowserInv, LoginsSound
<1>4. \A t \in Ids : t \in Nat \ {0}
  BY RowFields DEF FullInv, Inv, TableInv
<1>5. LoginsSound'
  <2>1. ASSUME NEW t \in Ids
        PROVE  LET row == tokens'[t]
               IN /\ row.login \in Ids' /\ row.login <= t
                  /\ tokens'[row.login].owner = row.owner
                  /\ row.parent = 0 => row.login = t
                  /\ row.parent # 0 => row.parent \in Ids' /\ row.parent < t
                                       /\ row.login = tokens'[row.parent].login
    BY <1>1, <1>3
  <2>2. LET row == tokens'[n]
        IN /\ row.login \in Ids' /\ row.login <= n
           /\ tokens'[row.login].owner = row.owner
           /\ row.parent = 0 => row.login = n
           /\ row.parent # 0 => row.parent \in Ids' /\ row.parent < n
                                /\ row.login = tokens'[row.parent].login
    <3>1. CASE tokens'[n].login = n /\ tokens'[n].parent = 0
      BY <1>1, <3>1
    <3>2. ASSUME NEW old \in Ids, tokens'[n].parent = old, tokens'[n].owner = tokens[old].owner,
                 tokens'[n].login = tokens[old].login
          PROVE  LET row == tokens'[n]
                 IN /\ row.login \in Ids' /\ row.login <= n
                    /\ tokens'[row.login].owner = row.owner
                    /\ row.parent = 0 => row.login = n
                    /\ row.parent # 0 => row.parent \in Ids' /\ row.parent < n
                                         /\ row.login = tokens'[row.parent].login
      <4>1. tokens[old].login \in Nat /\ old \in Nat \ {0} /\ old < n /\ tokens[old].login < n
        BY <1>1, <1>3, <1>4
      <4>2. QED
        BY <1>1, <1>3, <3>2, <4>1
    <3>3. QED
      BY <3>1, <3>2 DEF Appended
  <2>3. QED
    BY <1>1, <2>1, <2>2 DEF LoginsSound
<1>6. ASSUME NEW c \in Browsers, NEW d \in Browsers, NEW k \in Ids',
             Shown(c, n)', Shown(d, k)', tokens'[k].login = tokens'[n].login
      PROVE  c = d
  <2>1. c = b
    BY <1>2, <1>6
  <2>2. CASE k = n
    BY <1>2, <1>6, <2>1, <2>2
  <2>3. CASE k # n
    <3>1. k \in Ids /\ Shown(d, k) /\ tokens[k].login = tokens'[n].login
      BY <1>1, <1>2, <1>6, <2>3
    <3>2. tokens'[n].login # n
      BY <1>1, <1>3, <3>1
    <3>3. PICK old \in Ids : Carries(r, old) /\ tokens'[n].login = tokens[old].login
      BY <3>2 DEF Appended
    <3>4. Shown(b, old)
      BY <3>3, HoldersWait DEF FullInv, Issues
    <3>5. QED
      BY <2>1, <3>1, <3>3, <3>4 DEF FullInv, BrowserInv, OneBrowserPerSession
  <2>4. QED
    BY <2>2, <2>3
<1>7. OneBrowserPerSession'
  <2> SUFFICES ASSUME NEW c \in Browsers, NEW d \in Browsers, NEW k \in Ids', NEW m \in Ids',
                      Shown(c, k)', Shown(d, m)', tokens'[k].login = tokens'[m].login
               PROVE  c = d
    BY DEF OneBrowserPerSession
  <2>1. CASE k = n
    BY <1>6, <2>1
  <2>2. CASE m = n
    BY <1>6, <2>2
  <2>3. CASE k # n /\ m # n
    BY <1>1, <1>2, <2>3 DEF FullInv, BrowserInv, OneBrowserPerSession
  <2>4. QED
    BY <2>1, <2>2, <2>3
<1>8. FreshOnTheWay'
  <2> SUFFICES ASSUME NEW s \in Requests, NEW k \in Ids', Brings(s, k)'
               PROVE  /\ \A c \in Browsers : jar[c] # k
                      /\ \A q \in Requests : ~Carries(q, k)' /\ (Brings(q, k)' => q = s)
                      /\ ~Live(k)' => k <= cut[tokens'[k].owner]
                      /\ tokens'[k].login = k => \A m \in Ids' : tokens'[m].login = k => m = k
    BY DEF FreshOnTheWay
  <2>1. CASE k = n
    <3>1. \A m \in Ids : tokens'[m].login # n
      BY <1>1, <1>3
    <3>2. QED
      BY <1>1, <1>2, <2>1, <3>1
  <2>2. CASE k # n
    <3>1. k \in Ids /\ s # r /\ Brings(s, k)
      BY <1>1, <2>2 DEF Issues
    <3>2. /\ \A c \in Browsers : jar[c] # k
          /\ \A q \in Requests : ~Carries(q, k) /\ (Brings(q, k) => q = s)
          /\ ~Live(k) => k <= cut[tokens[k].owner]
          /\ tokens[k].login = k => \A m \in Ids : tokens[m].login = k => m = k
      BY <3>1 DEF FullInv, BrowserInv, FreshOnTheWay
    <3>3. \A q \in Requests : ~Carries(q, k)' /\ (Brings(q, k)' => q = s)
      BY <3>1, <3>2 DEF Issues
    <3>4. tokens[k].login = k => tokens'[n].login # k
      <4> SUFFICES ASSUME tokens[k].login = k, tokens'[n].login = k PROVE FALSE
        OBVIOUS
      <4>1. PICK old \in Ids : Carries(r, old) /\ tokens[old].login = k
        BY <1>1, <2>2 DEF Appended
      <4>2. QED
        BY <3>2, <4>1
    <3>5. tokens'[k] = tokens[k]
      BY <1>1, <3>1
    <3>6. ~Live(k)' => ~Live(k)
      BY <3>5 DEF Live
    <3>7. QED
      BY <1>1, <3>2, <3>3, <3>4, <3>5, <3>6
  <2>3. QED
    BY <2>1, <2>2
<1>9. QED
  BY <1>5, <1>7, <1>8

\* Other browsers know what they knew when a token is issued.
LEMMA AppendedElsewhere ==
    ASSUME FullInv, Inv', NEW r \in Requests, NEW b \in Browsers, NEW n, Appended(r, n), Issues(r, b, n),
           UNCHANGED <<jar, cut>>, OnlyAt(b),
           NEW c \in Browsers, c # b, c \notin troubled'
    PROVE  (Steady(c) /\ KnowsItsSessions(c))'
<1>1. Ids' = Ids \cup {n} /\ \A t \in Ids : tokens'[t] = tokens[t]
  BY DEF Appended
<1>2. c \notin troubled /\ Steady(c) /\ KnowsItsSessions(c)
  BY DEF OnlyAt, FullInv, BrowserInv, Untroubled
<1>3. Waiting(c)' = Waiting(c) /\ r \notin Waiting(c)
  BY BrowsersAssumption DEF Issues, Waiting
<1>4. \A q \in Waiting(c) :
         /\ req'[q] = req[q] /\ answer'[q] = answer[q]
         /\ \A k : Carries(q, k)' = Carries(q, k) /\ Brings(q, k)' = Brings(q, k)
         /\ At(q, "drop")' = At(q, "drop")
  BY <1>3 DEF Issues, Waiting
<1>5. /\ \A d \in Browsers : \A m \in Ids : Shown(d, m)' => Shown(d, m)
      /\ ~Shown(c, n)'
      /\ \A q \in Requests : Brings(q, n)' => q = r
  BY NewShown
<1>6. Steady(c)'
  <2>1. \A p, q \in Waiting(c)' : p = q
    BY <1>2, <1>3 DEF Steady
  <2>2. CASE jar[c] = 0
    BY <2>1, <2>2 DEF Steady
  <2>3. CASE jar[c] # 0
    <3>1. PICK k \in Ids : k = jar[c] /\ k = jar'[c]
      BY <2>3 DEF FullInv, BrowserTypeOK, TypeOK
    <3>2. /\ Waiting(c) = {} => Excused(k)
          /\ \A q \in Waiting(c) :
                /\ req[q] # Idle =>
                    /\ req[q].pc \in TokenPc => req[q].token = k
                    /\ req[q].pc = "drop" => tokens[k].owner = req[q].user
                    /\ req[q].pc \notin {"reuse", "expire", "rotate.check", "drop"} => Excused(k)
                /\ \A m \in Ids : answer[q] = {m} /\ tokens[m].parent # 0 => k = tokens[m].parent
      BY <1>2, <2>3, <3>1 DEF Steady
    <3>3. tokens'[k] = tokens[k] /\ (Excused(k) => Excused(jar[c])')
      BY <1>1, <3>1 DEF Excused, Live
    <3>4. \A q \in Waiting(c) : answer'[q] # {n}
      BY <1>3, <1>5 DEF Brings, Waiting
    <3>5. ASSUME NEW q \in Waiting(c), NEW m \in Ids', answer'[q] = {m}, tokens'[m].parent # 0
          PROVE  k = tokens'[m].parent
      <4>1. m \in Ids
        BY <1>1, <3>4, <3>5
      <4>2. QED
        BY <1>1, <1>4, <3>2, <3>5, <4>1
    <3>6. QED
      BY <1>3, <1>4, <2>1, <3>1, <3>2, <3>3, <3>5 DEF Steady
  <2>4. QED
    BY <2>2, <2>3
<1>7. KnowsItsSessions(c)'
  <2> SUFFICES ASSUME NEW m \in Ids', NEW k \in Ids', Shown(c, m)', Live(k)',
                      tokens'[k].login = tokens'[m].login
               PROVE  Shown(c, k)' \/ \E q \in Waiting(c) : At(q, "drop")
    BY <1>3, <1>4 DEF KnowsItsSessions
  <2>1. m \in Ids /\ Shown(c, m)
    BY <1>1, <1>5
  <2>2. CASE k = n
    <3>1. tokens[m].login \in Ids
      BY <2>1 DEF FullInv, BrowserInv, LoginsSound
    <3>2. tokens'[n].login # n
      BY <1>1, <2>1, <2>2, <3>1 DEF Appended
    <3>3. PICK old \in Ids : Carries(r, old) /\ tokens'[n].login = tokens[old].login
      BY <3>2 DEF Appended
    <3>4. Shown(b, old)
      BY <3>3, HoldersWait DEF FullInv, Issues
    <3>5. QED
      BY <1>1, <2>1, <2>2, <3>3, <3>4 DEF FullInv, BrowserInv, OneBrowserPerSession
  <2>3. CASE k # n
    <3>1. k \in Ids /\ Live(k) /\ tokens[k].login = tokens[m].login
      BY <1>1, <2>1, <2>3 DEF Live
    <3>2. Shown(c, k) \/ \E q \in Waiting(c) : At(q, "drop")
      BY <1>2, <2>1, <3>1 DEF KnowsItsSessions
    <3>3. QED
      BY <1>3, <1>4, <3>2 DEF Shown
  <2>4. QED
    BY <2>2, <2>3
<1>8. QED
  BY <1>6, <1>7

\* A token issued keeps the invariant if its own browser stays steady.
LEMMA AppendedKeeps ==
    ASSUME FullInv, Inv', BrowserTypeOK', NEW r \in Requests, NEW b \in Browsers, NEW n,
           Appended(r, n), Issues(r, b, n), UNCHANGED <<jar, cut, out>>, OnlyAt(b),
           ~At(r, "expire")', ~At(r, "rotate.issue")', req[r] # Idle, ~At(r, "drop"),
           b \notin troubled' => b \notin troubled /\ from'[r] = b /\ Brings(r, n)',
           Waiting(b) = {r} /\ Waiting(b)' = {r} /\ Steady(b) /\ b \notin troubled' => Steady(b)'
    PROVE  FullInv'
<1>1. Ids' = Ids \cup {n} /\ n \notin Ids /\ \A t \in Ids : tokens'[t] = tokens[t]
  BY DEF Appended
<1>2. LoginsSound' /\ OneBrowserPerSession' /\ FreshOnTheWay'
  BY AppendedShared
<1>3. ExpiredSound'
  <2> SUFFICES ASSUME NEW q \in Requests \ {r}, At(q, "expire"), req'[q] = req[q]
               PROVE  tokens'[req[q].token].isExpired
    BY DEF ExpiredSound, Issues, At
  <2>1. req[q].token \in Ids
    BY DEF FullInv, Inv, RequestsSound, Sound, HoldsToken, At, TokenPc
  <2>2. QED
    BY <1>1, <2>1 DEF FullInv, BrowserInv, ExpiredSound
<1>4. OutForGood'
  <2>1. tokens'[n].login \notin out
    BY <1>1 DEF Appended, FullInv, BrowserTypeOK
  <2>2. ASSUME NEW t \in Ids', tokens'[t].login \in out'
        PROVE  ~Live(t)'
    <3>1. t \in Ids /\ tokens'[t] = tokens[t]
      BY <1>1, <2>1, <2>2
    <3>2. QED
      BY <2>2, <3>1 DEF FullInv, BrowserInv, OutForGood, Live
  <2>3. ASSUME NEW q \in Requests, At(q, "rotate.issue")'
        PROVE  tokens'[req'[q].token].login \notin out'
    <3>1. At(q, "rotate.issue") /\ req'[q] = req[q]
      BY <2>3 DEF Issues, At
    <3>2. req[q].token \in Ids
      BY <3>1 DEF FullInv, Inv, RequestsSound, Sound, HoldsToken, At, TokenPc
    <3>3. QED
      BY <1>1, <3>1, <3>2 DEF FullInv, BrowserInv, OutForGood
  <2>4. QED
    BY <2>2, <2>3 DEF OutForGood
<1>5. ASSUME b \notin troubled'
      PROVE  (Steady(b) /\ KnowsItsSessions(b))'
  <2>1. r \in Waiting(b)
    BY DEF Issues, Waiting
  <2>2. Waiting(b) = {r} /\ Steady(b) /\ KnowsItsSessions(b)
    BY <1>5, <2>1, AloneWaits
  <2>3. Waiting(b)' = {r}
    BY <1>5, <2>2 DEF Issues, Waiting
  <2>4. Steady(b)'
    BY <1>5, <2>2, <2>3
  <2>5. Shown(b, n)'
    BY <1>5, <2>3 DEF Shown
  <2>6. KnowsItsSessions(b)'
    <3> SUFFICES ASSUME NEW m \in Ids', NEW k \in Ids, Shown(b, m)', Live(k)',
                        tokens'[k].login = tokens'[m].login
                 PROVE  Shown(b, k)'
      BY <1>1, <2>5 DEF KnowsItsSessions
    <3>1. PICK l \in Ids : Shown(b, l) /\ tokens[l].login = tokens[k].login
      <4>1. CASE m # n
        <5>1. m \in Ids /\ Shown(b, m)
          BY <1>1, <4>1, NewShown
        <5>2. QED
          BY <1>1, <5>1
      <4>2. CASE m = n
        <5>1. tokens'[k].login \in Ids
          BY <1>1 DEF FullInv, BrowserInv, LoginsSound
        <5>2. PICK old \in Ids : Carries(r, old) /\ tokens'[n].login = tokens[old].login
          BY <1>1, <4>2, <5>1 DEF Appended
        <5>3. Shown(b, old)
          BY <5>2, HoldersWait DEF FullInv, Issues
        <5>4. QED
          BY <1>1, <4>2, <5>2, <5>3
      <4>3. QED
        BY <4>1, <4>2
    <3>2. Live(k) /\ tokens[k].login = tokens[l].login
      BY <1>1, <3>1 DEF Live
    <3>3. Shown(b, k)
      BY <2>2, <3>1, <3>2 DEF KnowsItsSessions
    <3>4. jar[b] = k \/ Carries(r, k)
      BY <2>2, <3>3 DEF Shown, Issues
    <3>5. QED
      BY <2>3, <3>4 DEF Shown, Issues
  <2>7. QED
    BY <2>4, <2>6
<1>6. Untroubled'
  <2> SUFFICES ASSUME NEW c \in Browsers, c \notin troubled'
               PROVE  (Steady(c) /\ KnowsItsSessions(c))'
    BY DEF Untroubled
  <2>1. CASE c = b
    BY <1>5, <2>1
  <2>2. CASE c # b
    BY <2>2, AppendedElsewhere
  <2>3. QED
    BY <2>1, <2>2
<1>7. QED
  BY <1>2, <1>3, <1>4, <1>6 DEF FullInv, BrowserInv

\* What Create gives, in the terms above.
LEMMA CreateAppends ==
    ASSUME FullInv, NEW r \in Requests, NEW u \in Users, NEW parent \in Nat, NEW login \in Nat,
           NEW p \in Passwords, NEW n, n = Len(tokens) + 1, Create(u, parent, login, p),
           \/ parent = 0 /\ login = n
           \/ /\ parent \in Ids /\ Carries(r, parent) /\ u = tokens[parent].owner
              /\ login = tokens[parent].login /\ login \notin out
    PROVE  Appended(r, n)
<1>1. tokens \in Seq(Row)
  BY DEF FullInv, Inv, TableInv
<1>2. /\ DOMAIN tokens' = 1..n
      /\ \A t \in Ids : tokens'[t] = tokens[t]
      /\ tokens'[n] =
           [owner |-> u, isRevoked |-> FALSE, isExpired |-> FALSE, replacedBy |-> 0,
            parent |-> parent, login |-> login, openedWith |-> p]
  BY <1>1, CreateRows
<1>3. Len(tokens) \in Nat /\ Ids = 1..Len(tokens)
  BY <1>1 DEF Ids
<1>4. /\ Ids' = Ids \cup {n} /\ n \notin Ids /\ n \in Nat \ {0} /\ \A t \in Ids : t < n
  BY <1>2, <1>3 DEF Ids
<1>5. QED
  BY <1>2, <1>4 DEF Appended, Live

\* A request that changes as Changes says is the only one to change.
LEMMA IssuesNow ==
    ASSUME FullInv, NEW r \in Requests, req[r] # Idle, NEW b \in Browsers, b = from[r],
           NEW n, NEW state, NEW f \in {b, Nobody}, NEW a, Changes(r, state, f, a),
           \A m \in Ids : (Carries(r, m)' <=> Carries(r, m)) /\ ~Brings(r, m) /\ ~Brings(r, m)',
           ~Carries(r, n)'
    PROVE  Issues(r, b, n)
BY ChangesElsewhere DEF Issues

\* login: the new token opens a session of its own.
LEMMA LoggedInStep ==
    ASSUME FullInv, Inv', NEW r \in Requests, LoginIssue(r),
           Answer(r, handedOut' \ handedOut), UNCHANGED <<jar, out>>
    PROVE  FullInv'
<1>1. /\ req[r] # Idle /\ req[r].pc = "login.issue" /\ Finish(r) /\ UNCHANGED cut
  BY DEF LoginIssue, At
<1> PICK b \in Browsers : b = from[r]
  BY <1>1, ServedBrowser
<1>2. /\ tokens \in Seq(Row) /\ Len(tokens) \in Nat /\ Ids = 1..Len(tokens) /\ handedOut \subseteq Ids
  BY DEF FullInv, Inv, TypeOK, TableInv, Ids
<1> PICK n \in Nat \ {0} : n = Len(tokens) + 1
  BY <1>2
<1>3. req[r].user \in Users /\ req[r].password \in Passwords
  BY <1>1, RequestShape DEF FullInv, Inv
<1>4. Create(req[r].user, 0, n, req[r].password)
  BY DEF LoginIssue
<1>5. Appended(r, n)
  BY <1>3, <1>4, CreateAppends
<1>6. tokens'[n].parent = 0 /\ Ids' = Ids \cup {n} /\ n \notin Ids
  <2>1. tokens'[n] =
          [owner |-> req[r].user, isRevoked |-> FALSE, isExpired |-> FALSE, replacedBy |-> 0,
           parent |-> 0, login |-> n, openedWith |-> req[r].password]
    BY <1>2, <1>3, <1>4, CreateRows
  <2>2. QED
    BY <1>5, <2>1 DEF Appended
<1>7. PICK a \in {{}, {n}} : /\ a = handedOut' \ handedOut
                             /\ handedOut' = handedOut \cup a /\ handedOut' \subseteq Ids'
  BY <1>2, <1>6 DEF LoginIssue
<1>8. PICK f \in {b, Nobody} :
         /\ Changes(r, Idle, f, a)
         /\ \/ f = b /\ a # {} /\ troubled' = troubled
            \/ f = Nobody /\ a = {} /\ troubled' = troubled \cup {b}
  BY <1>1, <1>7, AnswerChanges
<1>9. req'[r] = Idle /\ from'[r] = f /\ answer'[r] = a
  BY <1>8, ChangesElsewhere
<1>10. /\ \A m \in Ids : ~Carries(r, m) /\ ~Carries(r, m)' /\ ~Brings(r, m) /\ ~Brings(r, m)'
       /\ ~Carries(r, n)'
       /\ Brings(r, n)' <=> a = {n}
  <2>1. answer[r] = {}
    BY <1>1, ServedBrowser
  <2>2. \A m \in Ids : a # {m}
    BY <1>6, <1>7
  <2>3. QED
    BY <1>1, <1>9, <2>1, <2>2 DEF Carries, Brings, TokenPc
<1>11. Issues(r, b, n)
  BY <1>1, <1>8, <1>10, IssuesNow
<1>12. OnlyAt(b) /\ troubled' \subseteq Browsers
  BY <1>8 DEF OnlyAt, FullInv, BrowserTypeOK
<1>13. b # Nobody
  BY BrowsersAssumption
<1>14. BrowserTypeOK'
  <2>1. a \in {{}} \cup {{c} : c \in handedOut' \cup {0}}
    BY <1>7
  <2>2. jar' \in [Browsers -> handedOut' \cup {0}] /\ out' \subseteq Ids'
        /\ handedOut \subseteq handedOut' /\ Ids \subseteq Ids'
    BY <1>6, <1>7 DEF FullInv, BrowserTypeOK
  <2>3. f \in Browsers \cup {Nobody} /\ (a # {} => f # Nobody)
    BY <1>8, <1>13
  <2>4. QED
    BY <1>8, <1>12, <2>1, <2>2, <2>3, TypedAfter
<1>15. ASSUME Waiting(b)' = {r}, b \notin troubled'
       PROVE  Steady(b)'
  <2>1. \A p, q \in Waiting(b)' : p = q
    BY <1>15
  <2>2. \A m \in Ids' : answer'[r] = {m} => tokens'[m].parent = 0
    BY <1>6, <1>7, <1>9
  <2>3. QED
    BY <1>9, <1>15, <2>1, <2>2 DEF Steady
<1>16. b \notin troubled' => b \notin troubled /\ from'[r] = b /\ Brings(r, n)'
  BY <1>7, <1>8, <1>9, <1>10
<1>17. ~At(r, "expire")' /\ ~At(r, "rotate.issue")' /\ ~At(r, "drop")
  BY <1>1, <1>9 DEF At
<1>18. QED
  BY <1>1, <1>5, <1>11, <1>12, <1>14, <1>15, <1>16, <1>17, AppendedKeeps

\* refresh: the successor continues the session of the token it was given.
LEMMA RotateIssueStep ==
    ASSUME FullInv, Inv', NEW r \in Requests, RotateIssue(r), req'[r] # Idle,
           UNCHANGED browserVars
    PROVE  FullInv'
<1>1. /\ req[r] # Idle /\ req[r].pc = "rotate.issue" /\ UNCHANGED <<cut, handedOut>>
      /\ UNCHANGED <<jar, from, answer, troubled, out>>
  BY DEF RotateIssue, At, browserVars
<1> PICK b \in Browsers : b = from[r]
  BY <1>1, ServedBrowser
<1>2. /\ tokens \in Seq(Row) /\ Len(tokens) \in Nat
  BY DEF FullInv, Inv, TableInv
<1> PICK n \in Nat \ {0} : n = Len(tokens) + 1
  BY <1>2
<1>3. HoldsToken(r)
  BY <1>1 DEF FullInv, Inv, RequestsSound, Sound, TokenPc
<1> PICK old \in Ids : old = req[r].token
  BY <1>3 DEF HoldsToken
<1>4. /\ tokens[old].owner = req[r].user /\ req[r].user \in Users
      /\ old \in Nat /\ tokens[old].login \in Nat /\ tokens[old].openedWith \in Passwords
      /\ tokens[old].login \notin out
  <2>1. tokens[old].login \notin out
    BY <1>1 DEF FullInv, BrowserInv, OutForGood, At
  <2>2. QED
    BY <1>1, <1>2, <1>3, <2>1, RowFields, RequestShape DEF HoldsToken, FullInv, Inv
<1>5. Carries(r, old) /\ answer[r] = {} /\ \A m : (Carries(r, m) <=> m = old) /\ ~Brings(r, m)
  BY <1>1, ServedBrowser DEF Carries, Brings, TokenPc
<1>6. Create(req[r].user, old, tokens[old].login, tokens[old].openedWith)
  BY DEF RotateIssue
<1>7. Appended(r, n)
  BY <1>4, <1>5, <1>6, CreateAppends
<1>8. Ids' = Ids \cup {n} /\ n \notin Ids /\ \A t \in Ids : tokens'[t] = tokens[t]
  BY <1>7 DEF Appended
<1> DEFINE state == [pc |-> "rotate.revoke", user |-> req[r].user, token |-> req[r].token, new |-> Len(tokens) + 1]
<1>9. Goto(r, state) /\ state.pc = "rotate.revoke" /\ state.token = old /\ state.new = n
  BY DEF RotateIssue
<1> HIDE DEF state
<1>10. Changes(r, state, b, {})
  BY <1>1, <1>5, <1>9 DEF Changes, Goto, FullInv, BrowserTypeOK
<1>11. req'[r] = state /\ from'[r] = b /\ answer'[r] = {} /\ state # Idle
  <2>1. req'[r] = state /\ from'[r] = b /\ answer'[r] = {}
    BY <1>10, ChangesElsewhere
  <2>2. state # Idle
    BY <2>1
  <2>3. QED
    BY <2>1, <2>2
<1>12. \A m : (Carries(r, m)' <=> m = old) /\ (Brings(r, m)' <=> m = n)
  BY <1>9, <1>11 DEF Carries, Brings, TokenPc
<1>13. Issues(r, b, n)
  BY <1>1, <1>5, <1>8, <1>10, <1>12, IssuesNow
<1>14. OnlyAt(b)
  BY <1>1 DEF OnlyAt
<1>15. b # Nobody
  BY BrowsersAssumption
<1>16. BrowserTypeOK'
  <2>1. jar' \in [Browsers -> handedOut' \cup {0}] /\ out' \subseteq Ids' /\ troubled' \subseteq Browsers
        /\ handedOut \subseteq handedOut' /\ Ids \subseteq Ids'
    BY <1>1, <1>8 DEF FullInv, BrowserTypeOK
  <2>2. state # Idle => b # Nobody /\ {} = {}
    BY <1>15
  <2>3. QED
    BY <1>10, <2>1, <2>2, TypedAfter
<1>17. ASSUME Waiting(b) = {r}, Waiting(b)' = {r}, Steady(b), b \notin troubled'
       PROVE  Steady(b)'
  <2>1. \A p, q \in Waiting(b)' : p = q
    BY <1>17
  <2>2. CASE jar[b] = 0
    BY <1>1, <2>1, <2>2 DEF Steady
  <2>3. CASE jar[b] # 0
    <3>1. old = jar[b] /\ Excused(old)
      BY <1>1, <1>17, <2>3 DEF Steady, TokenPc
    <3>2. Excused(jar[b])'
      BY <1>1, <1>8, <3>1 DEF Excused, Live
    <3>3. req'[r].pc = "rotate.revoke" /\ req'[r].token = jar'[b] /\ \A m : answer'[r] # {m}
      BY <1>1, <1>9, <1>11, <3>1
    <3>4. QED
      BY <1>17, <2>1, <3>2, <3>3 DEF Steady
  <2>4. QED
    BY <2>2, <2>3
<1>18. b \notin troubled' => b \notin troubled /\ from'[r] = b /\ Brings(r, n)'
  BY <1>1, <1>11, <1>12
<1>19. ~At(r, "expire")' /\ ~At(r, "rotate.issue")' /\ ~At(r, "drop")
  BY <1>1, <1>9, <1>11 DEF At
<1>20. QED
  BY <1>1, <1>7, <1>13, <1>14, <1>16, <1>17, <1>18, <1>19, AppendedKeeps

-----------------------------------------------------------------------------
(***************************************************************************)
(* All steps together.                                                     *)
(***************************************************************************)

\* Every step of the server keeps the invariant.
LEMMA ServedStep ==
    ASSUME FullInv, Inv', NEW r \in Requests, ServerStep(r)
    PROVE  FullInv'
<1>1. CASE SetCookie(r)
  BY <1>1, LoggedInStep, RefreshedStep DEF SetCookie
<1>2. CASE ClearCookie(r)
  <2>1. PICK a \in {{}, {0}} : Answer(r, a)
    BY <1>2 DEF ClearCookie
  <2>2. QED
    BY <1>2, <2>1, SignedOutStep, SignedOutEverywhereStep DEF ClearCookie
<1>3. CASE LeaveCookie(r)
  BY <1>3, LeaveCookieStep
<1>4. CASE GoOn(r)
  BY <1>4, RotateIssueStep, GoOnStep DEF GoOn
<1>5. QED
  BY <1>1, <1>2, <1>3, <1>4 DEF ServerStep

\* Whatever browsers and answers do, the server's part is a step of Sessions.
LEMMA SessionsStep ==
    ASSUME FullInv, [BrowserNext]_bvars
    PROVE  [Next]_vars
<1>1. ASSUME NEW b \in Browsers, NEW r \in Requests, BrowserStep(b, r)
      PROVE  [Next]_vars
  <2>1. Home[b] \subseteq Users
    BY BrowsersAssumption
  <2>2. jar[b] # 0 => jar[b] \in Ids
    BY DEF FullInv, BrowserTypeOK, TypeOK
  <2>3. Arrive(r) \/ UNCHANGED vars
    BY <1>1, <2>1, <2>2
       DEF BrowserStep, SignIn, Refresh, SignOut, SignOutAgain, SignOutEverywhere, ResetFrom, Arrive
  <2>4. QED
    BY <2>3 DEF Next
<1>2. ASSUME NEW r \in Requests, ServerStep(r)
      PROVE  [Next]_vars
  <2>1. Step(r)
    BY <1>2 DEF ServerStep, SetCookie, ClearCookie, LeaveCookie, GoOn, Step
  <2>2. QED
    BY <2>1 DEF Next
<1>3. ASSUME NEW r \in Requests, AbortAnswer(r) \/ Deliver(r)
      PROVE  [Next]_vars
  BY <1>3 DEF AbortAnswer, Deliver, Next
<1>4. ASSUME NEW b \in Browsers, CookieExpire(b)
      PROVE  [Next]_vars
  BY <1>4 DEF CookieExpire
<1>5. CASE (\E t \in Ids : Expire(t)) \/ (AccountNext /\ UNCHANGED sessionVars)
  BY <1>5 DEF Next
<1>6. CASE UNCHANGED bvars
  BY <1>6 DEF bvars
<1>7. QED
  BY <1>1, <1>2, <1>3, <1>4, <1>5, <1>6 DEF BrowserNext

\* The invariant holds before anybody signs in.
LEMMA FullInit ==
    ASSUME BrowserInit
    PROVE  FullInv
<1>1. Inv
  BY InvInit DEF BrowserInit
<1>2. /\ Ids = {} /\ handedOut = {} /\ jar = [b \in Browsers |-> 0]
      /\ from = [r \in Requests |-> Nobody] /\ answer = [r \in Requests |-> {}]
      /\ req = [r \in Requests |-> Idle] /\ troubled = {} /\ out = {}
  BY DEF BrowserInit, Init, Ids
<1>3. BrowserTypeOK
  BY <1>1, <1>2 DEF BrowserTypeOK, Inv
<1>4. LoginsSound /\ ExpiredSound /\ OneBrowserPerSession /\ FreshOnTheWay /\ OutForGood
  BY <1>2 DEF LoginsSound, ExpiredSound, OneBrowserPerSession, FreshOnTheWay, OutForGood, At
<1>5. \A b \in Browsers : Waiting(b) = {} /\ jar[b] = 0
  BY <1>2, BrowsersAssumption DEF Waiting
<1>6. Untroubled
  BY <1>2, <1>5 DEF Untroubled, Steady, KnowsItsSessions
<1>7. QED
  BY <1>1, <1>3, <1>4, <1>6 DEF FullInv, BrowserInv

\* Every step keeps the invariant.
LEMMA FullStep ==
    ASSUME FullInv, [BrowserNext]_bvars
    PROVE  FullInv'
<1>1. Inv'
  BY SessionsStep, InvStep DEF FullInv
<1>2. ASSUME NEW b \in Browsers, NEW r \in Requests, BrowserStep(b, r)
      PROVE  FullInv'
  BY <1>1, <1>2, LeavingStep, SignOutAgainStep DEF BrowserStep
<1>3. ASSUME NEW r \in Requests, ServerStep(r) \/ AbortAnswer(r) \/ Deliver(r)
      PROVE  FullInv'
  BY <1>1, <1>3, ServedStep, AbortAnswerStep, DeliverStep
<1>4. QED
  BY <1>1, <1>2, <1>3, StillStep DEF BrowserNext

-----------------------------------------------------------------------------
(***************************************************************************)
(* The theorems.                                                           *)
(***************************************************************************)

\* The invariant holds of every reachable state, whatever the constants.
THEOREM BrowserInvariant == BrowserSpec => []FullInv
BY FullInit, FullStep, PTL DEF BrowserSpec

\* Browsers, cookies and answers only restrict which requests arrive: whatever
\* holds of Spec holds of the whole.
THEOREM BrowsersImplementSessions == BrowserSpec => Spec
<1>1. BrowserInit => Init
  BY DEF BrowserInit
<1>2. FullInv /\ [BrowserNext]_bvars => [Next]_vars
  BY SessionsStep
<1>3. QED
  BY <1>1, <1>2, BrowserInvariant, PTL DEF BrowserSpec, Spec

\* Every cookie is a token that was handed out, and an answer on its way has a
\* browser that waits for it.
THEOREM BrowserTypeCorrect == BrowserSpec => []BrowserTypeOK
<1>1. FullInv => BrowserTypeOK
  BY DEF FullInv
<1>2. QED
  BY <1>1, BrowserInvariant, PTL

\* An honest browser that presents a revoked token has a reason.
THEOREM StaleCookiesExplained == BrowserSpec => []StaleCookiesHaveAReason
<1>1. FullInv => StaleCookiesHaveAReason
  <2> SUFFICES ASSUME FullInv, NEW b \in Browsers, jar[b] # 0, ~Live(jar[b]),
                      Waiting(b) = {}, b \notin troubled
               PROVE  jar[b] <= cut[tokens[jar[b]].owner] \/ tokens[jar[b]].isExpired
    BY DEF StaleCookiesHaveAReason
  <2>1. Excused(jar[b])
    BY DEF FullInv, BrowserInv, Untroubled, Steady
  <2>2. QED
    BY <2>1 DEF Excused
<1>2. QED
  BY <1>1, BrowserInvariant, PTL

\* A session signed out from an untroubled browser has no token alive.
THEOREM SignOutsHold == BrowserSpec => []SignedOutSessionsEnd
<1>1. FullInv => SignedOutSessionsEnd
  BY DEF FullInv, BrowserInv, OutForGood, SignedOutSessionsEnd
<1>2. QED
  BY <1>1, BrowserInvariant, PTL

=============================================================================
