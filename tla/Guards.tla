-------------------------------- MODULE Guards --------------------------------
(***************************************************************************)
(* The way of a request through the global guards to its handler, on the   *)
(* routes that ask for a permission: JwtAuthGuard reads the user's row,    *)
(* PermissionsGuard the names through PermissionCache (slot q of Readers   *)
(* serves call q), and only then the handler runs.  Here the changes of    *)
(* Rbac come from admitted calls alone, so a verdict decides what the      *)
(* tables will hold, and with it later verdicts.                           *)
(*                                                                         *)
(* Not in the model: public routes and routes without @RequirePermission,  *)
(* which never ask the cache, the rate limit, and the access token, taken  *)
(* to be genuine and not expired.  The routes that change the tables ask   *)
(* for role:... and permission:... names, here all for one, Manage.        *)
(***************************************************************************)
EXTENDS PermissionCache

CONSTANT Manage \* the permission that the routes with a change ask for

ASSUME GuardsAssumption == Manage \in Names

VARIABLE call \* the requests before their handlers

gvars == <<vars, call>>

Call == [pc: {"authorize", "handler"}, user: Users, need: Names,
         held: SUBSET BOOLEAN] \* (h) was it granted? the answers since authentication

ASSUME EmptyCallAssumption == Idle \notin Call

CallAt(q, pc) == call[q] # Idle /\ call[q].pc = pc

GuardsTypeOK ==
    /\ TypeOK
    /\ call \in [Readers -> {Idle} \cup Call]
    \* only a call before PermissionsGuard reads names, and for its own user
    /\ \A q \in Readers :
          reader[q] # Idle => CallAt(q, "authorize") /\ reader[q].user = call[q].user

GuardsInit ==
    /\ Init
    /\ call = [q \in Readers |-> Idle]

Granted == [u \in Users |-> PermissionNames(u)]

\* The calls go on as c says and see what the tables hold after this step.
Calls(c) ==
    call' = [q \in Readers |->
                IF c[q] = Idle \/ c[q].pc = "handler" THEN c[q]
                ELSE [c[q] EXCEPT !.held = @ \cup {(c[q].need \in Granted'[c[q].user])}]]

Leave(q) == [call EXCEPT ![q] = Idle]

-----------------------------------------------------------------------------

\* JwtStrategy.validate finds the user active; otherwise, 401, nothing changes.
Authenticate(q, u, n) ==
    /\ call[q] = Idle
    /\ call' = [call EXCEPT ![q] = [pc |-> "authorize", user |-> u, need |-> n,
                                    held |-> {(n \in Granted[u])}]]
    /\ UNCHANGED vars

DecideByAnyName(q, names) ==
    call' = IF names # {} THEN [call EXCEPT ![q].pc = "handler", ![q].held = {}] ELSE Leave(q)

\* PermissionsGuard.canActivate: 403 if the name is missing.
Decide(q, names) ==
    call' = IF call[q].need \in names
            THEN [call EXCEPT ![q].pc = "handler", ![q].held = {}]
            ELSE Leave(q)

HitWithoutAwait(q) ==
    /\ CallAt(q, "authorize")
    /\ cache[call[q].user] # Empty
    /\ Decide(q, cache[call[q].user].names)
    /\ UNCHANGED vars

Hit(q) ==
    /\ CallAt(q, "authorize") /\ reader[q] = Idle
    /\ cache[call[q].user] # Empty
    /\ Decide(q, cache[call[q].user].names)
    /\ UNCHANGED vars

Miss(q) ==
    /\ CallAt(q, "authorize")
    /\ CacheMiss(q, call[q].user)
    /\ UNCHANGED call

Query(q) == ReaderQuery(q) /\ UNCHANGED call

\* set() never rejects, so the names read from the tables decide either way.
SetAndDecide(q) ==
    /\ ReaderSet(q)
    /\ Decide(q, reader[q].names)

\* The query fails: 500.
QueryFails(q) ==
    /\ reader[q] # Idle /\ reader[q].pc = "query"
    /\ ReaderAbort(q)
    /\ call' = Leave(q)

\* The handler of a route with a change starts it, or refuses (404, 409) and
\* ends; the other handlers change none of the tables.
HandleChange(q) ==
    /\ CallAt(q, "handler") /\ call[q].need = Manage
    /\ \/ \E a \in Changes : ChangeFind(a)
       \/ \E r \in Roles : RoleCreate(r)
       \/ \E p \in Permissions, n \in Names : PermissionCreate(p, n)
    /\ Calls(Leave(q))
    /\ UNCHANGED cacheVars

HandleOther(q) ==
    /\ CallAt(q, "handler")
    /\ call' = Leave(q)
    /\ UNCHANGED vars

CallStep(q) ==
    \/ Hit(q) \/ Miss(q) \/ Query(q) \/ SetAndDecide(q) \/ QueryFails(q)
    \/ HandleChange(q) \/ HandleOther(q)

ChangeGoesOn(a) ==
    /\ ChangeStep(a) \/ ChangeAbort(a)
    /\ Calls(call)
    /\ UNCHANGED cacheVars

GuardsNext ==
    \/ \E q \in Readers : CallStep(q) \/ \E u \in Users, n \in Names : Authenticate(q, u, n)
    \/ \E a \in Changes : ChangeGoesOn(a) \/ (Invalidate(a) /\ UNCHANGED call)
    \/ \E u \in Users : CacheExpire(u) /\ UNCHANGED call

GuardsSpec == GuardsInit /\ [][GuardsNext]_gvars

-----------------------------------------------------------------------------
(***************************************************************************)
(* Properties.                                                             *)
(***************************************************************************)

\* Whether PermissionsGuard admits or refuses, the tables gave that answer at
\* some moment since the user was authenticated - "assign/revoke role ke user
\* langsung berlaku di request berikutnya" (README.md:735) - as long as Redis
\* answers and one change runs at a time.  The exceptions are a hit on an entry that a
\* written change is about to drop, and on one set across an invalidation.
VerdictsWereTrue ==
    [][\A q \in Readers :
         LET u == call[q].user
             refused == call'[q] = Idle /\ (reader[q] = Idle \/ reader[q].pc = "set")
         IN CallAt(q, "authorize") /\ (CallAt(q, "handler")' \/ refused) =>
               \/ (~refused) \in call[q].held
               \/ reader[q] = Idle /\ (cache[u].late \/ \E a \in Changes : WillInvalidate(a, u))]_gvars

=============================================================================
