--------------------------- MODULE PermissionCache ---------------------------
(***************************************************************************)
(* Which permissions a request is granted: AuthorizationService reads the  *)
(* names through a cache in Redis (cache-aside, with a TTL) that the       *)
(* changes of Rbac invalidate.                                             *)
(*                                                                         *)
(* A failing Redis never fails a request: GET falls back to the database,  *)
(* SET and DEL are given up, DEL too after the tables have changed.        *)
(***************************************************************************)
EXTENDS Rbac

CONSTANTS
    Readers,    \* slots for requests that PermissionsGuard is checking
    RedisFails, \* may a command to Redis fail?
    Empty       \* no entry

ASSUME CacheAssumption == RedisFails \in BOOLEAN

VARIABLES
    cache, \* permissions:user:<id>
    reader \* the requests being checked

cacheVars == <<cache, reader>>
vars == <<rbacVars, cacheVars>>

Entry == [names: SUBSET Names,
          late: BOOLEAN] \* (h) set by a reader that crossed an invalidation
Reader == [pc: {"query"}, user: Users]
             \cup [pc: {"set"}, user: Users, names: SUBSET Names,
                   crossed: BOOLEAN] \* (h) user was invalidated since the query

TypeOK ==
    /\ RbacTypeOK
    /\ cache \in [Users -> {Empty} \cup Entry]
    /\ reader \in [Readers -> {Idle} \cup Reader]

Init ==
    /\ RbacInit
    /\ cache = [u \in Users |-> Empty]
    /\ reader = [q \in Readers |-> Idle]

-----------------------------------------------------------------------------
(***************************************************************************)
(* getUserPermissionNames                                                  *)
(***************************************************************************)

\* A hit answers from the cache and changes nothing; only a miss, or an error
\* of Redis, goes on to the database.
CacheMiss(q, u) ==
    /\ reader[q] = Idle
    /\ cache[u] = Empty \/ RedisFails
    /\ reader' = [reader EXCEPT ![q] = [pc |-> "query", user |-> u]]
    /\ UNCHANGED <<rbacVars, cache>>

ReaderQuery(q) ==
    /\ reader[q] # Idle /\ reader[q].pc = "query"
    /\ reader' = [reader EXCEPT ![q] =
          [pc |-> "set", user |-> reader[q].user,
           names |-> PermissionNames(reader[q].user), crossed |-> FALSE]]
    /\ UNCHANGED <<rbacVars, cache>>

\* SET key names EX ttl
ReaderSet(q) ==
    /\ reader[q] # Idle /\ reader[q].pc = "set"
    /\ \/ cache' = [cache EXCEPT ![reader[q].user] =
                       [names |-> reader[q].names, late |-> reader[q].crossed]]
       \/ RedisFails /\ UNCHANGED cache
    /\ reader' = [reader EXCEPT ![q] = Idle]
    /\ UNCHANGED rbacVars

\* The query fails or the process dies.
ReaderAbort(q) ==
    /\ reader[q] # Idle
    /\ reader' = [reader EXCEPT ![q] = Idle]
    /\ UNCHANGED <<rbacVars, cache>>

-----------------------------------------------------------------------------

\* invalidateUser, invalidateUsers: one DEL of all the keys, or none.
Invalidate(a) ==
    /\ Invalidating(a)
    /\ Finish(a)
    /\ UNCHANGED tableVars
    /\ \/ /\ cache' = [u \in Users |-> IF u \in change[a].affected THEN Empty ELSE cache[u]]
          /\ reader' = [q \in Readers |->
                IF reader[q] # Idle /\ reader[q].pc = "set" /\ reader[q].user \in change[a].affected
                THEN [reader[q] EXCEPT !.crossed = TRUE]
                ELSE reader[q]]
       \/ RedisFails /\ UNCHANGED cacheVars

CacheExpireNever(u) == FALSE /\ cache[u] = Empty /\ UNCHANGED vars

\* Redis drops the entry when its TTL is over.
CacheExpire(u) ==
    /\ cache[u] # Empty
    /\ cache' = [cache EXCEPT ![u] = Empty]
    /\ UNCHANGED <<rbacVars, reader>>

ReaderStep(q) == ReaderQuery(q) \/ ReaderSet(q)

Next ==
    \/ RbacStep /\ UNCHANGED cacheVars
    \/ \E a \in Changes : Invalidate(a)
    \/ \E q \in Readers : (\E u \in Users : CacheMiss(q, u)) \/ ReaderStep(q) \/ ReaderAbort(q)
    \/ \E u \in Users : CacheExpire(u)

Spec == Init /\ [][Next]_vars

\* A statement sent is answered, a key set with EX expires.
CacheFairness ==
    /\ \A q \in Readers : WF_vars(ReaderStep(q))
    /\ \A u \in Users : WF_vars(CacheExpire(u))

-----------------------------------------------------------------------------
(***************************************************************************)
(* Properties.                                                             *)
(***************************************************************************)

Fresh(u) == cache[u] = Empty \/ cache[u].names = PermissionNames(u)

\* The change has written the tables and will drop the entry of u.
WillInvalidate(a, u) ==
    \/ Invalidating(a) /\ u \in change[a].affected
    \/ ChangeAt(a, "sync", "list") /\ u \in Holders(change[a].role)
    \/ ChangeAt(a, "rename", "list") /\ u \in AffectedBy(change[a].permission)

\* One change at a time and a Redis that answers: an entry is out of date only
\* while the change that made it so has still to invalidate it, or if a reader
\* that queried the tables before that invalidation set it afterwards.
StaleOnlyByRace ==
    \A u \in Users : \/ Fresh(u)
                     \/ cache[u].late
                     \/ \E a \in Changes : WillInvalidate(a, u)

\* The TTL is the safety net authorization.service.ts calls it: whatever went
\* wrong, once the tables rest every entry is dropped or right again for good.
StalenessEnds == <>[][UNCHANGED tableVars]_vars => \A u \in Users : <>[]Fresh(u)

\* What authorization.service.ts says: a change takes effect at once.  When no
\* change is in flight every entry is right.
ChangesTakeEffect == (\A a \in Changes : change[a] = Idle) => \A u \in Users : Fresh(u)

=============================================================================
