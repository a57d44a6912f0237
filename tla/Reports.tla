------------------------------- MODULE Reports -------------------------------
(***************************************************************************)
(* What administrators read while others write: GET /users and GET         *)
(* /audit-logs page by page, and the figures of GET /dashboard/summary.    *)
(*                                                                         *)
(* paginate() sends the query for the rows and the one for their number    *)
(* side by side, getSummary() six of them; each sees the tables as they    *)
(* are when it runs.  A walk is a client that asks for one page after the  *)
(* other until totalPages.  Lists are sorted by created_at; rows are taken *)
(* to appear in the order of that column, with no two alike.  The search   *)
(* term, which always selects the same rows, is left out, and so are the   *)
(* figures of the dashboard that stand alone (roles, permissions, verified *)
(* users, latest log entries).                                             *)
(*                                                                         *)
(* Definitions named for a slip (toOffsetFromZero, totalPagesFloored, ...)  *)
(* are used by no action.                                                  *)
(***************************************************************************)
EXTENDS Accounts, SequencesExt

CONSTANTS
    Viewers,    \* slots for clients that read
    Limits,     \* page sizes they ask for
    InitialLog, \* rows of audit_logs at the start
    MaxLog,     \* bound: no row is recorded beyond this many
    NoFilter,   \* the filter is_active is not set
    NotRead     \* a query that has not answered yet

ASSUME ReportsAssumption ==
    /\ IsFiniteSet(Registered)
    /\ Limits \subseteq 1..100   \* PaginationQueryDto
    /\ InitialLog \in Nat /\ MaxLog \in Nat /\ InitialLog <= MaxLog

VARIABLES
    order, \* the rows of users by created_at, oldest first
    log,   \* number of rows of audit_logs, which are only ever added to
    view   \* the requests that read

reportVars == <<accountVars, order, log, view>>

-----------------------------------------------------------------------------
(***************************************************************************)
(* The queries.  They are given the state they see, so that a step can     *)
(* tell what it does to a list someone is reading.                         *)
(***************************************************************************)

\* UsersRepository.findAll: the rows its WHERE lets through, oldest first; the
\* k-th of them is the one that makes them k.
ListedUsers(filter, active, deleted, byAge) ==
    LET selected == {i \in DOMAIN byAge :
                        ~deleted[byAge[i]] /\ filter \in {NoFilter, active[byAge[i]]}}
    IN  [k \in 1..Cardinality(selected) |->
            byAge[CHOOSE i \in selected : Cardinality(selected \cap 1..i) = k]]

\* AuditLogRepository.findAll; its filters select on columns that never change.
ListedLogs(recorded) == [i \in 1..recorded |-> i]

Listed(q, active, deleted, byAge, recorded) ==
    IF q.list = "users" THEN ListedUsers(q.isActive, active, deleted, byAge)
                        ELSE ListedLogs(recorded)

ListedNow(q) == Listed(q, isActive, isDeleted, order, log)

toOffsetFromZero(page, limit) == page * limit

toOffset(page, limit) == (page - 1) * limit

PageOf(q) ==
    LET sorted == IF q.sort = "desc" THEN Reverse(ListedNow(q)) ELSE ListedNow(q)
        offset == toOffset(q.page, q.limit)
    IN  SubSeq(sorted, offset + 1, Min({offset + q.limit, Len(sorted)}))

totalPagesFloored(total, limit) == total \div limit

\* Math.ceil(totalItems / limit)
totalPages(total, limit) == (total + limit - 1) \div limit

CountUsersWithDeletedActive ==
    [total |-> Cardinality({u \in users : ~isDeleted[u]}),
     active |-> Cardinality({u \in users : isActive[u]})]

\* One scan of the table for both figures.
CountUsers ==
    [total |-> Cardinality({u \in users : ~isDeleted[u]}),
     active |-> Cardinality({u \in users : ~isDeleted[u] /\ isActive[u]})]

-----------------------------------------------------------------------------

Walk == [pc: {"read", "ended"}, list: {"users", "audit_logs"}, sort: {"asc", "desc"},
         isActive: BOOLEAN \cup {NoFilter}, limit: Limits, page: Nat \ {0},
         rows: Seq(Users \cup 1..MaxLog) \cup {NotRead}, total: Nat \cup {NotRead},
         shown: Seq(Users \cup 1..MaxLog), \* the rows of the pages so far
         start: SUBSET (Users \cup 1..MaxLog), \* (h) what the list held at first
         moved: BOOLEAN, \* (h) the list has changed other than at its young end
         torn: BOOLEAN]  \* (h) it has changed between the two queries of this page
Summary == [pc: {"summary"}, before24h: 0..MaxLog, before7d: 0..MaxLog,
            users: [total: Nat, active: Nat] \cup {NotRead},
            last24h: Nat \cup {NotRead}, last7d: Nat \cup {NotRead},
            torn: BOOLEAN] \* (h) a row was recorded between the two counts

ReportsTypeOK ==
    /\ AccountTypeOK
    /\ order \in Seq(users) /\ Range(order) = users /\ IsInjective(order)
    /\ log \in InitialLog..MaxLog
    /\ \A v \in Viewers : view[v] = Idle \/ view[v] \in Walk \/ view[v] \in Summary

ReportsInit ==
    /\ AccountInit
    /\ order = SetToSeq(Registered)
    /\ log = InitialLog
    /\ view = [v \in Viewers |-> Idle]

At(v, pc) == view[v] # Idle /\ view[v].pc = pc
OnlyReads == UNCHANGED <<accountVars, order, log>>

-----------------------------------------------------------------------------
(***************************************************************************)
(* Writers.                                                                *)
(***************************************************************************)

HalfRead(one, other) == (one = NotRead) # (other = NotRead)

\* (h) What a write does to the walks and summaries that are under way.
Watched ==
    [v \in Viewers |->
        IF At(v, "read")
        THEN LET before == ListedNow(view[v])
                 after == Listed(view[v], isActive', isDeleted', order', log')
             IN [view[v] EXCEPT
                    !.moved = @ \/ ~IsPrefix(before, after),
                    !.torn = @ \/ (before # after /\ HalfRead(view[v].rows, view[v].total))]
        ELSE IF At(v, "summary")
        THEN [view[v] EXCEPT
                 !.torn = @ \/ (log # log' /\ HalfRead(view[v].last24h, view[v].last7d))]
        ELSE view[v]]

\* Registration, creation, suspend, reactivate, delete.
AccountChange ==
    /\ AccountNext
    /\ order' = order \o SetToSeq(users' \ users)
    /\ UNCHANGED log
    /\ view' = Watched

\* AuditLogService.record, called by nearly every operation of the system; a
\* failure to insert is swallowed and leaves no row.
Record ==
    /\ log < MaxLog
    /\ log' = log + 1
    /\ UNCHANGED <<accountVars, order>>
    /\ view' = Watched

-----------------------------------------------------------------------------
(***************************************************************************)
(* Walks.                                                                  *)
(***************************************************************************)

WalkStart(v, list, sort, filter, limit) ==
    /\ view[v] = Idle
    /\ list = "audit_logs" => filter = NoFilter
    /\ LET q == [list |-> list, isActive |-> filter] IN
          view' = [view EXCEPT ![v] =
             [pc |-> "read", list |-> list, sort |-> sort, isActive |-> filter, limit |-> limit,
              page |-> 1, rows |-> NotRead, total |-> NotRead, shown |-> <<>>,
              start |-> Range(ListedNow(q)), moved |-> FALSE, torn |-> FALSE]]
    /\ OnlyReads

WalkRows(v) ==
    /\ At(v, "read") /\ view[v].rows = NotRead
    /\ view' = [view EXCEPT ![v].rows = PageOf(view[v])]
    /\ OnlyReads

WalkCountAllButNewest(v) ==
    /\ At(v, "read") /\ view[v].total = NotRead
    /\ view' = [view EXCEPT ![v].total = Len(ListedNow(view[v])) - 1]
    /\ OnlyReads

WalkCount(v) ==
    /\ At(v, "read") /\ view[v].total = NotRead
    /\ view' = [view EXCEPT ![v].total = Len(ListedNow(view[v]))]
    /\ OnlyReads

\* Promise.all has both; the client shows the page and asks for the next.
WalkAnswer(v) ==
    /\ At(v, "read") /\ view[v].rows # NotRead /\ view[v].total # NotRead
    /\ LET w == view[v]
           shown == w.shown \o w.rows
       IN view' = [view EXCEPT ![v] =
             IF w.page < totalPages(w.total, w.limit)
             THEN [w EXCEPT !.shown = shown, !.page = @ + 1, !.rows = NotRead,
                            !.total = NotRead, !.torn = FALSE]
             ELSE [w EXCEPT !.shown = shown, !.pc = "ended"]]
    /\ OnlyReads

-----------------------------------------------------------------------------
(***************************************************************************)
(* Summaries.  `now' is read once, so both windows are fixed at the start: *)
(* the rows older than a day are the first before24h, those older than a   *)
(* week the first before7d.                                                *)
(***************************************************************************)

SummaryStart(v, before24h, before7d) ==
    /\ view[v] = Idle
    /\ before7d <= before24h
    /\ view' = [view EXCEPT ![v] =
          [pc |-> "summary", before24h |-> before24h, before7d |-> before7d, users |-> NotRead,
           last24h |-> NotRead, last7d |-> NotRead, torn |-> FALSE]]
    /\ OnlyReads

SummaryCount(v) ==
    /\ At(v, "summary")
    /\ \/ view[v].users = NotRead /\ view' = [view EXCEPT ![v].users = CountUsers]
       \/ view[v].last24h = NotRead /\ view' = [view EXCEPT ![v].last24h = log - view[v].before24h]
       \/ view[v].last7d = NotRead /\ view' = [view EXCEPT ![v].last7d = log - view[v].before7d]
    /\ OnlyReads

\* The client closes the list or the dashboard, or a query fails.
ViewEnd(v) ==
    /\ view[v] # Idle
    /\ view' = [view EXCEPT ![v] = Idle]
    /\ OnlyReads

-----------------------------------------------------------------------------

ViewStep(v) ==
    \/ \E list \in {"users", "audit_logs"}, sort \in {"asc", "desc"},
          filter \in BOOLEAN \cup {NoFilter}, limit \in Limits : WalkStart(v, list, sort, filter, limit)
    \/ WalkRows(v) \/ WalkCount(v) \/ WalkAnswer(v)
    \/ \E d, w \in 0..log : SummaryStart(v, d, w)
    \/ SummaryCount(v)
    \/ ViewEnd(v)

ReportsNext == AccountChange \/ Record \/ \E v \in Viewers : ViewStep(v)

ReportsSpec == ReportsInit /\ [][ReportsNext]_reportVars

-----------------------------------------------------------------------------
(***************************************************************************)
(* Properties.                                                             *)
(***************************************************************************)

\* Walking a list oldest first shows every row that was there at the start
\* exactly once, whatever is added meanwhile and between whichever queries; only
\* a row that leaves the list or enters it in the middle can upset the pages.
OldestFirstWalkIsExact ==
    \A v \in Viewers :
        At(v, "ended") /\ view[v].sort = "asc" /\ ~view[v].moved
            => view[v].start \subseteq Range(view[v].shown) /\ IsInjective(view[v].shown)

\* Newest first, the default, a row that is added pushes others to later pages:
\* they show twice, but none is missed unless it was added between the two
\* queries of the last page (its count was too small for the rows to be shown).
NewestFirstWalkMissesOnlyIfTorn ==
    \A v \in Viewers :
        At(v, "ended") /\ view[v].sort = "desc" /\ ~view[v].moved /\ ~view[v].torn
            => view[v].start \subseteq Range(view[v].shown)

\* The dashboard's figures fit each other: inactive = total - active is never
\* negative even when a reactivate raced a delete, and a day has no more
\* activity than the week it is in, but for a row recorded between the counts.
SummaryAddsUp ==
    \A v \in Viewers :
        At(v, "summary") =>
            /\ view[v].users # NotRead => view[v].users.active <= view[v].users.total
            /\ NotRead \notin {view[v].last24h, view[v].last7d} /\ ~view[v].torn
                  => view[v].last24h <= view[v].last7d

=============================================================================
