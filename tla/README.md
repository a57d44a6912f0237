# TLA+ models of the access-console backend

The repository is the API of an access console: a NestJS 11 application over
PostgreSQL (Drizzle), Redis and Cloudflare R2. It signs users in with a short
JWT and a rotated refresh token, grants permissions through roles, verifies
e-mail addresses and resets passwords with links, and keeps profiles. It holds
almost no state in memory: what can go wrong lies between the statements that
concurrent requests send to the database, to Redis and to R2. This directory
has TLA+ modules of those statements and their order, TLC runs that check them
on small instances, and TLAPS proofs of what holds at any size.

Contents: [the system](#the-system) · [the modules](#the-modules) ·
[the runs](#the-runs) · [fairness](#fairness) · [the proofs](#the-proofs) ·
[disagreements with the documentation](#disagreements-with-the-documentation) ·
[what is not modelled](#what-is-not-modelled) · [the plan](#the-plan)

Run a check with `tlc -config MCBrowsers.cfg MCBrowsers` (the config names its
module, see the table of runs), a proof with `tlapm SessionsProofs.tla`.

## The system

Paths are relative to `src/src/`.

| Component | State | Operations | What is hard, and what must hold |
|---|---|---|---|
| **Accounts** `modules/users`, `auth.service.ts` (register) | table `users`: `is_active`, `deleted_at`, `password_hash`, `email_verified_at` | register, create (admin), suspend, reactivate, soft delete, update password, mark verified | Find and write are two awaits. A deleted account must stay out, a registration must never replace a row, and nobody should lock out the last administrator. |
| **Sessions** `modules/auth/refresh-tokens`, `auth.service.ts`, `auth.controller.ts` | table `refresh_tokens`: `is_revoked`, `expires_at`, `replaced_by_id`; the client's cookie | login, refresh (rotation, reuse detection), logout, logout-all, the revocation in resetPassword | rotate() is four statements outside a transaction; answers get lost or arrive late, so old cookies come back. A spent token must stay spent, a revocation must be final, reuse must end every session, and an honest browser should not look like a thief. |
| **One-time links** `password-reset-tokens`, `email-verification-tokens` | two tables of one shape: `is_used`, `expires_at` | issue (invalidate, insert, mail), consume (one UPDATE … RETURNING) | Two carriers of one link, two requests for a link at once. A link must work once, and one per user should be good. |
| **Password reset**, **e-mail verification** `auth.service.ts` | the above and `users` | forgotPassword, resetPassword; resendVerification, verifyEmail | Link, row and sessions are written in separate steps. |
| **Roles and permissions** `modules/roles`, `modules/permissions` | `roles`, `permissions`, `role_permissions`, `user_roles` | create, delete, syncPermissions (transaction), rename, assign, revoke | Rows read before an await, ON DELETE CASCADE, READ COMMITTED. |
| **Permission cache** `core/authorization`, `common/guards/permissions.guard.ts` | Redis `permissions:user:<id>` with a TTL | read through (GET, query, SET), invalidate (DEL) | A reader's SET after a change's DEL; Redis failing; a change dying before its DEL. Grants must follow the tables. |
| **Avatars** `modules/profiles` | `profiles.avatar_url`, objects in R2 | upload, reset, update of the other columns | No transaction spans the row and the bucket. A row must name an object that exists, an object should be named by a row. |
| **Guards** `jwt-auth.guard.ts`, `jwt.strategy.ts`, `permissions.guard.ts`, `app.module.ts` | none | throttle, authenticate, authorise, in that order | The names are read before the await, the handler runs after it and may itself change the tables. A verdict must have been true at some moment of the call. |
| **Process** `main.ts`, `database.module.ts`, `avatar-storage.service.ts` (onModuleInit) | the pool of connections, the default picture on the container's disk | boot, listen, stop on SIGTERM, be killed | A boot may die anywhere; the pool ends while requests are in flight. The picture must be there while the server listens, and a stop should end. |
| **Lists and pagination** `common/utils/pagination.util.ts`, the repositories' findAll | none | one page of users, audit logs, roles, permissions | Rows and their count are two queries, pages are cut by offset. A walk over the pages should show every row. |
| **Dashboard** `modules/dashboard` | none | summary | Six queries side by side. The figures should fit each other. |
| **Audit log** `modules/audit-log` | append-only table | record (never throws), list | Read by its list and the dashboard only. |
| **Seed script** `database/seeds/seed.ts` | the role tables | `npm run db:seed` | Row by row, no transaction, beside a running application. Running it again must complete what an earlier run left half done. |
| **Mail, Telegram, health, configuration, HTTP layer** | none that others read | | External calls and wiring. |

How they interact: every handler is an async function, and each `await` on a
query, a command to Redis or a call to R2 is a point where another request may
run or the process may die. Components share the database rows, never
variables in memory. `AuthService` calls the token services and `UsersService`
in sequence; `RolesService` and `PermissionsService` change tables and then ask
`PermissionsCacheService` to drop the entries of the users they listed;
`PermissionsGuard` reads through that cache on every guarded request;
`JwtStrategy` reads the user's row on every authenticated request.

`PROJECT.json` lists the hazards line by line with the properties aimed at each.

## The modules

An action is one awaited statement with the synchronous code around it. What a
handler keeps in local variables across an await is a record in the slot of
that request (`op[a]`, `req[r]`, `job[j]`, `change[a]`, `reader[q]`, `work[w]`),
whose field `pc` names the next statement. So slots = requests that overlap,
and a slot that returns to `Idle` is a request that has answered. An abort
action empties a slot between any two statements: a statement was refused or
the process died. Variables marked `(h)` record history for the properties and
are read by no guard. Definitions named for a slip (`RevokeAllUnexpired`,
`SaveAvatarUnderOneKey`, …) belong to no specification: each is a plausible bug
that the property paired with it in `PROJECT.json` has been seen to catch.

| Module | What it models | Correspondence |
|---|---|---|
| `Accounts` | rows of `users`, registration and status changes | `users` = addresses that have a row (`email` is UNIQUE), one Boolean per column; `CreateFind`/`CreateInsert`, `StatusEnter` (guards) /`StatusFind`/`StatusWrite` |
| `SessionFamilies` | the abstract service: a login opens a session, the live token is exchanged in one step, a session ends alone or with all of its user | |
| `Sessions` (EXTENDS `Accounts`) | `refresh_tokens` and the requests on it | a token's id is its place in `tokens`; `handedOut` = tokens whose cookie reached a client; `cut` and `spared` (h) = where the last revocation of all a user's tokens reached, and which sessions escape one; refresh is `RefreshFind`, then `ReuseRevokeAll` or `ExpireRevoke` or `RotateIssue`, `RotateRevoke`, `RotateCheck`, `DropRevokeAll` |
| `Browsers` (EXTENDS `Sessions`) | the refresh cookie: what a browser holds, what answers on their way will make of it | `jar`, `from`, `answer`; each endpoint is the action of `Sessions` with what its answer does to the cookie: `SetCookie`, `ClearCookie`, `LeaveCookie`; `Deliver` in any order, `Answer(r, {})` never |
| `OneTimeTokens` (EXTENDS `Accounts`) | the table of links and its statements, shared by the next two | `IssueInvalidate`, `IssueCreate`, `Consume`, `LinkExpire`; `mailed` = links that arrived |
| `EmailVerification` (EXTENDS `OneTimeTokens`) | register's link, resend, verify | `VerifyConsume`, `VerifyFind`, `VerifyMark`, `VerifyAudit` |
| `PasswordReset` (EXTENDS `Sessions`, `OneTimeTokens`) | forgot-password and reset-password beside every session request | `ForgotPassword`, `ResetConsume`, `ResetEnter`, `ChangePassword`; status changes are one step here |
| `Rbac` | the four role tables and their changes | a change is found, listed, written; the transaction of syncPermissions is `SyncClear` (its DELETE's snapshot) and `SyncWrite` (INSERT and commit) |
| `PermissionCache` (EXTENDS `Rbac`) | Redis entries, readers, invalidation | `CacheMiss`, `ReaderQuery`, `ReaderSet`, `Invalidate`, `CacheExpire` |
| `Seed` (EXTENDS `PermissionCache`) | seed.ts, statement by statement, beside the changes and readers | `SeedPermission`, `SeedRole`, `SeedFind`, `SeedList`, `SeedGrant`, `SeedUser`, `SeedAssign`; of role names it keeps which role is `superadmin` |
| `Reports` (EXTENDS `Accounts`) | lists walked page by page, the dashboard, audit rows | `WalkRows` and `WalkCount` are the two queries of paginate(), `WalkAnswer` its Promise.all; `SummaryCount` is one query of getSummary() |
| `Guards` (EXTENDS `PermissionCache`) | a call from JwtStrategy through PermissionsGuard to its handler; changes come from admitted calls only | `Authenticate`, `Hit` or `Miss`, `Query`, `SetAndDecide`, then `HandleChange` or `HandleOther`; the reader of the cache in slot q serves call q |
| `Avatars` | avatar_url and the bucket | upload: find, save, point, delete; reset: find, delete, point |
| `Lifecycle` (EXTENDS `Avatars`) | the process around those requests | `Boot`, `CopyBegin`, `CopyEnd`, `Listen`, `Serve`; `Terminate` = onModuleDestroy at `pool.end()`: of the statements of that moment some hold a connection (`sent`), some wait for one (`queued`), the others come too late; then `FinishStatement`, `RefuseStatement` (those), `CallBucket`, `QuitRedis` (RedisModule's hook) until `Exit`; `Kill`, `Redeploy` |
| `MC…` | symmetry sets and initial tables for TLC | |
| `…Proofs` | theorems | |

What is abstracted: passwords are values compared for equality, so hashing is
the identity on them only as far as `verify(hash(p), q)` is `p = q`; random
tokens, UUIDs and serial ids never repeat; access tokens are not modelled
beyond "the user once got an answer", since `JwtStrategy.validate` reads the
row each time; expiry is a step that may come at any time, so every order of
expiry and use is covered. Refused requests that change nothing are not steps.

Three points of detail that the code decides and the models follow:

- `verifyEmail`, `resetPassword` look the user up with `findById`, which sees
  suspended rows but not deleted ones; `login`, `forgotPassword`,
  `resendVerification` and `JwtStrategy` need an active one.
- PostgreSQL's READ COMMITTED: the DELETE in `syncPermissions` reaches what was
  committed when it started. Rows another transaction adds meanwhile survive,
  and of two transactions deleting one row the second finds it gone.
- `PermissionsCacheService` swallows every error of Redis; `deleteIfCustom`
  swallows those of R2's DELETE, `saveAvatar` rethrows those of its PUT.

## The runs

| Run | Bounds | Question |
|---|---|---|
| `browsers` | 1 user with 2 browsers, 2 overlapping requests that may die, 3 tokens, answers that are late or lost | What do revocation and the chain of `replaced_by_id` keep in every interleaving (`RevokeAllIsFinal`, `RotationChain`, `AnsweredRotationSpends`)? When does an honest browser set off the reuse alarm (`StaleCookiesHaveAReason`), when is a sign-out one (`SignedOutSessionsEnd`)? |
| `password_reset` | 1 user (and an unknown address), 2 overlapping session requests and 1 link request, all of which may die, 2 tokens, 2 links, 2 passwords | Which sessions outlive a reset, a logout-all, a detected reuse or an inactive account's refresh, and why (`OnlySparedSessionsOutlive`)? What is a link good for: `OneUsableLink`, `ChangedByOwnLinks` |
| `browsers_live` | 2 users, 1 browser, 1 request and 1 account operation at a time, nothing dies, 2 tokens, 2 passwords, fairness | Does the table implement the abstract sessions (`ImplementsSessionFamilies`)? Are requests answered (`RequestsEnd`), do reuse and inactive accounts lose all sessions (`ReuseEndsAllSessions`, `InactiveRefreshEndsSessions`)? |
| `reports` | 2 users (one may register), both administrators, 2 overlapping account operations that may die, 2 passwords, 1 viewer, pages of 2 rows, up to 3 audit rows | What may a list or the dashboard show while rows are written: `OldestFirstWalkIsExact`, `NewestFirstWalkMissesOnlyIfTorn`, `SummaryAddsUp`? What does it take to lock out the last administrator (`LastAdminLostOnlyByOverlap`)? Can a race bring a deleted account back or replace a row (`DeletedStaysOut`, `RegistrationNeverOverwrites`)? |
| `email_verification` | 2 users, 2 overlapping link requests, 1 account operation, 3 links | `ConsumedOnce`, `LinksBoundedByOverlap`, `MarkedByOwnLinks`, `VerifiedAgainOnlyByOverlap` |
| `guards` | 1 user, 2 roles, 2 permissions, 2 names (one for the routes with a change), 1 change, 2 calls, Redis answers, nothing dies | Where can a stale grant come from (`StaleOnlyByRace`), what does a wrong verdict take (`VerdictsWereTrue`)? And `SyncReplacesAll` |
| `seed` | empty tables, 1 user, 1 role, 2 permissions, 2 names (both baseline), 1 seed run at a time, 1 change, 1 reader, anything may fail at any point | Does a run of the script that ends leave the administrator with everything, whatever died before (`SeedCompletes`)? Does the TTL mend every stale grant (`StalenessEnds`)? |
| `lifecycle` | 2 users, 3 requests, 2 of which may fail or be cut short at any point, 2 objects, any number of boots, stops and kills, fairness | Who can break an avatar, who can leave an object behind (`UploadsKeepAvatars`, `OrphansOnlyByOverlap`)? Is the default picture there (`DefaultOnDisk`), what alone keeps a stop from ending (`StopsEnd`)? |
| `exchanged_twice`, `session_outlives`, `permission_at_once`, `two_syncs` | the least that shows it | counterexamples, [below](#disagreements-with-the-documentation) |

Why the bounds are enough: the races in this code are between two requests, one
of which has read what the other then writes, so two slots show each of them;
a third adds further instances of the same pairs. Three tokens are a login and
two rivals for its successor, or two sessions of which one rotates; two are two
sessions, or one that rotates. Two links
are the old and the new one, three add the one of an overlapping request. A
role with two permissions and two names gives every rename, swap and partial
overlap of two syncs. Two objects let two requests store one each while the
third resets, and one be replaced. Two browsers of one user are the two devices
of which one must not sign the other out.
`MaxTokens` and `MaxLinks` bound the tables by letting no request start that
could append beyond them, so no request is stuck at the bound. The proofs carry
what holds of accounts, sessions, browsers, links, verification, reset, roles,
cache, guards, the seed script, avatars and the process to every size.

Pages of 2 rows over lists of 1 to 3 give full and partial last pages, a boundary
that falls between two rows, and a list that grows past its last page. On the empty tables of `seed` every statement of the script has its
insert to make, and after an abort or a second run it finds it made.

TLC finds no deadlock in any run. In `reports` it does reach states where nobody
may administrate any more: `suspend()` and `delete()` refuse the actor's own
account, but two administrators that suspend each other at once pass.
`LastAdminLostOnlyByOverlap` says that this is the only way there.

`OnlySparedSessionsOutlive` is what remains of "all old sessions end" where
requests overlap and die. `spared` gains a row when a login inserts a session
whose password was changed after it was checked, when a rotation inserts a
successor of a row that a revocation of all the user's tokens reached meanwhile
(or of a spared one), and when a reset dies between `updatePassword` and
`revokeAllForUser`: then the sessions opened with another password. Everything
else must be over, whatever overlaps or dies.

Symmetry is used for request slots and browsers (`browsers`), calls (`guards`)
and slots of operations (`reports`), in runs without liveness only, and where the sets permuted are
treated alike by the constants. What a token of another user adds to `browsers`,
that a request revokes its own user's tokens only (`RevokedOnlyForItsOwner`), is
proved.

## Fairness

`Sessions.FairSpec` has weak fairness on the steps of requests in flight, one
conjunct per slot: Node resumes an async function once its promise settles, and
PostgreSQL answers or fails every statement. Nothing is assumed of arrivals,
of expiry or of administrators. `RequestsEnd`, `ReuseEndsAllSessions` and
`InactiveRefreshEndsSessions` are checked with `MayAbort = FALSE` under
`Browsers.FairBrowserSpec`, the same for the steps of the server: a browser need
send nothing and an answer need not arrive;
with aborts a request ends all the same but reuse may go unpunished.

`Lifecycle.FairLifecycleSpec` has weak fairness on `Drain`, one conjunct per
request, on `QuitRedis` and on `Exit`: PostgreSQL and R2 answer or fail what
they were sent, pg refuses what comes after the pool ended, Redis answers QUIT or
its connection breaks, and node exits once the server is closed. Nothing is
assumed of a statement that was waiting for one of the pool's ten connections
when the pool ended: pg-pool neither serves nor refuses it, and the pool is built
without `connectionTimeoutMillis`, so its request hangs and the server never
closes. `StopsEnd` says that such requests, and only they, keep a stop from
ending; nothing makes a process boot or signals it.

`PermissionCache.CacheFairness`, a part of `SeedSpec`, has weak fairness on
readers and on `CacheExpire`: Redis removes a key set with EX. Nothing is
assumed of the changes or of the script, which may stop anywhere.
`StalenessEnds` asks that, once the tables rest, every entry is finally right
or gone: not at once, for a reader that started before the last change may
still write a stale entry, once.

## The proofs

All seven proof modules are checked by TLAPS with no assumption but the named
ASSUMEs on the constants; TLC evaluates those in the runs. Beyond the shape of
the constants they say that slots (`Requests`, `Jobs`) and the rows at the start
of `Reports` are finitely many, which the counting arguments need; that an empty slot is not a request
(`EmptyRequestAssumption`, `EmptySlotAssumption`, `EmptyCallAssumption`: `Idle`
stands for "nothing here"); that permission names are unique at the start, as the
table's constraint has them; and that the superadmin role the seed script finds
is one that is there. The hypotheses of single theorems are of another kind: they say how much
overlaps and fails, and where a passing run checks the property, its bounds share
the hypothesis. The code enforces none of them; what holds without them is
stated by theorems of their own (`OnlySparedOutlive`, `RevokeAllFinal`,
`GoodLinksBounded`, …), what does not is shown by the `violation` runs:

| Hypothesis | Says | Used where |
|---|---|---|
| `OneRequest`, `OneChange` | session requests, changes of the role tables do not overlap each other; everything beside them may | promises that an overlap breaks, as the `violation` runs and the paragraphs below show |
| `~MayAbort` | no statement is refused and the process does not die midway | where dying leaves the second half undone: the old token of a rotation, the entry a change was to drop |
| `~RedisFails` | Redis answers | a DEL that fails leaves the stale entry until its TTL |

- `AccountsProofs`. `AccountInv` adds to the types that only rows are deleted
  and that an operation about to write found its row. From it:
  `DeletedNeverReturns` (an account once deleted is never found by
  `findActiveById` again, although a reactivate that lost the race does set
  `is_active`), and `RegistrationKeepsRows`. `LastAdminNeedsOverlap`, for any
  number of operations that overlap and die, needs `ActorsSound` only: an
  operation about to write was let in for an administrator and is not about that
  administrator. So where the last one falls, the actor was no longer active
  when the statement ran. `LastAdminNeedsOverlapBesideSessions` carries it over.
- `SessionsProofs`. The properties of rows are not inductive alone: whether the
  rotation chain stays sound depends on what the requests in flight are about
  to write. `Inv` is the types, `TableInv` (per-row facts: links lead upward to
  rows with that parent and owner, rows up to `cut` are dead, parents are
  older), `RequestsSound` (what each `pc` knows of the rows it carries: the
  presented token is a row of the request's user, the successor a rotation is
  about to link is a younger row of that user rotated from the presented token,
  and past its last write a rotation has spent the presented token) and
  `AnsweredRotationSpends`. Lemmas on
  what one statement does to the table (`CreateRows`, `RevokeRows`,
  `RevokeAllRows`, `ExpireRows`) are stated once; each action has its lemma.
  Theorems: `TypeCorrect`, `RevokeAllFinal`, `ChainsAreSound`,
  `AnswersSpendTokens`, `OnlyOwnersRevoke`, for any number of users and
  overlapping requests, dying or not.
- `SessionsProofs`, requests that do not overlap. `AloneInv` says what a rotation
  may rely on then: the token it is about to exchange is alive until it revokes
  it itself (`StillGood`), nobody was handed another successor of it
  (`FirstAnswer`), its own is the youngest row and in the same session
  (`SuccessorStored`). So a token is exchanged once and no session outlives its
  end (`ExchangedOnceAlone`, `NoSessionOutlivesAlone`): both even where requests
  die. TLC shows with two overlapping requests that each then fails.
  `SessionsImplementFamilies` maps the table to the abstract sessions, leaving
  out the successor of a rotation that has not revoked its token yet
  (`issuedBar`): a login is `Open`, a rotation's third statement is `Exchange`,
  its second a stutter, a revocation `Close` or `CloseAll`.
- `SessionsProofs`, requests that overlap and die as they may.
  `OnlySparedOutlive` follows from `SparedInv`: a row above its owner's `cut`
  and not spared, dead or alive, belongs to a session opened after that `cut`
  with the present password, or a reset is pending. It has to speak of dead rows
  too, since a rotation that has read such a row may store its successor at any
  later time. Rows below the `cut` are dead by `RevokeAllIsFinal`.
- `BrowsersProofs`. `BrowsersImplementSessions`: every step is one of `Sessions`
  or none, so `Inv` holds here too. That an honest browser is not taken for a
  thief is a statement about every other browser as well; the invariant says
  what keeps them apart. No session is shown (in a jar, in a request, in an
  answer) at two browsers; a token on its way to a browser is nowhere else, and
  dead only below its user's `cut`; an untroubled browser waits for one request
  at most, which presents what is in the jar (`Steady`), and every live token of
  a session it is shown is shown there too (`KnowsItsSessions`, but for the
  moment before refresh drops the sessions of an inactive account). The last is
  why a sign-out ends the session: there is no other token, and no rotation
  that could add one. `MoveKeeps` reduces each step to what it does to
  its own browser, `AppendedKeeps` does that for steps that issue a token.
  Theorems: `StaleCookiesExplained`, `SignOutsHold`, `BrowserTypeCorrect`.
- `LinksProofs` has the counting lemmas of the table of links and the theorems of
  the two modules that use it. The good links of a user and the requests about to insert one are never
  more than the slots: `IssueInvalidate` empties the first count before its
  request enters the second.
  For verification and reset alike it keeps a ledger: marks made (or
  passwords changed) and the requests between consuming a link and writing are
  together at most the links consumed. It is inductive although a request may
  die at any point, because that only lowers the left side. Theorems:
  `LinksWorkOnce`, `GoodLinksBounded`, `MarksNeedOwnLinks`,
  `MarkedAgainByOverlap`, `ChangesNeedOwnLinks`, and `OneLinkWithoutOverlap`,
  which adds the hypothesis that there is one slot. Every step of a reset is a
  `SessionMove`, the only thing the lemmas on requests that do not overlap ask
  for, so their theorems hold beside any number of overlapping, dying requests
  for links (`ResetExchangedOnce`, `ResetNoSessionOutlives`,
  `ResetImplementsFamilies`); so does `ResetOnlySparedOutlive`, where session
  requests and resets overlap and die as well.
- `GrantsProofs` is about the role tables and what reads them: `PermissionCache`,
  `Guards` and `Seed`. `TypeStep` shows foreign keys and unique names for any
  overlap and any abort: a change in flight names rows that may be gone, and its
  write must not bring them back. `ChangesKnow` says that what a change has listed
  before it writes is no less than what its write finds, which one change at a
  time makes true; with it `StaleNeedsRace` follows from `ReadersRight` (what a
  reader is about to set is right, or was crossed by a change, or a DEL is still
  to come) and `SyncReplacesTheList` directly. `GuardsImplementCache` carries both
  to calls that go through the guards, and `Witnessed` (the answers the tables
  gave since a call was authenticated include what they give now and what its
  names give) makes `VerdictsTrue` of it. `SeedDoesItsWork` rests on `OnTrack`,
  what an undisturbed run has done by each statement: rows it counts on are only
  ever added to by the other runs.
- `LifecycleProofs`. First the requests of `Avatars`: `Inv` says that an object is
  in one row at most, that the one a request is about to name is nobody's yet and
  no request's old one, and that the one an upload is about to delete has left its
  row. From it `UploadsNeverBreak` and, with `DeletedByReset`, `OrphansNeedOverlap`.
  Then the process: `LifecycleImplementsAvatars` maps every step of it
  to a step of a request or none, and carries both theorems across restarts and
  kills. `DefaultPictureServed` needs that a part of the picture is on disk only
  while a boot copies it or after one was killed there.

- `ReportsProofs`. A walk says nothing of the table it reads but for the rows it
  began with: the first n of its list, as long as the list changes at its young
  end only. `OldestFirst` keeps that what was shown lies before the page at hand
  and holds those n as far as they lie there; so nothing shows twice and the
  last page completes them. `NewestFirst` counts from the other end, where rows
  that are added push the n rows towards pages still to come: none above the page
  is missing, whatever was added, but which page is the last depends on the two
  queries seeing one table. `Offsets`, `PageCut` and `Reversed` say what
  paginate()'s arithmetic cuts out. Any filter will do, because `UsersListed`
  shows that what findAll() returns has no row twice; for that the model gives its
  k-th row by counting instead of by SelectSeq, which is recursive and about
  which tlapm knows nothing, and `First` (any set of naturals has a least
  element) takes the place of an induction. Theorems: the four invariants of the
  run, for any page sizes, users and log, and `ReportsImplementAccounts`, which
  carries `DeletedStaysOut` and `RegistrationNeverOverwrites` over.

Invariants written for the proofs alone (`AloneInv`, `OnTrack`, …)
were run through TLC on the bounds of the corresponding run before they were
proved. A note on notation: tlapm 1.4.5 reads `{x \in S}`, the singleton of a
truth value, as an empty set comprehension; `Guards` writes `{(x \in S)}`.

Only model-checked: all liveness properties (ENABLED and fairness are out of the
prover's reach).

## Disagreements with the documentation

- **A refresh token can be exchanged twice** (`exchanged_twice`). rotate()
  checks `is_revoked` in one statement and sets it, unconditionally, in a later
  one. Two refreshes that overlap both succeed; neither looks like reuse.
- **A session can outlive logout-all, reset and reuse detection**
  (`session_outlives`). A rotation past its check inserts a successor after
  revokeAllForUser. What does hold then: no token that existed at the
  revocation lives on (`RevokeAllIsFinal`, proved), and of sessions only those
  that such a rotation, or a login or a reset as below, spared
  (`OnlySparedSessionsOutlive`, proved).
- **A permission change may not take effect until the TTL**
  (`permission_at_once`). A reader that queried before a change sets its entry
  after the DEL. `StaleOnlyByRace` shows this is the only way while one change
  runs at a time and nothing fails.
- **Two syncs of one role can leave it with permissions of both**
  (`two_syncs`).

Shown by the form of a property rather than by a run of their own: login() checks
the password it has read and inserts the session later, so one that overlaps a
reset opens a session with the old password that survives it, although the
controller says of reset-password "Semua sesi/device lama otomatis di-logout
setelah berhasil", and a reset that dies after updatePassword ends none (what
`spared` admits in `OnlySparedSessionsOutlive`); two overlapping requests for a link leave two good ones (`LinksBoundedByOverlap` is
what remains of "one active token per user"); two links used at once record the
verification twice (`VerifiedAgainOnlyByOverlap`); a reactivate that races a
delete leaves `is_active` set on a deleted row, though softDelete calls it a second
layer of protection (`DeletedStaysOut` is what remains); two overlapping uploads leave an object in R2 for ever
(`OrphansOnlyByOverlap`); resetAvatar deletes the object before it writes the
row, the order updateAvatar's comment argues against, so a reset that dies
between leaves a row naming nothing (the exception in `UploadsKeepAvatars`);
the comment in main.ts wants connections closed "rapi", not in the middle of a
query, and no query is, but the pool ends before the HTTP server closes, so a
request between two statements is refused the second one (`RefuseStatement`),
and one whose statement was queued for a connection is never answered, so that
the process does not end before it is killed (the exception in `StopsEnd`); a
boot killed while it copies default.png leaves a part that later boots take for
the file (the exception in `DefaultOnDisk`); two tabs that refresh at once, or
an answer that is lost, make an honest browser look like a thief and end the
sessions of every device (the reasons in `StaleCookiesHaveAReason`; README.md
of the repository describes the alarm, not that); logout answers success when
the cookie was replaced meanwhile and the session lives on (the exception in
`SignedOutSessionsEnd`);
walking a list newest first, the default, misses a row when another is added
between the two queries of the last page (`NewestFirstWalkMissesOnlyIfTorn`),
and the dashboard's 24 hours can count more than its 7 days when a row is
recorded between the two counts (the exception in `SummaryAddsUp`); the
comment at the head of seed.ts says permissions are checked live against the
database, but the script drops no cached entry, so a user who was refused just
before is a superadmin only once the TTL is over (`StalenessEnds` is what
remains).

## What is not modelled

- Mail and Telegram beyond `SendMail`: external and never read back; Telegram's
  notifyAdmin() catches everything. That recording an audit row fails without
  failing the request is a `Record` that does not happen.
- Health, validation pipes, response wrapping, error mapping, Swagger, logging,
  throttling: no state that the properties see. The configuration is read once;
  a value validateEnv refuses ends the boot (`BootFails`).
- The access token: it is taken to be genuine and not expired when a call is
  authenticated. Public routes and those without @RequirePermission never ask
  the cache.
- A Redis that stalls without an error: no command has a time limit, so the
  request, and the stop, wait as long as Redis does, and nothing in the code
  bounds that.
- Two processes at once, as in a rolling deploy: each slot of a module may be
  read as a request of either, but the disk of `Lifecycle` is one process's.
- Lists of roles and permissions (the same two queries as those modelled),
  sorting by e-mail, ties of `created_at` and rows whose `created_at` is older
  than their commit; the dashboard's figures that relate to nothing else.
- Two seed runs at once: the module allows them, the run has one seeder. Their
  only conflict is the plain INSERT of the assignment, which fails in one.
- Names of roles (but for `superadmin`) and descriptions, texts of profiles: data no property tells
  apart.
- Failures inside PostgreSQL and concurrent transactions other than
  syncPermissions; createWithProfile is one atomic step because its second
  INSERT refers only to the row of its first.

## The plan

Done: `Accounts`, `Sessions` with `SessionFamilies` and `Browsers`,
`OneTimeTokens`, `EmailVerification`, `PasswordReset`, `Rbac`,
`PermissionCache`, `Guards`, `Seed`, `Reports`, `Avatars`, `Lifecycle`, and the
proofs listed above.

Every invariant and action property of the runs is stated by a theorem. Left:
the safety side of the liveness properties (what a request that has ended must
have done, which `RequestsEnd` and `StalenessEnds` only say in time), an abstract
permission check that `Guards` implements (answered as the tables were at some
moment since the call came in; `VerdictsWereTrue` is its invariant form), and the
lists of roles and permissions beside the writes of `Rbac`.
