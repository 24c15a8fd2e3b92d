# Formal models of the NestJS starter

The repository is a NestJS back end (PostgreSQL through TypeORM, optional Redis,
object storage, Firebase, WhatsApp through Baileys). Its own logic is
authentication (one-time passwords sent over WhatsApp, short access tokens,
rotating refresh tokens), accounts with a cached principal, a small catalogue of
cities and areas, and the infrastructure services these use. This directory
holds TLA+ models of the parts whose correctness depends on order (which
statement of which handler, timer or socket event comes first) or on boundaries
that a unit test would hardly reach.

Paths below are relative to `src/src/`.

## 1. Inventory

Everything runs in Node.js: a handler is atomic between two `await`s, and two
handlers interleave at every `await`. Several processes may share the database,
the cache and the storage. Unless a `transaction(...)` is opened, every
repository call is one autocommitted statement, at READ COMMITTED.

| Component | State | Operations | Interacts with | Hard behaviour | What makes it correct |
|---|---|---|---|---|---|
| Refresh tokens (`modules/refresh-tokens`) | table `refresh_tokens` | `issue`, `rotate`, `revoke`, `revokeAllForUser`, nightly `pruneExpiredTokens` | logins issue, deactivation and reuse detection sweep | concurrent rotations of one token, rotation against a sweep or logout, rollback, expiry, pruning of chains | no double spend, one live token per login, failed rotations leave nothing, ended sessions stay ended |
| One-time passwords (`modules/otps`) | table `otps` | `issue`, `verify`, `pruneStaleOtps` | login; sends through the queue | every limit is read, then acted on awaits later | limits hold up to the number of concurrent callers, a code is used once, housekeeping resets no count |
| WhatsApp queue (`whatsapp-queue.service.ts`) | in-memory FIFO, worker flag, time of the last send | `enqueueText`, `processLoop`, `onModuleDestroy` | reads the session's `connected`, calls its `sendText` | enqueue against a worker that sleeps, sends or leaves; failures; shutdown | order, spacing, no stranded message, silence after shutdown |
| WhatsApp credential store (`whatsapp-auth.service.ts`) | snapshot, pending payload, debounce timer, upload in flight; the remote object | `load`, `save`, `flush`, `clear`, `exists` | session; storage provider | a load, an upload and a delete that overlap; an upload that fails | the last saved credentials become durable, wiped ones do not come back |
| WhatsApp session (`whatsapp.service.ts`) | socket, `connected`, latest QR, start promise, waiters | `ensureSocket`, `getQrBase64`, `sendText`, `logout`, connection events, `restartSocket`, `teardown` | credential store, queue | logout or shutdown while a socket starts, waiter timeouts, a flush that rejects | every waiter settles, a dropped session comes back, a logged-out one does not |
| Accounts (`modules/users`, `modules/admins`) | tables `users`, `admins`, photos in storage | login, profile and photo updates, completion, credential change, activation, deactivation | refresh tokens, auth cache, cities, storage | save, revoke and invalidate are separate steps; read-merge-save; find-or-create | no change is lost, a disabled account loses its sessions, photos exist |
| Guards and auth cache (`core/guards`, `infrastructure/cache`) | Redis keys with a TTL | `getOrSet`, `delete`, the two guards | accounts | a read-through that stores what it read before an invalidation | the cached principal is the row |
| Cities and areas (`modules/cities`, `modules/areas`) | two tables with unique and foreign keys | create, update, delete, `assertExists` | accounts, each other | check, then act, against a concurrent request | keys decide, deleted rows stay deleted, answers are specific |
| Pagination (`core/pagination`) | none | `paginate` | every list | rows that come and go between pages | a walk meets each row once |
| Database bootstrap and migrations (`infrastructure/database`, `database/migrations`) | database, schema, record of migrations | start of a replica, revert | every module | replicas that race, die half way, retry | the schema is what the record says; replicas do not stop one another |
| Seeding (`scripts/seed`, the seeders) | all tables | `npm run seed` | the serving program | cut off, repeated, beside requests | idempotent, ids stay free |
| File storage (`infrastructure/storage`) | objects, links and their expiry | `upload`, `uploadMany`, `delete`, `deleteMany`, `getAccessUrl(s)`, validation, image processing | accounts, credential store | parallel requests of which one fails; mixed links; the compression loop | answers name what is stored, links live as told, a photo is what it says |
| Push notifications (`infrastructure/notifications`) | none | multicast | Firebase | batches that answer in any order | every failure names its token |
| Error filters (`core/filters`) | none | handler selection | every request | order of handlers | the client learns its mistake, no internals leak |
| Time zone helpers, phone numbers, translation scripts | none, or files | conversions, checks | accounts, i18n | transitions of an offset, spellings, missing keys | see the properties |
| Configuration (`infrastructure/config`, the factories of the modules) | none after the start | validation, choice of drivers | every module | rules across variables, empty values | what is accepted serves |
| Throttling, JWT signing, HTTP pipeline, i18n at run time, health | a library's, or set once at start | | | none of its own | |

`PROJECT.json` lists the same components with their files, and under `hazards`
the lines where an unlucky order, failure or boundary bites, with the properties
that would notice.

## 2. What is modelled

| Module | Models | Kind |
|---|---|---|
| `Sessions` | what the refresh-token authority promises | abstract specification |
| `RefreshTokens` | the service and its table, statement by statement | implements `Sessions` |
| `Otp` | one-time passwords | concurrent handlers |
| `Outbox` | what the outbound queue promises | abstract specification |
| `WhatsappQueue` | the queue, between two `await`s at a time | implements `Outbox` |
| `WhatsappAuthStore` | credential store | extended by the session |
| `WhatsappSession` | socket lifecycle, composed with the store | events, requests, crashes |
| `Accounts` | account, guards, cache, photos and sessions together | concurrent requests |
| `Catalog`, `Paging`, `Migrations` | what the program does to its database | run together by `MCDatabase` |
| `Storage`, `AccessLinks`, `FileRules`, `LocalTime`, `Phones`, `PushBatches`, `Translations`, `HttpErrors`, `Seeding`, `Settings` | parts that share no state | run together by `MCParts` |
| `RefreshTokensProofs`, `OtpProofs`, `WhatsappQueueProofs`, `WhatsappSessionProofs`, `AccountsProofs`, `StorageProofs` | theorems about one module | proofs |
| `DatabaseProofs`, `PartsProofs` | theorems about the modules that `MCDatabase` and `MCParts` run | proofs |
| `MC...` | instances for TLC | |

### `RefreshTokens.tla` and `Sessions.tla`

`RefreshTokenService` and `RefreshTokenRepository` over one table. `Requests` is
a set of handlers (HTTP requests and the nightly job); `pc[r]` is the statement
handler `r` sends next, and its locals are what the code keeps across the
`await`. The table is `rows`, `owner`, `expiresAt`, `revoked`, `replacedBy`.

| Code | Actions |
|---|---|
| `issue` | `Issue` (computes the expiry), `IssueInsert` |
| `rotate` | `RotateLookup` or `RotateReuse` after `findByToken`; then in the transaction `RotateInsert`, `RotateUpdate` (the conditional UPDATE matched) or `RotateLose` (it matched nothing: throw, roll back), `RotateCommit` |
| `revoke` | `RevokeLookup`, `RevokeUpdate` |
| `revokeAllForUser` | `RevokeAllForUser`, `RevokeAllBegin`, `RevokeAllRow` for each row, `RevokeAllEnd` |
| `pruneExpiredTokens` | `PruneBegin`, `PruneRow` for each row, `PruneEnd` |
| crash or lost connection | `Abort`: the handler is gone, its transaction rolled back |
| deadlock (PostgreSQL error 40P01) | `DeadlockDetected`: the statement fails, its row locks are gone |

PostgreSQL is modelled from how the code uses it. A multi-row statement selects
the rows committed when it starts (`snap`), then takes them one at a time, in any
order, since its plan decides that: it waits while another handler has the row's
lock, looks at the committed version, and keeps the lock if the row still matches
(`held`); with the last one it ends, and its changes are visible. A sweep and a
prune can thus wait for each other in a circle, through rows that are the user's
and expired; `Deadlocked` finds circles of any length, and the database ends one of
the statements in it. A
row inserted by an open transaction is invisible until its commit. A lookup that
finds nothing, or a token revoked without a successor, only throws: the handler
never leaves `idle`, so there is no action. `row`, `newId` and the history
variables are ids; hashing is one-to-one and left out.

`slipped` records the sessions whose token was rotated, and committed, while a
`revoke` or a sweep that was to end them was still under way. The code can end
such a session on paper and leave its new token live; `EndedSessionsStayEnded`
says that this is the only way.

`Sessions` knows neither rows nor statements: a login opens a session for which
one token stands at a time, `Exchange` hands it to a fresh token, `End` only ever
takes away. `Authority` in `RefreshTokens` maps the table to it: a pair
`<<session, token>>` for every visible row that is not revoked, and as used every
id but those of open transactions. A rolled-back insert is `Discard`.

### `Otp.tla`

`OtpService` and `OtpRepository` for one phone and purpose (every query filters
on both). One step per statement: `issue` is `IssueStart` (phone lock),
`IssueCheckRate`, `IssueCheckCooldown`, `IssueInvalidate`, `IssueSave`; `verify`
is `VerifyStart` (phone lock), `VerifyFind`, then `VerifyMiss`, `VerifyHit` or
`VerifyExhaust`. Whether the presented code matches the row found is a choice.
Dispatching the message after the save only decides a warning in the answer and
is no step. `began` and `since`
record which ids were given out when the call of `issue` that made a code began, so
that two issues under way at the same time can be told from two in a row:
`OneCodeUnlessConcurrent` allows an older code beside a newer one only if it was
saved during the newer one's call. (That a crash between the invalidation and the
save leaves the phone without a code is a behaviour of the model, and no property
forbids it.) Because all checks read first and write later, the limits are stated
as what they really are with `N` callers at once: `Overshoot(L) = L - 1 + N`.
The sum of the attempts of the rows is the number of numbered failures,
`FailedAttempts`, so that it can be reasoned about as a set.

### `WhatsappQueue.tla` and `Outbox.tla`

`WhatsappQueueService` over one process lifetime. An action is one run of
JavaScript up to its next `await`: `EnqueueText` includes the first iteration of
the worker it starts, `SendSettles` the next `shift`. A running `processLoop` is
a record in `loops` of what it awaits; the set is there so that a second worker
could exist. `elapsed` is `Date.now() - lastSentAt` and saturates at `MaxDelay`,
from where on it delays nothing, which is also what `lastSentAt = null` means.
`SocketChanges` is the session opening or closing, at any time. `randomDelay` is
any value of `MinDelay..MaxDelay`; timers may fire late.

`Outbox` is the queue without its worker, pace and socket: `Accept` while there is
room, `HandOver` of the next message in order, nothing after `Close`. `Promise` maps
the queue to it. There is room for one message more than the queue holds: the one the
worker has taken and not yet sent. An enqueue to an idle worker may accept and
hand over in one step, as JavaScript does it; a send that settles without starting the
next, a socket that
changes and time that passes are stutters. That sends follow the order of
acceptance, and stop when shutdown begins, is part of this promise;
`FirstInFirstOut` and `NoSendAfterShutdown` state the same of the queue itself, where
the proofs need it.

### `WhatsappAuthStore.tla` and `WhatsappSession.tla`

Credentials are a device (an identity that pairs once) and a version (the updates
Baileys reports). The store has the snapshot (`cached`, `hydrated`), the pending
payload and its timer, the upload in flight with the `flush` calls that await it,
and the deletions in flight; the storage provider takes requests in one step and
answers in another, or fails. The session adds the three awaits of `startSocket`,
the requests that wait for a QR code, and every connection event. The process
crashes at any step and boots again, everything in memory being gone. A request in
flight at that moment has reached storage, is lost, or is a leftover
(`leftovers`): the provider handles it at any later time, before or after the next
process has read the object. A rejection that nobody handles (the
timer's flush, `onModuleInit`'s start) ends the process, as Node does.

The exceptions are histories. `slipped` are the devices that were wiped while an
upload or a start past its read still carried them, or whose deletion failed or
was cut off; `lost` says that the upload of the last update failed, or that a
deletion or a leftover landed after it; `overtaken` that an upload of an ended
process was stored after the running one had read the object, so that memory and
storage disagree until the next restart; `dropped` that a drop is
not recovered yet, and no storage call that the restart awaits has failed since. What holds holds outside these, and `wiped_never_return` shows one of them happen.

### `Accounts.tla`

One account, of either role: its row, the principal cached under its key, its
photos and its sessions (each the credential it was opened under). A request is
admitted by `JwtAuthGuard` (`CacheGet`, `Resolve`, `CacheSet`, `Admit`), then
runs its handler: `Load`, what it awaits, `Save`, then `Revoke` and `Invalidate`
where the service does them. Logins are `Find` or `Insert`, then `Issue`. `Save`
writes the loaded copy with its changes: TypeORM reads the row again and updates
the columns that differ from it, so columns that changed meanwhile go back.
`Abort` stops a request at any await. Histories (`tainted`, `intended`,
`photoLost`, `leaked`) name the races and cut-offs of the services that the
properties except; they are read by no guard.

### The small modules

- `Catalog`: each check of `CityService` and `AreaService` is a query of its own,
  the keys of the entities decide in the end, and `TypeOrmErrorHandler` words the
  answer; a request is `late` when another wrote after its first read.
- `Paging`: a client follows `nextPage`; rows and their number are one or two
  queries, as TypeORM decides; rows come and go between all of them. A page is the
  set of its rows, those whose `Rank` (the rows ordered before it) is in the window
  of skip and take; nothing depends on the order in which a page lists them.
- `Migrations`: a schema is a set of objects; `Stands` and `GoesWith` are what
  PostgreSQL requires of and drops with each. Replicas create database and
  schema on connections of their own, whose failure nothing retries
  (`BootstrapFails`); then, outside development, they read the record, migrate in one
  transaction, and retry. In development no migration runs: `Synchronise` creates
  what the entities declare and drops the trigram indexes, which none declares; two
  that do it at once can collide (`SynchroniseRace`). `migration:revert` reads which
  migration to undo and undoes it in a later step, and a start in between can
  record what is then undone with the first one (`stranded`). Not modelled are
  `migration:run` by hand on a development database, and two rows of one migration
  in the record. The sequences
  of CREATE and DROP statements are closed forms (which of them works, and what
  is there after all of them), so that they can be reasoned about.
- `Storage`: the requests of `uploadMany` and `deleteMany` are jobs which land or
  fail in any order, also after `Promise.all` has rejected.
- `AccessLinks`: single and multiple links, over time in ticks: the local driver
  floors to seconds, Supabase counts from when it signs.
- `FileRules`: a photo through both pipes and the service. Its bytes, name and
  declared type are independent; sizes are classes around the limits. Saving can
  fail, for a file of any size.
- `LocalTime`: every offset and transition within bounds, the two corrections of
  `localTimeToUtc`, and the bounds of the day. `TransitionsHaveASide` says what the
  code does with times that a transition skips or repeats, which is not what its
  comment says (see below).
- `Phones`, `PushBatches`, `Translations`, `HttpErrors`: one action per call.
- `Settings`: the environment as classes of values, the schemas and the rules
  across variables, then what every module chooses from what was accepted. The
  variables are changed one at a time from two environments that work. TRUST_PROXY
  and BODY_LIMIT have a class "other", for texts that Express and the body parsers
  do not understand: the one makes the start throw, the other lifts the limit.
- `Seeding`: one step per statement of a run, in both environments, beside the
  requests of administrators and users, cut off and run again. `setval` of no
  maximum leaves the sequence as it is.

## 3. Runs

| Run | Module, configuration | Shows |
|---|---|---|
| `refresh_safety` | `MCRefreshTokens`, `MCRefreshTokens.cfg` | no double spend, no dangling chain, ended sessions stay ended, under races, crashes, expiry and pruning; only sweeps and prunes wait in a circle for row locks; the table implements `Sessions` |
| `revoke_all_claim` | `MCRefreshTokens`, `MCRevokeAll.cfg` | violated: `RevokeAllKillsEverySession` |
| `otp_safety` | `MCOtp`, `MCOtp.cfg` | attempts, phone failures and issues stay within limit and overshoot; an older code stands beside a newer one only if their issues overlapped; a code is used twice only by overlapping verifications; pruning changes no rolling count |
| `queue_safety` | `MCWhatsappQueue`, `MCWhatsappQueue.cfg` | the queue implements `Outbox`: order, room, silence after shutdown; spacing, no stranded message; every accepted message is handed to WhatsApp, or the process is shutting down |
| `whatsapp_session` | `MCWhatsappSession`, `MCWhatsappSession.cfg` | all waiters are answered; a dropped session comes back, outside the named exceptions |
| `whatsapp_store` | `MCWhatsappSession`, `MCWhatsappStore.cfg` | with requests that outlive their process: waiters wait beside a socket that can still answer; the last update reaches storage, no socket runs on older credentials than are stored, and wiped ones are gone, outside the named exceptions |
| `wiped_never_return` | `MCWhatsappSession`, `MCWipedNeverReturn.cfg` | violated: `WipedNeverReturn` |
| `accounts` | `MCAccounts`, `MCAccounts.cfg` | cached principal, row, photo and sessions agree, outside the named races and failures |
| `deactivation_sticks` | `MCAccounts`, `MCDeactivationSticks.cfg` | violated: `DeactivationSticks` |
| `unfinished_profiles` | `MCAccounts`, `MCUnfinishedProfiles.cfg` | violated: `UnfinishedProfilesBlocked` |
| `database` | `MCDatabase`, `MCDatabase.cfg` | generic database errors only for requests overtaken, deleted rows stay deleted, pages partition the list, schema and record agree, or schema and entities in development, replicas that start together all start |
| `parts` | `MCParts`, `MCParts.cfg` | answers of storage, links, photos, local times, push failures, translation files, error answers and seeding are what their callers are told; phone numbers and settings that are let in are fit for use |

Every property of a passing run has a mutant next to the definition it replaces,
named with `Bug` (a comment says what it breaks), which makes the property fail.

Type invariants are no properties of runs: they are conjuncts of the inductive
invariants (`IInv`, or `SeedsIInv` and the like), which were checked by TLC on the
configurations above before they were proved.

### Bounds

- Refresh tokens: two handlers are enough for every race of the code, which are
  all between two statements; three rows give a login and two rotations, so that
  one successor can be rotated and two rotations can race. `TTL = 2` with
  `MaxNow = 3` lets a token expire and be pruned while its successor is still
  valid. `HasRoom` lets a handler that will insert start only while an id is left
  for it, so the bound on ids never cuts a transaction in half. Two
  handlers that share two rows make the smallest circle of waiting; with more
  handlers a circle is only longer. The proofs cover every other size.
- One-time passwords: two handlers, three codes, limits of one or two, and a lock
  window longer than the issue window, so each limit is reached and overshot, and
  pruning happens with both windows non-empty.
- Queue: `MinDelay = 2 < MaxDelay = 4` so that jitter makes a sleep necessary or
  not; a queue of three that fills up; seven messages, so that the queue fills,
  drains, idles and fills again. The proofs cover every other size.
- WhatsApp session: `whatsapp_store` has three devices, so that credentials wiped,
  those of an ended process and the next ones can be told apart, and one leftover
  (`MaxLeft`); the liveness run has two devices and none, since no progress is owed
  to a leftover. Two
  updates of each let one be pending behind another that is in flight, four
  `flush` calls can await one upload (the timer, a restart and both shutdown
  hooks). One deletion in flight; one QR request, since requests share
  everything but their timeout.
- Accounts: two requests, of any two operations, and two photos, so that one
  replaces another; two passwords of an admin. The races of the services are
  between two requests.
- Database: two requests, cities, areas and names; pages of up to three of five
  rows, two deletions; two replicas with three attempts, as in the code, one
  connection that fails (`MaxFaults`) and two reverts. Five rows and pages of one to three make full, partial
  and empty last pages.
- Parts: two callers of two files; three links out of public and private keys;
  offsets of either sign up to four units with transitions of up to two; five
  tokens in batches of two; a reference language with another one and two
  namespaces; two seed cities and an id beyond them; two variables
  changed in either environment. Qualities are the code's.

`MaxId`, `MaxNow`, `MaxJobs`, `MaxVersion`, `MaxCred`, `MaxCalls`, `MaxCityId`,
`MaxUserId`, `MaxEdits`, `MaxFaults`, `MaxReverts`, `MaxDeletes`,
`MaxAwaiting` and `MaxLeft` bound the runs only. Interchangeable values are factored out by symmetry in the runs
without a liveness property.

Deadlock is checked in every run but `database` and `parts`: there a behaviour is
that of one part, which ends when its ids, calls or attempts are used up. All the
parts that stand still keep their first state.

### Fairness

None in `RefreshTokens`, where no liveness is claimed: that a statement which waits for
rows goes on is PostgreSQL's business, and what the code owes to it, an order of
locks that makes no circles but among sweeps and prunes, is an invariant.

- `WhatsappQueue`: weak fairness of `Tick`, `Wake` and `SendSettles`: time passes,
  Node fires due timers, and Baileys settles every query by its
  `defaultQueryTimeoutMs`. No fairness for callers, the socket or shutdown.
- `WhatsappSession`: weak fairness of the steps of a start taken together (an
  import, a read and a request for the version each settle), of the answers to an
  upload, and of each waiter's timeout. No fairness for events of the socket,
  requests, the debounce timer, the end of a shutdown or crashes.

### Disagreements between documentation and code

Shown by a run:

- `refresh-token.service.ts:26` says that `revokeAllForUser` kills every session
  for a principal. Its UPDATE acts on the rows visible when it starts. A rotation
  that has inserted its successor but not committed makes it wait for the old row;
  after the commit that row no longer matches, and the successor was never
  selected. The session survives the sweep.
- `whatsapp.service.ts:110` says that a logout wipes the credentials so that the
  next `/qr` call starts a fresh pairing. `clear` waits for no upload in flight,
  and a start that has read the credentials goes on: the next socket can come up
  with the wiped identity. `WipedStayWiped` names all the ways.
- `user.service.ts:175` says that a deactivation blocks future authentication. A
  profile update, photo upload or completion that loaded the row before writes its
  `isActive` back when it saves.
- `profile-completion.guard.ts:17` says that the guard blocks users without a
  completed profile. It asks for `role`, a getter, which the principal from the
  Redis cache has not. No route uses the guard yet.

Met while modelling, without a run of their own:

- The message that carries a code (`baileys-whatsapp.notifier.ts:15`) says that it
  is valid only once. `verify` reads the row and later consumes it by id without
  repeating the condition, so two verifications that overlap both succeed.
  `SingleUseUnlessRaced` shows that nothing else lets a code be used twice.
- `timezone.util.ts:7` says that a time inside a gap resolves to the closest valid
  instant after the jump and one inside an overlap to its first occurrence. Both
  corrections use the offset at a guess: west of UTC a skipped time resolves before
  the jump, east of UTC a repeated one to its second occurrence.
  `TransitionsHaveASide` states what the code does.
- The repository's `README.md:43` says that every environment variable is parsed and
  validated and that the app refuses to start on malformed values. TRUST_PROXY and
  BODY_LIMIT (`security.schema.ts:26`, `30`) are any text: Express throws on a proxy
  setting that it cannot compile while the program starts, and a limit that is no
  size is none. `AcceptedSettingsServe` names the two as exceptions.
- `scripts/README.md:20` says of the translation check that the languages have the
  same keys, identical placeholders and JSON that parses, or the script exits
  non-zero. `hasBlockingErrors` asks only for keys of the reference that are missing
  and for empty values: orphan keys and differing placeholders are accepted, and so
  is a reference file that does not parse, which then has no keys to miss.
- `whatsapp-auth.service.ts:78` says of `flush` that a shutdown loses no pending
  update. When it meets an upload in flight which then fails, the awaiting call
  rejects with it, and the pending payload is not sent.
- `SupabaseStorageProvider.read` (`supabase.provider.ts:91`) tells every error as
  a missing file, so an outage makes a paired session look unpaired; the first
  update of the fresh identity then overwrites the stored one. (`ReadMisses`.)
- `app-database.bootstrap.ts:74` lets a role without the privilege to create
  schemas start on one that is provisioned; the first migration
  (`1747600000001-Init.ts:11`) then sends CREATE SCHEMA all the same. (Such a role
  is one of the exceptions of `GivesUpOnlyIfBroken`.)
- `infrastructure/database/README.md:3` says that `synchronize` is off in every environment;
  `app-database.options.ts:68` turns it on in development.
- `scripts/README.md:43` says that the production seed is admin only by default; the
  registry, and line 70 of the same file, seed cities and areas there too.
- `WHATSAPP_QUEUE_MAX_DELAY_MS` may be set below the minimum
  (`whatsapp.schema.ts`); `randomInt` then throws inside the worker, and the message
  it has taken is lost. `AcceptedSettingsServe` excepts delays that were set, and
  `WhatsappQueue` assumes them in order.
- The size limit for videos in `storage/config/defaults.ts:33` is above the limit
  for every file, which is checked too.
- A file that passes the pipes and is too large after re-encoding is refused by
  the service as an internal error, not as the client's. (`StoredIsWhatItSays`.)
- `infrastructure/config/README.md:4` says that the app refuses to boot on missing
  or malformed values. A number with a lower bound of 0 that is set to nothing
  boots as 0 (no spacing of messages, or delays out of order), and a service
  account that is no JSON turns push off. (`AcceptedSettingsServe`.)
- The seeds leave `refresh_tokens` alone and start the ids of users again outside
  production, so that a session that lived through a reseed belongs to another
  user. (`SessionsKeepTheirUser` holds in production only.)

## 4. Proofs

Checked by TLAPS for every value of the constants, under the modules' named
assumptions only.

**`RefreshTokensProofs`** (assumption: the lifetime is a positive number, the
bounds are numbers). The safety properties are not inductive: that a successor
expires no earlier than its predecessor, for instance, rests on what a handler
read before it inserted. `IInv` adds what each handler inside a transaction
knows (`RotationsWellFormed`), that open transactions are disjoint
(`TransactionsDisjoint`), that a prune takes a token together with its successor
and no row still uncommitted (`SnapshotsWellFormed`), that the sessions a
statement is ending have no live token but those it selected (`VictimsCovered`), and
which locks a handler can have (`LocksWellFormed`).
`Invariance` is `Spec => []IInv`, with one lemma per action; the safety
properties follow, and `ExchangesAreFinal` proves the action
property. `DeadlocksAreOfSweeps` shows that whoever waits in a circle runs a sweep or
a prune: a rotation holds a lock only when it waits for none, so that no login,
rotation or logout is ever ended by the database to break a deadlock.
`Refinement` is `Spec => ImplementsSessions`: under `IInv` a commit of a rotation
is the abstract `Exchange`, an insert by a login is `LogIn`, revocations and
prunes are `End`, a rolled-back insert is `Discard`, and all else changes neither
what is held nor what is used (`QuietStep`).

**`OtpProofs`** (assumption: the limits and windows are positive, the handlers
finitely many). A bound on a count is not inductive, since a handler that has
passed the check will still add to it. `IInv` therefore bounds the sum of both:
for each code, its attempts and the handlers about to miss it (`AttemptsSlack`);
for the phone, the failures of the window and the handlers between the lock check
and the miss (`FailuresSlack`); the codes of the window and the handlers between
the rate check and the insert (`IssuesSlack`). A step that passes a check does so
while the count is below the limit, and there are no more handlers than there
are; a step that spends moves one handler from the second summand to the first.
`IdsReserved` keeps an id for every call under way, `SaversInvalidated` says that what a
handler about to save did not invalidate was saved since its call began, whence
`OneCodeStands`; `AcceptancesRaced` gives the single use. `OtpInvariance` is
`Spec => []IInv`; every property of `otp_safety` follows, `PruneKeepsCounts` as
an action property. That a largest active row exists (`MaxInSet`) rests on the
well-founded order of finite sets.

**`WhatsappQueueProofs`** (assumption: `MinDelay <= MaxDelay`, without which
`randomInt` throws; the queue holds at least one message). `IInv` adds that what
the worker awaits determines which sends have settled (`LoopKnowsItsSend`), and
that `lastSentAt` is never older than the last send, so that a sleep ends no
earlier than the minimum delay after it (`PaceKept`). Most steps of the
worker are an iteration of its loop, so one lemma, `AfterIteration`, carries most
of the proof; a sleep that ends in a send and an enqueue to a busy worker have
proofs of their own. `QueueInvariance` is
`Spec => []IInv`; from it follow the invariants and, for single steps,
`SpacingKept`, `SilentAfterShutdown` and `PositionTrue`. `QueueIsAnOutbox` is the
refinement, `Spec => ImplementsOutbox`: under `IInv` what waits in the outbox is
the queue and what the worker holds while it sleeps, so that an iteration of
the loop takes over the oldest message and hands it over now or when the timer fires.

**`WhatsappSessionProofs`** (assumption: the bounds are positive, `NoDevice` is no
device), for the session composed with the credential store. Its properties speak
of a moment and rest on a history, so `IInv` adds the history: a socket and a start
exclude each other and neither outlives the process (`OneSocket`), whence
`NoWaiterIsOrphaned`; the pending snapshot is the last one, and an upload of an
older one has a timer or a waiting `flush` that will take the newest
(`UploadsInOrder`), whence `LastUpdateIsOnItsWay`; a process saves and deletes
nothing before it has loaded (`BeforeTheLoad`), so that what a start reads was not
wiped, or has slipped (`ReadsNothingWiped`), and neither have the leftovers of ended
processes (`LeftNothingWiped`), whence `WipedCredentialsStayWiped`. The
end of a flush is the one step with several continuations; the lemma `Flushing`
states them once. A second invariant, `VersionsInOrder`, follows the versions of a
device's credentials: socket or what a start has read, snapshot, pending payload,
upload and storage each hold one that is at most as new as the one before it, and nothing
flows back but by a load, which brings the newest there is. A failed upload, a crash
or a deletion makes versions disappear, never reappear out of order; but a leftover
of an ended process can, so `VersionsInvariance` is
`Spec => []OrderUnlessOvertaken`: the order holds until a leftover is stored after
the read of the running process (`overtaken`), and from the next start on it holds
again. `SocketsAreUpToDate` and the action property
`StoredVersionsGrow` follow. The latter excepts
the arrival of a leftover and what the overtaken process then stores. It is only proved: within the bounds of the run,
two versions, no plausible change of the code breaks it.

**`AccountsProofs`** (assumption: `NoPhoto` is no photo, there is a password). Every
property excepts a race; `IInv` says what holds without one: the copy of the row
that a request works on is the row itself unless it is `late` (`CopiesGood`), and a
photo on its way into the row is stored and named nowhere else (`KeysOwn`). From
`AccountsInvariance` follow the four invariants of the run. `DeactivationSticks` is
violated; `ReactivatedOnlyIfRaced` proves the action property that is left of it: a
deactivated account becomes active by an activation or by the save of a copy loaded
before somebody else wrote, and by no other step. The attempt at a first version
found a flaw of the model: the absent row could not be told from a principal that
is inactive, incomplete and without a photo. `NoRow` now has a password of its own.

**`StorageProofs`** (assumption: the bounds are numbers). An answer of `uploadMany`
is right because no job but its own touches the keys it drew, even jobs left over
from calls that have failed. `IInv` counts the jobs of a pending call exactly
(`JobsCounted`) and says for each key a call is `sure` of which jobs touch it and
what is stored under it (`SureMeansOwn`). `AnswersNameTheirObjects` and
`DeletedObjectsAreGone` follow.

**`DatabaseProofs`** (assumptions: ids of cities and areas are of different kinds,
replicas are finitely many and have three attempts or more, a page may have a row). `DatabaseRefined`
shows that each part of the composition behaves as its own specification says, so
that theorems about the parts hold in the run.
- `Catalog`: `RequestsKnow` says what a request that is not `late` knows: the rows it
  found exist, the names it checked are free. The keys of the database
  (`NamesUnique`, `AreasHaveCities`) hold throughout. `GenericErrorsOnlyRaced` and
  `DeletedStaysDeleted` follow.
- `Paging`: `Rank` numbers the rows from 0 without gaps (`PlaceRange`, `PlaceOnto`), so
  that a page is a window of places. A row added at the end moves no place of an
  upward walk, and a deletion only moves later rows forward, from where they can be
  missed but not met again. `PagesIInv` says for the pages seen where their rows lie among
  those in the table, and that `nextPage` is 0 only when no row lies behind the last
  window (`NextPageLeads`); `WalksSeeEachRowOnce` follows for lists and limits of any
  size. For this proof the module was rewritten from slices of a sorted sequence,
  whose sum over a walk was a fold, to sets of rows.
- `Migrations`: where migrations run, the schema follows the record but for what a
  start records while a revert of the first migration is under way (`stranded`: the
  revert drops their tables and leaves them recorded). That is not inductive: a
  record of later migrations without the first would break it. `RecordIInv` says that
  of those not stranded the first was recorded, and before the others, which all stand on its
  tables (`NeedsTheFirst`), so that a revert undoes it last; and that all of them
  were recorded since a revert that is about to undo it has read the record. What each
  migration creates and what its `down` takes away is computed once
  (`WhatMigrationsCreate`, `LastIsUndone`, `FirstIsUndone`), and
  `SchemaIsAsRecorded` follows for any number of replicas, faults and reverts. In
  development it says that a replica that serves finds every object of the entities,
  which holds since nothing there takes any away.
  `StartsAreNotGivenUp` needs a count: with nothing but starts going on, a replica
  has lost at most one attempt to a race for TypeORM's table and one to the replica
  that filled the record (`Losable`); one that read the record before it was filled
  has lost no more than the race for the table (`InStep`). Hence three attempts are enough for any number of replicas, and
  two would not be.

**`PartsProofs`** (`PartsAssumption`: sizes and limits are positive numbers, and the
minimum quality lies between one step and the quality to begin with; steps need not
meet it).
`PartsRefined` is the refinement of the ten parts by their composition.
- `SeedsAreHonest`: `SeedsIInv` says what each statement has left when the next one
  is due. The upsert of the cities, a function that draws ids until one is free, is
  characterised by its least counterexample, without induction over data.
- `LinksAreHonest`: single and multiple links name the key at their place and live as
  long as is told; the lists of public and private keys are the ordered listings of
  two sets of places, whose existence and uniqueness are lemmas.
- `LocalTimesAreHonest`: after the first correction the guess is off by at most the
  transition, and the second lands on an instant that shows the time if there is one, for every
  offset; on which side of the transition the others fall follows from the sign of
  the offsets.
- `AcceptedTextsDoServe`, `PhotosAreHonest`, `InputsAreHonest`, `ErrorsAreHonest`,
  `FailuresArePlaced`: the remaining parts, for any languages, sizes, settings, tokens
  and batches. The proof of `ErrorsAreHonest` found that two arms of a CASE in the
  first version of `HttpErrors` overlapped; they exclude each other now.

Only model-checked: the liveness properties `EveryMessageIsSent`,
`EveryQrCallerAnswered` and `DroppedSessionComesBack` (fairness and ENABLED are out of
the prover's reach), and the violated claims. Every invariant, action property and
refinement of a passing run is a theorem.

## 5. Not modelled

Left out on purpose, because they keep no state whose order matters or are a
library's: cryptography and token formats, wording, HTTP routing and validation
of bodies, throttling (`@nestjs/throttler` configured; only the choice of its
storage is in `Settings`), health checks, the documentation page, the generated `translation-keys.ts`,
column definitions of the tables, and strings character by character (storage
keys, case conversion of queries, trimming). `deletePattern` of the cache and
`ProfileCompletionGuard` are called by nothing today; the guard is modelled, the
pattern is not. The report of the translation script is wording.

What would come next: `Accounts` over `Sessions` instead of its own set of sessions,
and `Otp` over the outbox, so that the races of both are seen together; and an
abstract specification of the credential store, which its theorems state one by one.
