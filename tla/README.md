# TaskAPI in TLA+

TLA+ models of the task management API in `src/` (an Express service over MongoDB
and Redis) and of the parts of its web client that keep state, with the TLC runs
that check them and the TLAPS proofs about them.

Paths below are relative to the repository: `auth.service.ts` is
`src/services/auth.service.ts` of the server unless a directory is given.

## 1. The system

N replicas of one stateless Node process serve `/api/v1`. Everything that lasts is
in MongoDB (users, tokens, tasks, shares, comments, activity, webhooks, idempotency
records) or in Redis (rate limits, statistics cache, BullMQ queues). The same
processes run the BullMQ workers (email, webhooks) and the repeated jobs (reminders,
trash cleanup). There are no transactions and no locks: whatever a handler reads,
another handler of the same or of another process may change before its next
command, and MongoDB makes only the single command atomic.

| component | state | operations | where it is hard |
|---|---|---|---|
| sessions and tokens | `Token`, `User.password`, `User` existence | register, login, refresh, logout, revoke a session, change/reset password, delete account | rotation is read, then unconditional save, then create; sweeps race with tokens about to be stored; crash between save and create |
| idempotency | `Idempotency` records under a unique `(user, key)` index with a TTL | create task, import tasks | a retry beside its first attempt; crash between work and save; TTL removal under a running attempt |
| webhooks | `Webhook.active`, `consecutiveFailures`; BullMQ jobs | create, update, delete, ping, emit, deliver, retry | circuit breaker is read-modify-write, several workers, updates of the owner in between |
| task lifecycle | `Task` (status, recurrence, `deletedAt`, `reminderSent`) | create, update, complete and spawn, trash, restore, purge, empty trash, bulk; reminder and cleanup jobs | guards taken from an earlier read; spawn after the update; jobs beside handlers |
| two-factor | `User.totpEnabled`, `totpSecret`, `recoveryCodes`, `__v` | set up, enable, disable, log in, challenge | documents loaded, decided on, saved; Mongoose checks `__v` for some saves and not for others |
| statistics cache | one Redis key per user, 60 s | read, write-through, invalidate | a computation that started before a write is stored after its invalidation |
| collaboration | `TaskShare`, `Comment`, `Activity` | share, unshare, list, comment, read/update a shared task | access is checked, then used two round trips later |
| accounts and feed | `User.email`, `role`, `emailVerified`, feed token | register, verify, change address, change role, delete, read and rotate the feed URL | the role and the document are loaded before the handler runs; check-then-act on the number of administrators |
| reminders and email | `reminderSent`, BullMQ queues, which processes have workers | hourly run, send, mark, deliver, boot | a throw in the middle of a loop over tasks; mail before mark; Redis missing at boot |
| lists and codecs | none | pages of tasks; CSV export and import, iCalendar feed, next due date | pages by position while the list changes; quotes, line folds, month ends |
| validation, access control | none | guards in front of handlers | `protect` reads before the handler does |
| server, configuration, telemetry | connections | start, stop | a process that boots without Redis has no workers for life |
| client: session | access and refresh token in browser storage, one in-flight refresh | login, request with retry after 401, proactive refresh, logout | several requests and tabs over one rotating token in `localStorage` |
| client: task cache | TanStack Query caches | optimistic update, rollback, refetch, turning pages | overlapping mutations and rollbacks, fetches and cancellations |
| client: pages | page number, dialog, pending request | start mutations, turn pages, sign in and out | handlers that look at what is shown, not at what was asked for |

How they interact: handlers of tasks call the idempotency protocol, invalidate the
statistics cache, append activity and enqueue webhook deliveries; collaboration
reads tasks through `loadTaskWithAccess`; account deletion reaches into tokens,
tasks and everything else the user owns; the client drives the refresh rotation.

What makes each part correct: a rotated or revoked token stays dead and a sweep is
complete (sessions); one key has one effect per record and replays only finished
results (idempotency); a disabled hook has reached the limit and an enabled one has
not (webhooks); completing a recurring task yields one successor, and what is purged
was trashed (tasks); a recovery code works once (two-factor); a cached value is
never older than its TTL and the last invalidation (statistics); nobody acts on a
task after losing access, up to the requests already in flight (collaboration); one
administrator remains and an address is verified by its own mail (accounts); what is
marked was mailed, and what is due is marked in the end (reminders); what is written
is read back (codecs); the server never takes the client's own token for a stolen one,
no logout is undone, and a quiet list shows what the server has (client).
Where the code keeps such a promise only up to an overlap or a fault, the property says
which one.

## 2. Plan

| | module | about | status |
|---|---|---|---|
| 1 | `Sessions`, abstract `SessionChains` | tokens, refresh rotation, sweeps, deletion | done, proved, refinement proved |
| 2 | `Idempotency`, abstract `OncePerKey` | reservation protocol | done, proved, refinement proved |
| 3 | `Webhooks` | queue, deliveries, circuit breaker | done, proved |
| 4 | `TaskLifecycle` | update with recurrence, trash, bulk operations, cleanup job | done, proved |
| 5 | `TwoFactor` | enrolment, challenge, recovery codes over `__v` | done, proved |
| 6 | `SharedTasks` | shares, access checks, comments, activity, and the statistics cache around the same handlers | done, proved |
| 7 | `Accounts` | addresses, roles, deletion, feed URL behind `protect` | done, proved |
| 8 | `Reminders` | the hourly job, the email queue, processes with and without Redis | done, proved |
| 9 | `ClientAuth` | tabs of one browser over the rotation | done, proved |
| 10 | `ClientBoard` | query cache, optimistic updates, pages | done, proved |
| 11 | `Formats` = `ImportExport`, `Listing`, `Calendar` | three machines without shared state | done, proved |

`SharedTasks` puts collaboration and the statistics cache together, because one handler
does both; `Formats` runs three modules side by side in one run. `ClientAuth` has the
server's side of each request as one step and `Sessions` has its interleavings; the two
are not composed into one state space.

Abstract specifications: `OncePerKey`, what a key promises to who repeats a request, and
`SessionChains`, an atomic "rotate or refuse" that the handlers of `Sessions` implement.
"Proved" means the type invariant, the safety invariants and the action properties of a
module, and that it implements its abstract specification; liveness is TLC's. Of what
this plan names, nothing else is left; further ones would be `ClientAuth` against
`SessionChains` instead of its own server, and a key of the idempotency table that
changes hands between the two operations that use it.

## 3. How the models are written

* A handler is a record of local state (`req[r]`, `attempt[a]`) with a program
  point. It is split at every database round trip it awaits; between two points any
  other handler may run. One MongoDB command is one step. `updateMany`, `deleteMany`
  are one step too: MongoDB may interleave other commands between the documents it
  touches, and no property below relates two documents that one such command
  writes. `insertMany` of an import is split row by row, because a partial insert
  is visible to a retry.
* `doc.save()` of Mongoose is an update by `_id` of the changed paths: it does not
  look at what else changed, and throws when the document is gone. Only a save that
  touches an array asks for the `__v` it read (section 8).
* An early return that writes and remembers nothing is no step (it would be a
  stutter). A process that dies, or a command that throws, is `Fail`.
* Variables or fields marked *history* record what happened, are never read by an
  action's guard (only properties use them), and are not in the code.
* `X_Fault` operators, each after a comment "Seeded fault", are plausible bugs of
  the definition that follows. No run uses them as they stand; putting one in the
  place of its definition must break the property named in `PROJECT.json`.
* Runs say `CHECK_DEADLOCK FALSE`: accounts, tokens, attempts, clicks and faults are
  finite here, and when they are used up the model may stop, as a server without
  requests does.
* A property that is a conjunction (`RotationSafety`, `ScreenIsTrue`, ...) joins
  statements about one hazard, each defined and explained above it in its module; each
  part has a seeded fault of its own.
* Type invariants of the modules of sections 4 to 9 are theorems and are not checked
  again; the runs of the other modules check theirs, which are theorems as well.
* Several tables say "what does hold": where the documentation, a comment or a screen of
  the repository promises more than the code keeps, the property is the strongest
  statement found that does hold, and the divergence is told in prose.

## 4. Sessions

`Sessions.tla` models `issueRefreshToken`, `refreshAccessToken`,
`revokeRefreshToken`, `revokeAllUserTokens` and the handlers around them. State:
`user` (exists, the number of its password), `token` (status, expired, owner, and as
history the token it was exchanged for, the password it rests on and the password
and the account status when it was stored), `req` (handlers in flight).

| action | code |
|---|---|
| `Register`, `Login` then `Issue` | `User.create` or `findOne` + `comparePassword`, then `Token.create` |
| `RefreshLive`, `LoadUser`, `Rotate`, `Issue` | `Token.findOne`, `User.findById`, `tokenDoc.save`, `Token.create` |
| `RefreshRevoked`, `RevokeAll` | the reuse branch: `Token.updateMany` |
| `BeginPasswordChange`, `SetPassword`, `RevokeAll` | `changePassword`, `resetPassword` |
| `Logout`, `RevokeSession` | one guarded `findOneAndUpdate`/`updateOne` |
| `DeleteMe`, `AdminDelete`, `DropUser`, `DropTokens` | `Promise.all` of deletions, or one after the other |
| `Expire`, `Fail` | `expiresAt` passes; the process dies or a command throws |

The password, its hash, the reset link and the token string are abstracted to their
identity: a token is a model value that is drawn once. Tokens are not removed by a
TTL index (`models/token.ts` has none), so an expired token stays and, if it was
revoked, still triggers reuse detection, as in the code, which looks at `revokedAt`
before `expiresAt`.

| run | question | bounds |
|---|---|---|
| `Sessions_safety` | can a token have two successors without an overlap, can an orphan be kept alive, do revocations last and are sweeps complete when handlers die; do the handlers implement `SessionChains` | 1 user, 3 tokens, 2 handlers, 2 password changes, 1 failure |
| `Sessions_live` | does a noticed replay, and a saved password, end the sessions, and of that account only | 2 users, 2 tokens, 2 handlers, 1 password change, no failure |

Three tokens are a token and its two successors, the smallest fork; two handlers are
two refreshes, or one and a sweep (the proofs below take away the bound); two
password changes let a sweep of the first come after the save of the second.

What the code does not keep: "a reused token revokes all sessions
(theft detection)" (README.md:211). `refreshAccessToken` reads `revokedAt` and saves it two
round trips later by `_id` alone, so two overlapping refreshes both succeed and nothing
is detected; `ForkNeedsOverlap` is what does hold. "Change password (revokes all
sessions)" (README.md:271): a login that compared the old password stores its session
after the sweep; `SweptSessionsAreCurrent` is what does hold. In the same way a token
may be stored after the deletion of the account's tokens; `OrphansAreBarren` says it
cannot be refreshed.

Fairness (`FairSpec`): `WF_vars(Continue(r))`, a handler whose database call
returned is resumed by the event loop. Nothing forces requests to arrive. With
`MaxFailures = 0`, because a handler that dies owes nothing more: the liveness
properties are about the code, not about the machine.

Proofs (`Sessions_proofs.tla`), for any sets of users, tokens and handlers and any
number of password changes and failures: `TypeCorrect`, `RotationIsSafe`
(`RotationSafety`: `RotatedTokenIsDead`, `ForkNeedsOverlap`, `OrphansAreBarren`) and
`SweepIsComplete`. The properties are not inductive alone: a refresh between its
read and its `Token.create` already decides who will be the successor. `IInv` adds
`LinksOK` (parents were stored, have aged, are revoked or gone), `ForkOK` (two
*claims* on one token, a claim being a stored successor or a refresh about to store
one, come from an overlap) and `OrphanOK` (a claim on a token of a deleted account
cannot pass `User.findById`). Each
action either only ages tokens and makes no new claim (`StepQuiet`: `Ageing`,
`NoNewClaim`), or is one of the two that do more, `RefreshLive` and `Issue`.
Two action properties follow from `TypeOK` alone: `RevocationLasts` (`RevokedForGood`)
and `EndsStayInside` (`SessionsEndPerUser`), because a step moves one token or, by their
owner, many (`OneTokenMoves`, `OneUsersMove`). The liveness properties are checked by TLC
only.

`SessionChains.tla` is what rotation promises to whoever holds a token, in four atomic
actions: `SignIn` hands a token out, `Exchange` trades a current one for a new one of the
same user, `Contest` notes that two refreshes were given one token, `End` ends tokens of
one user. A token is current until it is exchanged or ended and never again; only a
contested one may stay current when it is exchanged. `Sessions` implements it
(`RotatesOrRefuses`) under the mapping `Chains`: a token is current if it is live and not
expired, or if a refresh *claims* it. So the exchange happens at `Token.create`, not at
`tokenDoc.save`, and a logout, an expiry or a sweep that meets a token in the hands of a
refresh does not end it: it ends, if at all, when that refresh gives up. The run checks it
on its instance, `RefreshRotatesOrRefuses` proves it for all, from `IInv`: a step that
hands out nothing is quiet (`StepQuiet`), and then ends tokens of one user (`EndsMap`);
`RefreshLiveMaps` and `IssueMaps` are the two others. That a token nobody contested has one
claim (`ForkOK`) is what makes it leave at its first exchange.

Not in this module: the second factor between login and `Issue` (`TwoFactor`),
`listSessions` (reads only), access tokens (JWTs are self-validating and hold
no state).

## 5. Idempotency

`Idempotency.tla` models the blocks of `createTask` and `importTasks` around the
`Idempotency` collection. An attempt is one HTTP request with a key or none and a
number of rows (one for `createTask`).

| action | code |
|---|---|
| `Arrive` | the controller: key from the header, rows from the body |
| `Reserve`, `Duplicate` | `Idempotency.create` with body `null`; or the duplicate key error |
| `Lookup` | `findOne`: replay a stored body, else 409 |
| `Insert` | `Task.create`, `insertMany` |
| `Save` | `record.save()`, which throws if the TTL index removed the record |
| `AnswerUnkeyed` | the path without a key |
| `Expire`, `Fail` | the TTL index; the process dies or a command throws |

`Expire` may fire at any time: 24 hours pass for a request that hangs as well.
Response bodies are abstracted to how many rows they report and whose they are.

| run | question | bounds |
|---|---|---|
| `Idempotency_once` | one effect per record, only finished results replayed, refinement of `OncePerKey`, is a key a dead attempt reserved usable again | 3 attempts with one key or none, 2 rows, 1 failure |

Three attempts are a first one, its retry, and one after the TTL; two rows make a
partial import. Keys meet only in attempts, and an attempt has one key, so one is
enough for TLC; the proofs below are for any set of keys.

`OncePerKey` is the promise: at most one attempt holds a key, only holders work, and
the others are told a finished result or turned away. `KeepsPromise` is the
refinement, with `record[k].by` as the holder of a key.

What the code does not keep: "retries return the original result" (README.md:95). When
the first attempt dies after its reservation, every retry is refused with "request in
progress" until the TTL, though nothing is in progress. The retry is never carried out
twice: `AtMostOncePerRecord` shows that a second insertion under one key needs a TTL
removal in between, which also answers the audit note in `docs/` that a retry after a
crash creates a duplicate.

Fairness: handlers as above, and `WF_vars(Expire(k))`: the TTL monitor of MongoDB
runs every minute, for ever.

Proofs (first part of `Requests_proofs.tla`): `TypeCorrect`, `KeysAreSafe`
(`KeySafety`: `AtMostOncePerRecord`, `ReplayIsOriginal`, `SuccessIsReplayable`) and
`ImplementsPromise` (`Spec => KeepsPromise`) for any sets of attempts and keys. The
invariant ties a record to the attempt whose `create` stored it: same key, same
age, held, and, if the record is stored, finished; and says that ages only grow.

## 6. Webhooks

`Webhooks.tla` models the `Webhook` collection, the BullMQ queue of deliveries and
the workers. State: `hook` (present, `active`, `consecutiveFailures`), `job` (a place
of the queue: the hook it is for, attempts left), `worker` (one per process; BullMQ's
default concurrency is one job), `emitter` (an `enqueueDeliveries` or `pingWebhook`
between its find and its add), and the histories `streak` (failures counted since
the last success or re-arming), `total` (deliveries that failed) and `raced` (hooks
that were written while a worker held an earlier read of them).

| action | code |
|---|---|
| `createWebhook`, `updateWebhook`, `deleteWebhook` | the handlers of the owner; `active: true` resets the counter in the same command |
| `FindHooks`, `FindPinged`, `AddJobs`, `AddFails` | `Webhook.find`/`findOne`, then `addBulk`/`add`, whose errors are swallowed |
| `Take`, `Post` | BullMQ hands out a job; `fetch` with the job's own url and secret |
| `RecordSuccess`, `SuccessThrows` | `recordDeliverySuccess`; when it throws, the `catch` counts a failure |
| `ReadHook`, `WriteFailure`, `CountThrows` | the two round trips of `recordDeliveryFailure` |
| `Retry` | the attempt ends with an error: back to the queue, or out of attempts |
| `Crash` | the process dies; BullMQ returns the stalled job to the queue |

Back-off is a wait of unknown length: a waiting job is taken at some later time.
Urls, secrets, events and bodies do not influence who counts what and are left out.
BullMQ is external: it is modelled as a set of places from which an idle worker
takes any job, and a stalled job keeps its attempts. `Take` does not need the hook to
be active or present, because `performDelivery` does not look.

| run | question | bounds |
|---|---|---|
| `Webhooks_breaker` | what the counter and the flag may be, whatever overlaps; is a dead endpoint disabled although counts are lost | 1 hook, 2 workers, 2 jobs, limit 3, 2 attempts, 2 changes by the owner, 1 fault |

Hooks do not interact except through free workers, so one is enough; two workers
make the lost update, and the one that is behind may stay behind while the other
counts. A limit of 3 separates the first count, one in between, and the last.

Two failures may read the same count, so the limit passes and the hook stays armed
for as many more deliveries as counts were lost (note N-017 of the audit knows the
lost update). "Disabled after 10 consecutive failures until you re-arm it"
(README.md:332) is not kept either: the write of a failure that was read before the
owner re-armed the hook disables it again with no failure since. What does hold: the breaker can always still open (`ActiveBelowMax`), it is exact
without an overlap (`MiscountNeedsOverlap`), lost updates never add up
(`NeverOvercounts`), and it opens in the end (`BreakerTrips`).

Fairness: `WF_vars(Continue(w))`, a worker goes on with a delivery it has started:
database calls return and `fetch` is aborted after `DELIVERY_TIMEOUT_MS`. Nothing
forces a task event, an idle worker to take a job or the owner to act.
`BreakerTrips` therefore says what cannot go on for ever: failures being counted with
no success among them.

Proofs (the first half of `Jobs_proofs.tla`), for any number of hooks, workers, jobs, any
limit and any number of attempts: `TypeCorrect`, `BreakerIsSafe` (`BreakerSafety`:
`ActiveBelowMax`, `MiscountNeedsOverlap`) and `CountsOnlyFailures` (`NeverOvercounts`).
The invariant of the first two adds what a worker between its read and its write knows:
the count it saw is below the limit (it saw the hook active), and it is the streak of the
hook unless the hook is marked raced. `NeverOvercounts` compares a counter with all
failures so far, and a write sets it to one more than a count read long ago; so its
invariant (`Ledger`) keeps books. A failed delivery is in `total` at once and reaches the
counter later: the counter, and likewise every count that a worker holds to write it back,
plus the number of workers on their way (`Pending`, a finite set) is at most `total`,
until that has reached the limit. A write then moves one failure from the pending side to
the counter. `BreakerTrips` is liveness and is checked by TLC only.

## 7. Tasks

`TaskLifecycle.tla` models the tasks of one account under `updateTask`, the trash, the
bulk operations and the cleanup job. State: `task` (absent, live, trash or purged;
status, recurrence, and whether its time in the trash exceeds the retention), `req`
(PUTs in flight with their body and what their `findOne` returned), and as history
`origin` (which completion of which task a task was created by), `completions`,
`owing` (completions by `updateTask` of a recurring task that have no successor),
`raced` and `excused` (handlers whose task was written after their read, and
completions by such handlers or by ones that died).

| action | code |
|---|---|
| `createTask` | `Task.create` of `createTask`, a row of `importTasks` |
| `FindExisting` | `Task.findOne` of `updateTask` |
| `FindOneAndUpdate`, `NoMatch` | the guarded `findOneAndUpdate` (`Matches`, `Updated`), and its `null` |
| `Spawn` | `Task.create` of the next occurrence, from the stale `existing` |
| `softDeleteTasks`, `restoreTasks`, `purgeTasks`, `emptyTrash`, `bulkCompleteTasks` | the commands of the same names; `DELETE` and the bulk endpoint use them |
| `RetentionEnds`, `runTrashCleanup` | `deletedAt` falls behind the cutoff; the job's `deleteMany` |
| `Fail` | the process dies or a command throws |

`pending` and `in_progress` are one status, "open": no guard of this component tells
them apart. Title, description, priority, tags and due date are left out, and with
them `bulkSetPriority`. The access check in front of a PUT reads only; a request it
refuses is no step, and who may send a PUT belongs to collaboration. The webhook
events at the end of a PUT are the emitters of `Webhooks`.

| run | question | bounds |
|---|---|---|
| `TaskLifecycle_trash` | successors and trash under two PUTs and everything else | 3 task ids of which 1 is created by the user, 2 PUTs in flight, 4 in all, 1 failure |

Three ids are a task and two successors, of it or of each other; four PUTs are a
completion, a reopening, a second completion and one more beside them.

"Completing a recurring task spawns the next occurrence (race-safe)"
(docs/USER_MANUAL.md:168) is not kept: a PUT reads a completed task, another one reopens it,
and the first completes it again: the update matches, and no successor is created
because `existing.status` was read as completed (note N-027 of the audit). What does
hold: never two successors of one completion (`SpawnOncePerCompletion`), and none
missing but for such a stale read or a fault (`LostSpawnNeedsRace`). That bulk
completion creates no successor is intended (`tests/integration/trash.test.ts:190`)
and is not counted as owing one.

There is no liveness property: ids are finite here, so a successor may find no id
left, which MongoDB does not know. `LostSpawnNeedsRace` says instead that a handler
stands ready to create it.

Proofs (`TaskLifecycle_proofs.tla`), for any sets of tasks and handlers, any bodies
and any bounds: `TypeCorrect`, `SpawnsOnce` (`SpawnSafety`: `SpawnOncePerCompletion`,
`LostSpawnNeedsRace`), `TrashKeeps`. The
invariant treats a handler before its `Task.create` like a successor: it *claims* a
completion nobody else claims (`ClaimsOK`), and it adds that what a handler has read
is still so unless the handler is marked raced or the task is gone (`ReadOK`). All
properties of the passing run are proved.

## 8. Two-factor authentication

`TwoFactor.tla` models `setup2fa`, `enable2fa`, `disable2fa`, `login` and
`verify2faChallenge` over the `User` document of one account. State: `user`
(`totpSecret`, `totpEnabled`, which enable made the stored codes, which of them are
used, `__v`) and `request` (one record for each run of a handler: what it presents,
the document it read, the session it stored; as history whether its write was made,
the `__v` at that time, and which other requests were between their read and their
write when it read). Secrets and codes are named after the request that makes them.

| action | code |
|---|---|
| `Setup`, `SaveSecret` | `setup2fa`: `findById`, then `save` of `totpSecret` |
| `Enable`, `SaveEnabled` | `enable2fa`: `findById` and `isTotpValid`, then `save` of new codes and the flag |
| `Disable`, `SaveDisabled`, `Sweep` | `disable2fa`: `findById` and both proofs, `save`, `revokeAllUserTokens` |
| `Login`, `Issue` | `login` without a second factor, `issueTokenPair` |
| `Challenge`, `SaveUsed`, `Issue` | `verify2faChallenge`: `findById` and `isTotpValid` or `matchUnusedRecoveryCode`, `save` of `usedAt` if a recovery code was used, `issueTokenPair` |
| `VersionError`, `Fail` | Mongoose refuses the save; the process dies or a command throws |

What Mongoose does with a save decides here, and it is external: replacing the array
`recoveryCodes` puts `__v` into the filter and increments it, setting `usedAt` of an
entry puts it into the filter only, and setting `totpSecret` does neither. An
authenticator code is good for the secret it was made from; that it lasts some 90
seconds is left out, as a code that is too old makes a request that is refused. So
are challenge tokens: a login that finds 2FA on changes nothing, so one may have
come just before any challenge. The requests in front of `protect` are made with an
access token, which is accepted for 15 minutes whatever became of its session.

| run | question | bounds |
|---|---|---|
| `TwoFactor_enrol` | is the enrolment whole, do marks and sweeps last, and which mishaps need an overlap | 4 requests of any kind, 2 codes, any of them dying |

Four requests are a setup, an enable and two that race: two challenges, a challenge
and a disable, a second setup and a second enable. Requests and codes are
interchangeable, which the symmetry set uses; there is no liveness property.

Tokens are not "revoked on [...] 2FA changes" (README.md:90) by every change: `enable2fa` revokes nothing, so the sessions that the
password alone has opened stay live and are refreshed for ever. Only `disable2fa`
revokes (`DisableEndsSessions`). "Recovery codes are single-use" (user manual) holds
but for requests that overlap (`DoubleUseNeedsOverlap`, note N-016 of the audit).
Not noted there: a setup in flight replaces the secret that an enable beside it has
just confirmed, and the authenticator no longer works while 2FA is on
(`UnprovenSecretNeedsOverlap`); the recovery codes still do (`EnrolmentIsWhole`).

Proofs (`TwoFactor_proofs.tla`), for any sets of requests and codes: every property of
`TwoFactor_enrol` (`TypeCorrect`, `EnrolmentIsSafe`: `EnrolmentIsWhole` and
`DisableEndsSessions`, `RacesNeedOverlap`: the three parts of `RaceSafety`, `MarksStay`). The invariant adds three things. Any two requests that
have read and not yet written overlap (`ReadersOverlap`). A request whose `__v` is
still current knows the flag and the codes, and an enable also knows the secret but
for an overlapping setup (`SeenOK`). And a code that a current request is about to use
was used only by requests that overlap it (`UsingOK`).

## 9. Shared tasks and statistics

`SharedTasks.tla` models one task of an owner, the members it is shared with, the
comments and the activity trail, and the owner's Redis key of statistics. State: `task`
(board, trash, gone), `share` (by member: the role, and how many shares were made),
`comments`, `trail` (entries by action), `ver` (changes of what the statistics count),
`cache` (held, and the `ver` it was computed at), `req` (the handlers).

| action | code |
|---|---|
| `LoadTask`, `LoadShare` | the two reads of `loadTaskWithAccess`, then the role is compared |
| `createShare` … `Grant`, `revokeShare` … `Revoke`, `addComment` … `AddComment` | the write behind the check |
| `RecordActivity` | `Activity.create`, awaited after the write |
| `updateTask` … `Update` | the PUT of an editor |
| `createTask`, `importTasks`, `deleteTask`, `bulkTasks`, `clearTrash` | the owner's commands; all but the last then `InvalidateStatsCache` |
| `getStats`, `Compute`, `SetCached`, `Expire` | `GET`, the aggregation, `SET` with 60 s, the end of them |
| `Fail` | a command throws or the process dies |

`SharedTasks_cache`: 2 handlers, 1 member and the owner, 3 changes, 1 fault. One member is
enough because shares of two members meet only in the task; three changes are a grant, a
revocation and a change by the member, or a computation that is overtaken by a change
and another one after that.

* `AccessIsCurrent`: a handler about to act has a share that suffices and a task that is
  live, unless one of them went after the handler had read it.
* `TrailAccounts`: entries + entries about to be written + entries a fault kept out = what
  was done. `recordActivity` is awaited after the write, so a throw there answers an
  error for something that was done.
* `AcknowledgedWritesShow`: after an answered invalidation the cache counts the change,
  unless a computation begun before it was stored after it (the code has no version to
  tell), or Redis failed. A PUT does not invalidate, so it promises nothing.
* `CacheConverges` under `WF_vars(Expire)` (Redis removes a key whose TTL is over) and
  `WF_vars(Continue(r))`.

Proofs (`SharedTasks_proofs.tla`), for any sets of members and requests, any number of
changes and faults: `TypeCorrect`, `SharingIsCurrent` (`AccessIsCurrent`) and
`AcknowledgedWritesAreCounted` (`AcknowledgedWritesShow`). The invariant adds what a
request between the two reads of `loadTaskWithAccess` knows (`LoadOK`: it is a member's,
and the task is live or the request is late) and that a grant or a revocation names a
member (`NamesOK`). Steps fall into two kinds: those that take no right away (`Mild`),
where only the request that moves needs a look (`OneMoves`), and a revocation or a
deletion, which mark every request that loses its right (`Marked`, `ChangeKeeps`). For
the cache the argument is short: what is stored was computed at `val <= ver`, so a value
behind an acknowledged change is behind the board, which is the excuse.

`TrailIsComplete` (`TrailAccounts`) needs a second invariant on top of the first, because
it counts requests and sums over members. `RolesOK` says that a grant gives a role and that who
has a role was granted one; `Balanced` is the equation itself, kind of entry by kind of entry, with the finite set
`Logging(k)` of requests about to log. The sums are over a table that is defined by
recursion on finite sets: `TableExists` proves that there is one, `SumOneMore` and
`SumZero` how a sum changes with one member's number, by induction on the strict subset
order. For this the set of members is assumed finite. `CacheConverges` is liveness and is
checked by TLC only.

Deletions leave shares, comments and activity of a purged task behind in the code; no
handler reaches them without the task, so the model does not follow them.

## 10. Accounts

`Accounts.tla` models the `User` documents under `register` and its mail, `verifyEmail`,
`updateMe` (address), `updateUserRole` and `deleteUser` of the administrator, `deleteMe`,
and the feed token. `Protect` is `protect` with
`authorize`: it loads the account, and the handler behind it runs on what it loaded
although the collection may have changed. Each other action is one command of a handler.

`Accounts_races`: 2 accounts of which one is an administrator, 3 addresses, 2 requests,
4 changes, 1 fault, with symmetry of requests and addresses. Two accounts exchange their
addresses over a third, and demote each other; two requests are the two sides of a race.

* `VerifiedWasMailed`: the mark never passes to an address nobody opened a mail for.
* `AdminRemains`: no handler counts administrators, it only refuses the own account; so
  the last one goes only by two who act at the same time, or by resignation.
* `FeedUrlSafety`: two first reads of the settings each make a token and one of the URLs
  answered is dead (`crossed`); otherwise a URL lives until the next rotation, and no
  longer.

Proofs (`Accounts_proofs.tla`), for any sets of accounts, addresses, administrators and
requests: `TypeCorrect`, `MarksAreEarned` (`VerifiedWasMailed`), `SomeoneAdministers`
(`AdminRemains`) and `FeedUrlsAreSafe` (`FeedUrlSafety`). The invariant adds that addresses
and feed tokens are each account's own (`EmailsUnique`, `TokensUnique`), that every URL
answered or burnt is older than the next one (`FeedsKnown`), that an account not yet
registered has no marks (`NewOK`), that an administrator's request names another account
(`RequestsOK`, without which a demotion could be the last one's own), and that a handler
about to save a first feed token is alone unless the account is `crossed` (`SavesOK`).

A registration that fails after `User.create` leaves an account whose link was never
sent. Name and avatar are left out.

## 11. Reminders

`Reminders.tla` models the hourly job from BullMQ's scheduler to the inbox, on processes
that each boot with or without Redis. State: `task` (open, due, marked), `proc`, `hourly`
(a run is waiting), `run` (by process: tasks found and not yet handled, program point),
`mails`, `inbox`.

| action | code |
|---|---|
| `Boot`, `Die` | `server.ts`, `redis.ts`: without Redis at boot the process starts no workers, ever |
| `Hour`, `Find` | the repeated job is taken by one worker; `Task.find` |
| `Send`, `Mark`, `RunThrows` | `queue.add`, `Task.updateOne`, an exception in the loop ends the run |
| `Deliver`, `SmtpThrows` | the email worker; one attempt, as BullMQ's default |
| `Edit`, `Pass` | the owner changes the task; time passes |

`Reminders_hourly`: 2 tasks, 2 processes, 1 event of the environment (a death, an
exception, a change); 2 events were checked once as well. Two processes make two runs
at once; two tasks are one before and one after the exception.

`OneReminder` excuses exactly the tasks that two runs held, or whose mail was sent
before a death; `MarkedIsMailed` says that no task is marked without a mail, also not
the rest of a run that died. `DueIsMarked` assumes weak fairness of the scheduler,
of a worker's steps and of the email worker: cron fires every hour, the platform
restarts processes. It excuses that every process is deaf (booted without Redis),
which the code never repairs.

Proofs (the second half of `Jobs_proofs.tla`; deliveries and reminders are both jobs of
BullMQ's workers and share no state, so one module extends both), for any number of tasks,
processes, runs, changes and faults: `RemindersTypeCorrect` and `RemindersAreSafe`
(`ReminderSafety`). The invariant adds three facts about runs. `RunsOK`: a worker without
a job holds no task, and only a run between `queue.add` and `updateOne` names one.
`MailedOK`: the task it names has a mail, so marking it keeps `MarkedIsMailed`. `OnceOK`:
of a task that no fault or overlap excuses, mails waiting and in the inbox are one at
most; if there is one, the task is marked or the run that mailed it is about to mark it;
until then one run holds it, and nothing was mailed. Without the last part `Find` could
take a task that another run has mailed and not marked. The invariant was checked by TLC
with 2 events as well. `DueIsMarked` is liveness and is checked by TLC only.

## 12. The client's session

`ClientAuth.tla` models `lib/api.ts` and `lib/auth.tsx` in several tabs of one browser,
and the pages that start their functions. State: `live` (refresh tokens the server
accepts), `stored` (`localStorage`), `tab` (status, the account shown, the account of the
access token, the boot's progress, the timer, what its user waits for). The variable
`refreshInFlight` of a tab is two of the model's: `flight`, the request its promise waits
for, and `latched`, the tabs where it is a promise that has settled on "false" and that
nobody resets.

| action | code |
|---|---|
| `Open`, `BootMe`, `BootFails` | the effect at mount: look for a token, refresh if one is stored, then `/me` |
| `RefreshTokens`: join, `Latch` or `Send` | the single-flight refresh: join the promise that is there, return before the `try` because no token is stored (or because an earlier return left its promise), or send |
| `Rotate`, `Refuse`, `Answered`, `Lost` | the server's side of it, and the `finally` that resets the promise |
| `Fire`, `Call` | the planned refresh; a request that meets a 401 while a token is stored, of a page or of the two-factor form |
| `SignIn`, `Verify`, `SignUp`, `Adopt`, `Me`, `SignInFails` | login, second factor, registration, the store of the answer, `/me` |
| `Logout`, `Revoke`, `Teardown` | logout: tell the server, then clear |
| `RevokeSession`, `SignOutEverywhere`, `ChangePassword`, `ResetPassword`, `Elsewhere` | the panels, the pages, another device |
| `Close` | the tab is closed or reloaded |

Of the forms only the second factor is a `Call`: its endpoint answers a wrong code or an
expired challenge with 401, while login answers wrong credentials with 400 and
registration has no 401. `BootMe` and `Me` use the access token of the moment their answer
comes; where a refresh of the same tab runs beside them that is another account's, and the
step is one of "crossed". The storage event is not an action: the code does not listen to it. `ClientAuth_tabs`:
2 tabs, 2 accounts, 2 refreshes, 2 sign-ins or one and a fault; the safety part was
checked once with 3 refreshes. Two refreshes are one token that is replayed by the other
tab.

* `NoFalseAlarm`: the server's theft detection is set off by the client itself only with
  two tabs refreshing at once, a refresh that meets a logout, an answer that was lost, or
  after a revocation.
* `StoreSafety`, `TabSafety`: what is stored is a session the server keeps and conversely,
  a tab that signed out stays out, shows whose token it holds, and a signed-in tab has a
  refresh under way or one planned that will be sent (`RefreshIsPlanned`: its timer is
  pending and `refreshInFlight` is not the settled promise); each with the causes against
  which the code has no guard.
* `TabsFollow`: the spinner ends, and a sign-out in one tab reaches the other at its next
  refresh, under `WF_vars(Progress(t))` (a request is answered or fails) and
  `WF_vars(Fire(t))` (timers fire).

Met while modelling, in `causes`: an exception in a timer's callback ends the chain of
refreshes, and a failure of `/me` at boot clears a good session (both "lost"), as does
a refresh that the rate limiter refuses ("refused"); a sign-in whose `/me` fails leaves
the old profile over the new tokens ("halfway"); a sign-in in another tab leaves this one showing the other profile
("switched"); the registration page lets a signed-in user replace the session
("replaced"). The sessions panel says of a revoked session that its tokens stop working
immediately; the access token lasts up to 15 minutes. The reset page says that old
sessions stay valid; the server revokes them all.

The settled promise (`Latch`). `refreshTokens` returns `false` at api.ts:147 when no token
is stored, before the `try` whose `finally` sets `refreshInFlight = null`; the assignment
`??=` then keeps that promise until the page is reloaded, and every later call in the tab
answers "false" without a request, whatever is stored by then. The way in, in this model:
one tab signs out (or its refresh is refused, and it clears the session) while another
goes on, and the timer of the other fires over the empty store; it shows the login form,
as it should. If its user signs in there again, the next planned refresh of that tab finds
the old promise, sends nothing, and signs the tab out although the stored token is live; a
request that meets a 401 ends in "Session expired" in the same way. The comment at
api.ts:136, "Exchange the stored refresh token for a fresh pair", does not hold in such a
tab. The boot does not fall into it: it looks for a token first, and `Open_Unchecked`
shows what would happen if it did not. In the properties this is the cause "emptied": the
session was cleared while a tab with a timer, or with a `/me` under way, went on. Without
that excuse TLC finds `RefreshIsPlanned` violated. `SignOutSpreads` needs none: a latched
tab still answers "no" and drops to the login form.

Proofs (first part of `Client_proofs.tla`), for any number of tabs, accounts, requests and faults:
`TypeCorrect`, `NoAlarmWithoutCause` (`NoFalseAlarm`), `StoreSafe` (`StoreSafety`) and
`TabSafe` (`TabSafety`). The invariant has six parts, most of them used by those after it.
`Tokens`: a granted pair belongs to the account that asked, nobody else holds it before
its answer is taken, and the server gave out no more tokens than were asked for.
`Genuine`: while nothing unguarded has happened, every request carries a live token, no
two tabs present the same one, and no logout holds the token of a request; so no refresh
replays a spent one. `Spent`: a token whose request was answered, or which a logout
revoked, is not live, so clearing it throws no session away. `BadgeIsThisDevice`: the
session marked "this device" is none or the stored one. `Neat`: in a tab boot, timer, refresh and
forms take turns, and the tab, its request and the store are for one account. `Fed`:
unless a request was lost or the session was cleared under a tab that goes on with it,
whoever has a timer or a `/me` under way has a token in the store, so that no refresh
returns early and no tab is latched; with `Neat` it gives `RefreshIsPlanned`. Each part
has its own causes as excuse, because the causes of one do not excuse another. The proofs
first reduce the actions to a few kinds of step (`Seen`: sending, granting, refusing,
adopting, clearing, ...), so that each part has to be shown for the kinds only. The
invariant was checked by TLC on two larger instances. `TabsFollow` is liveness and is
checked by TLC only.

Not in it: expiry of the refresh token, and React's double mount in development.

## 13. The client's lists

`ClientBoard.tla` models the query cache and the hooks: the deck and the trash page by
page, a task's page, and the three panels (webhooks, shares, comments). State: `db`,
`view` and `prev` (the key shown, and the placeholder), `cache`, `fresh`, `fetch` (by
key), `mut` (mutations with their snapshot), `toasts`.

| action | code |
|---|---|
| `Read`, `Arrive`, `FetchFails`, `Show` | a query of TanStack Query (external) with `placeholderData` |
| `NextPage`, `PrevPage`, `Go` | the pager, the navigation |
| `Toggle`, `Update`, `Remove`, `DeleteWebhook`, `RevokeShare`, `Bulk`, `AddComment` | optimistic: `cancelQueries`, snapshot, change, request |
| `Create`, `AddWebhook`, `Grant`, `Edit`, `EditHere`, `TrashHere`, `Clear`, `Undo` | not optimistic |
| `Serve`, `Fail` | the server, one step; the network |
| `Succeed`, `Rejected`, `Invalidate` | `onSuccess`, `onError` with the rollback, `onSettled` |

`ClientBoard_lists`: 3 items of which 2 exist, 1 on a page, 3 pages, any 2 mutations, 2
moves (a page turned, a request failed or an answer lost). Two mutations are the overlap;
the smaller form without panels was also checked with 3 moves. The history `strays`
names what happened that the client does not mend; `ScreenIsTrue` says that nothing else
makes a quiet screen wrong, `PageArrives` that a page that is asked for comes, under
weak fairness of answers.

The cases behind `strays`: an optimistic change on the server whose answer is lost is
healed by the refetch, but a task created or edited is not; the trash is never
invalidated (a task moved there does not show until the key is collected); a rollback
restores the snapshot of a page that another mutation has changed since; `cancelQueries`
takes away the first load of a trash page and nothing starts it again; a fetch in
flight of another page swallows its invalidation; the pager counts from the page asked
for but looks at the one shown (a double click skips), and the last task of the last page
leaves the deck on a page that does not exist. "reverted" was found by the proof, and
needs five moves and 15 steps, so that no state of the run has it (TLC reached it once,
with the clicks of that journey only): a restore is pending, the reader leaves the trash
and comes back, the page is fetched anew with a task that was trashed meanwhile, the
request fails, and the rollback puts the older page over the newer one. In the deck and the panels the refetch of `onSettled` mends it;
the trash is never fetched again.

Proofs (second part of `Client_proofs.tla`), for any number of items, pages, mutations and
moves: `BoardTypeCorrect` (`BoardTypeOK`) and `ScreenShowsTheServer` (`ScreenIsTrue`). The
steps are first reduced to kinds (`Reads`, `Arrives`, `Vanishes`, `Turns`, `Guesses`,
`Asks`, `Serves`, `Loses`, `Succeeds`, `Rejects`), so that each part of the invariant is
shown for ten kinds and not for 25 actions. Its parts:

* `BoardBase`: types; a page in the cache, on its way or put aside has the number of its
  key; which key and which snapshot a mutation of each sort may have; page 1 of a list is
  there before its page 2 can be shown. The other three stand on it and not on each other.
* `Truth`: of the lists of the part of the application that is on the screen, what is
  fresh in the cache and what was read and is on its way equals the server's list, or some
  mutation is under way that will have them fetched again whichever way it ends. `Stale`
  of every such mutation covers these lists (`StaleOwn`), which is why one is enough.
* `Pages`: no page of the deck, in the cache, on its way or put aside, speaks of more
  pages than there are, and the page shown is one of them. With `RankExists` (a finite set
  has a member of every rank below its size) such a page is not empty.
* `TrashInv`: without a stray one mutation at most is under way, and each page of the
  trash shows what it was fetched with less what left since, up to the task being restored.

TLC checked the invariant before it was proved, on the run's instance, on that journey and
on random behaviours of a larger one. `PageArrives` is
liveness and TLC's.

Not in it: collection of unused data after five minutes, search, tab and sort (they make
further keys, as the page number does), and other clients of the same account.

## 14. Lists and codecs

`Formats_roundtrip` runs three independent machines, one of them in each behaviour.

* `ImportExport.tla`: `exportTasks` and its escaping, `parseCsvText` turn by turn of its
  loop (`Escaped`, `Unquote`, `OpenQuote`, `Plain`, `EndField`, `EndRow`, `EndText`), then
  `csvRowsToObjects`, `normalizeImportRow`, `importTasks`. Texts are every sequence of a
  letter, quote, comma, LF and CR up to 3 in a title and 4 in a file, with two and three
  columns, other names of columns, a byte order mark, open quotes. `ImportSafety`: the
  parser loses no letter wherever quotes stand; an export is read back cell by cell
  unless a lone CR stands in a cell (the escaping does not quote for it); and makes the
  same tasks unless a tag has a separator in it.
* `Listing.tla`: `parsePagination`, `parseSort`, the live list (one aggregation with
  `$facet`), the trash and the administrator's list (`find` and `countDocuments` side by
  side). A reader turns pages while two changes happen. `ListSafety`: limits are in
  bounds whatever the query says; a reader who starts at the first page misses a task only
  if one left or moved, if a change came between the two commands, or if two tasks of a
  bulk deletion have one `deletedAt` (their order is not defined); and repeats none
  unless one came in or moved. `FirstPage` is the page the query comes to; the run has queries
  without a number, with 0, below 0, for page 1 and for page 2.
* `Calendar.tla`: `icalEscape`, `foldICalLine` part by part, `buildICalFeed`,
  `nextDueDate`. `FeedSafety`: every line fits, and a reader that unfolds and unescapes
  finds the texts again, although folds fall inside escapes. `Width` is 4, so that folds
  fall at every place of a short text. `DueSteps`: a recurrence is a day, a week, or as
  many days as the month of the due date has, which makes 31 January overflow to 3 March
  and never come back to the 31st; dates around leap years, centuries and month ends.

Proofs (second part of `Requests_proofs.tla`, of `FormatsSpec`):

* `ListsAreSafe` (`ListSafety`), for any tasks, queries and number of changes. In a list
  whose order is total the place of a task is one more than the number of tasks that
  stand before it (`Places`), so that a page holds the tasks of whom so many stand before
  (`CutRows`, `PageRows`). The invariant `ListInv` says, as long as the excuses of the
  property have not happened, that a task that was there all along is read or has at least
  the pages read before it (`NothingMissed`), and that one that is read and still listed
  has fewer before it than these pages hold (`NothingRepeated`). A task that comes in only
  adds to the number before another, one that leaves only takes from it. TLC checked
  `ListInv` on the lists of the run before it was proved.
* `DueDatesStep` (`DueSteps`), from every date of every year: a year has 337 days and those
  of its February (`YearHasItsDays`), and the months of a year join (`MonthsJoin`).
* `FeedLinesFit`: `CalendarTypeOK` and `LinesFit`, for every text and every width above 1.
  A line before it is folded is a sequence and not empty; that a flattened sequence of
  sequences is one is shown by induction over their number (`FlattenType`).
* `FeedsAreSafe` (`FeedSafety`), for every text and every width above 1. The argument has
  two halves that do not touch.
  * Folding. The invariant `FeedInv` says (`Folding`) that `m` lines of the feed are folded
    and so many characters of the next, and that the lines made so far unfold to just these.
    `UnfoldStarts` and `UnfoldGoesOn` are the two ways a line made adds to what is unfolded:
    one that does not begin with a blank is a line of its own (that is why the invariant
    needs to know that no line of a feed begins with a blank), one that does goes on with
    the last. One lemma for each branch of `foldICalLine`: `FoldShort`, `FoldFirst`,
    `FoldNext`, `FoldLast`; `FoldEnds` says that at the end the feed itself is unfolded.
  * Escaping. `EscapeIsRead`, by induction over the text: what `ICalEscape` writes is
    unescaped to the text without its carriage returns. It needs that a reader is never in
    the middle of an escape between two characters of the text: an even number of
    backslashes stands before each. Then `EventTexts` and `FeedTexts` find, by
    induction over the tasks, each value under its name.
* `ImportsAreSafe` (`ImportSafety`), for any texts and any stored tasks. Its inductive
  invariant is `Imports /\ ImportRestores`; `Imports` has four parts:
  * `Parser`: what the parser holds are characters of its text, and its place is in it.
    All of its turns are of one kind, `Turned` (it goes over one character or two, and
    then adds to the field, ends it, ends the row, or none of these), so that typing and
    `NothingLost` have to be kept by that kind only.
  * `DocsFit`: what was imported fits the bounds, row for row.
  * `NothingLost` itself: `Content` of what is gone over is `Content` of what is held
    (`GoneGrows` on one side, `HeldAdds`, `HeldEnds`, `HeldBreaks` on the other).
  * `ReadSoFar`: in the text of an export the parser is always at a place (`Place`) of
    some cell of some row, with the rows before it read, so much of the cell in `field`,
    and the rest of the text what `CsvEscape` still has to write of it, in quotes
    (`Inside`), before them (`Outside`) or without (`Bare`). One lemma for each way a turn
    goes on from there: `BareLetter`, `NextCell`, `NextRow`, `LastRow`, `QuoteOpens`,
    `QuotedLetter`, `QuoteCloses`. It gives `ExportIsReadBack`.

  `ImportRestores` then needs that a list of tags that is joined and split again is the
  list (`TagsReadBack`, by induction over the tags), and that each column is found under
  its own name (`CellRead`).

The library's induction theorems have an operator as parameter and cannot be used here.
These proofs do induction over the members of a set instead: a set that has 0 and with
each number the next one has all numbers (`NatSet`, from the least number it would not
have), and the same for sequences (`SeqSet`). `FlattenSeq` is taken apart once
(`FlattenAppend`, `FlattenConcat`), which is why the codec and the reader of a feed are
written with it and not with `SelectSeq` or a fold, whose definitions recurse inside.

A width counts UTF-16 units in the code, where a test's title says octets. Local time and
daylight saving are left out (the arithmetic is on dates), and so are the rows of a JSON
import, priority, due date and recurrence of a row (as the status), and the header lines
of a calendar.

## 15. Assumptions and limits

* From `ASSUME`s: ids given to "none" are not elements of the sets; bounds are
  naturals; a task has finitely many members, and a list finitely many tasks; pages and
  limits of a query are what `parseInt` answers, an integer or `NaN`; the texts of a feed
  are sequences, and their ids neither a backslash nor a carriage return (the code writes
  them as they are: they are hexadecimal); due dates are dates that exist; a line has room for more than the blank
  of its fold. Of the tasks an export is made of: what the schemas accept, so titles,
  descriptions and tags are trimmed, tags are not empty, and lengths and numbers in their
  bounds (`StoredAreTasks`); of the columns: each name stands for itself, and that of the
  id for none (`ColumnsExist`). The proofs use nothing else: the bounds only stop TLC.
* MongoDB: single-document commands are linearizable (primary reads, the default of
  the driver as the code uses it); unique indexes exist before the first request.
* Liveness is checked by TLC only, as is everything that needs `ENABLED`. What is worth proving next is in the plan.
* Some hazards have no property: a key of the idempotency table that changes hands
  between the two operations that use it, and events that are lost or delivered to an
  old address when Redis fails at `addBulk` (`PROJECT.json` lists them with the reason).

### Not modelled

* Rate limits (`config/rate_limit.ts`): counters of a library in Redis; the client's side
  of a refusal is in `ClientAuth`.
* The schemas (`schemas/`, `middleware/zod.ts`) and the error handler: stateless; what
  they refuse never reaches an action.
* Analytics (`services/analytics.service.ts`), logging, the OpenAPI document: written and
  never read by the program.
* Text search: what MongoDB's index finds is its own.
* The landing page, forms, layout and animation of the client; the dropdown, dialog and
  other components of `components/ui`, which are generated from a library.
* Composition of `ClientAuth` with `Sessions`, and of `TwoFactor` with `Sessions`: each
  has the other's part as one step, because the product is beyond TLC.
