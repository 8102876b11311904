# Corvale: a verification development

Corvale is a personal finance tracker.  A React client keeps its own SQLite
database and works without a network; an Express server with MongoDB is where
devices meet.  Two things are hard to get right in it.  Between device and
server: operations queued on a device, sent again after a lost response, racing
those of other devices, and the pull that brings the result back.  Within the
server: nearly every handler loads a document, decides on its copy and writes
one or several awaits later, without a transaction, so that balances, drafts,
contributions, memberships and tokens depend on what ran in between.  These
modules model both, check them with TLC and prove what matters most with TLAPS.

Paths below are relative to `src/`; `sync/` stands for
`backend/src/modules/sync/`, `platform/` for `frontend/corvale/src/platform/`.

## 1. Inventory

### The synchronisation core

| part | state it keeps | operations | correct when |
|---|---|---|---|
| push (`sync/syncPush.service.ts`, `syncEntityHelpers.ts`, `*Sync.service.ts`) | the documents with `updatedAt`, `deletedAt` or an archive flag; the ledger `SyncOperation` with one row per (user, op) | claim, poll, create, update with compare-and-set, delete, settle, release | an op takes effect at most once, answers are true, one update per version wins, a delete is not undone |
| pull (`sync/sync.service.ts`) | none of its own: reads the documents by a cursor on (`updatedAt`, `_id`) | bootstrap snapshot, page, checkpoint | a device that keeps pulling ends up with every document |
| outbox (`platform/sync/outbox.ts`, `sqliteOutboxStore.ts`) | the queue of ops with `attempts`, `lastError`, `enqueuedAt` | enqueue, flush, retry, discard | no op is lost or reordered for one document; it leaves only when answered |
| sync engine (`platform/sync/syncEngine.ts`, `pullLoop.ts`, `conflicts.ts`) | the checkpoint, the conflict inbox, the local rows | syncNow = flush then pull, resolve conflict | a device's own changes survive until it is told otherwise |
| local repositories (`platform/db/repositories/Repository.ts`) | local rows and their outbox entry, written together | create, update, remove, upsertFromServer, applyTombstone | a row and its op are written in one transaction |
| local store (`platform/db/*Driver.ts`, `worker/sqliteWorker.ts`) | one SQLite connection per page, its open transaction | exec, select, transaction | what is committed is whole, whoever else uses the connection |
| receipts, client side (`platform/sync/receiptUploadQueue.ts`, `platform/db/receiptBlobCache.ts`, `ReceiptAttachments.tsx`) | upload entries, cached files | capture, flush, evict, dismiss | a captured receipt reaches the transaction, once |

### The rest of the server (`backend/src/modules/`)

| part | state it keeps | operations | correct when |
|---|---|---|---|
| accounts, transactions (`accounts/`, `transactions/`) | balances, entries, the legs of transfers | create, update, delete, duplicate, transfer, confirm and dismiss drafts, bulk delete, recompute, archive | a balance is the sum of what is posted |
| import, templates, reconciliation | rows turned into transactions, `clearedStatus` | commit, merge, apply, clear | as above, and what was deleted stays deleted |
| receipts (`receipts/`) | receipts, `receiptIds` of a transaction | upload, attach, detach, delete | what is attached was not deleted and is not dropped by a racing save |
| recurring rules (`recurring/`) | the rule with its `nextDueDate`, drafts | generate for one rule or all, confirm, dismiss, edit, pause, archive | one draft for each due date, none skipped |
| savings goals, savers (`savings-goals/`, `savers/`, `notifications/`) | the amount of a goal, its contributions, its milestones; the saver's amounts | contribute, auto-contribute, edit, archive; deposit, withdraw, push over | amounts equal the sum of their rows, milestones are told, one automatic contribution per period |
| auth (`auth/`) | families of refresh tokens, `tokenVersion` | sign in, rotate, revoke, sign out of one or all | one good token per family; only a thief is signed out |
| workspaces (`workspaces/`, `core/access/`) | members with roles, invites | invite, accept, decline, change role, remove, leave | members are distinct and owned, who left stays out |
| users (`users/`) | accounts of users | deletion in a cascade | nothing of a deleted user remains, what is shared does |
| backup (`backup/`) | exports, restore jobs | export read by read, restore section by section | a restore gives back what was exported |
| exchange rates, dashboards, reports, forecast, calendar, budgets, categories, tags, debts, subscriptions, onboarding, legacy, desktop | their documents | request handlers, queries | |

`core/` holds row-level security, soft deletion and money, `infra/` rate
limiting, mail, storage and configuration, `http/` the middleware.

### The rest of the client

`lib/axiosInstance.ts` refreshes a session in the background and
`app/providers/UserContext.tsx` ends it, with or without a wipe of the local
store; `platform/offline` keeps the PIN, the sign-out and wipe flows and the
reachability state; `platform/db` provisions, migrates and encrypts the local
database; `platform/desktop` updates and backs up the Tauri shell; `domain/`
computes budgets, forecasts and balances; `features/`, `app/`, `ui/` render.

### What is hard

* several requests of one device (retries, a second tab) and of several devices
  are served at once, and every `await` is a place where another may run;
* a response may be lost after the work was done, a process may die between two
  writes, and a write may be followed by work that throws;
* versions are wall-clock milliseconds: they serve as the compare-and-set
  token, the conflict base and the pull cursor at the same time;
* the client reads a queue, sends it, and applies answers to a queue that has
  changed in between; it pulls while the user edits;
* a number is kept beside the rows it sums up, and both are written apart;
* calendars: due dates and periods are days of a user's zone over UTC stamps.

PROJECT.json lists each hazard at its line with the property that covers it.

## 2. The modules

```
 device                                         server
 +---------------------+                  +----------------------+
 | LocalStore          |   SyncSession    | SyncPush             |
 | statements on the   |<---------------->| requests, ledger,    |
 | one connection      | ops, answers     | compare-and-set      |
 +---------------------+                  +----------------------+
          ^                                    | implements
          |          PullCursor                v
          +<---------------------------- PushContract
             pages behind a cursor
 +---------------------+                  +----------------------+
 | ReceiptUploads: queue, cache, runs <---> upload, attach, save |
 | SessionTokens: tabs, jars, refresh <---> rotation, families   |
 +---------------------+   | implements   +----------------------+
                           v                 Ledger  RecurringDrafts
                       TokenFamily           Savings Workspaces
```

| module | what it is |
|---|---|
| `SyncPush` | `POST /sync/push`, one action per database round trip |
| `PushContract` | what a caller may assume of it; `SyncPush` implements it |
| `SyncSession` | one device with overlapping runs of syncNow, a server that answers as `PushContract` allows, other devices |
| `PullCursor` | bootstrap and pull over several collections, page by page, read by read |
| `LocalStore` | the device's SQLite connection, statement by statement |
| `ReceiptUploads` | receipts captured offline: cache, upload queue, server, another device |
| `SessionTokens` | sessions on several devices: tabs, refresh, rotation, sign-out and wipe |
| `TokenFamily` | what a family of refresh tokens promises; `SessionTokens` implements it |
| `Ledger` | accounts and transactions: balances kept by adding and taking away |
| `RecurringDrafts` | drafts made from recurring rules, over a calendar |
| `Savings` | a savings goal with contributions and milestones, or the saver |
| `Workspaces` | members, roles, invites of a workspace; the deletion of an account |
| `MC*` | the constants of the instances TLC checks |
| `Device_proofs` | the theorems about `ReceiptUploads`, `PullCursor` and `LocalStore`, the parts of a device |
| `*_proofs` | the theorems about the module of that name |

The sync models look at one system at different grains.  `SyncPush` has every
await of the server and no device; `SyncSession` takes the server as one step
per op and has every await of the device; `LocalStore` opens what `SyncSession`
takes as one step, a transaction; `PullCursor` opens what `SyncSession` takes as
one step, a page.  The others are components of their own.

A convention they share: where the code cannot keep a promise in every case (two
requests that overlap, a process that dies between two writes), the model has a
history variable that records *that cause and no other*, and the property says
that the promise is broken only where its cause has happened.  Such a property
is as strong as the list of its causes is short.  Each cause is named at its
definition.

### SyncPush

| in the model | in the code |
|---|---|
| `exists`, `removed`, `updatedAt` | a document: its `_id`, its `deletedAt` or archive flag, its version |
| `ledger` | the row (userId, opId) of `SyncOperation`, with its unique index |
| `base` | the `baseUpdatedAt` an update was captured with (`Compose`) |
| `pc`, `todo`, `seen`, `bumped`, `outcome`, `results` | one `applyPushBatch` under way: its position, the ops left, the locals of the handler |
| `landed`, `told` | history: how often an op took effect, what devices were told of it |
| `rewound` | history: documents that a write stamped with a version before the one they had |

`Receive`, `Claim`, `Poll` are the admission of an op (`claimSyncOperation`);
`ReadForCreate`, `Insert` create; `ReadForUpdate`, `Cas`, `Fresh`, `Reload`,
`Save`, `Raise` are the round trips of `applyUpdateWithConcurrencyGuard` and the
update handler inside it; `ReadForDelete`, `Remove` delete.  `Settle`, `Release`
and `Respond` end an op and a request.  `Fail` is an error thrown at a step
(also by what `save` does after it has written), `Crash` the death of the
process, `Expire` the TTL of the ledger.  `Family` tells collections apart by
how they delete: transactions (loaded and saved), tombstones and archive flags.
Every write takes its stamp from a clock that may show anything (`StampAt`,
`Stamps`): it may stand still, be set back, or be another process's.  What the
code does about it, the millisecond added by the claim and the lift after the
save, is in `Cas` and `Raise`; what is left over is named by `rewound`.

### SyncSession

`row`, `queue`, `failed`, `waiting`, `inbox` and `checkpoint` are the tables of
the device; `server` and `ledger` what the server holds; `pc`, `sent`,
`answers`, `from`, `page` the locals of each run of syncNow.  A user step is
`Create`, `Edit`, `Remove`, `Retry`, `Discard` or `Resolve`; a run goes through
`Flush`, `Serve` (once per op of the batch), `Record`, `Settle`,
`ReadCheckpoint`, `Fetch` and `Apply`.  `Lose` is a dead tab or a lost response
with the server still at work (`Vanish` ends that), `Elapse` the end of a
backoff, `Remote` a write of another device.  The server answers op by op
(`ServeOp`, `Judge`): an op already in the ledger as applied, a stale one as a
conflict, and one it can do nothing with as rejected, be it for an error that
passes, as the second delete of a transaction, or for a payload its validation
refuses for good (`Refuses`, `bad`).  A request with more ops than `MAX_PUSH_OPS`
(`cap`) is refused as a whole, which ends the run before its pull and changes
nothing (`Flush`).

### PullCursor

`db` is the server's collections, `row` and `cursor` the device, and the rest one
request under way: `Read` and `Snapshot` read one collection each, `Respond` ends
the page, `Apply` and `Seed` commit it on the device with its checkpoint.  A
`Write` reaches its collection at whatever `updatedAt` its writer's clock showed:
the same as another's, earlier than one that is stored, earlier than one that was
read (a write is stamped in the process and arrives a round trip later).  `Reap` is
the purge of a tombstone, whether or not the device has seen it, `Undo` the
`deleteOne` of the legs of a failed transfer, which leaves no tombstone.  Two
histories name what a cursor cannot promise: `late`, written at a position that
was read past before (`seen`), and `erased`, taken away for good while the device
shows it.

### LocalStore

`work` is what the connection sees, `disk` what is committed, `open` whether a
transaction is; `label`, `op`, `batch`, `left` are the tasks of the page.  `Begin`,
`Refuse`, `CommitTransaction`, `Rollback` and `Throw` are `transaction()` of the drivers,
which all have the same shape: BEGIN, the awaited callback, COMMIT or ROLLBACK.
The other actions are one statement each, of `Repository` and the outbox
(`WriteRow`, `Enqueue`), a hook's further writes (`Follow`), the pull
(`WritePage`, `SetCheckpoint`), and what runs outside a transaction: `Record`,
`Remove`, `Settle` of a flush and `QueueAgain`, `Rewrite`, `Mark` of a
resolution.  `Exec` says the one thing that matters: a statement is durable at
once, unless a transaction is open, whoever opened it.

### ReceiptUploads

| in the model | in the code |
|---|---|
| `entry`, `cache`, `dropping` | `_receipt_uploads`, `_blobs` with its order of access, a dismissal whose blob is still to go |
| `run` | one `flushReceiptUploads`: the rows it listed, its place in the attempt at hand |
| `posted`, `attached`, `version`, `deleted`, `synced` | the receipts made of a file, `receiptIds` and `__v` of the transaction, `deletedAt`, whether the transaction was pushed |
| `strays` | saves the server still carries out for a caller that has given up |
| `other` | a second device that detaches (load, save) or deletes (`$pull`, bury) |

A run goes through `Flush`, `Mark`, `ReadBlob`, `Post`, `Attach`, `Save` and
`Settle`.  It works on the rows it listed, while `Capture`, `Dismiss`, `Preview`
and other runs change the tables; `Kill` is a closed tab.  A save of the array
`receiptIds` goes through only if `__v` has not moved (`Saves`), a `$pull` does
not look at it (`Pull`).

### SessionTokens and TokenFamily

`token` is the server's collection, in the order tokens were made; `jar` the
cookie or keychain entry of a device, shared by its tabs (`JarOf`); `tab` an
app with the call it has under way; `cached` and `unsynced` what a sign-out
would wipe.  A refresh is `Call` (or `Open`, at boot), `Find`, `Claim`, `Mint`,
`LoadUser` and an answer (`Granted`, `Refused`, `NoAnswer`), each an await of
`refreshToken.service.ts` and `auth.controller.ts`; a token found spent leads to
`RevokeFamily` and `Bump`.  `TokenFamily` knows which tokens are `good` and which
families are `passing`, their token claimed and its successor not made: `Begin`,
`Take`, `Give`, `Drop`.  The refinement maps a claim to `Take`, the making of the
successor to `Give`, and every revocation to `Drop`.

### Ledger

| in the model | in the code |
|---|---|
| `account` | `balance`, `openingBalance`, whether an `openingBalanceDate` cuts off early entries, the type, archived or not |
| `tx` | a transaction: state, account, kind, amount, draft or posted, the other leg of a transfer |
| `request` | what a handler has loaded (`holds`) and the writes it still has to do, in the order of the code (`todo`) |
| `doubted` | history: the accounts for which a named cause has been met |

An operation (`Create`, `Import`, `Transfer`, `Update`, `Delete`, `Confirm`,
`OpenBulk`, `ApplyTemplate`, `Touch`, `SaveAccount`, the operations of a sync
push, ...) loads, decides and leaves a list of writes; `Write` does the next of
them; `Fail` is an error with the compensation the code has, `Crash` none.
`Truth(a)` is the sum a balance is meant to be, `Recomputed` what
`shared/src/balances.ts` gets.  Balances are doubted by: a write based on a copy
that is stale; a failure or death midway (of an import only between a row and
its balance); sync operations that leave the balance to a later recompute; a
draft that the REST handlers treat as if it was posted; a change of the type;
legs of one millisecond, whose direction cannot be told, and an inbound leg whose
pair was deleted, which a recompute takes for an outgoing one (`AsRead`: pairs are
looked up among the live rows); a transfer of which one
leg was edited or deleted apart; a recompute that overlaps a write; a template
applied with an early date.

### RecurringDrafts

`rule` is the stored rule, `request` the copies a request for drafts loaded and
walks: `Look` for a draft of the due date, `Create` one if there is none, advance,
`Save` once at the end or at the cap.  `StartOf` and `Advance` are the calendar,
with months of different length and the overflow of `setUTCMonth`.  `live` and
`made` are the drafts that exist and that were ever made.  A rule whose account
(`closed`) or category (`shelved`) was archived ends the whole request at its
`Check`, so a due rule is promised its drafts only while none of those is in front
of it (`InTheWay`).  Two requests for one
rule at a time make it `raced`; an edit, or a save of an old copy, that sets a
date back behind the drafts makes it `reset`.

### Savings

`goal`, `rows` and `told` are a goal, its contributions and its notifications;
`plan` and `now` the schedule of the automatic contribution in ticks of the
user's zone; `contributed` is the sum of the rows.  A contribution goes through its row, the goal and one notification
per milestone; an edit saves the paths its copy has changed (`Merged`), over REST
or over a sync push.  `saver`, `pushovers`, `put`, `taken` are the saver.
`overlaps` records the kinds of requests that ran beside each other, `cut` where
one failed or died, `retargeted` that the target was changed.

### Workspaces

`workspace` is the document with `__v`, `invites` and `record` the collections
beside it, `users` the accounts.  Each handler of `workspace.controller.ts` is a
load with its checks (`Load`, `LoadInvite`, `LoadForJoin`) and its writes: a save
that `__v` lets through or not (`SaveRole`, `SaveRemoval`), an atomic push
(`Push`), an invite settled.  `CheckRole` and `InsertRecord` are a record made by
a member.  The deletion of an account is `CheckAllowed`, `Impact` and the cascade,
write by write, from `DeletePersonal` to `DeleteUser`, with `Crash` in between.

## 3. What the runs check

### Runs that pass

| run | instance | properties |
|---|---|---|
| `push_edit_race` | 2 updates and 1 delete of one transaction, 2 requests, clocks that show 0 to 2 in any order | `OneWinnerPerVersion`, `AckedOpsAreDone`, `LandsPastItsBase`, `ImplementsContract` |
| `push_liveness` | a create and a delete of an archive-flag document, batches of one or both | `RequestsEnd` |
| `session_outbox` | 2 runs of syncNow, 1 record, 2 changes, 1 remote write, 1 fault, 1 or 2 ops to a request | `NoChangeIsLost`, `LandsInOrder`, `NothingSkippedAlone`, `QueueDrains` |
| `local_store` | 2 tasks, 1 change, 3 pages of 2 rows, 1 renewed round | `CaptureIsAtomic`, `CheckpointNotAhead`, `LostOnlyByRollback` |
| `pull_cursor` | 4 documents in 2 collections, pages of 2, 2 writes at any of 3 times, 1 fault | `NothingBehind`, `PullCatchesUp`, `Converges` |
| `receipts` | 2 files, 2 runs, a cache for 1, 2 flushes, 2 faults | `ReuploadHasCause`, `AttachedOnce`, `UploadedIsAttached`, `SendingHasARun`, `QueuedBlobIsSpared` |
| `ledger` | 2 accounts, 2 transactions, amounts 1 and 2, 2 requests at a time, 3 in all | `DriftHasCause`, `DeletedStaysDeleted` |
| `recurring` | a daily and a monthly rule, months of 2 and 1 days, 2 requests, a cap of 1, 1 event, 1 overlap | `OneDraftPerDate`, `RemadeHasCause`, `NoDueDateIsSkipped`, `DueIsServed` |
| `savings` | targets 2 and 4, amounts 1 and 2; weekly plan, monthly plans west and east of UTC, or the saver; 2 requests at a time, 3 in all, 1 fault | `HistoryAddsUp`, `OneAutoPerPeriod`, `MilestonesAreTold`, `MetIsCompleted`, `SaverAddsUp` |
| `session_tokens` | a browser with 2 tabs and a desktop app, 4 calls, 2 faults | `OneLivePerFamily`, `ReuseHasCause`, `SignedOutForCause`, `ImplementsFamilies` |
| `workspaces` | 3 users, 1 record, 2 requests at a time, 3 in all, 1 death | `NoTraceOfTheDeleted`, `OwnedAndDistinct`, `SharedSurvives`, `RoleGoesToItsMember`, `ReturnsOnlyByNewInvite` |

What each of them shows is said in the comment before the property and, for the
run, under `about` in PROJECT.json.  The type invariants of `SyncSession`,
`ReceiptUploads`, `Ledger`, `Workspaces` and `Savings` are checked as a conjunct
of `NoChangeIsLost`, `QueuedBlobIsSpared`,
`DriftHasCause`, `OwnedAndDistinct` and `HistoryAddsUp`.

### Why these bounds

*Requests, runs, tasks.*  The races are between two of a kind: the ledger row is
held by one and wanted by another, a version is read by one and moved by
another, a transaction is open for one and joined by another, a balance is
loaded by one and saved by another.  A third of a kind meets the same states one
of the two leaves behind, which is why three may *arrive* where two run at a
time (`MaxStarts`).
*Ops.*  Three ops on one document are two racing updates and what ends the
document; a request may send each of them any number of times.
*Documents.*  Four documents and pages of two put a page's end in the middle of
a collection, at the end of one, and across two.  Two accounts and two
transactions are a transfer; a file more than the cache holds makes it evict.
*Numbers.*  Amounts 1 and 2 tell an edited amount from a new one; targets 2 and
4 let one contribution pass one milestone or several; months of 2 days and of 1
have a day that the shorter one lacks.
*Clocks.*  A write of `push_edit_race`, `push_liveness` or `pull_cursor` is
stamped with any reading from 0 to `MaxClock = 2`, whatever came before: below,
at and above a version that lies in the middle.  The code only compares stamps
and adds one; the theorems have no bound.  In `push_edit_race` a state in which
an update has landed twice is checked but not followed (`FollowsOne`): that takes
a document that is `rewound`, of which the properties promise nothing from then
on, and it is the only document there.
*The cap of a batch.*  `MAX_PUSH_OPS` is 500; with two changes, a cap of 2 never
refuses and one of 1 does (`Caps`).
*Counters.*  `MaxWrites`, `MaxFaults`, `MaxMishaps`, `MaxRemote`, `MaxOps`,
`MaxRounds`, `MaxCalls`, `MaxEvents`, `MaxOverlaps`, `MaxFlushes`, `MaxTime` and `Horizon`
bound how often something happens, never in which order.
*Symmetry.*  Requests, tasks, rows, changes, the two updates of `push_edit_race`
and the two transactions of `ledger` are never told apart by a definition, so
permuting them is sound; it is used only in runs without liveness.

### Fairness

* `push_liveness`: weak fairness of a request's next step.  The event loop runs
  every continuation, and a poll of a claim gives up by its deadline.
* `session_outbox`: weak fairness of a run of syncNow and of the end of a backoff.
  The background bridge calls syncNow every 45 seconds
  (`platform/pwa/backgroundSync.ts`), and `computeBackoffDelay` is at most five
  minutes.  What `QueueDrains` promises is an answer for every change, not
  success: an op refused for good stays queued as failed until the user discards
  it, and nothing is promised of a queue over the cap of a request.  Such a queue is
  never sent, so nothing may be left to happen: this run does not check deadlock.
* `pull_cursor`: weak fairness of the pull, by the same poll.
* `recurring`: weak fairness of each request's next step, strong fairness of the
  request for the drafts of all rules: the page that lists drafts sends it each
  time it is opened (`useRecurringDrafts.ts:57`), so it is made again and again
  while it can be.

Nothing is fair about users, other devices, faults.

### The run that shows a disagreement between a comment and the code

`tokens_wiped`: `tokenRevokedFlow.ts:3` says that a revoked session offers an
export of what was not sent before it is wiped.  A background refresh that gets
*no answer* ends the session as well (`lib/axiosInstance.ts:157`), and by another
path: the local store is wiped with what was not sent, and nothing is offered
(`UnsyncedIsOffered`).

### Observations met while modelling, without a run of their own

Sync:

* *A clock that stands still or goes back.*  The comment at
  `sync/syncPush.service.ts:194` says the row is "guaranteed to land strictly past
  that value even when the wall clock did not advance".  In the end it does
  (`LandsPastItsBase`), but the save at line 227 stamps the wall clock again and
  takes the row back to the version both updates were captured against, until the
  second `updateOne`: in between, the other one passes the compare-and-set too, or
  a retry lands twice.  `rewound` names it.  And a compare-and-set and its save in
  one millisecond leave one version for two contents: a device that pulled
  in between never gets to see the second.
* *A second queued update* of one record goes out with the base it was queued
  with and conflicts with the device's own first (`platform/sync/outbox.ts:15`
  holds it back to avoid just that).
* *A second delete of a transaction* is rejected for ever and stays queued
  (`transaction.service.ts:263`), unlike that of other documents.
* *More than 500 queued changes* are never sent: `buildBatch`
  (`platform/sync/outbox.ts:132`) takes all of them, `sync/syncPush.service.ts:608`
  refuses the batch, and syncNow throws before its pull.
* *Two overlapping pulls*: an older page is applied over a newer row, and the
  checkpoint then passes it (`crossed`; `platform/sync/pullLoop.ts:30` calls
  applying again "harmless").
* *A write that arrives after a read of a later stamp* is behind the cursor when it
  appears, and is not pulled until its document is written again (`late`).
* *The legs of a transfer that failed* are deleted without a tombstone
  (`transaction.service.ts:618`): a device that pulled them keeps them
  (`erased`), as does one that comes back after the 90 days a tombstone is kept.
* *A conflict recorded while another task's transaction is open* is undone by its
  rollback, and the op it belongs to is dropped all the same
  (`LostOnlyByRollback` names it; `SqliteWasmDriver.ts:84`).
* *A pull over a queued edit* shows the older row, though the op stays queued.
* *Keep-mine on a deleted document* is sent as an update, which gets the same
  conflict whatever its base.  *Keep-server* writes the document stored with the
  conflict, which may be older than the row a pull has brought since.
* *Errors of the server inside a batch*: it goes on with the batch, and the retry
  of the op that failed lands behind later ones of its document.
* *Archiving offline* is queued as an update with `isArchived` or `status`, which
  every update handler of the server ignores (`useAccountsData.ts:297`,
  `useBudgetsData.ts:285`, `useCategoriesData.ts:200`, `useRecurringData.ts:233`,
  `useSavingsGoalsData.ts:357`).
* *Offline edits of an account* carry the derived `currentBalance`, which
  `sync/accountSync.service.ts:144` refuses; the compare-and-set has moved the
  version by then, so that the retry is answered as a conflict.
* *A device clock set back* between two changes reverses their order in the queue
  (`sqliteOutboxStore.ts:51`).
* *One checkpoint row* serves every workspace (`pullLoop.ts:7`).

Receipts and backups:

* a lost answer to an attach is retried, answered "already attached" and shown as
  rejected; an attach before its transaction is pushed is rejected for good and
  leaves an orphan; the entry of a dead tab stays under way for ever
  (`receiptUploadQueue.ts:249`);
* a capture into a full cache may evict its own file, as it is queued only
  afterwards (`receiptBlobCache.ts:99`);
* a backup in JSON with a receipt cannot be restored: the receipt without its
  file is skipped, and the reference to it throws after the transactions were
  inserted (`backupRestore.ts:470`), so that a retry doubles them.

Money:

* a template applied with a date before the `openingBalanceDate` counts in the
  balance (`transactionTemplate.controller.ts:208`);
* the outbound leg of a transfer whose back reference was never saved is deleted
  alone; a recompute of the other account then counts the leg that is left as
  outgoing (`accountBalance.ts:158`, `:175`) and stores that;
* rules: `isCancelled` is never looked at by the generation
  (`docs/recurring/creating-a-recurring-rule.md:62`); a monthly rule on the 31st
  runs over into the next month; dates drafted by a request that dies before its
  save and confirmed meanwhile are drafted again; a due rule whose account or
  category was archived keeps those after it from being served
  (`docs/recurring/managing-drafts.md:11`), and in a workspace so does, for
  everybody else, a rule of a category its author owns
  (`transactionUtils.ts:182`);
* goals: an automatic contribution may be made twice in the last hours of a month
  west of UTC (`savingsGoals.ts:164`); a milestone passed by lowering the target
  is never told.

People:

* two tabs that refresh at once sign each other out; a keychain that cannot be
  written leads to the next refresh being taken for theft; a family revoked while
  a successor is being made has that successor good afterwards; the write of
  `tokenVersion` at `auth.controller.ts:246` can undo one made in between;
* the record of somebody who left a workspace before deleting the account keeps
  the id (`accountDeletionUtils.ts:117`, against
  `docs/legal/your-data-and-privacy.md:71`); an overlapping join can leave a member
  without an account, a workspace without an owner, or razed under somebody who
  joined meanwhile.

## 4. What is proved

Every theorem holds for all values of the constants that satisfy the named
assumptions; none of the proofs uses the bounds of a run.

**SyncPush** (`SyncPush_proofs`), whatever the clocks show: nothing is assumed of
the stamps, and where a document was stamped behind its version the properties
name it (`rewound`).  `InvHolds` rests on an inductive invariant in seven parts.  `Staged`
ties a position to a kind of op; `Exclusive` says the unique index makes the
pending row a mutex; `Versioned` that the version of a document that is not `rewound` only grows, so
that a base once behind stays behind; `Grounded` what a landed op says of its document;
`SingleWinner` that an update has won its version from the compare-and-set on,
before it is saved (this is what `OneWinnerPerVersion` lacks to be inductive);
`Buried` that an op judged a conflict can never pass the version check again;
`Answered` that every place a success can be told from states a fact.  From it
follow `TypeCorrect`, `AppliedOnce`, `AckedDone`, `OneWinner`, `ConflictFinal`,
`DeletesWin`, `PastItsBase` (`LandsPastItsBase`: here a clock that stands still is
met by the code itself, with no exception) and, step by step, the refinement
`Implements`.  Creates, which no run of the race has, are covered by the theorems.

**SyncSession** (`SyncSession_proofs`): `NothingIsLost` is `NoChangeIsLost` for
any number of records, runs, changes and faults.  A change leaves the queue where
an answer says so; the invariant therefore says why answers are true.  `Known`: a
record the server has is on the device, too, in a version that is not from the
future; `Created`: a record has one create, and it is in the ledger once the
record is there; `Truthful`: an op answered as applied is in the ledger, or its
delete is done; `Recorded`: a conflict is in the inbox before its op leaves;
`Kept`: what a run is about to settle is what it sent.

`NothingIsSkipped` (`NothingSkippedAlone`) adds `Fresh`, since the property is about
what a pull has not yet brought and is no reason for itself.  A document that was
ever written, a document of a page and a conflict carry a time of the server, and of
two with one time the content is one (`Landed`, `Conflicts`, `Pulled`); a row with
such a time is that version or an edit of it (`Versioned`); what only the device has
it has an op for (`Owned`); and a live row that differs from a document behind the
checkpoint is an edit that is still queued, or discarded, and has had no answer that
would settle it (`Covered`).

`InOrder` (`LandsInOrder`) adds `Order`: an edit that a later one of its record has
overtaken was made of an older version (`EditFirst`); what follows a delete is sent
with it or after the server has dealt with it, or was refused (`DeleteFirst`, `bad`); a record the server
lacks is live on the device only if the device never deleted it (`Reborn`).  The
proof did not go through for the property as first stated, and TLC with a third
change shows why: a delete the server failed on, then discarded, may still be in
another run's request and land behind a later edit.  The property now says so.

**ReceiptUploads** (`Device_proofs`): `Reuploads`, `AttachesOnce`, `UploadsStay`
and `SendingRuns`, for any number of files, runs, devices and faults.  A file no two runs ever shared is in the hands of one run (`Alone`), whose entry is
under way from the mark on (`Marked`); all ids of it that anybody knows are one and
the same (`OneName`), and who is about to send it without an id knows that no
answer ever came (`Unanswered`).  That a save drops nothing rests on `Current`: if
`__v` has not moved, the copy of `receiptIds` has all that is attached.
`BlobsAreSpared` (`QueuedBlobIsSpared`, with the types) holds for a cache of any size:
`Cached` says that what is cached has a row and is cached once, so that a capture puts
a blob that was not there; taking blobs out of the list leaves the others, each once
(`WithoutFacts`, by counting positions, `Ranks`), and `FittedFacts` that an eviction
takes none that waits.  That ids stay in the range of the types is a count:
the posts made of a file and the runs that may still post it are no more than the
flushes (`Counted`).

`Device_proofs` proves about the three components of the device, which is why
`ReceiptUploads` calls its specification `UploadsSpec` and `LocalStore` its own
`StoreSpec`.

**PullCursor** (`Device_proofs`): `NeverBehind` is `NothingBehind` for any number
of documents and collections, any page size, any clocks and any delay of a write.
It is not inductive: while a page is put together the same must hold of the rows
the device will have and the cursors it will get (`PageFollows`, `PageHolds`,
`CursorsMove`), and no cursor is past what a read could see (`WithinSeen`), so that
a write that is not `late` lies ahead of all of them.  The counting argument is in
`LastOfIsLast`, `FirstIsFirst`: what a limited read leaves out lies behind its last
document.  `CatchesUp` (`PullCatchesUp`) adds `Brought`: while no page is to follow,
the collections read so far hold every document as it was when the pull began or
was written since.

**LocalStore** (`Device_proofs`): `StoreInvHolds` with `Exclusive` (one task at most
has the transaction, and none is left open without a task to end it), `Fitting`
(locals fit positions) and `Paired` (a row and its op differ only while the writer of
both has the transaction), hence `CaptureAtomic`.
`OnlyRollbackLoses` adds `Recorded`: a task about to drop an op has its row in
the inbox, or the op was superseded by a later one; ops of one change are ordered
by their round, and the lemma `Superseded` says that taking away a superseded op
leaves a later one.  `CheckpointHolds` adds `StorePullInv`: whatever was committed or
rolled back since a pull read the checkpoint, the pages before its own have
landed in what it sees, and are committed or about to be.  It assumes that COMMIT
does not throw; with `CommitMayFail = TRUE` the checkpoint a second pull has read
may be taken back under it.

**SessionTokens** (`SessionTokens_proofs`): `OneLive` and the refinement
`Implements`, for any number of devices and tabs.  What is inductive is that a
token is claimed before its successor is made, so that a family has, between the
two, no good token at all and a single call that may make one.  `ReuseCaused`
(`ReuseHasCause`) and `SignedOut` (`SignedOutForCause`) rest on `Whole`: what two
devices hold is never of one family (`Home`), so that only an app of the device can
spend its token; on a device not `hurt`, no two apps exchange at a time (`Alone`),
what an exchange still relies on is good and it is refused only for want of a token
or for its age (`Sound`), and the token kept is good or about to be replaced
(`Stocked`); who is let in without an access token was out of reach (`BareCut`).
The proof showed that the history lacked a cause: a sign-out of all sessions revokes
tokens that are in a call and no longer in a jar, too (`Carrying`).

**RecurringDrafts** (`RecurringDrafts_proofs`), from the assumptions that
schedules move on: `OneDraft`, `NothingSkipped` (`NoDueDateIsSkipped`),
`RemadeOnlyForCause`, `RestIsSilent`.  A rule that was never raced is walked by one
request at a time (`Alone`); its copy is ahead of the stored rule by just the dates
drafted on the way (`Behind`, `Placed`), and a date is drafted where it was looked
for (`Once`, `Found`).  That no due date is skipped rests on `Way`: the dates from
the day a rule was made to the one it waits for, or a request's copy waits for, can
be laid out so that each is followed by its successor (`Paved`, `Trodden`), and
each of them is drafted (`Recorded`).  The due dates are the smallest set that the
schedule does not leave, so that such a layout holds them all, without recursion.

**Savings** (`Savings_proofs`): `SaverHolds`, `MetHolds`, `MilestonesHold`,
`HistoryHolds`, `AutoHolds`.
`Noted` says that requests that run beside each other are recorded; without such
an entry the copy a request works on is the stored document (`AsRead`, `Unmet`,
`GivenMet`, `EditMet`), the writes still to be done make up the difference
(`Balanced`, `Room`), and milestones up to the one at hand are told
(`ToldSoFar`, `CopiesTold`).  For the history (`HistoryAddsUp`), the amount a
contribution has read is the stored one (`AmountRead`) and the rows are ahead of the
goal by the one being added (`Ahead`); `contributed` keeps their sum as they are
made, so that no induction over the rows is needed.  For `OneAutoPerPeriod`, a
request knows the last automatic contribution (`LastRead`), makes its row only when
one is due (`Ripe`), the goal remembers every row but one being added
(`Remembered`), and rows are a period apart (`Spaced`); that a month later is a
month later by number is arithmetic with a division, in lemmas of its own.

**Workspaces** (`Workspaces_proofs`): `OwnedHolds`, `ReturnsHold`, `RoleHolds`,
`SharedHolds` and `NoTrace`, for any number of users, requests, records and invites
and any order of their steps, crashes included.  A request works on what it loaded
before, so the inductive invariant `IInv` has, beside what is stored (`Ruled`,
`Invited`, `Traces`, `Razed`), a clause for each request under way: what its copy of
the members is worth (`Copied`: no newer than the stored list, led by the owner, and
if `__v` has not moved, short of nobody), who may come in by it (`Entering`), what a
deletion has already swept (`Leaving`, `Razing`, `Owned`).  `Meet` ties the histories
to requests that are under way at the same time: the exceptions that a property names
are those pairs and no more.  The lists of members are sequences that are filtered,
pulled from and set by position; what each of these keeps is in lemmas about `Place`,
`Without` and `RoleSetAt`.  The proof showed exceptions that the properties did
not name at first: a removal that had loaded the members writes back somebody whose
account was deleted meanwhile, so that he may be a member twice or is in a workspace
that is razed, or the owner has no account; and whoever was let in while the
workspace was razed leaves his record in it.

**Ledger** (`Ledger_proofs`): `DriftExplained` (`DriftHasCause`) and `StaysDeleted`
(`DeletedStaysDeleted`), for any accounts, transactions, requests, amounts and books.
What a balance is meant to be is a sum over all transactions.  The community module
defines it by a recursion that no prover unfolds by itself, so the first part of the
module proves, by induction on the subsets of a finite set (`SubsetInduction`,
`AdderFacts`), that such a recursion has a solution and what changing, adding or
splitting off one item does to a sum (`SumChange`, `SumOne`, `SumMinus`).  The
invariant (`LedgerInductive`) then keeps accounts for the requests as well: `Net` is
what the writes a request has still to do will move a balance by, less what they will
move the sum by; `Term` counts it for a clean request, one whose copies are neither
stale nor wrong; and an account nobody doubts is off by what those terms add up to
(`Settled`), which is nothing once nobody is at work on it.  A write of a clean request
moves balance and term alike; any other write makes a request that loaded what it
touches stale, which is where the doubt comes from.  `Req` says, operation by
operation, that what is still to be written is what that operation writes in that
order (`OkInsert`, `OkChange`, `OkTransfer` with the stages of a transfer, `OkImport`
with its running balance), and `Legs` that a stored leg's pair is another leg in
another account.  Assumed of the constants: amounts are positive; transactions and
requests are finite in number; an id names one document; what is entered is live and
has no pair yet; and in the books there are at the start, a transfer has its two legs
in two accounts.  The last two are what the proof asked for and the model had not
said; `createTransfer` makes no other legs.

Theorems without a property of a run say what the invariants they rest on say
(`InvHolds`, `TypeCorrect`) or what follows from them alone (`AppliedOnce`,
`ConflictFinal`, `DeletesWin`, `RestIsSilent`).  Each invariant was checked with
TLC on the instance of its run before it was proved.

**Only model-checked:** everything about liveness (`RequestsEnd`, `QueueDrains`,
`Converges`, `DueIsServed`), which the prover cannot do.

## 5. What is not modelled

* Fields, validation, currencies and categories of documents; the lines of a
  split, which no balance counts; transfers and splits as several documents of
  one sync op.
* Roles at the sync push; several workspaces over the device's one checkpoint
  row; a device clock that is set back.
* Two tabs with a connection each over one file; opening, migrating, encrypting
  and deleting the local store; PIN and keys; the updater.
* In `SyncSession`, an error after the server has saved a change: `SyncPush` has it
  (`Fail`).  There a refusal for good counts as one of `MaxFaults`.
* In `PullCursor`, documents that leave a scope by other means than deletion, and
  the restore of a store of another owner.
* That a statement of one task may be undone by another's rollback, in
  `SyncSession`: it takes statements as durable, and `LocalStore` shows when
  they are not.
* Backup and restore: an export reads its collections one query at a time and a
  restore creates its records section by section; planned as a module of its own.
* Which rows of an import count as duplicates, and the parsing and mapping before
  it; reports, forecasts, budgets and other calculations, which keep no state;
  rendering.
* Registration, password reset and verification mails; object storage, scanning
  and quotas beyond their verdict.
* Everything PROJECT.json lists as `not_modelled`, each with its reason.

## 6. Plan

In the order of what a user would lose:

1. `BackupRestore`: the export read by read beside writes, the restore section by
   section with a failing one and its retry; what is restored equals what was
   exported.
2. `PinLock`: attempts, the order of verifier and key, the wipe in its steps; the
   opening and recovery of the local store; several tabs over one file.
3. The cursor of a workspace after a switch, and the device's clock in
   `SyncSession`.
4. Duplicate detection of the import as checked operators.
