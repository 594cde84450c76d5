# Verification of FS3

FS3 is a MinIO fork that keeps one S3 volume and backs it up to Filecoin. This
directory models the parts of it that are hard to test (the distributed
namespace lock, the backup and autobid schedulers, the rebuild scheduler, and the
browser UI with its requests), checks them with TLC and proves with TLAPS that
the lock is safe and that it implements an abstract read-write lock, what the
schedulers keep however their goroutines overlap, what more they keep as long as
none overlap, and that the pages of the UI show and do what they should in whatever
order their requests are answered.

    tlc -workers 2 -config dsync_mutex.cfg MCDRWMutex     # a run
    tlapm DRWMutexProof.tla                               # the proofs of a module

## 1. Inventory

| component | source | state | operations | talks to |
|---|---|---|---|---|
| Lock client | `internal/dsync/drwmutex.go` | `writeLocks`, `readersLocks`, the `locks` array of an attempt, goroutines that drain answers, the refresh goroutine | `GetLock`/`GetRLock` (`lockBlocking`, `lock`), `refresh`, `Unlock`/`RUnlock` (`releaseAll`, `sendRelease`) | every lock server, by REST |
| Lock server table | `cmd/local-locker.go` | `lockMap`: resource to list of `lockRequesterInfo` | `Lock`, `RLock`, `Unlock`, `RUnlock`, `ForceUnlock`, `Refresh`, `expireOldLocks` | called by the REST handlers and lockMaintenance |
| Lock transport | `cmd/lock-rest-{client,server}.go` | none | handlers, `restCall`, `lockMaintenance` | client and server |
| Namespace lock | `cmd/namespace-lock.go`, `internal/lsync/lrwmutex.go` | `nsLockMap`, reference counts, `LRWMutex` | `NewNSLock`, `GetLock`, `Unlock` | `DRWMutex` in distributed mode, `LRWMutex` otherwise |
| Backup scheduler | `scheduler/backup.go` | PostgreSQL: plans, jobs, csv tables | a cron tick every 2 minutes: due plans, new jobs, car files, upload, Swan task | Swan, Lotus, the tables the web API writes |
| Autobid scheduler | `scheduler/autobid.go` | the same tables | a tick every 3 minutes: send deals, record them, complete jobs whose deal is active | Swan, Lotus |
| Rebuild scheduler | `scheduler/rebuild.go` | rebuild jobs, the volume directory | a tick every 10 minutes: move the volume away, retrieve a payload, complete the job | Lotus, the file system users write to |
| Web API of FS3 | `cmd/web-handlers.go` | none of its own | add and update plans, add backup and rebuild jobs, rebuild at once, listings, online deals | PostgreSQL, Lotus, the volume |
| MinIO's object layers | `cmd/erasure-*.go`, `cmd/fs-v1.go`, `cmd/disk-cache.go` | disks | put, get, heal, list | the namespace lock |
| MinIO's services | IAM, replication, lifecycle, events, gateways, S3 Select | various | | external services |
| UI: session | `browser/src`: `router/index.js`, `permission.js`, `store/modules/user.js`, `views/login`, the parts of `Home.vue` and `Slide.vue` for tokens and keys | the route, the token in `sessionStorage` and the store, the key remembered in `localStorage` | log in, log out, visit a route, change the secret key, answers 401 | the web API |
| UI: account pages | `views/myAccount/{backupPlans,myPlans,myJobs,dashboard}` | lists with their pagers, dialogs, masks, timers | add, enable and disable a plan, page through lists, rebuild, prices | the web API's plans and jobs |
| UI: object browser | `Home.vue`, `Slide.vue`, `views/minio/index.vue`, `retrievalDialog.vue` | buckets, current bucket and prefix, rows, selection, open dialogs, progress of uploads | make and remove a bucket, go to a path, pick, delete, download, upload, share a link, edit policies, show deals | the web API, its listings, uploads and links |
| UI: deal dialogs | `shareDialog.vue` | a menu of storage providers loaded page by page, two forms | choose a provider, send an online or an offline deal | the web API, the list of providers |

What is hard in this code, and where (`PROJECT.json` lists each hazard at its
line):

* **Lock.** One operation keeps its UID over all attempts, so an answer or a
  release of an attempt it has given up meets the requests of the next one at the
  same server. Answers that come after `lock()` has returned are given back by
  another goroutine. Calls fail, their answers get lost, releases time out and
  are handled later, servers restart with an empty table, clients die, entries
  expire. What makes it correct: conflicting operations never both hold the lock,
  no late release takes an entry away that is still counted on, nothing is left
  behind, every operation ends.
* **Backup and autobid.** cron starts each tick in a goroutine of its own without
  waiting for the previous one; ticks and web requests read rows and write whole
  rows back with `Save`, with no transaction. The job just created is looked up as
  the one with the highest id. What makes it correct: a task belongs to one job, a
  completed job has an active deal of its own, a plan is backed up once per
  interval, a deal that was sent is on record.
* **Rebuild.** A rebuild moves the live volume away before it knows whether the
  payload can be retrieved; ticks, requests, uploads, backups and crashes fall in
  between. What makes it correct: no upload is lost, a completed job was rebuilt,
  the volume comes back, the queue moves on.
* **Browser UI.** Requests have no time limit and are never cancelled. Their
  handlers run when the answer comes, in any order, and write to the page as it is
  by then: the user may have gone to another bucket, folder, row, location or
  page of a list, changed the key or logged out. `Home.vue`, the page and two dialogs
  pass one current bucket and prefix along by events, and each keeps copies. Rows are
  named by index across lists that answers replace. One of several deletes, or one
  list of several, may fail. What makes it correct: what is shown, deleted, linked,
  given a policy, uploaded to or backed up is what the user chose; lists show what is
  stored once they have been answered; nothing stays masked; a session ends for a reason.

## 2. Modules

| module | models | used by |
|---|---|---|
| `LocalLocker` | the entries of one resource at one lock server, as a count per UID | `DRWMutex` |
| `DRWMutex` | lock operations, calls, lock servers, refresh, expiry, faults | `MCDRWMutex`, `DRWMutexProof` |
| `DRWMutexProof` | theorems on `DRWMutex`, also that it implements `RWLock` | |
| `RWLock` | the abstract lock: waiting, held, ended; who is broken | `DRWMutex` |
| `VolumeBackup` | backup ticks, autobid ticks, plan and job requests, Swan and deals | `MCVolumeBackup` |
| `VolumeBackupProof` | theorems on `VolumeBackup`: whatever overlaps, and while nothing does | |
| `VolumeRebuild` | rebuild ticks and requests, the volume directory, uploads, backups | its runs |
| `VolumeRebuildProof` | theorems on `VolumeRebuild` | |
| `Requests` | the requests of the UI under way: sent, answered, lost | `Session`, `ObjectPage` |
| `RequestsProof` | lemmas on `Requests`: what sending, answering and giving up make of the requests under way | `PlansProof`, `ObjectBrowserSteps` |
| `Session` | routes and guards, log in and out, the secret key | `PlansPage`, `JobsPage` |
| `PlansPage` | the pages of backup plans, and FS3's handlers for them | `Account` |
| `JobsPage` | the page of backup and rebuild jobs, and FS3's handlers | `DetailsPage` |
| `DetailsPage` | the dashboard and the details it links to | `Account` |
| `Account` | the composition of session and account pages | `MCAccount`, `PlansProof` |
| `PlansProof` | the invariants of `Account` for requests, session and plans, and which steps keep them | `AccountProof` |
| `AccountProof` | the invariants of jobs and masks, prices, and the theorems on `Account` | |
| `ObjectPage` | `Home.vue` and the page of objects, and FS3's handlers | `BucketMenu` |
| `BucketMenu` | the list of buckets at the side, its menu, policies, deals of a bucket | `DealDialog` |
| `DealDialog` | the two dialogs that send deals | `ObjectBrowser` |
| `ObjectBrowser` | the composition of the object browser | `MCObjectBrowser`, `ObjectBrowserSteps` |
| `ObjectBrowserSteps` | the types of `ObjectBrowser`, what each of its steps writes, and the properties of the bar of progress, the header and the policies | `ObjectBrowserProof` |
| `ObjectBrowserProof` | the other theorems on `ObjectBrowser` | |
| `MC*` | symmetry sets and constants for TLC | |

Operators whose comment begins with "Mutant:" are plausible wrong versions of the
operator that follows them. They are part of no specification; each one, put in
the place of the right version, breaks the property `PROJECT.json` names.

### DRWMutex and LocalLocker

A *client* is one lock operation, a writer or a reader, that is, one UID. Its
`phase` says where its goroutine is: `locking` (the loop of `lock()`),
`releasing` (the `releaseAll` of an abandoned attempt), `backoff` (the sleep of
`lockBlocking`), `locked`, `cancelled` (after `lockLossCallback`), `unlocking`
(the loop of `Unlock`), `done`, `crashed`.

`rpc[c][a][l]` is the life of the call of attempt `a` to locker `l`:

    sent -> granted -> locked -> releasing -> over | relerr (-> releasing ...)
         \         \-> draining -> over           (the answer nobody read)
          \-> denied -> over

so the `locks` array is the set of calls in state `locked` (`relerr` during
`Unlock`: the entry of the array was not cleared). `CollectAnswer` and
`CollectTimeout` are iterations of `lock()`'s loop, `LockReturns` everything
between the loop and the return, `AbandonReturns` the end of `wg.Wait()` in
`releaseAll`, `DrainGrant` the goroutine that closes the channel and releases what
is in it, one after the other. `HandleLock` and `HandleRelease` are a server's
handler with its answer; `LockCallFails`, `LockAnswerLost`, `ReleaseCallFails`,
`ReleaseTimesOut` (with `HandleLateRelease`) are the ways a call goes wrong. A call
to `Refresh` is one step, `RefreshAnswered` or `RefreshCallFails`, since a locker's
table is only read by it.

`Expire` is `lockMaintenance` for one entry, `LockerForgets` a restart of the
server or a `ForceUnlock`, `ClientCrashes` the death of the client's process. An
entry a live operation still needs may expire only at the cost of a fault (its
refreshes were late for 20 seconds), and the entry of an attempt in progress does not:
`lock()` collects for one second. `lost[c]` is a history variable: the lockers that
dropped an entry of a live `c` unasked.

Abstractions: one resource per lock; time stamps are not kept; owner and UID are one;
`dm.m` is not modelled, because one operation uses its `DRWMutex` from one
goroutine, as `distLockInstance` does.

### RWLock

`RWLock` is what the users of `RWLocker` count on. `DRWMutex` instantiates it as `RW`
with `lockState` (an operation waits while it tries and backs off, holds in phase
`locked` and has ended otherwise) and `Broken` (the operations for which some locker
has dropped an entry unasked). `Acquire` demands that no conflicting unbroken holder
exists, `Break` is a locker that drops entries, everything else `DRWMutex` does is
`End` or a stutter. A broken operation neither excludes others nor is excluded: that
is what the code gives, since a holder learns of dropped entries at its next refresh at best.

### VolumeBackup

The tables `plans` and `jobs` are sequences indexed by primary key, `tasks` is what
Swan knows. Each database query of a tick is one action, in the order of the code:
`ScanPlans` (`GetRunningBackupPlans` and the due test), `ReadPlan`/`SavePlan`
(`UpdateLastBackupTime`), `CreateJob`/`LastJob` (`AddBackupVolumeJobs`),
`CreateTask`/`BackupFails` (`BackupVolumeJobs`), `SaveBackupTask`
(`SaveBackupTaskToDb`); `SendAutoBidDeals`, `FindSentJob`/`SaveSentJob`
(`UpdateSentBackupTasksInDb`), `FindJobs`/`CheckDealStatus`/`CheckDealFails`
(`UpdateActiveBackupTasksInDb`). A row read by `First` or `Find` is kept in the
goroutine's local state and written back as a whole. `overlapped` is a history
variable: two goroutines ran at the same time.

Abstractions: one clock unit stands for the time a tick takes to matter, every plan
has the same interval; car files, uploads and csv rows are one step that succeeds
or fails; the database does not fail; `FindSentJob` drops a deal without a job
because the insert of an empty row is refused by the foreign key to the plans
(src/README.md, table `psql_volume_backup_jobs`).

### VolumeRebuild

`volume` is the directory at `Fs3VolumeAddress` with the set of objects in it,
`moved` what was moved away. A worker, a tick or a request, goes through
`StatVolume`, `MoveVolume`, `Retrieve` or `RetrieveFails`, `SaveRebuildJob`. Lotus
is external: it retrieves the payload of an active deal into a path that does not
exist, or fails and may leave a part of it. `retrieved` is a history variable: the retrievals
that succeeded, each with the job it was for, the payload, whether a tick or a request made
it, and what it put in place. `BackupVolume` and `BackupCompletes`
are what the two other schedulers do to a backup job, as far as a rebuild can tell.

### The browser UI

*Requests.* `calls` is the sequence of the requests under way, each with what was sent
(`op`, `arg`), whether it was served, and the answer. Serving (`Reply`) is a step of
FS3, running the handlers (`Done`) a step of the browser; between the two, anything may
happen, so answers arrive in any order. `Fails` is an answer with an error or a loss. An
answer that another has overtaken (a later list of the same table, or a change made
after the list) is marked `late`, also the answer to a removal when a file of that name has
been uploaded since (`Overtakes` marks them when an answer is handled, `ReplyOvertakes` when
FS3 makes a change, `UserOvertakes` when the user asks again). Properties that the code cannot
keep in that case say so by `fresh`, which a late answer, when it is applied, takes away.

*Session and account pages.* `page` is the route, `view` the data of the component mounted
there. Going to another page mounts a new one; the requests of the old one stay, with
`live` false: their handlers change nothing the user sees, but what was sent is still
served (`Unmount`). `SessionOps` are the exception, because their handlers navigate or set
the token wherever the user is. The guards of `main.js` and `permission.js` let every
route pass, so what protects the pages is `Home.vue`'s `getData` and the `beforeEnter`
of the route of objects. FS3 refuses a token not made with the current secret key. The
plan, backup and rebuild tables are those of `VolumeBackup` and `VolumeRebuild` seen by the
requests of one user. Of the schedulers only the end of a job is left, `BackupCompleted` and
`RebuildCompleted`, which may happen at any time; plans change by what the user asks alone. A list
and its total are two queries that the model reads as one; the counts on the dashboard
(`PsqlCounts`) are two steps, because they count different jobs in between: first those in
process, then the completed ones, without a transaction.

*Object browser.* `home` is `Home.vue`, `fs3` the page, `share` its dialog of links and
deals, `slide` the list at the side, `deal` the two dialogs of `shareDialog.vue`, `open` the
dialogs that are open. `stored` and `policies` are FS3's. `SlideClick`, `AboutListData` and
their like are the events by which the components move each other; an action includes all
the handlers it sets off. An upload is a number of parts: `ProgressFunction` is an event of
`XMLHttpRequest`, which compares with the last event of any upload, and `RestTime` decides
with it whether the bar of progress closes.

*History variables.* `since` (what happened since the last log in), `asked` and
`confirmed` (the plans, each with the status it was to get, and the rebuilds the user has asked
for), `shown` (what the table was last filled with, the bucket that it listed when a row was
opened, and whether an answer has moved it), `picked` (the objects that were picked and
where), `view.behind` (a write that a page did not wait for) and `shown.cut` (since the last
upload began, one was cut off, or it was of an empty file). No guard of the code's own conditions reads them.

Abstractions: a bucket is a number, a path or an object's name a sequence of its parts, a
secret key a number and a token the key it was made with, a price its digits, a plan its
status and duration. Texts, validation of fields that no handler reads back, colours and
layout are left out. Editing the path and Enter is one step (`EditPath`). The header's
`replace` of the prefix by nothing (`minio/index.vue`) takes away the first slash instead
when the prefix is empty; since the parts of a path are no characters here, that is the same.

## 3. Runs

| run | bounds | shows |
|---|---|---|
| `dsync_mutex` | 3 lockers, a writer and a reader, one fault of any kind | types; `MutualExclusion`; `NoStrayEntries`; `IsRWLock`, the refinement |
| `dsync_ends` | 3 lockers, a writer, one retry, one fault | `GrantsKept` with two attempts under one UID; `OperationsEnd` (liveness) |
| `dsync_refresh` | 4 lockers, a writer, 2 faults | *violated*: `RefreshCancelsWithoutQuorum` |
| `dsync_unlock` | 4 lockers, a writer, 2 faults | *violated*: `UnlockReturnsOnceReleased` |
| `backup_ticks` | 2 backup ticks, 1 autobid tick, 1 request, at most 2 at once; 2 plans, 2 jobs, a crash | `UniqueUuid`, `CompletedIsActive` in spite of overlaps |
| `backup_alone` | the same with one goroutine at a time, 3 jobs, 3 clock units | `JobMatchesTask`, `NoExtraBackups`, `DealsRecordedAlone`, `StatusOnlyAdvances` |
| `backup_deals` | 2 backup ticks, 1 autobid tick | *violated*: `DealsRecorded` |
| `rebuild_overlap` | 2 ticks, a request, 2 jobs, an upload, a backup, a crash | `NothingLost`, `CompletedWasRebuilt`, `VolumeBack`, `RebuildsCompleteInOrder` (liveness) |
| `rebuild_blocked` | 1 tick, 2 jobs | *violated*: `RebuildsComplete` |
| `account_pages` | 3 acts of the user or losses, 2 plans, 2 backups, one row on a page | `SessionEndsForAReason`, `ObjectsNeedToken`, `PrefillWorks`; `PlansAsAsked`, `PlansAreCurrent`, `PlansLastLong`, `SummaryShowsPlan`; `RebuildsAsConfirmed`, `ConfirmShowsRebuild`, `TablesFollowPagers`, `PriceIsCost`, `CardsMissNoJob`; `MasksEnd` |
| `object_pages` | 3 acts or losses, 2 buckets with an object and a folder each, files of none, 1 or 2 parts, 5 providers in pages of 2 | `TableIsCurrent`, `HeaderIsPath`, `ActsOnPicked`, `LinkIsChosen`, `PoliciesOfTitle`, `DealsOfWhatIsOpen`, `DealsAsWanted`, `ProvidersInOrder`, `UploadBarCloses` |
| `objects_sorted` | 1 act, the table sorted downwards | *violated*: `DeletesItsRow` |

Why these bounds. Three lockers are the smallest odd set with a majority smaller
than the whole; the two violation runs need the even case, four, where the write
quorum exceeds a half. Two clients give every conflict, one retry every meeting of two
attempts; what TLC leaves open here (more lockers, clients, retries, faults) the
proofs cover for the four safety properties and the refinement. Two ticks and two jobs are
what it takes to number a job wrongly or to write back a stale row; the third job of
`backup_alone` lets a plan be backed up twice while another is due. Deadlock is checked
in the lock's runs: a client that can go nowhere before its operation is over would
be an error (`Quiet` is the end). The schedulers' runs may stop when the bounds on
jobs, clock and crashes are used up.

In the UI's runs `MaxSent` bounds what the user does (and the losses that matter), not what
the handlers send in turn, which are all run; `MaxUnderWay` keeps the user from acting
while more requests than that are under way (in `object_pages`, one, so that two answers
can cross). The initial states are any page, bucket or open dialog rather than the log in,
so that three acts go far: enough for an act, one that contradicts it before the
answer, and a loss. Two buckets, one named within the other, each with an object at the top and
one in a folder, are what it takes to act on the wrong bucket, prefix or row; one row on a page
makes every list longer than its page; two days of which one is too short, prices shorter and
longer than the decimals, and five providers in pages of two, are the boundaries of the
conversions. These runs may stop: the user need not act again.

What the violations say of the code:

* `dsync_refresh`: `refresh()` takes the lock for refreshed when fewer than a quorum
  of lockers answered "not found", so with four lockers a writer goes on with two of
  its three entries, although the comment promises a cancellation without quorum.
* `dsync_unlock`: `Unlock` of a write lock that half of the lockers have forgotten
  never returns: they refuse the release of what they do not have. (`RUnlock` does
  not have this problem: `localLocker.RUnlock` accepts a missing entry.)
* `backup_deals`: the task is on Swan before the job has its uuid; an autobid tick
  in between sends the deal, finds no job, and the deal is never recorded.
* `rebuild_blocked`: a rebuild job made for a backup without a payload (or whose
  deal never becomes active) is first in the queue for ever.

* `objects_sorted`: when the user has sorted the table of objects, "Delete Object" of a row
  takes the row's index in the sorted table and looks it up in the unsorted rows, and so asks
  to delete another object.

Properties that hold only under a condition name it: the `~overlapped` properties are
true of a scheduler whose goroutines do not overlap, which cron does not guarantee;
`MutualExclusion` excepts lockers that dropped an entry. Those of the UI except answers that
came late (`fresh`, `late`), and answers that moved the current bucket under a dialog
(`calm`, `settled`, `mixed`, `raced`, `followed`): the code guards against neither, and
`PROJECT.json` lists these cases as hazards at their lines. In particular:

* `CompletedWasRebuilt` asks for a retrieval *for that very job*, with all that the backup
  holds. Its payload is the job's, or another one that a request named: the code takes the
  payload of a request as it comes.
* `CardsMissNoJob`: a job completed between the two queries is counted twice; none is missed.
* `PlansAsAsked` compares each *change* of a status with what was asked for that plan. It
  excepts an answer to an earlier update that puts another plan into the open dialog.
* `TableIsCurrent`: the table is not what FS3 has after a list or an answer about a change
  was lost or overtaken; after Home has gone back from a bucket that could not be made
  (`Home.vue:331`), for which it asks for no list; and after a removal whose answer came when
  another bucket, or no row of that name, was shown. All three last until the next list.
* `ActsOnPicked`: a download takes its bucket from the header (`getDownload`), so it is the right
  one as long as the header follows Home; a bucket typed over the path is the case in which
  it does not (`HeaderIsPath`).
* `DealsOfWhatIsOpen`: a row is open by its name (`minio/index.vue:402`). When another bucket
  with a row of that name is listed, that row is open too, with the first bucket's deals; and
  a row opened while Home was on its way to another bucket asks for that one's.
* `UploadBarCloses`: the bar stays open after an upload was cut off, and after one of an empty
  file, whose time left is 0/0 (`Home.vue:540`), until the next upload.

### Fairness

`DRWMutex`: goroutines get to run (`CallerStep`, `DrainStep`), a sent call is
handled, fails or times out (`ServerStep`; all calls carry timeouts or the
transport's), a refresh round ends, and `lockMaintenance`, which runs every minute,
visits an entry nobody refreshes. A holder calls `Unlock` in the end: that is the
deferred call of every user of a namespace lock. Nothing is assumed of faults or of
the retries' success.

`VolumeRebuild`: cron goes on starting ticks, each call returns, and Lotus does not
fail every attempt on an active deal (strong fairness of `Retrieve`: a failed attempt
disables it until the next one). Without this, no retry loop could be shown to end.

The UI's modules state no fairness: a request may never be answered, since the code sets no
time limit, and a user may do nothing. That pages do not wait for nothing is stated as a
safety property instead (`MasksEnd`, `UploadBarCloses`): what covers the page has a request
or timer under way that takes it off.

## 4. Proofs

`DRWMutexProof` proves, for any finite set of lockers, any clients and any bounds on
retries and faults (assumptions `LockersAssumption`, `WritersAssumption`,
`BoundsAssumption`):

* `TypeCorrect`: `Spec => []TypeOK`;
* `GrantsAreKept`: `Spec => []GrantsKept`;
* `NoEntryIsStray`: `Spec => []NoStrayEntries`;
* `LocksExclude`: `Spec => []MutualExclusion`.

`MutualExclusion` is not inductive. The invariant is

    IInv == Basic /\ WritersAlone /\ GrantsKept /\ NoStrayEntries /\ HeldQuorum

`Basic` adds to the types that attempts not yet begun have no calls and the one in
progress has counted at most as many failures as calls are missing; it is proved
first, by itself. `WritersAlone` says that a locker with an entry of a writer has no
other entry. `HeldQuorum` says that an operation in phase `locked` has a quorum in its
`locks` array. The argument:

1. *Accounting.* For each client and locker compare the number of entries with what
   the client owes (grants counted on, being released or to be drained, and releases
   on their way). Every action changes both by the same amount, or loses a grant
   (a fault: entries exceed what is owed), or drops an entry unasked (recorded in
   `lost`). This gives `GrantsKept` and `NoStrayEntries` and needs one lemma on the
   cardinality of the set of owing attempts.
2. *Exclusion at one locker.* A grant to a writer needs an empty table, a grant to a
   reader needs that no writer is alone in it; with `WritersAlone`, no writer at all.
3. *Quorums meet.* A writer's and any other quorum add up to more than the number of
   lockers (`QuorumSum`), so two holders' `locks` sets share a locker (`QuorumsMeet`).
   Each has an entry there by `GrantsKept` unless the locker dropped one, and two entries,
   one a writer's, contradict `WritersAlone`.

Its last part proves `DRWMutexIsRWLock`: `Spec => RW!Spec`. Initially everybody waits and
nobody is broken. Every step of `DRWMutex` changes the abstract state of one operation
at most and breaks nobody, or drops entries and changes no abstract state (the lemmas on
the phases). A step that ends an operation is `End`; the guard of `Acquire`, which no
single step of the code checks, follows from `MutualExclusion` in the state *after* the
step: if an unbroken conflicting holder existed, both would hold the lock, and no locker has
dropped an entry of either. Hence the proof cites `LocksExclude`'s invariant primed.

`VolumeBackupProof` proves of `VolumeBackup`, for any goroutines, interval and bounds
(`IntervalAssumption`, `BoundAssumption`: a table's bound is at least one; `FiniteAssumption`:
finitely many goroutines, needed only to count those that run):

* `BackupTypes`: `Spec => []TypeOK`;
* `TasksHaveOneJob`: `Spec => []UniqueUuid`;
* `CompletedHaveDeals`: `Spec => []CompletedIsActive`.

Types need that what goroutines refer to exists, which holds because tables only grow
(`Typed`). The other two look at every copy of a row, those kept by goroutines included.
`RowsOK` says that the deal of every copy is none or that of its task, and active if the copy
says Completed; a task that is active stays so, hence a late write does no harm. `OneJob`
says that of all rows, copies and ticks that have a task `u`, each has it for the same job;
only `CreateTask` makes a new one, and the copies are of one row (`JobsCome`, `TicksCome`,
`BidsCome` say where rows come from). Two ticks may take the same job for theirs, which
does not matter: each has a task of its own.

Its second half proves what holds as long as no two goroutines of the schedulers have
overlapped (`~overlapped`), which is what the code relies on: cron starts a tick in a goroutine of its own whether the last one has ended or not.

* `JobsMatchTasks`: `Spec => []JobMatchesTask`. `NoneActive` turns
  the count in `overlapped` into the fact that a goroutine which starts without overlap finds
  all others idle; hence `Alone`, at most one runs. Then nothing comes between creating a job
  and `db.Last`, so the job with the highest id is the tick's own (`OwnJobs`).
* `StatusAdvances`: `Spec => StatusOnlyAdvances`. The row that a
  goroutine is about to save is the one in the table but for what it changes (`TickJobs`,
  `BidJobs`), and the jobs that a tick has created are new and different.
* `DealsAreRecorded`: `Spec => []DealsRecordedAlone`. A task that is sent or
  active has its deal in a job, or is in the hands of the autobid tick that sent it
  (`TasksKnown`), which nothing but a crash interrupts; deals on record are sent
  (`RecordedAreSent`), so none is recorded for another.
* `BackupsOncePerInterval`: `Spec => []NoExtraBackups`. `Once` is
  the inductive form: the tasks a plan has, and one more if a tick still owes it one, fit the
  intervals between its creation and its last backup. It needs that a tick takes each plan
  once (`PlansOnce`) and that requests do not write back old times (`RequestTimes`).

`VolumeRebuildProof` proves of `VolumeRebuild`, for any workers, objects and bounds
(`BoundAssumption`, `WorkerAssumption`):

* `RebuildTypes`: `Spec => []TypeOK`;
* `UploadsKept`: `Spec => []NothingLost`;
* `CompletedAreRebuilt`: `Spec => []CompletedWasRebuilt`;
* `VolumeIsBack`: `Spec => []VolumeBack`.

`ContentsGrow` is the main lemma: whatever a directory holds, some directory holds after
any step, because a rebuild moves the volume and Lotus retrieves only where nothing is. With
it, `NothingLost` is inductive. `CompletedWasRebuilt` needs `SavesRetrieved`: a worker about
to save has a retrieval on record, made for its job, of its payload and in full; what has been
retrieved stays so (`InFullKept`), and `ComesToSave` says that only a retrieval leads there.
`VolumeBack` needs `MissingIsRetrieved` (while nothing has failed or died, a missing volume
has a worker about to retrieve it).

`RequestsProof`, `PlansProof` and `AccountProof` prove all thirteen properties of the run
`account_pages`, for any number of plans, jobs and requests, any size of a page, any durations,
costs and decimals (`SessionBounds`, `PlanBounds`, `JobBounds`, `CostDigits`: costs are
numbers, which do not begin with a zero):

| theorem | property | theorem | property |
|---|---|---|---|
| `SessionEnds` | `SessionEndsForAReason` | `RebuildsWereConfirmed` | `RebuildsAsConfirmed` |
| `ObjectsHaveToken` | `ObjectsNeedToken` | `DialogShowsRebuild` | `ConfirmShowsRebuild` |
| `PrefillIsCurrent` | `PrefillWorks` | `TablesShowTheirPage` | `TablesFollowPagers` |
| `PlansChangeAsAsked` | `PlansAsAsked` | `PricesAreCosts` | `PriceIsCost` |
| `PlansShownAreCurrent` | `PlansAreCurrent` | `CardsCountAll` | `CardsMissNoJob` |
| `PlansMadeLast` | `PlansLastLong` | `MasksComeOff` | `MasksEnd` |
| `SummaryIsOfPlan` | `SummaryShowsPlan` | | |

They follow from one invariant:

    AccountInv == CallsOK /\ SessionInv /\ PlansInv /\ JobsInv /\ MasksInv

* `CallsOK`: a request under way is one that the page sends, or one of the few whose handlers
  run wherever the user is, or one that was left behind (`live` false).
* `SessionInv`: a request to log in, to end the session or to change the key knows what `since`
  will say when its answer comes.
* `PlansInv`: of the requests for plans, an update is one the user asked for, and a creation one
  that was validated. `PlanListOK` is what makes lists current: unless an update under way
  is going to ask again, the *last* list asked for is that of the page shown, and, once answered,
  what FS3 has; with no list under way, the list shown is. An answer that another overtakes
  is not the last one and sets `behind`.
* `JobsInv`: rows may be older than the jobs, but a job never gets less completed (`Grows`), so
  what a row, an answer or a card has said stays true (`GrowKeeps`, `ViewsGrow`), and a job that
  is not counted as in process is counted as completed later (`Half`); `PagerFollowed` is `PlanListOK` for the two tables.
* `MasksInv`: for each page, what its masks wait for is live or a timer runs.

The proof is by components, not by pairs: each invariant has its lemmas for the steps of its own
pages (`SessionGoes`, `PlansGo`, `JobsGo`, and those of `MasksInv` for all of them), one for every
step that leaves its requests and its page alone (`SessionElsewhere`, `PlansSame`, `JobsSame`;
`PlansAreElsewhere` and its like say which do), and one for going to another page
(`PlansOpens`, `JobsOpens`), which unmounts whatever was there. `GoSplits` and
`AccountInvSteps` put them together. `PricesAreCosts` rests on `PriceDenotes`: the filter drops
zeros at the end only, which `Denoted` fills up again, for any digits.

`Only`, which says what `Unmount` keeps, is a recursive function; what it returns is proved by
induction (`OnlyPicks`). The induction theorems of the library take an operator, which the
provers cannot instantiate, so `Induct` takes a set of numbers and follows from the order of the
naturals being well founded (`Least`).

`ObjectBrowserSteps` and `ObjectBrowserProof` prove all nine properties of the run
`object_pages`, and the types, for any number of buckets, files, uploads and requests, files of any
size, empty ones included, any times and durations, any number of providers and size of a page (`PageBounds`,
`NameBounds`, `DealBounds`: names are not empty, a path begins with a bucket, a link is good
for a day at least, there may be two buckets, every location has a provider):

| theorem | property | by the invariants |
|---|---|---|
| `ObjectTypes` | `TypeInv` | `Located`: where pages of providers are shown or under way, a location was chosen |
| `BarCloses` | `UploadBarCloses` | `BarInv`: while the bar is open, some upload has parts to send, and the last event was about it or about as many parts, unless an upload was cut off or empty |
| `HeaderFollows` | `HeaderIsPath` | `HeadInv`, with Home at one bucket at most |
| `PoliciesFollow` | `PoliciesOfTitle` | `SideInv`: one dialog is open, on the current bucket; `PoliciesCurrent`: an answer that is not late lists the policies there are; `PolicyInv`: the last list asked for is that of the title |
| `TableFollows` | `TableIsCurrent` | `ListsCurrent` and `RemovedGone`: what answers tell that are not late is so; `PlaceInv`: the last list asked for is that of the place; `TableInv` |
| `DealsFollow` | `DealsOfWhatIsOpen` | `RowInv`: the last request for deals is for the row's name and, if the bucket listed when it was opened still is, for that; `RetrievalInv`: for the current bucket |
| `PicksActOnRows` | `ActsOnPicked`, not sorted | `PickInv`; `RowsInv` (no row without a bucket) and `HeadInv` for the bucket of a download |
| `DealsAreWanted` | `DealsAsWanted`, not sorted | `ShareInv`: the address is that of the row; `SentDeals` |
| `LinksAreChosen` | `LinkIsChosen`, not sorted | `LinkInv`: the last link asked for is of the row, at the time chosen |
| `ProvidersFollow` | `ProvidersInOrder` | `MinersInv`: the pages shown are the first ones, and the next is under way exactly while `loadSign` is off |

The system has seventy actions, most of which have nothing to do with most invariants. The
proof therefore classifies the steps once: `EveryStep` splits `Next` into some fifteen kinds
(`Going` to another bucket, `Walking` in it, `Selecting` rows, `Replying`, `Storing`, ... and
the handlers one by one), and a lemma for each kind (`GoingStep`, `WalkingStep`, ...) says which
fields of `home`, `fs3`, `share` and `shown` it may set and which requests it sends or ends
(`Touches`). An invariant is then kept by a lemma `...Spared` in every step that touches
none of what it speaks of, and needs an argument in the few others.

`TableInv` is the one that took longest. A removal is done in FS3 before the row goes, so in
between the table has more than FS3: `Left` are the rows without those whose removal has been
answered, and it is these that FS3 has while no list or upload is under way. That every
such answer will find its row (`GoesFromTable`) is what a lost list, another place or an upload of
the same name can break, and `fresh` says that they have not.

The three theorems that say "not sorted" have the form `Spec => [](~fs3.sorted => P)`: `SortOrders`
is a constant of the model, the run takes it to be unsorted only, and with a sorted table the
properties are false, which `objects_sorted` shows.

What the proofs have found. Each of these properties held in its run and was not true; the
counterexamples need an act or an object more than the run allows. The properties now say what
the code keeps, and the cases are marked where they arise:

* `PrefillWorks`: with four acts the answer to a log in that was sent before comes when the user
  has opened the dialog for a new key in another session, and leaves it as it is
  (`since.around`).
* `TableIsCurrent`: the answer to a removal is delayed, the user uploads a file of the same name,
  its row is listed, and then the answer takes that row away (`PutObject` overtakes the removal).
* `PoliciesOfTitle`: the bucket is deleted and made again while the dialog shows its policies,
  which went with it (`DeleteBucket`); nothing tells the dialog.
* `ProvidersInOrder`: the dialog is opened again for the same location while pages of its first
  opening are under way; they come after the first page of the second and are added again
  (`HandleOpen` overtakes them).
* `DealsAsWanted`: whether a deal is posted as one for an object depends on the address, which
  an answer can change under the dialog; the clause now excepts that, as the others did.
* `ActsOnPicked`: a file and a folder of the same name are two picks of one name, so the drawer
  counts rows, not names.

Left to TLC, being out of the prover's reach: the liveness properties `OperationsEnd` and
`RebuildsCompleteInOrder`. Every safety property of a passing run is the subject of a theorem; the
runs that expect a violation have counterexamples instead.

## 5. Not modelled

* Locks on several resources at once (multi-object delete): `Refresh` renews only the
  first resource, a matter of time stamps (see the plan).
* The process-local lock map and `LRWMutex` (planned).
* Of the UI: the texts and validation of forms, tags and the QR code of the deal dialogs, the
  mask of the provider table, copying to the clipboard, the full screen, the highlighting of
  the menu, layout; sorting, except in `objects_sorted`; what no page uses (`index.1.vue`, the
  wallet, `request.js` and `api/login.js`, the store's `Login` action, most filters). That
  requests are answered in the end cannot be shown: nothing in the code makes them.
* The erasure and FS object layers apart from an upload (planned in part), the disk
  cache, IAM, replication, lifecycle, events, gateways, S3 Select:
  inherited from MinIO, or I/O to external services.
* Web handlers that only read, and online deals: request/response over Lotus.

## 6. Plan

Done: the lock and its refinement, the schedulers and the browser UI, all with their proofs. Left,
in this order:

1. `LRWMutex` and `NSLock`: the process-local lock with its reference counts, shown to
   implement `RWLock` as `DRWMutex` does.
2. Time stamps and several resources in the lock table: expiry of what `Refresh` does
   not renew, and the loop of `expireOldLocks` over a slice it changes.
3. Proofs: of `NSLock`, and of a lock table with several resources.
4. Erasure put, get and heal with write and read quorums, below the namespace lock.
