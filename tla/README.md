# TLA+ models of hibiscus-frontend

hibiscus-frontend is a web front end for the database of the Hibiscus banking program: an Express
backend (`packages/backend`) and an Angular frontend (`packages/frontend`). The backend serves
several users, each with a database and an encryption key of their own, and fetches bookings from
banks over FinTS in runs that last up to a quarter of an hour, while the same user edits, deletes
and reconfigures in other tabs. Modelled are the keys, the runs, the merge of what they fetch, the
pools and connections they share, the guarded edits of transactions, categories, tax sections and
bank connections from several tabs, and what a tab keeps and shows: the state of the syncs, settings,
tables, trees, reports and exports. Each model is translated from the TypeScript source;
`PROJECT.json` names the lines each definition stands for.

Run `tlc -config X.cfg M` for the runs listed below and `tlapm M.tla` for the `...Proofs`
modules.

## Inventory

Paths are relative to `packages/backend/src` or `packages/frontend/src/app`.

### Backend

**User activity registry** (`db/user-activity.ts`). In memory, per user: a counter of busy runs and
a mark "is being reconfigured". `markUserBusy` fails under the mark, `beginReconfiguring` fails
under a positive counter. Used by everything below. Correct when runs share, a reconfiguration
excludes, and the counter returns to zero.

**User keys** (`sync/user-keys.ts`, `routes/user-key.ts`, `sync/credential-crypto.ts`). In memory:
the unlocked keys, and per user a promise chain that queues the operations create, setMode, unlock,
lock, change, reset and resolve. On disk: the key record (mode, check value, wrapped copy) in the
app database, the encrypted PINs in the user's own database. Hard: operations of several tabs
interleave at every await; a change writes both databases and no transaction spans them; a run
resolves a key and uses it many queries later. Correct when a PIN is always under the key the check
value accepts, a key in hand is the user's current key, and the unlocked and wrapped copies fit the
record.

**App users and database settings** (`repositories/app-user.ts`, `routes/user-database.ts`). The
rows the keys live in; saving other settings is a reconfiguration, and invalidates the pool.

**Sync service** (`sync/sync-service.ts`). `startSync`, `runSync`, `discover`, `deleteConnection`.
A run marks the user busy, gets the key, takes the named lock of its bank connection, reads it,
inserts its row, performs orders at the bank, waits for TANs, merges what it fetched, records the
outcome in two tables, and gives lock and mark back. Hard: every query may fail, recording the
failure included; two starts, a delete and an edit of one connection meet; the row mirrors a state
that lives in memory. Correct when one run is on a connection at a time and keeps its rows, the row
says what the run does, and every run ends.

**TAN registry** (`sync/pending-tan-registry.ts`). In memory, per run id: the challenge, its
deadline, its waiter and its timer. `request`, `answer`, `confirm`, the poll and the expiry timer,
`settled`, `release`. Hard: an answer races the timer and the end of the run; a decoupled order is
polled under one deadline. Correct when an answer reaches the run that asked, and no wait is for
ever.

**Scheduler** (`sync/scheduler.ts`). A tick every minute goes through users and due connections, one
run after the other, and is skipped while the last one runs. Correct when no run stops it for good.

**Run and connection tables** (`repositories/sync-run.ts`, `repositories/bank-connection.ts`,
`routes/bank-connections.ts`, `routes/sync.ts`). The rows of runs, and of connections with status,
pause, bank parameter data and PIN. Correct when the newest outcome is shown, the pause is that of a
scheduled run's expired TAN, and the bank parameter data is the present bank's.

**FinTS session and merge** (`sync/fints-session.ts`, `sync/umsatz-merge.ts`,
`sync/hibiscus-checksum.ts`, `sync/fetched-booking.ts`). The session fetches an account's bookings
from a start date; the merge inserts those that are new, by checksum and with Hibiscus' counting of
equal ones, and replaces the pending rows, in one transaction under the lock of the konto's row.
Hard: two connections may map to one konto; bookings appear days after their date; equal bookings
are told apart by their number only. Correct when nothing is stored twice and nothing but a
duplicate is lost.

**User pools** (`db/pool.ts`, `db/user-pools.ts`, `middleware/user-db.ts`). A pool of five database
connections per user, cached by the settings' version, invalidated when they change, with the
preparation of the tables shared as one promise. Hard: a lookup overlaps an invalidation; a failed
preparation is shared; runs keep a connection and need another.

**Transactions, categories, tax tags** (`repositories/umsatz.ts`, `umsatztyp.ts`, `tax-tag.ts`,
`tax-section.ts` and their routes). Guarded updates ("only if the row is still what the client
saw"), bulk assignment in one transaction, a category tree that must stay without cycles, tax
sections seeded once. Hard: lost updates, cycles made by two moves, a crash before the seed.

**Settings, authentication, configuration, start and stop** (`routes/settings.ts`,
`repositories/user-setting.ts`, `middleware/auth.ts`, `config/config.ts`, `server.ts`). Single
writes and stateless checks; a restart forgets all that is in memory.

### Frontend

**Sync status** (`features/sync`): one store polls the status, faster while a run is active, and
callers refresh it on top; a TAN dialog and a banner follow it. Hard: answers come late and in any
order, a poll fails, the component that polls goes away. Correct when an older answer loses, the
polling goes on as long as somebody polls, and a dialog stays while its challenge is open.

**User settings** (`core/services/user-setting-channel.ts`, date presets, table density): one load,
a queue of writes, a page with an editor. Hard: a write is queued before the load is answered, fails,
or comes from a list that changed under the editor. Correct when only stored values are shown and a
save of one view leaves the others alone.

**Transactions** (`features/transactions`): a store with the rows, an edit dialog and a bulk
assignment. Rows are changed in place when a save is answered. Hard: reloads, dialogs and other
tabs meanwhile. Correct when each save replaces what its dialog showed.

**Categories and tax** (`features/categories`, `core/services/tax-*.service.ts`): a category dialog with
a tag and a preview, a dialog for the tax sections, two services with app-wide copies of tags and
sections that follow the tab's own saves. Hard: the answer comes when the page is gone and the next
dialog has a save of its own on the way; tags, sections and categories are loaded by separate requests,
by the page and by the dialog beside it. Correct when the copies are what is stored unless somebody
else changed it or an older answer came last, and the dialogs never come to a state their handlers throw
in; two runs show where that fails.

**Bank connection dialog** (`features/bank-connections`): two forms that save on their own and a
discovery that may wait for a TAN. Correct when no form undoes the other's save and what is offered
can be saved.

**Data table** (`shared/components/data-table`): quick filter, order, selection with ranges, context
menu, trees with sums. Hard: clicks come between a change and its rendering. Correct when nothing
out of sight stays selected and what a menu acts on is what is seen.

**Algorithms and reports** (`core/utils`, `core/tax`, `category-report.ts`, `category-export.ts`): trees from
parent ids, category matching, the report by category and its sums. Correct when cycles and nothing
else are refused and every transaction is summed once.

**Export** (`features/transactions/export`): a dialog with options remembered per view, a preview that is
generated after a while, a file. Hard: choices, data and tabs change while something is generated.
Correct when a late result is neither shown nor handed over.

**API, guards, setup and settings forms, widgets**: requests, redirects, forms and layout.

### How the parts meet

- Memory: activity registry, unlocked keys, TAN registry and pools are shared by all requests and
  the scheduler of the one Node process. A stretch between two awaits is atomic, nothing longer is.
- Databases: the app database holds users and keys; each user's own holds PINs, connections, runs
  and bookings. No transaction spans two of them.
- Locks: `GET_LOCK` per bank connection, kept on a pooled connection as long as a run lasts; a row
  lock on `konto` for a merge; the activity registry between runs and reconfigurations.
- The frontend sees runs only by polling rows and the TAN registry.

## Modules

| Module | Models | Uses |
| --- | --- | --- |
| `UserActivity` | the registry's operations, one operator each | |
| `ExclusiveAccess` | abstract: per user many share or one excludes | |
| `UserKeys` | the key operations, key users and reconfigurations | `UserActivity`; implements `ExclusiveAccess` |
| `PendingTans` | the TAN registry's operations | |
| `RunLog` | abstract: the run table as a log of live and ended runs | |
| `SyncRuns` | sync service, scheduler, run and connection rows, deletes, edits, TANs | `UserActivity`, `PendingTans`; implements `RunLog` |
| `UmsatzMerge` | what a sync fetches for one konto and how it is merged | |
| `PoolConnections` | the connections of one user's pool and who waits for them | |
| `UserPools` | the cached pool of a user, lookups, the setup of the tables, the saving of settings | |
| `TransactionEdits` | the rows of `umsatz`, guarded updates, bulk assignment, two dialogs per tab | |
| `CategoryEdits` | the tree with its tags, the category dialog, the tag service | |
| `TaxSections` | sections, tags, the two services and the section dialog | |
| `BankConnectionDialog` | settings form, discovery and mapping form against the row | |
| `SyncStatus` | polling, refreshes, `awaitRun`, banner and TAN dialog against one connection's runs | |
| `UserSettings` | the channel, presets page, density picker, the routes behind them | |
| `DataTable` | rows, flat or as a tree, filter, order, selection, context menu | `TableTrees` |
| `TableTrees` | `buildTree`, `toTreeNodes`, `computeTreeAggregates` as operators | |
| `TreeTable` | a table in tree mode whose rows keep changing | `TableTrees` |
| `CategoryReport` | matching, report, tax filter, export sums, the preview of a draft | `TableTrees` |
| `ExportDialog` | options, preview, file, remembered options | |
| `Edits` | suite: the parts where tabs and requests change data | `TransactionEdits`, `CategoryEdits`, `TaxSections`, `UserPools`, `BankConnectionDialog` |
| `Screens` | suite: the parts that keep and show data | `SyncStatus`, `UserSettings`, `DataTable`, `TreeTable`, `CategoryReport`, `ExportDialog` |
| `UserKeysProofs`, `SyncRunsProofs`, `PoolConnectionsProofs`, `UserPoolsProofs`, `TransactionEditsProofs`, `EditsProofs`, `ScreensProofs`, `UmsatzMergeProofs` | theorems | the modules above |
| `MCUserKeys`, `MCSyncRuns`, `MCUmsatzMerge`, `MCEdits`, `MCScreens`, `MCUserSettings` | values of constants and symmetry for TLC | |

**UserKeys.** A job is a request or a scheduled run; `job[j].op` is its handler, `job[j].at` the
await it stands at, the rest its locals. `Acquire` is the part of a route before the operation
(database lookup, `beginReconfiguring` or `markUserBusy`), the queue is `UserKeys.queues`, and only
its head works. The write of the key record compares and sets (`updateAppUserKey`), a change
re-encrypts in a transaction, writes the record, commits, and puts the old record back when the
commit fails. Every query may fail where the code catches it. A key stands for itself, its check
value and its wrapped copy; a stored PIN is the key it is under. Writing a PIN (create or edit a
connection) and running (sync or discover) are the shared uses. `Faults` adds what the code does
not handle: `restart`, `lostAck` (a write took place, its answer is lost), `restoreFails`, `switch`
(the user saves another database), `setup` (the first database is set up while a change has
already looked for one).

**SyncRuns.** A runner is one request or the scheduler; `run[r].at` is the await it stands at. Each
order of a run may ask for a typed or decoupled TAN under a reference of the bank's choice, at
every poll; `Register`, `Wake`, `Expire` and `DeadlinePasses` of `PendingTans` are the turns of the
registry. The row's `tan_required` is written by actions of its own, as in `trackedPrompt`. A run's
failure is recorded by up to three writes, each of which may fail under `recordFails`. photoTAN is
a typed TAN. Which connections are due is the database's free choice among those enabled and not
paused. After a restart rows stay as they are (`server.ts` does not touch them).

**UmsatzMerge.** `bank[b]` counts the bookings equal to `b` at the bank, `stored`, `legacy` and
`pending` the rows. A sync computes its start date from the newest booked row (`fetchStart`), fetches,
waits for the konto's row lock, inserts by the `<=` counting of `mergeInto`, handles the pending
rows, and commits or rolls back. Since the checksum covers the date, a booking in the model is its
date and a text, and the merge's search window never excludes a match. The session in the source
delivers no pending bookings (`fints-session.ts:317`); the merge is modelled by its own contract.

**PoolConnections.** `owner[c]` is who has connection `c` and for what, `queue` who waits. The pool
itself is the library's (mysql2): it gives a connection that comes back to the longest waiter and
never refuses. A run is its sequence of "keep one for the lock, take another for each query".

**UserPools.** A lookup reads the settings row, then takes the cached pool, or ends it and creates one
(`entryFor`), then waits for the setup of the tables (`ensure`), whose queries are steps of their own
and may fail; two pools of one database may set it up at once and clash on a table. `save` stands
between the write of new settings and `invalidate`, which are two awaits apart. A restart forgets
the cache and ends the pools. A pool is open exactly as long as it is the cached one (`OldPoolsEnded`):
a lookup that succeeded keeps a pool of the right version with all its tables (`PoolReady`), which an
`invalidate` or a newer lookup may end at any time, also before the request has used it.

**TransactionEdits, CategoryEdits, TaxSections.** Each has the tables and, per tab, what its store holds,
its dialog and its requests on the way. A request is sent with the values its dialog was opened on, is
served by the route's transaction (the queries of a bulk assignment and of a category update are
steps, with their row locks), and is answered, refused, failed or answered in vain (`LoseAnswer`,
`FailRequest`); its answer may find the page left (`orphan`). A category's `name` and a section's
`name` stand for all their other fields, which the code compares and writes together.

In `CategoryEdits` and `TaxSections` a dialog has one request at a time (its own `saving` or `busy`), but
the request of a dialog whose page was left goes on beside it: a tab has several `Slots`, served and
answered in any order, and every answer changes the app-wide tags and sections (`applySaved`,
`Applied`). Tags and sections are loaded by the page and, as long as they are missing, by the dialog's
constructor as well; the two loads are separate (`tagLoads`, `loads`), each is read at the server at
one step, arrives at another or fails, and is dropped with whoever asked for it. `outdated`,
`outdatedTags` and `unsure` mark where the tab may not show what is stored: somebody else changed it
after the tab read or saved it, or, in `TaxSections`, two answers about the sections are on their way at
once and may come in the wrong order. For the tags `CategoriesFit` says instead what each tab does show,
the last answer it took over; that an older answer may be that last one and take a confirmed tag away
is the run `tags_stay`.

**BankConnectionDialog.** One dialog, the row behind it and other tabs that edit or delete it. The
settings form, the discovery (with the key prompt and a TAN wait) and the mapping form each have a
busy sign and a request; saving the mapping is two requests, the second one only for a changed TAN
choice. What a bank offers is methods with their media, which may be none, also for a method that needs
one (`fints-session.ts:142`): `mediaFor` then gives none, and that choice cannot be saved
(`canSaveMapping`). `BankDialogSound` says so: the choice is a method the bank offers, and complete unless
the bank names no medium for it.

**SyncStatus.** The server is a connection whose runs follow each other and change status; `requests`
are those on their way, answered in any order. `Receive` is the whole `tap` and what the caller hung
on it: the next tick, `awaitRun`, the dialog to open. `seen` is a history variable: the time the
newest answered request was sent. `waitForTan` opens the TAN dialog after a refresh, also one that
failed (`bank-connection-dialog.component.ts:416`); `asked` marks a dialog that was opened after the
status had been read, and only of those `TanDialogStays` says that no answer closes them while their
challenge is open.

**UserSettings.** `writes` is the queue (`concatMap`), whose first write is under way. A density's map is
merged when its turn comes (`Merge`). `past` is a history variable: what was ever stored. That
a density leaves the others alone holds while no request has failed (`OtherDensitiesKept`); after a
lost answer it does not (`DensitiesNeverDropped`, run `densities_dropped`).

**DataTable, TreeTable, TableTrees.** `bound` is what the page hands over, `rendered` what PrimeNG has since
the last rendering, `filtered` its delayed filter result; `dirty` marks that a rendering is due, and
clicks may come before it. PrimeNG is modelled from how the component uses it. In a tree the
rows are displayed in pre-order, the rows of each parent sorted on their own, and the quick filter keeps
what is above and below a row it lets pass ("lenient", `docs/architecture.md:30`): `Walk` is the
sequence of all rows in which each comes after those that `Precedes` says belong before it, flat rows
being a tree of roots. `TableTrees` writes recursion as functions. A cycle in the rows is an error (`buildTreeFails`).

**CategoryReport.** A pattern is the set of transactions it matches; a rank is number and name. The
report, the tax filter, the export's walk and the preview are operators over the tab's categories
and transactions; the actions are the saved changes between which they are compared.

**ExportDialog.** `stream` is the `switchMap` with its debounce, `preview` and `urls` what is shown and what
is not revoked, `job` the file being written. Effects run in `Flush`, as Angular schedules them.

**Edits, Screens.** The parts of a suite share no state, so each behaviour is about one part
(`part`) and the others stay at one value; a property of the suite is the conjunction of what it says
about each part. `MCEdits` and `MCScreens` give their constants values: what the banks offer, the rows with
their keys and parents, the filters, the transactions and the drafts are constants of the modules.

## Runs

| Run | What it asks | Bounds |
| --- | --- | --- |
| `user_keys` | types, `PinsFitCheck`, `KeyInHandIsCurrent`, `RunsDecrypt`, `KeptKeysFit`, under every error the code handles | one user, three jobs at once, two keys, two bank connections |
| `user_keys_faults` | `ExclusiveAccess` is implemented and every job ends, under every fault | two jobs, restarts, lost answers, failing restores, late setup |
| `user_keys_restart` | a restart between the two databases of a change: PINs under another key than the check value's (finding) | one job |
| `sync_runs` | types, rows kept, challenges reach their runs, rows show the wait, ended runs are finished, outcome and pause fit, every run ends | scheduler and one request, one connection, two run ids, two orders |
| `sync_runs_faults` | `RunLog` is implemented (runs keep their rows among it), with restarts and failures that cannot be recorded | as above, one order, two bank identities |
| `sync_runs_users` | two users' runs with the same id: a TAN wait that never ends (finding) | one connection each |
| `umsatz_merge` | nothing twice, one equal booking missing at most, no gaps, pending rows replaced | two syncs, five days, three bookings |
| `pool_connections` | bookkeeping of the pool, never all waiting, every task ends | three connections, two runs, two requests |
| `pool_connections_full` | as many runs as connections: a run waits for a connection for ever (finding) | three runs |
| `edits` | types; `NoLostEdit`, `AssignAllOrNothing`, `ScreensFit`, `LocksSuffice`, `DialogsSound`, `PoolsSound` | two tabs with two rows, one pending; one tab with three categories and one with two codes, each with two saves and two loads on their way; two lookups, three databases; two banks, one other edit of a connection |
| `screens` | types; `ShownFits`, `NothingLost`, `TablesSound`, `ReportFits`, `PreviewFits`, `ExportSound` | two runs, two requests in flight; two views, three presets; three rows, one below another; three categories, two transactions, two saves; two levels |
| `tags_resolve` | tags that were read before a rename of a code and arrive after it (finding) | one tab, two codes, two saves |
| `tags_stay` | an older answer takes away a tag whose save was confirmed (finding) | one tab, one category, two loads, two saves |
| `new_section` | a new section is opened where the list is not shown (finding) | one tab, two codes |
| `densities_dropped` | the write after a lost answer drops what that one stored (finding) | two views, two writes |

Why the bounds are enough. For the keys, the third job is what makes a key user, an operation and a
reconfiguration meet, and the queue grow to two waiting behind a working one; a second key is what
"old" and "new" need, a second connection what makes a re-encryption partial. For the runs, the
scheduler and one request reach every pair of operations on a connection; two run ids let a run
follow another on it, two orders and two references let a challenge follow another in it. `RunIds`,
`References`, `Orders`, `LastDay`, `Copies`, `Posts` are bounds of the models, in the guards of the
actions that would pass them. For the merge, three equal bookings are what the `<=` counting needs
to lose one and be able to lose two, and five days with an overlap of one give the window two
places to be wrong at either end; the code has 5 and 90 days, and only their order
(`Delay <= Overlap <= Initial`) matters. A run sees at most one midnight, since no wait exceeds 15
minutes. For the suites: two tabs are what a lost update needs (for categories and
sections one tab with the saves of two successive pages is: the server serves them in every order, as
it would those of two tabs, and their answers meet in one copy of the tags; two tabs on top, each with
two saves and two loads, exceed what a run can visit), two rows what a partial assignment and
a wait cycle need, three categories what two moves need to close a cycle that neither makes alone;
three databases are one to leave, one to enter and one that is refused or has an old schema; two
lookups are an older and a newer row at once; two requests in flight are what "out of order" needs;
three rows are the smallest range with a row between its ends; three presets with room for two reach
the limit; two saves of categories let a transaction be assigned to one category before the
next is saved, and the trees of three grow three levels. `MaxUses`, `MaxWrites`, `MaxSaves`, `MaxFaults`, `MaxChanges`, `MaxOthers`, `MaxPools` count what a
behaviour may still start; two or three of each let one operation overlap another and be followed by
one that sees the result.

Distinct states: `user_keys` 103,000 (with symmetry), `user_keys_faults` 67,000, `sync_runs`
102,000, `sync_runs_faults` 792,000, `umsatz_merge` 1,489,000, `pool_connections` 24,000, `edits` 658,000
(with symmetry), `screens` 792,000; the longest takes about three minutes with two workers.

Deadlock is not checked in `pool_connections_full`, where the system really stops, nor in `edits`,
`screens`, `tags_resolve`, `tags_stay`, `new_section` and `densities_dropped`, whose counters end a
behaviour when every user has done what they may.

### Findings

Seven runs end in a violation; `PROJECT.json` quotes the sentence of the repository each contradicts.

1. `user_keys_restart`: the key record is written before the PINs commit; a crash between them
   leaves every PIN undecryptable with the key the check value accepts.
2. `sync_runs_users`: the TAN registry is keyed by run id, which is unique per database, not per
   process. One user's run ending drops another's challenge and timer, and that run waits until a
   restart, lock and busy mark held.
3. `pool_connections_full`: five simultaneous runs of one user hold the pool's five connections for
   their locks and all wait for a sixth.
4. `tags_resolve`: a rename follows the tags that are loaded; tags read before it that arrive after it
   keep the old code, on which the report and the category dialog throw.
5. `tags_stay`: page and category dialog each load the tags; the dialog saves a tag once its own load
   is there, and the page's older answer then replaces the map and takes the tag away until the next
   load. The answers of two dialogs' saves of one category, the first one's page left, do the same in
   the wrong order.
6. `new_section`: the section dialog's own load fails, the page's arrives. The dialog shows its error in
   place of the list, but lets the user add a section; the new row has no editor, and the code that
   gives it the focus throws.
7. `densities_dropped`: the answer of a performed write is lost. The next write is merged into the map
   before it, and the density of the other view is gone from the database.

Four more things the models show, without a run of their own. Saving another database, changing the
key and saving the first one again meets PINs under the old key (`switch` of `UserKeys`). An edit of a
bank connection's identity during a run is followed by the run's storing the old bank's parameter
data (`saveBankingInformation`). A creation whose answer is lost and that the user repeats makes two
categories, since nothing in the request tells a repetition from a second one (`createCategory`). The TAN dialog of
one discovery is replaced by that of an earlier one whose status is answered late (`OpensAnother`).

## Fairness

- `UserKeys`: weak fairness of each job's step. A step is a query or a turn of the queue; a query is
  answered or fails, a TAN wait inside a run is bounded. Arrivals are not fair.
- `SyncRuns`: weak fairness of each runner's step, of timers and the passing of deadlines, and of
  the tick. No fairness of users: nobody has to answer a TAN, press a button or start anything.
- `PoolConnections`: weak fairness of asking and of each task's step. The queue's first-come order is
  the library's and part of the model, so no strong fairness is needed.

The modules of the two suites state no fairness and no liveness: what they are about is what a step
may do. `PollingGoesOn` of `SyncStatus` is the safety half of "the tab polls on".

The weak fairness of a whole `RunStep` is enough since exactly one await of a runner is pending.

## What is proved

`UserKeysProofs` (any users, jobs, keys, databases), under every fault:

- `QueueCorrect`, `TypeCorrect`: types, and that a key operation works only at the head of its user's
  queue. The types alone are not inductive: a change writes a new key only since it has one in hand,
  and the tail of a queue is shifted only by its head (`SlotInv`).
- `RegistryCorrect`: the counter equals the number of jobs that share (`RegistryInv`), by finite
  cardinality; a reconfiguring mark has one job behind it.
- `AccessCorrect`: `UserKeys` implements `ExclusiveAccess`. Each step maps to entering, leaving, a
  restart or a stutter; `RegistryInv` turns the guards on the counter into guards on the sets.

and under fewer:

- `CurrentKeyCorrect`, `KeyInHandCorrect`, `KeptKeysCorrect`: the key in hand is current and the kept
  copies fit, unless an answer is lost or a restore fails (`NoWriteIsLost`). `CurrentKeyInv` adds
  to the properties what each job knows at each await (the record it read is the record it
  will compare with) and which single job may be ahead of memory.
- `PinsInvariant`, `PinsCorrect`, `RunsCorrect`: the PINs fit the check value and a run decrypts what
  it read, with `Faults = {}`. `PinsInv` says which job's record is ahead of the PINs and which rows
  it holds. The run `user_keys_restart` shows that the assumption is needed.

`SyncRunsProofs` (any users, runners, connections and bounds, and every fault unless said):

- `RunTypesCorrect`, `RowsCorrect`: types and `RunKeepsItsRows`. The types need to know what a runner
  has in hand at each place (`StateFits`: a run that throws has an outcome, an order is left to do).
  `RowsFit` says what it relies on in the database from GET_LOCK to RELEASE_LOCK, which is more than
  the property, since a run is on its connection before it has a row and keeps the row until it
  unlocks; `NewIds` says that an id is given once. Each action of a runner is shown to keep its own
  part, and to spare the locks of others and all rows and connections that no lock of its own covers
  (`Spares`); so the others keep theirs.
- `LogCorrect`: `SyncRuns` implements `RunLog`. Creating the row maps to `Begin`, a write of the status to
  `Report`, RELEASE_LOCK after a run to `Leave`, a delete to `RemoveConnection`, a restart to `Crash`, all
  else to a stutter. The lock shows that nobody else is live on the connection, and that the id that
  leaves is no other run's.
- `WaitShown`, `RunsRecordTheirEnd`: `RowShowsTheWait`, and `EndedRunsAreFinished` with `Faults = {}`.
  `StatusInv` says of every place what the run's row says there, the places between an answer of the
  registry and the write that follows included; the lock shows that nobody else writes the row. A run
  leaves its row by closing only (`LeavingTheRow`), and one that closes has written its end unless
  that write failed, so no unfinished row is left behind.

For the next three the steps are sorted once by what they do to a run's row and its connection, and
each invariant is kept sort by sort:

- `ChallengesReachTheirRuns`: `ChallengeReachesRun`, under every fault, for one user: `ASSUME` any two
  users are equal. With two users it is false, since run ids are given per database and the
  registry knows ids only (the second finding). `ChallengeInv` adds that a request waits at places of
  `trackedPrompt` alone; that the entry it drops or makes is its own follows from the connection's lock.
- `OutcomesShown`: `OutcomeShown`, with `Faults = {}`. `HistoryInv` says that a run in progress is the
  newest sync of its connection, `EndInv` which status its row has at each place from the end of its
  session on, and `OutcomeInv` that every connection without a run about to note its outcome shows
  that of its newest sync.
- `PausesExplained`: `PauseFits`, under every fault. `PausesFit` says between which places a run's
  connection may not be paused; `DueFits` that what the scheduler has listed and not yet begun is not
  paused either, since a connection is paused by the scheduler's own run only.

`PoolConnectionsProofs` (any numbers of connections, runs and requests):

- `TaskTypesCorrect`, `PoolCorrect`, `NothingKept`: types, `QueueFits`, `NoneKept`. Inductive with two
  more facts (`PoolInv`): stages are of the task's kind, and no task has two connections for one
  thing, without which giving back one of them would not make room.
- `NeverAllWait`: with fewer runs than connections `NeverStuck` holds. A task that holds a connection
  for a query waits for nothing, so if all owners wait then each connection is some run's lock, each
  of another run; by the pigeonhole theorem there are then at least as many runs as connections.

`UserPoolsProofs` (any lookups, databases, bounds):

- `PoolTypesCorrect`, `PoolsCorrect`: types, `PoolReady`, `OldPoolsEnded` (a pool is ended exactly if it
  is not the cached one), `WaitsForSetup`. The invariant says that a version names one database and nothing read is newer than the row (`VersionsFit`),
  that what a setup has done stays done (`SetupFits`), and which pool and which setup each lookup may
  be at (`LookupsFit`).

`TransactionEditsProofs` (any tabs, rows and values):

- `EditTypesCorrect`, `NoEditLost`, `AssignmentsWhole`, `ScreensCorrect`: types, `NoLostUpdate`,
  `AssignAllOrNothing`, `ScreenFits`. `EditsInv` relates a tab's list, the values its dialog was opened
  on, its request in flight and its row locks: under an open dialog the list stands still, and the
  rows an assignment has matched are locked by it.
- `AssignmentsEnd`: no group of tabs waits in a circle (`NoWaitCycle`). What an assignment has locked
  precedes what it has left (`OrderInv`); of a group in which each waited for another, take the tab
  with the fewest rows from the one it waits for on: whoever holds that row waits for a later one.

`EditsProofs` (the suite `Edits`, for any tabs, slots, rows, categories, codes, databases, banks and bounds):
`EditTypesCorrect`, `ScreensShowStored`, `LocksCorrect`, `DialogsCorrect`, `PoolsStaySound`, `EditsKept` and
`AssignmentsAllOrNothing`, one for each property of the suite. A step of the suite is one of the part it
is about (`StepsOfParts`), so each part keeps an invariant of its own; those of `TransactionEdits` and
`UserPools` are taken from the two modules above (`RowsProved`, `PoolsProved`).

- Categories (`TreeInv`). That no category is its own ancestor is a statement about chains as long as
  there are ids; what is inductive is that no set of categories contains the parents of all its
  members (`NoRing`), since a new or moved category can only close a ring through itself. A chain that
  comes back is such a set (`CycleIsRing`), and a move passes `createsCycle` only if the chain from the
  new parent ends, which makes every ring avoid it (`MovedFits`). The tree the check read is the tree
  it writes, by the lock (`HoldsTree`). What a tab shows is a tree too: under an open dialog the list
  stands still, and the picker offers nothing below the category (`NothingBelow`).
  What a tab knows of the tags is the answer it took over last (`ShowsTree`, with `ReadStands` for the
  answers on their way); `OneOwn` says that of all saves of a tab one at most is its dialog's, and
  `OnPage` that list and dialog are still those it was made from.
- Tax sections (`TaxInv`). A tab that nobody overtook holds what is stored, or has the one answer on its
  way that brings it there (`HoldsSections`, `OneComes`); with which row and draft a dialog may be busy
  or in error (`DialogExpected`), and what each request on the way was made from, that of an earlier
  dialog included (`RequestStands`, `Handles`).
- The bank connection dialog (`BankInv`). Each busy sign is on exactly while its request is on its way
  (`RequestsStand`), a discovery is only shown with a saved connection and its rows, and a chosen
  method is one the shown discovery offers, with a medium of it or, if it has none, without
  (`ChoiceStands`).

`ScreensProofs` (the suite `Screens`, for any runs, presets, views, rows with their keys, parents and
filters, categories, transactions with their amounts and accounts, drafts, codes and bounds; `PartsFit` has
all that is assumed of them: finite sets, integer amounts, no cycle among the parents):

- `ScreensTypes`: `TypeOK` of all six parts.

- `TabsShowWhatWas`: `ShownFits`. Of the syncs (`SyncInv`): an answer is a state the server was in since the
  request was sent, and the state it is in if the times are equal (`ReadOf`, `RequestFit`); the requests
  are in the order they were sent, and those that are not outdated are not older than what was seen.
  Of the settings (`SettingInv`): while no request has failed, the channel differs from what is stored
  only between the performance of a write and its answer (`WritesFit`); only the first write of the
  queue is under way; and an editor fits the list shown and the one a write will leave (`EditorFit`).
- `ExportStaysSound`: `ExportSound`. `ExportInv`: a limit to tax sections, remembered or in the dialog, is
  only there with the sections; a preview that is not pending is of the stream's last input; a file
  that was not destroyed is that of the busy dialog.
- `BegunStays`: `NothingLost`, by the same invariants, with the two preconditions it states: of the TAN
  dialogs those that were opened after the status had been read, and of the densities' writes those
  before any request has failed. What was read since an open challenge came is as the server is
  (`SinceChallenge`), so no answer settles the dialog of that challenge. The property also leaves out
  one case the proof met: a discovery of an earlier run, whose status request is answered
  late, opens the dialog of its own run and so closes the newer one (`OpensAnother`); the code does that
  (`tan-dialogs.ts:22`), and the closed dialog can be opened again from the banner.
- `TablesStaySound`: `TablesSound`. `TableInv`: what is selected is kept (`SelectionFit`), and what a menu
  holds is of the rows that were or are displayed (`MenuFit`). That rows without a value come last among
  their siblings needs the order of the walk: the rows above two rows that are not above each other part
  at one pair of siblings (`BranchesMeet`), so "is visited before" is transitive and total
  (`VisitedTransitive`, `VisitsOrder`), and the places given by the rows before each are those of a
  sorted sequence (`WalkIs`, by counting finite sets). `ForestInv`: the nodes are those of
  the rows, and as the user left them wherever he did (`NodesFit`).
- `PreviewsTellTheTruth`: `PreviewFits`. `ReportInv`: every category is a saved draft below another one or
  none. A transaction without a stored category goes to the category that comes before all others it
  matches (`AssignedIs`, by `FirstHit`: there is always one such); the preview and the saved list have the
  same others, and the draft has the same place among them unless a new one ties in rank.

- `SumsStayRight`: `ReportFits`. Added to the invariants: the rows are refused exactly if `buildTree` throws
  (`RefusedFit`), and no category is above itself (`NoCycle`: a category that is new or moved closes no
  cycle unless it lies above its new parent, `Reparented`, which the server's check excludes).
  The rest is about the recursive functions of `TableTrees` and `CategoryReport`, for every forest. The
  rows above a row are the least set that holds it and is closed upwards (`Chain`); the rounds of a
  search reach it after as many rounds as there are rows (`RoundsEnd`, `ClimbIsChain`), and what can be
  reached from the roots is all exactly if no row lies above itself (`CyclesAreLeft`). Chains are
  linear and do not return (`ChainIsLinear`, `NoReturn`), so the rows below two children of a row, or
  below two roots, are apart. A sum over a set does not depend on the order it is taken in
  (`SumTakes`) and that over disjoint sets is the sum of the sums (`SumOfSums`); hence a group's sum is
  that of the leaves below it (`AggregatesAre`) and the roots' sums that of all leaves (`TotalsAre`).
  A report is such a forest: its categories keep the chains they have among all categories
  (`ReportChains`), its transactions are leaves, and what a tax export keeps is closed upwards
  (`KeptRows`). The section of the nearest tag above is what `effectiveTaxSection` computes
  (`SectionsAboveStep`, `SectionsAre`). Inductions are on a set of what is right and a least element
  outside it (`LeastNatural`, `AllFinite`, `ChildrenFirst`, `ParentsFirst`); that a recursive function
  exists is shown by giving it (`AggregatesAre`, `DepthsAre`, `SectionExists`) or from its rank
  (`Recursion`).

`UmsatzMergeProofs` (any syncs, days, texts and bounds):

- `MergeTypesCorrect`, `NothingTwice`, `AlmostAllStored`, `PendingReplaced`: types, `NeverMoreThanBank`,
  `OneMissingAtMost`, `PendingFits`. The types need `NeverMoreThanBank`, which is inductive only with
  what the holder of the konto's lock knows (`SyncFits`): the rows it counted are still the rows
  stored, and its inserts are what the statement has beyond them.
- `NothingSkipped`: `NoGaps`. `GapInv`: what is missing is older than every stored booking or within
  the overlap of each (`Older`, `Near`), a sync that has begun looks far enough back for it
  (`WindowFits`), and what was posted after the bank answered a sync is dated late enough for the
  rows that sync will add and for all that is being fetched (`UnseenFits`). It assumes `Delay < Initial`,
  in the code 10 days at most (`OVERLAP_DAYS`) against 90 (`INITIAL_DAYS`, `sync-service.ts:143`): with
  equal windows TLC finds a first sync, begun before midnight on an empty table, that leaves a gap.

The proofs assume only the conditions on the constants that the modules name (`KeyAssumption`,
`SyncAssumption`, `PoolAssumption`, `MergeAssumption`, and `ConstantsFit` of the suites' modules), all of which TLC
evaluates in the runs.

## What is only model-checked

`EveryJobEnds`, `EveryRunEnds`, `EveryTaskEnds`: liveness under fairness is out of the proof system's
reach. Every invariant and every action property of the runs has a theorem.

## Abstractions to know

- `UserKeys`: saving the same database again keeps the job's handle usable; looking the database up
  is one step. Without `switch` neither matters. Editing without a PIN and deleting are in
  `SyncRuns`. `lostAck` covers the two writes of a change.
- `SyncRuns`: a `RELEASE_LOCK` that fails destroys its connection, so the lock is free either way. A
  success row may be overwritten by an error when recording the outcome fails; `RunLog` allows that
  correction and no other. What orders fetch is in `UmsatzMerge`. The pool never runs out; that
  is in `PoolConnections`.
- `UmsatzMerge`: balances and protocol entries are written and never read. A desktop client's rows
  are there from the start.
- Suites: parts do not meet in one behaviour. Where they share something in the code, a module has
  both sides: tags in `CategoryEdits` and `TaxSections`, the row of a bank connection in
  `BankConnectionDialog`, `SyncRuns` and `UserKeys`.
- `CategoryEdits`, `TaxSections`: a dialog's request is known by its slot; how many a tab can have on
  their way is a bound. A section that turns out to be in use makes the dialog read the tags again;
  two such loads at once count as one.
- `UserSettings`: one tab. Two tabs overwrite each other's list (`INSERT ... ON DUPLICATE KEY UPDATE`), and
  nothing in the code claims otherwise.
- `DataTable`: one quick filter and one column, whose equal values keep the order of the ids, in which
  the page binds its rows.
- `SyncStatus`: one connection; `awaitRun` compares the latest run only, so a newer run of the same
  connection keeps it waiting, which the model has and no property excludes.
- `PreviewFits` leaves a tie out: a new category that equals another in number and name is ranked by
  id, which the preview cannot know.
- `ExportDialog`: the writers and the preview's failure end the stream for this dialog, as in the code.
- `PoolConnections`: every run is of another bank connection, and the queries at its end are one.

## Not modelled, and why

- Parsing, formatting and layout: FinTS messages and their conversion (`fints-session.ts` apart from its
  orders), checksums as strings, export writers and PDF pages, widgets, the ribbon, styles.
- Date ranges and presets' dates (`date-range.ts`): calendar arithmetic without state.
- Authentication, configuration, API client, guards and interceptors: stateless checks, calls and
  redirects.
- Setup and settings forms, the key prompt outside the bank connection dialog: forms around requests
  that `UserKeys` has.
- The TypeScript contracts: types; the records of the models follow them.
- Clock steps and the loss of an idle database connection are listed as hazards without a property:
  the code has nothing that handles them.

## Plan

1. Date ranges as operators; the session's conversion of statements; the API's redirects with the
   guard, composed with `UserPools`.
