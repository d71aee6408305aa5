# A TLA+ verification of aictl

aictl deploys one set of AI-context sources (`.context.toml`) to the configuration files of several
coding tools and observes those tools while they run. This directory holds TLA+ models of the parts of
it in which order, failure or concurrency decides whether it is correct, the TLC configurations that
check them on small instances, and proofs for every instance that TLAPS checks.

Paths below are relative to `src/src/aictl/` unless they begin with `docs/` or `test/`.

## The system

Two programs share one package, and the second serves a page. `aictl ctx ...` is a command that runs and
ends; several of them, and the threads of `deploy --watch`, may run on one project at a time, with nothing
between them but the file system. `aictl daemon` is one long-lived process of many threads around one SQLite
file: collectors and ingesters that append rows, a flush thread, a refresh loop that publishes snapshots,
HTTP threads that receive hook events and serve the dashboard. The page (`dashboard/ui/src/`, Preact) has two
routes: the board, and the detail screens. It asks the server by `fetch`, hears of changes by two event
streams, and keeps choices in its address and in localStorage; its concurrency is that of answers, timers and
effects that come in an order nobody chose.

| component | state it keeps | operations | talks to | what is hard |
|---|---|---|---|---|
| memory swap (`memory.py`) | `memory/` and its stashes under `~/.claude/projects/<p>/`, a lock file, a marker file | `swap_memory`, `recover_swap` | called by the deploy; Claude Code writes the same directory | two renames that are not atomic, crashes, recovery without the lock, a writer that takes no lock |
| deploy pipeline (`commands/ctx_pipeline.py`) | where a deploy is; the watch's debounce timer | `_run_deploy`, watch | emitters, manifest, memory swap | a deploy may stop between any two steps; overlapping deploys |
| manifest and cleanup (`resolver.py`) | `.ai-deployed/manifest.json` | load, save, `cleanup_stale` | deploy | rewritten in place; deletes by name |
| safe writes (`utils.py`, `fsutil.py`) | target files, `.aictl.bak`, `.aictl-tmp` | `write_safe`, JSON and overlay merges | every writer | backup overwritten, one temporary name, read-modify-write |
| context scan, synthesizer, emitters, importers | none | parse, resolve, render | deploy, import | text only |
| mutation ledger (`mutation_ledger.py`) | a JSONL file and one rotated file | `record`, `_rotate` | every write | several processes rotate |
| hook integration (`commands/integrations.py`, `hook_removal.py`) | hook entries in the tools' settings files | install, remove, restore | hook server | edits of files others edit |
| history database (`storage.py`) | six buffers, SQLite file or memory, snapshot cache, strikes | `append_*`, `flush`, `_note_flush_error`, `close`, `write_call_facts`, `enforce_budget` | sink, ingesters, hook threads, queries | write-behind with retry, two flushing threads, a file that fails, rows another writer supersedes |
| schema migrations (`storage_migrations/`) | schema version | apply in order | history database | crash between two |
| sample sink (`sink.py`) | buffer, latest values, flood state | `emit`, `flush`, samples and events | history database, snapshots | a second buffer, rate limits, batches split at one timestamp |
| refresh and maintenance (`orchestrator.py`) | `SnapshotState`: snapshot, version, lazily built JSON, ring buffers | refresh, `wait_for_update`, maintenance | monitoring, dashboard | publishers and waiters |
| monitoring (`monitoring/`) | sessions by tool and pid, entity states per session | `on_process`, `on_network`, `process_event`, `_gc` | collectors, hook threads | events out of order, reused pids, unlocked tables |
| ingesters (`ingesters/`) | file offsets, accumulators | `poll` | history database | offsets ahead of what is stored, rewritten files |
| dashboard server (`dashboard/web_server.py`) | pending tool uses, stream clients | hook requests, `_serve_sse` | everything above | requests on concurrent threads |
| audit cache (`dashboard/audit_cache.py`) | results, errors, running jobs and locks by key | `get`, `poll`, `_run_job` | server, browser | eviction beside a running scan, shared runs, what a poll after Rescan is told |
| board and analytics caches (`dashboard/board_api.py`, `analytics.py`) | results by key, refresh threads | get, refresh behind | server, database | stale results stored late, lost wake-ups |
| telemetry receiver (`dashboard/otel_receiver.py`) | parsed requests and spans | receive | history database | the same call from three sources |
| analysis, observation, reports | none worth modelling | read and render | - | - |
| page: live snapshot (`ui/src/hooks/useDashboard.js`, `useSse.js`) | the merged snapshot, messages that wait | fetch, merge, reconnect | `_serve_sse` | a fetched snapshot beside streamed changes, lost messages |
| page: board data and findings (`useBoardData.js`, `BoardScreen.js`, `api.js`) | answers by loader, ETags, the newest scan | load, tick, rescan | `/api/board`, audit cache | answers out of order, marks cleared too early |
| page: drawer and dialogs (`board/Drawer.js`, `BoardScreen.js`) | a stack of views, a dialog, a command under way | open, back, apply | server | a late answer under another view |
| page: screens that ask (`hooks/useAsyncResource.js`, `usePolledResource.js`, some fifty parts) | answer, request under way | ask, poll, drop | server | which answer is still wanted |
| page: address (`board/filters.js`, `useBoardFilters.js`, `useTools.js`, `useRange.js`, `useTabs.js`) | history entries, localStorage | choose, type, Back, reload | browser | the address and the page drift apart |
| page: board layout (`board/layout.js`) | sections, panels, hidden columns | move, fold, resize, undo, save | localStorage | layouts of older versions, a delayed save |
| page: tables, charts (`board/tableModel.js`, `chartModel.js`, `components/ui/DataTable.js`) | order, folds, marked time | sort, group, mark | board data | what is chosen while the data change |
| page: explorer, sessions, flow (`useSessionPicker.js`, `selectors.js`, `normalize.js`) | picked tool and session | merge, pick, fold | session lists | four effects, one session under several ids |
| page: tool filter and scoped screens (`toolScope.js`, `app.js`, `ContextMap.js`, ...) | ticked tools | filter, count | snapshots | each screen counts by itself |
| page: frame (`app.js`, `useTabScroll.js`, `useSavedViews.js`, `CommandPalette.js`, `ToastProvider.js`) | tabs, views, palette, notices | - | browser | timers against the user |

Properties that make the modelled components correct are listed with their modules; for the others:
the sink loses no sample silently and its flood filter lets the first of each burst through; a session that
is active is not collected; an ingester stores what it moved its offset past; a cache never answers for
another key and a refresh does not return something older than its request; the ledger keeps the newest
entries.

## Modules

| module | models | used by |
|---|---|---|
| `MemorySwap` | the swap of profile memories | `MCMemorySwap`, `CtxDeployProofs` |
| `CtxDeploy` (EXTENDS `MemorySwap`, refines it) | a deploy | `MCCtxDeploy`, `CtxDeployProofs` |
| `WriteBehind` | the buffers of the history database | `MCWriteBehind`, `WriteBehindProofs` |
| `AuditCache` | the audit cache and the browser that polls it | `MCAuditCache`, `AuditCacheProofs` |
| `LiveDashboard` | `SnapshotState`, `_serve_sse`, `useSse`, `useDashboard` | `MCLiveDashboard`, `LiveDashboardProofs` |
| `LatestAnswer` | the abstract promise of a part that asks the server | refined by the next four |
| `BoardFeed`, `FindingsScan`, `BoardDrawer`, `DetailScreens` | how the page asks the server | `MCPageRequests`; `PageRequestsProofs` |
| `PageUrl`, `BoardLayout`, `BoardTables`, `BoardChart`, `SessionPicker`, `ToolScope` <- `ScopedScreens`, `SessionRows`, `SessionFlow`, `DataTable`, `PageShell` | what the user does to the page | `PageUser` |
| `Places` | what `filter` and `sort` of an array return, by counting places | most of the modules above it |
| `PageUser` | the parts of the page above, side by side | `MCPageUser`; `PagePartsProofs` (layout, charts, tables, data table, flow), `PageUserProofs` (the other parts), `PageShowsProofs` (charts and screens, and last the page) |

An `MC...` module holds the small instances, a `...Proofs` module the theorems. `MCPageRequests` and
`PageUser` put the parts of the page side by side: the parts share no variable, so one of them is chosen in
the initial state and the others stand still, which checks each on all its behaviours without multiplying
them. In the modules an operator under a comment `defect: ...` is a variant of the definition below it with a
plausible bug; each serves to see that a property notices that bug.

### MemorySwap - `memory.py`

State: which directories exist (`present`), the memories in each (`held`), the marker, the lock's holder,
and per process where it is in `swap_memory` and its arguments. `memory` is the active directory, a
profile stands for `memory--<profile>`, and `aside` for every directory that no swap reads by name
(`.bak.<ts>`, `_unstashed.<ts>`, a directory nested by a move onto an existing one).

One action per file-system call or directory test, in the order of the code: `ReadMarker`,
`RecoverCheck`, `RecoverLook`, `RecoverMove`, `RecoverUnlink` are `recover_swap`, which runs **before** `Lock`;
`OpenMarker` (truncates), `WriteMarker`, `StashCheck`, `StashLook`, `Move` (rename to `.bak`, stash), `RestoreCheck`,
`RestoreLook`, `MakeMemory`, `RemoveMarker`, `Release` are `swap_memory`. Each `...Check` tests one directory and each
`...Look` the second one, so that Claude Code may write between the two tests, and between the test and the rename.
Any call may fail (`SwapFails`,
`RecoverMoveFails`) and a process may die anywhere (`Crash`; the kernel frees its lock). `Write` is Claude
Code creating a memory, and the directory if it is absent, at any moment. Memories are model values; what
is abstracted is the search for the project's directory and the wording of the marker's JSON.

### CtxDeploy - `commands/ctx_pipeline.py`, `resolver.py`, `utils.py`

EXTENDS `MemorySwap` and adds the files. State: files with generated content, with the user's content, with a
backup; the manifest; per process the stage of its deploy, the profile asked for, the manifest it loaded and
what is left to emit or delete. Actions follow `_run_deploy`: `Start`, `Load`, `Emit` (`write_safe`), `EndEmit`,
`Clean` / `CleanFails` / `CleanSkips` (`cleanup_stale`; a stale file that resolves to a place `Outside` the
project is left where it is), `EndClean` (swap only if the profile changed), `CallSwap`, `Swap` (a step of
`MemorySwap`), `SwapReturns`, `OpenManifest`, `SaveManifest` (truncate, write). `Abort`, `KilledInSwap` and
`KilledInSave` end it early. Emitters are abstracted to the set of files they write per profile, a file's
content to whether it is generated, the user's, or a merge of both. `author` and `strays` are ghosts: under
which profile a memory was written, and what deploys left behind unrecorded.

`GeneratedIsTracked` is about the files, with `SavedIsDeployed` and `BackupsKept`, which are theorems only;
`MemoryIsolated` and `OwnMemoryReachable` are about whose memories are where. The ghost `strays` excuses what a
deploy leaves behind by its own design: an abort between two files, half a manifest, an unlink that fails and is
swallowed, a file outside the project.
`SwapProtocol == MemorySpec` is the abstract specification of the memory: TLC checks it and
`CtxDeployProofs` proves that the pipeline implements it.

### WriteBehind - `storage.py`

State: the six buffers, the batch each flushing thread has taken and its position, the transaction each
connection has open and the rows it sees, the committed rows of the file and of the in-memory database,
the process-snapshot cache, strikes, mode, the file's health.

`AppendRows` is every `append_*`. A flush is `Swap` (under the lock), `Connect` / `ConnectFails`, `ReadCovered`
(which sessions transcripts cover), `Insert` per table in the code's order, `Commit`; or `SqlFails` (rollback)
and `Rebuffer` (batch in front, cap, drop-oldest); or `RowRaises`, an exception that is not an `sqlite3.Error`.
`Settle` is the loop after `flush` (`_note_flush_error`, `enforce_budget`, fallback), `Close` / `CloseReturns`
the thread that closes, `DiskChanges` the file. The other writer of requests, `write_call_facts`, is one step on
its own connection to the file (`TranscriptWrite`: its transaction excludes that of a flush), and two in
memory, where all threads share one connection and one transaction: `TranscriptUpsert`, and `TranscriptCommit`
or `TranscriptFails`, which commit or roll back what a flush has inserted so far together with its own rows.
`torn` (ghost) has the keys of the batches that this met; `NoSilentLoss` excuses them, as `storage.py:1789` does
("this store is disposable, so that is fine"). Primary keys, `INSERT OR REPLACE` / `IGNORE`, the numbers of
`_assign_seq` and the filter on process snapshots are modelled; row contents are reduced to a key and, for
process snapshots, a level (values within the filter's threshold are one level). Two connections to the file are
serialised as WAL does; the in-memory database has one connection for all threads.

Left out: the `_rewriting_file` flag during VACUUM, the data-quality row written at the cap, event
listeners, `capture = off`, `flush_interval <= 0` (which flushes in the appending thread), and the other
direct writers of the database, which in memory mode can tear a flush just as `write_call_facts` does.

### AuditCache - `dashboard/audit_cache.py`

State: `kept`, `stored`, `result` are `_items`; `lockOf` is `_key_locks`, its lock objects numbered;
`jobs` and `errors`. A thread is a request in `get` or the job thread of a key (one at a time, so named
after the key); `pc`, `key`, `refresh`, `arrived`, `lock`, `hit`, `got` are its place in `get` and its locals. A
client is the loop of `getContextAudit` in `ui/src/api.js`: a first `poll`, with refresh or without, then
polls without.

Every critical section of the cache's own lock is one action: `Get` (the first test and the time of
arrival), `FindLock` (`setdefault`), `Acquire` (the key's lock), `Look` (`_fresh` again), `Compare`
(`_stored_at`), `ScanEnds` (eviction and store) or `ScanFails`; `JobBegins`, `KeepError`, `JobEnds` are
`_run_job`; `Ask` / `PollAgain` and `Enlist` are the two halves of `poll`. An audit's result is the number
of changes of the disk it has seen, at least those at its start. `Look` keeps the entry it finds in `hit`, `Compare`
looks up a time that may by then be another entry's, and `Leave` answers with `hit`; `RefreshRunsAgain` is about
that answer. `cut` (keys whose lock was evicted while a request used it) and `rescan` are ghosts.
Left out: `clear`, which only tests call, `source_paths`, which only reads, and the browser giving up
after ten minutes. Entries stored in one tick are evicted in any order; the code takes the first inserted.

### LiveDashboard - `orchestrator.py`, `dashboard/web_server.py`, `ui/src/hooks/useSse.js`, `useDashboard.js`

Server: `version` and `snap` are `SnapshotState`; `handler`, `known`, `sent` the place and locals of the
thread in `_serve_sse`, `leftover` threads whose reader is gone, `slots` `_sse_client_count`. Link: `wire`.
Page: `stream`, the merged snapshot `held`, `fetch`, the `queue` of messages of a hidden page, timers.
`Publish` is `update`; `ThreadStep` the loop of `_serve_sse`: write whatever JSON is current (built
lazily), **then** read the version, wait. `Break` cuts a connection, with or without the page noticing.
A snapshot is four parts that the code sends in four ways: a key sent when it changed, the live block of a
tool, a list of which only the revision is sent, a row sent as a change of rows; the value of a part is the
version in which it last changed, which makes "older" visible. `gone` (ghost) notes what the page itself
knows to have missed, and what `Misses` names: a patch of a row it does not have, and silence about a row it
fetched that came and went between two messages. The queue overflows only in a hidden page.

`StreamCompletes`: held, queued and wired changes together are everything the server takes for sent, but for
a row that the messages on their way miss. `DropsWhatIsHeld` says that silence about a row always means that
the page has it as it is; it fails.
`EndsCurrent`, `ListsFollow`, `Reconnects`: a visible page shows the newest snapshot in the end and gets a
stream and a slot again. `AlwaysEndsCurrent` is the same without the excuse `gone`; it fails.

### LatestAnswer, and the four ways the page asks

`LatestAnswer` is the abstract specification: what is shown changes only to an answer to the newest question,
never to an older answer to the same question, or to nothing. `ChartsView`, `FindingsView`, `DrawerView` and
`ScreenView` instantiate it with refinement mappings; TLC checks the four refinements and TLAPS proves them.

* `BoardFeed` (`useBoardData.js`, `getBoard` in `api.js`): two loaders, each with at most one fetch that is
  listened to, the ETag and the 304, the tick, the mark that something changed, the board's own stream with
  its source, timers and retries. `BoardCatchesUp`: once the filters rest, the charts come to show the
  server's data.
* `FindingsScan` (`loadFindings`, `getContextAudit`, `AuditCache.poll`): scans of several projects polling every two
  seconds. The poll answers in the order of the code: a kept audit first (`Returns`), also while a job scans again;
  then what is running (`Scanning`), then an error once (`ErrorTold`), else a new job. `Expires` is the audit's age
  or its eviction. After Rescan the second request is a poll without refresh, so the page shows the audit of before as
  long as the server keeps it, and stops to load; `LatestAnswer` allows it, as it is no older than what was shown.
* `BoardDrawer` (`Drawer.js`, `Modal.js`, `Menu.js`, `BoardScreen.js`): the stack of views and the question of
  the top one, the excerpt of a file, menus, the dialog and the command on its way, Escape, the toast.
* `DetailScreens` (some fifty components): a part is a record of what its question reads, what it needs,
  whether late answers are dropped, when it forgets, when it polls, when it shows. `OwnAnswer` says that a
  guarded part never shows the figures of another question; `InOrderSettles` says of the ones without a guard
  what holds only when answers come in order. A map entry covers a whole component; what it draws is
  abstracted.

### What the user does to the page

* `PageUrl`: history entries with their document, the route that Root opens, filters shown and applied, the
  delayed find box, the undo of "clear all", localStorage. `UrlTellsBoard`.
* `BoardLayout`: every action on sections and panels with its undo, `sanitize` of a stored layout of an older
  version, the save 120 ms later. `LayoutWhole` (every panel exactly once), `LayoutStays` (a reload shows what
  was saved). `StoredSpan` has the `|| 6` for a stored width of 0. One page per localStorage, and storage
  accepts writes.
* `BoardTables`, `BoardChart`: rows, trees, sorting, limits and groups of the board's panels; series, totals
  and the marked time of a chart. Nothing is lost or counted twice; what is marked is what is selected.
* `SessionPicker`: requests kept in `sessionBus` until the explorer mounts, and the four effects of
  `useSessionPicker` in their order. `PickerHolds`: a request wins, no excluded tool is picked.
* `ToolScope`, `ScopedScreens`: the filter of tools and every figure, tree, card and issue that the detail
  screens make of the filtered snapshot: what is hidden is counted, screens agree on their totals. A tool with
  session rows counts them, as the correlator does (`monitoring/correlator.py:538`).
* `SessionRows`: `mergeSessionRows`, `dedupeSessions` and the two lists: every id finds its session. A selection
  stays while its row is listed: in `CDashboardTab` by whichever id the row goes, in `CSessionsTab`
  (`ChosenRow`) by the row's first id only, as that screen compares no other.
* `SessionFlow`: `normalize`, `turnsToEvents`, participants and arrows, running sums.
* `DataTable`: filter, order, unfolding, widths, keys. Virtual scrolling, which no caller turns on, is left out.
* `PageShell`: tabs and scroll positions, themes, saved views, the palette with its last used commands, notices
  and their timers. Storage is written at once here, so only the state is kept. The header's tool filter starts
  as `Unfiltered` (all tools, `null` in the code) and comes back to it (`TogglesTool`). `HeldPauses`: the time
  of a notice does not run while the pointer or the focus is on it, unless both were and one left.

`Places` says what the language's own `filter` and `sort` do: the n-th element kept is the one with n - 1 kept
before it, and the place of a sorted element is the number of those the comparison puts before it, plus one. A
sort that keeps the order of equal rows is given a comparison of places that ends with the place itself.

The data modules are mostly operators - `Rows`, `SortRows`, `DedupeSessions`, `Normalize`, `FilterSnap`, ... -
translated from the code's pure functions and checked in every state against a definition by sets of what they
should give (`NothingLost`, `GroupsAddUp`, `EveryIdFinds`, `TurnsTellAll`, `MapAddsUp`, ...).

## Runs

`violation` runs show that the code does not do what a sentence of the repository says; each has its
finding in `PROJECT.json` with the sentence quoted.

| run | checks | shows |
|---|---|---|
| `swap_race` | `TypeOK`, `MemoryKept`, `OneSwapper` | two processes swap and recover at once, one dies, Claude Code writes: every memory stays in exactly one directory, the lock excludes |
| `deploy_files` | `DeployTypeOK`, `GeneratedIsTracked`, `RecoveryRestores` | four deploys of one process with an abort, a crash, a kill and a failing call, one file outside the project: every generated file is listed or was left behind, an interrupted swap is finished before the next one |
| `deploy_memory` | `MemoryIsolated`, `OwnMemoryReachable`, `SwapProtocol` | five deploys that may stop before the swap, Claude Code writing meanwhile: no memory is active or stashed under another profile, every profile finds all its memories, the pipeline implements `MemorySwap` |
| `deploy_crash` (violation) | `MemoryIsolated` | killed between the renames and the manifest, the next deploy stashes one profile's memories under another |
| `flush_retry` | `NoSilentLoss`, `DropsOldest`, `CommitsOwnBatch`, `NoneWaitsForever` | a file that fails twice, or for ever, a transcript writer that in memory mode comes into the middle of a flush and commits or fails: rows are stored, superseded, counted as dropped (oldest first), or of a batch that was torn; a failed batch is not committed by another flush; in the end a bad file is given up for memory and no row waits for ever |
| `flush_close` | `TypeOK`, `RetriesOnce` | close overtakes the flush thread, connections fail to open, a row overflows: a row waits in one place, and not while it is in the file |
| `flush_snapshot_retry` (violation) | `NoSilentLoss` | the retry of a process snapshot is filtered out by its own cached value |
| `audit_poll` | `TypeOK`, `OneScan`, `NeverOlder`, `RefreshRunsAgain`, `Answered` | two projects and room for one, a browser that polls and requests that wait: scans of a key exclude each other, what is kept becomes newer, a refresh is answered with something later, the browser is answered |
| `live_follow` | `TypeOK`, `StreamCompletes`, `EndsCurrent`, `ListsFollow`, `Reconnects` | one page, one slot, one trouble (a break, a failed fetch, a hidden page): nothing the server takes for sent is missing, the page gets a slot again and catches up |
| `live_overtaken` (violation) | `AlwaysEndsCurrent` | a fetched snapshot overwrites what the stream had merged meanwhile; nothing sends that change again |
| `page_requests` | `RequestsTypeOK`, `ChartsFollow`, `FeedCatchesUp`, `PartsFollow` | the board's loaders, findings, drawer and every screen that asks: they implement `LatestAnswer`, and the board catches up |
| `page_user` | `UserTypeOK`, `UrlTellsBoard`, `LayoutKept`, `PickerHolds`, `TablesTell`, `ChartsTell`, `ScreensTell`, `RowsTell`, `FlowTells`, `GridTells`, `ShellTells` | one property for each part of the page: addresses and history, layouts, the explorer, board tables, charts, the tool filter and the detail screens, session lists, flow, data table, frame: what is shown is what the data and the choices say, and a click changes only what it is on |

### Disagreements that no run shows

More places where the code does not keep what its comments promise. Some show up when one constant of a
passing run, or a condition of a property, is changed; in `FlushRetry.cfg`, but for the last four rows:

| change | counterexample | code |
|---|---|---|
| `Connected = {}` | `NoSilentLoss`: the connection is opened after the buffers were emptied and outside the `try`; when it fails the batch is gone | `storage.py:2829` |
| add `e4` to `Rows` | `NoSilentLoss`: `_assign_seq` numbers equal keys from 0 in every batch, `INSERT OR IGNORE` drops the second batch's row | `storage.py:1521` |
| `Oversized = {e2}` | `CommitsOwnBatch`: an `OverflowError` is no `sqlite3.Error`, the half-written transaction stays open and the next flush commits it | `storage.py:3053` |
| `Unbindable = {e2}`, `MaxOutages = 0` | `NoneWaitsForever`: a value SQLite cannot bind fails every flush and is put back with its batch for ever | `storage.py:3053` |
| `NoSilentLoss` without `torn` | a transcript written in memory mode between two inserts of a flush fails and rolls back the flush's rows with its own; the flush then commits nothing and forgets its batch | `storage.py:4871`, accepted at `storage.py:1789` |
| `DeployFiles.cfg`, `Procs = {p1, p2}`, invariant `MarkerCoversSwap` | recovery runs before the lock is taken and removes the marker of the other process's swap under way, so a crash in it leaves no trace | `memory.py:222` |
| `AuditPoll.cfg`, `OneScan` or `NeverOlder` without `cut` | eviction drops the lock of a key that is being scanned; the next request makes a new lock, scans beside it, and the older result may be stored last | `audit_cache.py:116` |
| `AuditPoll.cfg`, `RefreshRunsAgain` without `cut` | a refresh finds a fresh entry (line 105); eviction and a scan under a new lock replace it; the time compared (line 106) is the new entry's, the answer the old entry, against "A refresh does so only when that run finished after the refresh was asked for" (line 103) | `audit_cache.py:107` |
| `LiveFollow.cfg`, `DropsWhatIsHeld`, `MaxVersion = 3` | `_sessions_delta` compares the rows only with those of the message before, though line 533 says "Drop what this client already holds": a session that starts after the first message and ends before the second is in neither; a page that fetched a snapshot in between holds its row, and no message removes it | `web_server.py:505` |

Others were met while reading, and the models do what the code does:

* cleanup deletes a merged file with the user's part of it (`resolver.py:248` against
  `docs/architecture.md:258`); a transcript stored between look-up and insert brings a removed call back
  (`storage.py:2926` against `storage.py:1170`); after Rescan the next poll, two seconds later, returns the
  audit of before while it is fresh and the page stops to wait (`dashboard/audit_cache.py:51` against the
  docstring at line 6); cleanup drops a stale file outside the project from the manifest and leaves it on the
  disk (`resolver.py:237`).
* A notice may go while it is read: when the pointer and the focus are both on it and one of them leaves, its time
  runs again (`ToastProvider.js:77`), though line 45 says "Pause the TTL while the pointer or keyboard focus is on a
  toast". `HeldPauses` excuses exactly this.
* `CSessionsTab` loses its selection when the row selected goes by another of its ids after a merge
  (`CSessionsTab.js:197` compares `session_id` only; `CDashboardTab` uses `findSessionRow`). The rows stay, nothing is
  shown as selected, and the effect below does not choose again.
* A pasted link does not show the view it was copied from when that showed all tools: no `tools=` means
  "as stored here" (`urlState.js:2`). The detail screens' Back does not read range and tools again
  (`useRange.js:2`, `useTools.js:3`). After a saved view is applied, `?view=` stays in the address and
  overrides later choices at the next reload (`useSavedViews.js:45`).
* A tab's scroll position is applied again "until the first user scroll" (`app.js:87`); a scroll by key or
  scroll bar is not heard and is undone by the timers.
* The palette highlights by the grouped order but Enter runs the entry of the ungrouped one
  (`CommandPalette.js:82`).
* The filter box of a table disappears below ten rows while its query keeps filtering (`DataTable.js:77`
  against the comment at 224).
* OTel tokens of an API call are counted twice by `normalize.js:42` and `turnsToEvents` of
  `CDashboardTab.js`, as `session_flow.py:706` adds them to the user message already; API calls have no arrow
  in the flow, because `TabSessionFlow.js:68` does not know the participant the server names.
* `dedupeSessions` depends on the order of rows, and a live row takes the duration of an older row of the same
  id (`selectors.js`); the properties are about what does not depend on it.
* `AgentTree` rows whose parent is not listed are left out but counted with their parent's sum
  (`board/panels.js`); the limit applies before grouping.
* Actions of `BoardScreen` are made in the first render: a rescan from a dialog scans the first render's
  project (`BoardScreen.js:262`). An error of one loader of `useBoardData` is cleared by the other's success.
* `TabEventsStats`, `TabSamples`, `FileViewer`, `TabTranscript`, `TabSessionFlow`, `TabTimelineChart`,
  `useRangeBoundData` and `CSessionsTab` keep whichever answer comes last (`Unguarded` in `DetailScreens`).
* `getDatapoints` (`api.js`) caches a rejected promise for ever.

Passing runs of a property that another run, or a row above, violates leave out the one condition the
violation needs, and say so in their `.cfg`: `flush_retry` has no process snapshots, one open connection, keys
that collide only within one call; `deploy_memory` has aborts before the swap but no crash in it;
`deploy_files` has one process; `live_follow` excuses a page that lost a message or missed a row
(which `DropsWhatIsHeld`, in the table, does not). What holds is thus delimited
from both sides.

### Bounds, and why they are enough

* `OwnMemoryReachable` speaks of behaviours in which Claude Code writes only while no deploy runs: a
  `memory/` that it creates between the test and the move (`memory.py:252`) swallows the restored directory.
* Two profiles are needed to switch and switch back; a third only adds stashes that are not named. Two
  memories tell "some" from "all"; two processes give every pairwise race (the lock admits one).
* `MaxCrashes`, `MaxFailures`, `MaxAborts`, `MaxKills` of 1 or 2 allow a fault in the swap and another in
  its recovery. `MaxDeploys` of 3 to 5: deploy A, deploy B, return to A, return to B, and one more to
  read what the former left.
* Write-behind: a cap of 2 with three rows for one table reaches the cap and a re-buffered batch in front
  of newer rows; patience 2 tells a first strike from the last; two outages allow a failure of the retry.
  Each run names the rows it needs (two in one call with one key, a superseded call,
  a process idle and busy).
* Audit cache: two keys and room for one evict at every store; one browser, its job, and two requests give
  two scans of one key and a third of the other; one tick tells equal times from later ones and lets an
  entry expire; one change of the disk tells an older result from a newer one. The clock stops, as 300
  seconds of `TTL_S` are long against the 2 seconds between polls: a result that expired before every poll
  is not a behaviour of interest.
* Live dashboard: one page and one slot, so that a page meets the refusal its own broken stream caused;
  two versions give a change before, during or after a fetch; one message on its way and one trouble of any
  kind, at any moment. A row that comes and goes between two messages takes a third version. With it
  (`MaxVersion = 3`, `MaxWire = 2`: 2.3 million states) the liveness properties are out of reach, `StreamCompletes`
  was found to hold, and the theorem covers every number of versions and messages.
* Requests: two values of every choice tell the newest question from the former; one change of the server's
  data, one failure, two scans, a stack of two views, three requests of a screen on their way at once.
* User: three or four steps of the user in each part (two for layouts and flows, whose data are chosen to be
  awkward from the start), a history of three entries, snapshots with and without each kind of row, two tools
  that are listed and one that is not. `MCPageUser` says of each set what it is there for.
* The theorems need none of these bounds.

`CHECK_DEADLOCK FALSE` is set where the modelled program really stops: when the allowed deploys have
ended, and when the database is closed.

### Fairness

The deploy runs check no liveness and assume no fairness. `flush_retry`: weak fairness of the flush thread's
steps - `_flush_loop` swallows every exception and SQLite waits at most `BUSY_TIMEOUT_S`. Nothing is assumed of
the file: it may stay locked for ever. `audit_poll`: weak fairness of the steps of threads, jobs and the polling
browser - an audit ends (or raises) and `getContextAudit` asks again every two seconds. No fairness of new
requests, of the clock or of the disk.

`live_follow`, `live_overtaken`: weak fairness of the serving thread (it is woken, and a write to a dead
connection fails in the end), of delivery, of the page's timers and handlers, and of a fetch, which is answered
or fails. None of publishing, breaking or hiding. `page_requests`: of the feed's ticks, timers, streams and
answers, weak; of a loader's callback, strong: a loader starts again on a tick and then ignores the answer under
way, so the promise needs that now and then an answer arrives between two ticks, which are `TICK_MS`, five
seconds, apart. `Fed(A)` restricts this to behaviours in which the feed is the part that moves.

## Proofs

All theorems hold for every value of the constants that the modules' ASSUMEs allow (names are distinct,
kinds of files are sets of files, bounds are numbers); TLC evaluates those ASSUMEs in every run.

* `CtxDeployProofs`, the swap: `TypeCorrect`, `MemoryIsKept` (`[]MemoryKept`), `LockExcludes` (`[]OneSwapper`). The
  invariant is types, `MemoryKept`, `StashIsNamed` (a swap that stashes has an old profile: there is no
  `memory--None`) and `NoGhostDirs` (a directory that does not exist holds nothing; without it creating
  one would bring memories back). The argument is the lemma `MoveKeeps`: a move keeps every memory in
  one directory wherever source and destination are, and every other step leaves `held` alone or
  adds one memory that is nowhere yet.
  With one process (`Alone`), `InterruptionIsMarked` and `RecoveryFinishes`, by the lemma `SwapIsMarked` (from the
  first rename on the marker names the target): the assumption is needed, as recovery runs without the
  lock (see the table above).
* `CtxDeployProofs`, the deploy: `DeployImplementsSwap` (initial states map to initial states, each step to a step of
  `MemorySwap` or a stutter; it needs that `swap_memory` runs exactly while its deploy waits and that a swap
  is asked only for another profile), `DeployTypeCorrect`, and `DeployKeepsMemory`, which follows from
  the refinement. `GeneratedAreTracked` and `SavedAreDeployed` (one deploy at a time) follow from `TracksInv`,
  which says for every stage what the deploy under way owes to the manifest.
  `MemoryStaysIsolated` and `ProfilesFindTheirMemory` assume `Alone` and `NoFaults` (no death in a swap or a
  save, no failing rename; aborts are allowed): `deploy_crash` shows that they fail without. The argument
  is a ghost profile, `ActiveOf(p)`: whose memories are in `memory/` at every step of a deploy - the manifest's
  until the stash, nobody's until the restore, then the one asked for. `IsolatedInv` and `HomeInv` say the two
  properties with it in place of the manifest; `ArgsInv` that the swap is between those two profiles; `DirsInv`
  that what `swap_memory` tested still holds when it moves. Every step either renames (lemma `SwapMoves`), or
  writes a memory (`WriteBelongs`), or only shifts the active profile when nothing is lost by it (`Shift`).
  `BackupsAreKept` holds for any number of deploys at once: it needs only `OneOwner` (no file is generated and
  the user's at the same time), because `write_safe` copies in the step that replaces.
* `WriteBehindProofs`: `FlushTypeCorrect` (with the invariant `Counting`: while the file is in use there are
  fewer strikes than the patience), and `FlushRetriesOnce` (`[]RetriesOnce`). `RetriesOnce` is not inductive:
  `TxnApart` adds that rows of a waiting buffer or batch are in no open transaction, except those of a flush in
  its own, which it commits and empties at once or rolls back; `Known` that no row is anywhere before it was
  appended; `Unclosed` that the closing thread does not flush before `close`. The lemmas `Joined` and `Cut` say
  what concatenation and the cap do to the rows of a sequence. `FlushCommitsItsBatch` assumes `Oversized = {}`,
  that no row raises an exception the code does not catch: with one, the property is false (see above). Its
  invariant `OwnTxns` ties every open transaction to the thread, the connection and the batch that wrote it, and
  says that the two flushing threads never have one open at once. `FlushDropsOldest` assumes `~Closes`: the
  thread that closes may put an older batch back behind a newer one. `InOrder` says that buffer and batch of
  each table are sorted by arrival and the batch is the older. `FlushLosesNothingSilently` assumes `Lossless`,
  whose conjuncts are the ways the code loses rows, each of which a run or a row above shows: nobody closes (two
  threads), the connection opens (`storage.py:2829` drops the batch), no row overflows, there are no process
  snapshots (their cache is not rolled back), and rows of numbered tables with one key come in one call. Disk
  errors, locks, rollbacks, retries, rows that cannot be bound, the cap and the move to memory remain, and so
  does the transcript writer in both modes; what it tears is excused (`torn`). `LossInv`: what a transaction
  adds is of the batch, in tables already written (`TxnAdds`), every row of a table already written is in the
  transaction or what it says is (`Written`), and no waiting row finds its number taken (`Fresh`, `KeysApart`).
* `AuditCacheProofs`: `AuditTypeCorrect`, `ScansExclude` (`[]OneScan`), `RefreshIsLater` and `KeptBecomesNewer`,
  all four safety properties of the module. `OneScan` needs `LockListed` (who waits for or has a lock has the
  one `_key_locks` lists for its key, unless the key was cut) and `Excludes`. `RefreshIsLater` is about the
  entry a request answers with: while its key keeps its lock, what `Look` found is what `Compare` finds
  (`HitKept`), because whoever could replace it needs that lock. `KeptBecomesNewer` needs `Ordered`: a scan
  under way began after what is kept for its key was read, which holds because scans exclude each other. The
  bound on entries uses the library's facts about cardinalities.

* `LiveDashboardProofs`: `SlotsAreCounted` (the slot counter is the number of streams served) and
  `SlotsAreLimited`; `LiveTyped`; `StreamIsComplete` (`[]StreamCompletes`) and what follows from it for a page
  to which nothing is on its way, `CaughtUpIsNewest`. `StreamCompletes` is not inductive, and TLC showed where:
  it says nothing of a snapshot that is being fetched, nor of what a batch repairs when it contains a first
  message. `FollowInv` adds `SettlesEach` (whatever the page holds, every rest of the coming messages leaves the
  parts it tells of as the server took them for sent), `FetchOK` (a fetched snapshot completes with the messages
  after those it covers), `VersionInv` (the values of sent, fetched and current snapshots are in order) and what
  a first message contains (`AllOK`). The lemmas are about merging, which is a fold: `MergeOneMore` (a longer
  batch is one message more) and `MergeTwice` (merging two parts is merging the whole), so that a batch may be
  cut wherever a flush cuts it. TLC checked the invariant on a part of a small instance before it was proved;
  its quantifiers over all messages are too many for a run.
* `PageRequestsProofs`: `ScanTyped`; `FindingsImplement`, the refinement of `LatestAnswer`: of the scans under
  way at most one may show its answer, it is of the project chosen, and its answer is no older than what is
  shown. `FeedTyped` (a source is a sequence, no more retries wait than streams broke) and `ChartsImplement`
  (`ChartsFollow`), by the same argument for the one fetch whose callback may feed the charts.
  `ScreensImplement` and `ScreensShowTheirOwn` for every detail screen at once: `ScreensSound` shows what the
  records of the screens have in common, and the rest uses only that. `ScreenInv` says that a guarded screen has
  at most one request that is listened to, for what is picked, and no older than what is there
  (`AskedOfPicked`), that one which forgets or hides has rows of what is picked (`Settled`), and that as long as
  answers come in order the last request is to what is picked (`LastIsPicked`). `DrawerImplements` and
  `DrawerKeepsLines` by `DrawerInv`: one request, of the view on top (`OneRequest`), the lines of the file on
  top are there or asked for (`LinesOfTop`), and a timer of the toast for every command that ended
  (`ToastsSent`, the bound of the type). It assumes that "no answer" is not a key (`DrawerKeys`).
  `PartsImplement` (`PartsFollow`) and `RequestsTyped` (`RequestsTypeOK`) put these together as `MCPageRequests`
  does: the part that was chosen moves, the others stand still.
* `PagePartsProofs`, part by part:
  - layout: `LayoutTyped` and `LayoutIsKept` (`[]LayoutKept`). The layout is a sequence of sections
    with sequences of panels; `Whole` - all ids of this version, each once - is shown of what `sanitize` makes of
    any stored layout and of every function that moves, takes out or puts in. The invariant adds to what is on
    the screen what is stored, what the delayed save has in hand, what undo would bring back and what a drag
    started from (`HandInv`), since each can become the layout. The lemmas on `Places` are here: a filter keeps
    the elements at the places kept, once each and in order (`NthIs`, `PickedIs`, `PickedLess`).
  - sorting: a comparison that is a strict order of the places (`StrictOrder`) puts exactly one element at each
    place, the smaller before the larger (`SortedIs`).
  - sums: a sum over a finite set in any order (`SumSplits`), and a count of a set by the parts of a partition
    (`SumCounts`). Places are partitioned by the first of each kind (`FirstOfEach`).
  - chart: `ChartTyped`, `MarksSelect` (`MarkedIsSelected`): the buckets that a time touches are those it was made
    of, as a bucket is one unit.
  - board tables: `TablesTyped` and `TablesKeepRows` (`[]TablesHold`). What can be folded is on a row shown, so the
    type needs what the builders, the sort with its missing values, the tree and the groups return: rows of known
    ids (`AgentBlocks`, `ModelBlocks`, `StableIs`, `SortRowsAre`, `GroupedAre`, `ShownAre`). That no row is lost
    follows the rows through the pipeline: the builders give each row once, in blocks of a root and its
    children (`AgentsWell`, `ModelsWell`, with `FlatPlaces`: each place of a concatenation is one place of one
    block); a stable sort is a bijection of places that keeps blocks whole (`SortRowsKeep`); the limit cuts a prefix
    (`ShownHold`); a group is shown at its first row, has the rows of its kind and no other, and the sizes of the
    groups add up to the number of rows (`GroupShown`, `GroupedWell`).
  - data table: `GridTyped`, `RowsStayInOrder` (`[]RowsInOrder`), `RowsFoldByKey` (`FoldsByRow`).
  - flow: `FlowsTyped`, `InspectsTheFlow`, `ArrowsEnd`, and `FlowTold` (`[]FlowHolds`). The type needs that what a
    search leaves in is a place of the flow, and that turns and rows made by a fold are sequences. Turns and
    running sums are folds along the events: after each prefix the turns tell that prefix, under its prompts
    (`ToldUpTo`, `Prompted`), and the sum is that of the prefix (`SumsAddUp`).
* `PageUserProofs`, part by part:
  - address: `BoardLivesInUrl` (`[]UrlTellsBoard`) and `UrlTyped`. The induction also needs that the address is one
    of the board and tells its tools while text is still being typed. `FiltersReadBack` and `OtherKeys` say that
    what is written to an address is read back from it.
  - explorer: `RequestIsShown` (`[]PickerHolds`) and `PickerTyped`. The property is about moments when the effects
    have run; `PickerInv` is about those before: unless something the effects watch has changed, the tool is listed
    (`ToolListed`), the session is of it (`SessionFits`), a request still there is not listed (`RequestWaits`) and
    the bus remembers what is shown (`Remembers`); the session asked for is requested, shown, or excluded
    (`WantedComes`), or kept by the bus while the explorer is away (`Away`).
  - frame: `ShellTyped`, `FrameHolds` (`[]ShellHolds`), `AppliedIsShown` (`ViewsMatch`), `HeldNoticesPause`
    (`HeldPauses`). `ShellInv` has a part each for views, palette, notices and scrolling.
  - session lists: `ListsTyped`, `ListsHold` (`[]RowsHold`), `AgentsToggleAlone`. Merging is a fold over the rows
    reported; what it keeps is that no id is in two rows (`RowsApart`) and that a row counts at least what each row
    merged into it counted.
  - tool filter: `ScreensTyped`, `FilterHides` (`[]ScopeHolds`), `ToolsToggleAlone` (`ToggleChangesOne`).
  - flow: `UnfoldsAllOrNone` (`AllOrNone`).
  - the whole page (`PageUser`): `UserPartsRun` (each part runs by its own specification), from which `UserTyped`
    (`[]UserTypeOK`) and `UserKeeps` (`UrlTellsBoard`, `LayoutKept`, `PickerHolds`) follow.
* `PageShowsProofs`, what is drawn adds up:
  - charts: `ChartsAddUp` (`[]ChartsHold`). Sums over finite sets, by induction along a set (`PartsGrow`): they do
    not depend on names (`SumVia`), may leave out what is 0 (`SumSkips`), and come out the same by rows and by
    columns (`SumSwaps`). A sum with values missing is the sum with 0 for them (`AmountFills`); joining the smaller
    series in one changes no sum (`SumWithRest`); the series drawn are those that have a total, each once
    (`LargestOnce`).
  - screens: `ScreensAddUp` (`[]ScreensHold`), which is about whatever snapshot the server sends, so it follows
    from the type alone. A sum is that of its classes (`SumByClass`), which gives the divisions of the context
    map by policy, kind, project, scope and item (`PoliciesAddUp` and the lemmas after it); the items beyond the
    first `TopItems` are one more, so their list is cut and summed (`ItemsAddUp`). The trees of processes
    (`TreeFills`) reach every process: those not reached would have one whose parent is not among them, and its
    parent is reached. The short list of issues (`WorstIsFirst`) is a prefix of errors, warnings and notes in
    that order, as a cut of a concatenation either cuts the first part or keeps it whole (`CutKeepsFirst`).
  - the whole page: `TablesAreShown`, `ChartsAreShown`, `ScreensAreShown`, `SessionsAreShown`, `FlowsAreShown`,
    `GridsAreShown`, `FrameIsShown`: `TablesTell` to `ShellTells` of `page_user`, each from the theorems about
    its part.

Of their constants these theorems need what the ASSUMEs of the modules say: the values that stand for "none" are
different from the others (`UrlValues`, `ScopeTools`, `RowData`, `TableData`, `ShellData`); the data have the
fields and types that the server sends (`SnapshotFields`, `SnapshotRows`, `ToolRows`, `HealthReports`,
`ChartShape`, `BoardAgents`), of processes too that none was started by itself or by one it started
(`ToolRows`), as the operating system has it; a merged row is not "no row" (`NoRowIsNone`); there are finitely
many answers where the model bounds a number by their largest (`FlowData`); this version's layout has each id
once (`LayoutDefaults`), a stored one may be anything with the shape of a layout (`LayoutsStored`).

Induction over data: the library's induction rules cannot be instantiated here, but well-founded induction
stated for sets (`WFMin`: every set of numbers that is not empty has a least one) can, and that is how the lemmas
about folds, sorted positions and counts are proved (`LeastNumber`, `EveryNumber`, `FirstPosition`). Induction along
a list is the lemma `CountsUp` (a set of numbers that has 0 and with each number the next has them all); that a
fold or a function defined by recursion along a list has the values its definition says is `Accumulates`.

Only model-checked: liveness (`NoneWaitsForever`, `Answered`, `EndsCurrent`, `ListsFollow`,
`Reconnects`, `FeedCatchesUp`), out of the prover's reach.

## Not modelled

Text formats (TOML, generated files, HTML), collectors that read the operating system, generated and data
files, formatting and drawing in the page, and analysis that is a function of stored rows: they keep no state
that a step could leave wrong. Direct writers of the database, retention and VACUUM, and schema migrations
are left to SQLite's transactions. `PROJECT.json` names every component with its status and reason.

## What is left

Components with behaviour of their own that no module covers yet, in the order of their worth:

1. `SampleSink` in front of `WriteBehind`: flood filter, second buffer, the samples of one cycle.
2. `BoardCache`, `AnalyticsCache`: background refresh, eviction, wake-ups.
3. `EntityState` and `HookRequests`: hook events in any order, pending tool uses, collection of sessions.
4. `TranscriptOffsets`: ingester offsets, half-written lines, rewritten files, a crash before the rows are
   stored; `CallFacts`: one row per call from hooks, telemetry and transcripts.
5. `WatchDeploy`: debounce and overlapping deploys over `CtxDeploy`; `Ledger`; `Migrations`; `DaemonPid`.
6. An abstract `Outbox` (a row waits, is stored, or is dropped and counted) that `WriteBehind` refines
   without the faults its findings name; a proof of what `FeedCatchesUp` and `NoneWaitsForever` need from
   safety alone (no loader rests while its mark is set, no row waits unseen by the flush thread).
