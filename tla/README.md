# Matryca Plumber: TLA+ models and proofs

Matryca Plumber is a daemon, a command line and an MCP server that read and rewrite the
Markdown pages of a Logseq graph on disk, while a human edits the same files in Logseq.
There is no database and no server between them: what keeps the pages whole is a lock
file per page, a comparison of modification times before each commit, `os.replace`, and
a JSON ledger of what has been done. These specifications say what that machinery
promises, check it with TLC on small instances, and prove with TLAPS, for every instance,
what matters most about each. Paths below are relative to the Python package (`src/`);
`maintenance_daemon` is `agent/maintenance_daemon.py`.

## 1. The system

### Components, their state and their operations

| Component | State | Operations | What makes it correct |
|---|---|---|---|
| **Page lock** `graph/page_write_lock.py` | per process: an LRU registry page → `RLock`, capped at 4096; per thread: nesting depth; on disk: a sidecar `.{page}.matryca.lock` that is `flock`ed | `page_rmw_lock`, `probe_page_rmw_lock`, `clear_page_write_locks`, `sweep_matryca_lock_sidecars` | one thread inside a page at a time, over all processes; every call enters or raises |
| **Atomic writes and OCC** `graph/markdown_blocks.py` | the page, its mtime, a temporary file, the caller's `baseline_mtime` | `read_page_lines`, `OCCSnapshot`, `occ_verify_before_write`, `atomic_write_bytes`, `atomic_write_bytes_if_unchanged`, sweep of temporary files | a commit never takes back an edit that was there when it was checked; a page is never torn |
| **Page writers** `agent/plumber_modules/*`, `graph/*_edit.py`, ...; the MCP tools reach theirs through `dispatch_mutate` and `dispatch_refactor` of `graph_dispatch` | a buffer and a baseline each | one read-modify-write cycle each | no writer drops the edit of another one, or at least not without a copy |
| **Daemon: duty cycle** `maintenance_daemon` | ledger of `FileState` per page (in memory and checkpointed), bootstrap flags, cycle budget | list, fast-track, quarantine, infer, commit, record, checkpoint, reload, stop | a page is indexed once, from fresh text, and recorded; the daemon never feeds on its own commits; nothing is lost in a crash; a stop is honoured |
| **Daemon: lifecycle** `maintenance_daemon`, `cli/` | lock file, pid file, ledger file | start (detached, foreground, web UI), stop, signals, shutdown | one daemon per graph, which start finds and stop reaches; commands do not damage the ledger |
| **Ledger file** `load_daemon_state`, `save_daemon_state`, `graph/json_flock.py` | primary, backup, flock sidecar | save (write, fsync, replace, copy to backup), load (primary, else backup copied back, else fresh) | one fault loses no save that returned |
| **Operations on several pages** `plumber_modules/auto_split.py`, `plumber_modules/dangling_healer.py`, `graph/moc_page.py`, `_headless_write_outline`, `graph/split_large_blocks.py` | new pages, the parent, the `.bak` | write children, then replace their blocks in the parent; make missing pages; rebuild the map of content; append block by block; split long bullets | no block disappears from every page |
| **Bootstrap (Phase 1)** `graph/bootstrap_harvest.py` | catalog rows, master index page | harvest each page, append its index, save the catalog in batches | a summary is not paid for twice; Phase 2 finds the rows |
| **Master catalog** `graph/master_catalog.py` | JSON file, cached copy | load, upsert, save, quarantine of a corrupt file | in the end the rows say what the pages say |
| **Generational caches** `graph/generational_cache.py`, `alias_index.py`, `backlink_index.py` | signature-keyed snapshots | rebuild, patch one page | a cached index equals one built from the pages of its signature |
| **Semantic response cache** `plumber_modules/semantic_cache_router.py` | entries with TTL, in memory and on disk | get, put, expire | an answer is served only for the same question and page text |
| **LLM client** `agent/llm_client.py` | retry budget, turns in the log | probe, call, retry, correct | every call ends; the log tells how |
| **Semantic clusters** `graph/semantic_clustering.py` | the map of clusters, a file under the catalog's `updated_at` | cluster, save, group a cycle's pages, begin each group with its neighborhood | a partition of the pages; the neighborhood is the group's |
| **MCP server** `main.py`, `agent/mcp_server.py`, `graph_dispatch.py` | worker threads | tools that read and write pages; sweeps temporary files when it starts | uses the page lock and OCC |
| **Analytics, structure of Markdown, configuration, logs** | none of their own | pure functions, or calls to the operating system | reference definitions |

### How they interact

Everybody meets at the page files. The daemon is one thread of one process; an MCP
server adds a pool of worker threads in another; a human saves from Logseq without any
lock. The writers of both processes go through the page lock and most of them through
OCC. The daemon calls the cognitive modules under a page's turn, and they rewrite the page the
turn is about. The ledger ties pages to what was done to them by mtime. A starting MCP
server sweeps temporary files and a stopping daemon sweeps lock sidecars, of all
processes. Commands of the CLI and the web UI meet the daemon only through its pid
file, its lock file, signals and the ledger.

### What is hard

* Interleavings of threads, processes and the human between any two lines;
* objects replaced under their users: registry entries evicted, sidecars and lock files
  unlinked, temporary files swept, pids reused;
* the order of read, baseline, lock, check and copy, which differs between the writers;
* kills between a page's commit, its record and the checkpoint; checkpoints that fail;
* retries after an error, with a page that changed in between;
* a daemon that watches the files it writes;
* state kept twice (primary and backup, memory and disk, catalog and pages) with a
  repair that copies one over the other;
* caches keyed by mtimes that are read at another moment than the pages.

The `hazards` of `PROJECT.json` list these at the lines where they bite.

## 2. The modules

| Module | Models | Composition |
|---|---|---|
| `RmwMutex` | abstract: one thread per page | |
| `PageLock` | `graph/page_write_lock.py`, line by line | implements `RmwMutex` |
| `SerialPage` | abstract: a page grows by whole edits | |
| `PageWrite` | atomic writes, OCC and the order of steps of every writer | uses `RmwMutex` as its lock (what `PageLock` is proved to implement); implements `SerialPage` |
| `NewPages` | operations on several pages: auto split, healer, map of content, outline, split of long bullets | takes a commit as `PageWrite` shows it to be |
| `DaemonCycle` | the daemon's duty cycle and the records of its ledger | takes a commit under OCC as one step, as `PageWrite` shows it to be |
| `DaemonService` | abstract: at most one daemon, records only grow | |
| `DaemonLifecycle` | lock file, pid file, start, stop, signals, shutdown | implements `DaemonService` |
| `LedgerFile` | the ledger on disk, its backup, saves and loads | the file that `DaemonCycle` checkpoints to and `DaemonLifecycle` saves |
| `MasterCatalog` | the catalog file, its backup and the copy in each process | |
| `BootstrapHarvest` | Phase 1, Phase 2 and an audit over the catalog | extends `MasterCatalog` |
| `GraphIndexes` | alias index, search corpus, backlink counts | |
| `SemanticCache` | entries, keys and the in-process table of the response cache | |
| `Inference` | a question to the model, with retries, cache and log | extends `SemanticCache` |
| `SemanticClusters` | clustering, the saved map and its use in a cycle | |
| `PageLockProofs`, `PageWriteProofs`, `NewPagesProofs`, `BootstrapHarvestProofs`, `GraphIndexesProofs`, `InferenceProofs` | theorems | extend their module |
| `DaemonCycleProofs` | theorems on the duty cycle and on the clusters it groups its pages by | extends `DaemonCycle` and `SemanticClusters` |
| `DaemonLifecycleProofs` | theorems on the daemon's life and on the ledger file it saves | extends `DaemonLifecycle` and `LedgerFile` |
| `MC*` | definitions for TLC | extend their module |

`SemanticClusters` and `LedgerFile` name their variables and formulae apart from those of
the daemon (`ClustersSpec`, `clustersVars`, `CommitPage`; `FileSpec`, `fileVars`,
`FileTypeOK`), so that one module of theorems can extend both.

### PageLock

One action is one line, or a few lines nobody can come between. `Lookup` is
`_lock_for_key` (a critical section of `_registry_guard`) with its LRU order and
eviction; `TakeThreadLock`/`MissThreadLock` are the non-blocking `RLock.acquire` with
its bounded attempts; `OpenSidecar`, `TakeFlock`, `MissFlock`, `DegradeFlock` and
`RejectFlock` are `_acquire_cross_process_flock`; `LeaveNested`, `ReleaseFlock` and
`ReleaseThreadLock` the way out. `depth` is the thread-local `_flock_depths`. RLocks
and inodes are identities, so that an evicted or unlinked object lives on in the hands
of its users. `ClearPageWriteLocks`, `SweepSidecar`, `Exit`, `Crash` and `Start` are
the process around it. `LocksReportState` is FALSE in the runs: `RLock.locked()`
exists since Python 3.14, the project supports 3.12, and before that `_lock_for_key`
evicts locks that are held (`getattr(old_lock, "locked", lambda: False)`,
`page_write_lock.py:70`). The flock layer is what makes this harmless.

### PageWrite

A writer is a program: the sequence of `snapshot`, `verify`, `lock`, `read`, `drift`,
`backup`, `check`, `tmp`, `replace`, `refresh` and `unlock` its function performs. The
actions give each step its meaning. A page is the set of edits it carries, a buffer the
set that was read. `Programs` lists every function by its name in the code;
`dispatch_mutate` and `dispatch_refactor` are the tables of the two MCP tools. Many
functions share an order; TLC runs one function per distinct order (`EachOrder`), and
every pair of them. What a function promises follows from its order (`Guarded`,
`UnderBaseline`):

* it reads inside the lock or under a baseline taken before the read: it implements
  `SerialPage`, no committed edit is dropped;
* it reads before the lock and is not compared (`reparent`, `split_large`,
  `generate_flashcards`, `append_page_alias_line` without a caller's baseline): it can
  drop an edit, but only one that is in the `.bak` it has copied under the same lock
  (`DroppedEditsAreInBackup`).

Simplifications: the two drift checks that `atomic_write_bytes_if_unchanged` and the
first attempt of `atomic_write_bytes` make back to back are one step; each write has an
mtime of its own (clock granularity is outside the program); the human saves on top of
what is on disk; an outline has two blocks; the git snapshot some refactors take first
is left out.

### NewPages

A page is the sequence of its bullets with their depth; a bullet stands for two lines,
its own and its `id::`. `Split*` is `run_auto_split`: under the parent's lock it finds
the subtrees of `Threshold` bullets or more, last first, writes each child page (without
the child's lock) unless one with that title exists, replaces the block by an embed in
memory and commits the parent under OCC. The embed is one element of the list of lines,
so the `end` of a candidate around it lies further down than it was: `Reach` is the last
bullet the slice touches, `lone` the embeds that are one element (the slice may leave
the `id::` line of its last block behind the embed). `Heal*` makes the page of a
dangling link, `Moc*` copies the map of content to `.bak` and writes a new one,
`Outline*` appends a tree node by node, each node under a new lock with the mtime of the
last. `Large*` is `refactor_large_blocks`: page by page, read before the lock, it turns
the later sentences of long bullets into children, bottom up and outside protected
places, copies the page to `.bak` and writes without a comparison. The daemon runs the
first two in one thread; the others are MCP calls. The human adds and deletes blocks at
any point, and the daemon or the server may be killed.

### DaemonCycle

`pc` names the place in `run_forever`, `run_cycle` and `_process_llm_cycle_file`;
the actions in the order of a turn are `Scan`, `FastTrack`/`FastTrackMalformed` (and
`QuarantineWrites`, `QuarantineSettles`), `Relist`, `BeginPage`, `Snapshot`,
`ReadContent`, `RunModules`, `Infer`, `Commit` (or `CommitAborts`, `CommitLocked`,
`CommitMalformed`), `Backpropagate`, `RecordProcessed` (or `RecordFails`), `Checkpoint`,
`EndCycle`, `Reload`, `Wake`.
`files` is `state.files`, `saved` the ledger on disk; `list_pending_files` is
translated with its rules for both phases. A page is the kind of its text (none, empty,
malformed, text), its number of index sections, its mtime and the version of the
human's text. `Crash`, `StopSignal`, `HumanSave`, `HumanDelete`, `AnswerMalformed`,
`ScanFails` and `run_plumber_audit` (an audit from another process) are the world.

Simplifications: the pages of a loop are a set, so every order of clusters is covered;
telemetry counters are omitted; whether a turn used tokens is free where the code goes by
what the provider reports or by the response cache; of the catalog only its completeness
is kept; a page that is deleted and made again before its baseline is taken is excluded
from `PayloadIsFresh` (the apply then takes a snapshot of its own).

### DaemonLifecycle

A worker is `start_daemon_foreground` and `run_forever`: `OpenLock`, `TakeLock` or
`LockHeld`, `write_pid_file`, `LoadLedger`, `ClearErrors`, `SaveRunning`, cycles, then
the lines of `_finalize_graceful_shutdown` one by one: `SaveStopped`, `RemovePid`,
`ReleaseLock`, `UnlinkLock`, `Exit`. An operator runs `start` (`StartReads` ...
`StartReturns`) or `stop` (`StopReads` ... `StopSaves`). The lock file is known by the
worker that created it, and the ledger by the pages with a record that is not an error.
The `O_EXCL` fallback for Windows is not modelled, nor `stop_failed` (a process that
survives SIGKILL).

### LedgerFile

The contents of a file are the number of the save that wrote it, or torn, or missing. A
save locks, writes the temporary file, renames it and copies it to the backup; the copy
truncates and then writes (`CopyOpens`, `CopyWrites`). A load reads the checkpoint
twice, then the backup, and copies the backup over the checkpoint the same way
(`RestoreOpens`, `RestoreWrites`), without a lock. A kill, a failed read, write or copy
and a damaged file can come at any of these steps; `faults` counts those since the last
whole save. `Overlap` says whether a save may run while another process restores.
Left out: `load` merges duplicate keys of old checkpoints.

### MasterCatalog and BootstrapHarvest

`MasterCatalog` has the file, the backup, the rows and for every process the loaded
copy, and whether it is known to be of the file's mtime. Its operators are used whole:
`Keeps` is a load whose result stays in memory, `Saves` a load, a change and a save,
`SavesLoaded` the save of what is in memory.
A row is the text its summary is about and the whole second it was stamped with.
`BootstrapHarvest` drives it: `HarvestBegins`, `NextPage`, then for each page
`RegexHarvest` (the summary is in the page) or `ReadForModel`, `TakeBaseline`,
the turns of the model, `AppendIndex`, `UpsertRow`, and `HarvestEnds`. A long page takes
`Turns` turns, `SummariseChunk` for its chunks and `Summarise` for the reduce; Phase 1 looks
at the stop before each, and `StopSummary` drops the answers so far. An answer without a
summary (`EmptyAnswer`) or an edit leaves a page `bare`: it has the heading of an index and no
summary to read, and nothing is appended to it. `PageFails`, `HarvestFails` and `IndexFails`
are the errors of a page, of the save at the end and of Phase 2; `failed` are the pages whose
record is an error, which `Start` clears. `Hydrate`, `PipelineEnds`,
`Rehydrate`, `IndexPage`, `SkipPhase2`, `Refresh`, `Prune`, `ReleaseMemory`, `Finalize` are the
daemon around it; an audit runs the same harvest in another process. The clock ticks in whole
seconds, so that two writes can carry one stamp. Left out: the number of attempts of
Phase 1 (it may be tried again after any failure).

### GraphIndexes

A text is the sets of its aliases, links and words. The alias index, the search corpus
and the backlink counts are each built in the steps of the code: the signature of all
mtimes, the scan page by page, the signature again where the code takes it, and the
store under the lock. `job.todo` is the set of pages still to read; the next is the
first in the order of paths (`Foremost`), in which `SortedPages` lists a set. Patches of
one page after a commit, stamps, the file the backlink counts are kept in and
`maybe_release` are actions of their own. `raced`, `claimed` and `created` record what
the properties except. The module is the interface of the caches: any thread may call
any function, as `tests/test_ironclad_phase8.py` does. In the repository's processes the
daemon and the audit patch and the MCP server searches, so nothing patches the corpus
that `score_bm25_query` walks without the lock.

### SemanticCache and Inference

`SemanticCache` has the keys, the table in memory (first in, first out, also on hits)
and what validates. `Inference` is a call: read the page's mtime, look in memory and on
disk, probe the backend, then path A (one request with a schema, transport retries) or
path B (attempts through `instructor`, raw JSON, plain text), log the turn, compute the
key again, file the answer. The backend refuses, cuts off or garbles. The page changes
at any point; writes of the cache and the log fail; entries expire. `Thorough` names
the process whose completions are taken request by request; the other one's are one
step with the same outcomes.

### SemanticClusters

The first phases are `compute_semantic_clusters` on every graph of similarities: local
moves to a neighboring community, the cut-off, bisection of what is too large, pooling
and packing of what is too small. The last phases are a cycle of the daemon: load or
compute the map, save it under the catalog's `updated_at`, group the pages, ask for the
map again at each group and put the group's neighborhood into the client's history.
`Ask` is a request for a page, which empties that history; `CommitPage` moves the catalog,
`Command` is the cluster command. The neighbors of
a page are met in the order of a set of strings, which differs between processes, so
ties go either way.

## 3. What the runs check

| Run | Instance | Checks |
|---|---|---|
| `PageLockProcesses` | a daemon thread, two MCP threads (one probes), two pages, registry of one entry, nesting 2, an MCP server that stops, dies and restarts, rejected flock calls; 97 thousand states | `TypeOK`, `MutualExclusion`, `ImplementsMutex` |
| `PageLockThreads` | the same threads on one page, `MATRYCA_ALLOW_FLOCK_DEGRADATION` set, a daemon that sweeps sidecars when it stops; 63 thousand states | `ThreadExclusion`, `CallsSettle` |
| `PageWrite` | every pair of the 11 orders of steps, a human save, and one crash, sweep of temporary files or transient error; 453 thousand states | `TypeOK`, `CheckedCommitsAreFresh`, `DroppedEditsAreInBackup`, `ImplementsSerialPage`, `CallsReturn` |
| `DaemonCycle` | two pages from Phase 1 on, with cognitive modules, one edit, one fault, one rewrite by a module, a back link or an audit; 3.7 million states | `TypeOK`, `AtMostOneIndex`, `CrashLosesOnePage`, `NoSelfTrigger` |
| `DaemonCycleLive` | Phase 2, no modules, one edit, one fault; 745 thousand states | `PayloadIsFresh`, `PagesSettle`, `StopEnds` |
| `DaemonLifecycle` | three processes in the life of a graph, one patient operator; interrupts, kills, exceptions and a reused pid anywhere; 136 thousand states | `TypeOK`, `DaemonIsNamed`, `ImplementsService`, `SignalledEnds`, `StopSettles` |
| `LedgerFile` | two processes that save and load, one that loads; two saves and two faults; 2.1 million states | `FileTypeOK`, `OneFaultLosesNothing`, `LoadsAreCurrent` |
| `BootstrapHarvest` | a long page of two turns and one made later, two texts, a daemon and an audit, two seconds, one stop, two of edits, audits and faults, at most one of them an audit or a fault; 635 thousand states | `SummaryIsPaidOnce`, `Phase2HasItsRows`, `CatalogCatchesUp` |
| `GraphIndexes` | a daemon thread and an MCP thread in two processes, two pages, one of them perhaps made later, one alias, one word, two edits, three calls; 2 million states | `ResolvesAsPagesSay`, `CorpusCounts`, `BacklinkHitsAreFresh` |
| `Inference` | a daemon and an audit, one page with two versions, two calls, two requests per answer, one failed write or expiry, a table of one entry, an answer left by an earlier run; 447 thousand states | `TypeOK`, `AnswersFit`, `TurnsTell`, `CallsSettle` |
| `SemanticClusters` | all graphs on four titles with one level of similarity, two links kept per page, clusters of 2 to 3, three iterations, one change; 441 thousand states | `PagesPartitioned`, `NeighborhoodIsTheGroups`, `CycleEnds` |
| `NewPages` | a page of five blocks with a nested candidate, two long ones and a code example, its children, a target and a map of content, an outline of four nodes; two edits or an edit and a fault, two calls; 1.6 million states | `OutlineWhole`, `BlocksKept` |

Every property has a mutant: a definition changed the way a slip in the code would
change it (an attempt not counted, a lock released without closing, a record stamped
with the mtime at the start of the turn, a backup copied before the lock, a key without
the mtime, ...), which the run of that property catches.

### Bounds

Registry cap 1 evicts at every new page, the state a cap of 4096 reaches after 4096
pages; two attempts show the first, the last and the retry in between is the same
action. Three threads in two processes are the least with both a competitor in the same
process and one in another; two pages the least with which an eviction happens. Two
writers and one save are every pair that can lose an edit; an edit lost among three
writers is lost by one of them to another. The daemon handles one page at a time and
pages meet only in the ledger, the budget (`MaxFiles` 1) and Phase 1: two pages show
each. Three processes are the least for two daemons to serve after a third one removed
their lock file. `MaxEdits`, `MaxFaults`, `MaxTouches` and `MaxSaves` bound what the
world does.

`LedgerFile`: two saves make an older and a newer version, and two faults show what the
second one can do, while the property allows one. `BootstrapHarvest`: the later page is
what a harvest has not listed; two seconds give rows that are stale and rows that only
look fresh; two turns of the model are the least between which a stop can come; the one
fault is a kill, a failed call or save, an answer without a summary or a damaged file, beside
one edit. `GraphIndexes`: two pages are the least that claim one alias or link to
each other; a third call meets an index that was built, patched and patched again.
`Inference`: a table of one entry evicts at every put (16 at least in the code); two
requests show the first and the last retry; of path B's 3 attempts each is taken.
`SemanticClusters`: four pages are the least with an oversized cluster of 3 that is
split or a pool that is packed; three iterations reach the cut-off. `NewPages` bounds
edits and faults together; it also passes with one of them and three calls.

The runs with `CHECK_DEADLOCK FALSE` are those that really end: the writers, calls or
processes of the bound are used up, or the cycle is over. The run `DaemonLifecycle`
gives pids in ascending order, because they are interchangeable; `PageLockProcesses`
and `DaemonCycle` use symmetry and check no liveness.

### Fairness

* `PageLock`: a thread in the lock's own code gets its next line. A thread inside the
  body may stay for ever, since the code waits for a bounded time only.
* `PageWrite`: a writer that has begun gets its next line; the lock it may wait for has
  bounded attempts, which is why `LockUnavailable` is among its lines.
* `DaemonCycle`: the daemon's thread runs, and calls of the model return or time out.
  Nothing obliges anybody to start the daemon or to leave it alone; `PagesSettle`
  follows because the world has a bounded number of moves.
* `DaemonLifecycle`: a worker that is alive and a command that has begun get their next
  line; `stop` kills when its 125 s are over. A worker need not settle pages, and a
  `start` need not give up.
* `BootstrapHarvest`: the daemon gets its next step and is started again after a stop or
  a kill, as a service is; an audit that has begun goes on. The clock need not tick.
* `Inference`: a call that has begun gets its next step; requests have timeouts, so a
  backend that is silent has answered with an error.
* `SemanticClusters`: the computation and the cycle go on.

### What does not hold

True of the code, met while modelling, and kept out of the properties by the condition
named. The first six contradict what the code or its documentation says; each can be
reproduced by the change given.

* The stopping daemon calls `sweep_matryca_lock_sidecars` (`maintenance_daemon.py:1994`),
  which unlinks also a sidecar that an MCP thread holds a flock on; the next caller
  creates a new inode and enters beside it, although `page_write_lock.py:207` says
  "Hold an exclusive lock for one file's full RMW lifecycle (thread- and process-safe)".
  `PageLockProcesses` with `Sweepers = {Daemon}` violates `MutualExclusion`.
* `reparent`, `split_large` and `generate_flashcards` read before they lock and are not
  compared (`reparent_blocks.py:82`), so two of them lose an edit;
  `page_write_lock.py:1` says "serializing Read-Modify-Write cycles across threads and
  processes". `PageWrite` with `Guarded(k) == TRUE` violates `ImplementsSerialPage`.
* `run_backlink_backpropagator` (`backlink_backpropagator.py:232`) and
  `append_page_alias_line` (`property_line_edit.py:473`, called without a baseline) take
  the baseline after the read: a save in between passes every check and is overwritten.
  `docs/ARCHITECTURE.md:157` says "capture `baseline_mtime` **before** reading content or
  calling the LLM". With `UnderBaseline` widened to every function that has a baseline,
  `PageWrite` violates `CheckedCommitsAreFresh`.
* After the cognitive modules the daemon reads the page (2380) and then takes the new
  baseline (2381): a save in between is indexed with the text before it, against
  `docs/ARCHITECTURE.md:206`, "OCC stops one writer from promoting a payload computed on
  obsolete bytes". `DaemonCycleLive` with `Modules = TRUE` violates `PayloadIsFresh`.
* `_release_daemon_process_lock` unlinks the lock file after it released the lock (710):
  a worker that opened it before locks a removed inode and serves beside the next one,
  although `_acquire_daemon_process_lock` (683) promises `None` "when another process
  holds it". `DaemonLifecycle` with `Patient = FALSE` violates `ImplementsService`;
  the theorem `LifecycleImplementsService` says which two races can do that, and no other.
* A page deleted before its turn ends the daemon: `path.stat()` (2335) stands before the
  `try`, and so does the second `list_pending_files` (2610); 2467 says "quarantine
  per-file; never abort cycle". `DaemonCycle` has the step (`BeginPage` of a page that is
  gone ends the process).

About the ledger and the catalog:

* a load that restores the backup takes no lock: with `Overlap = TRUE` it copies an old
  backup over a save that has just returned, and `LedgerFile` violates
  `OneFaultLosesNothing`;
* the mtime of a committed page is taken for its record after the lock was released
  (2447): a save in between is recorded as processed and not indexed until the next edit;
* a failure after the commit (a back link that meets a busy lock, a catalog row that cannot
  be saved, 2451) leaves the committed page with an error or a backoff under the mtime of
  the start: it is pending and asked about again, once (`RecordFails`; `NoSelfTrigger` counts
  such faults);
* an error record keeps the mtime of the beginning of the turn (2486): if a module has
  rewritten the page the record does not match and the page is pending in the next cycle;
* in Phase 2 malformed pages are not listed (1684), so they are not quarantined either;
  a malformed answer for a page that has an index already leaves it pending (1709);
* an audit saves the catalog it loaded before and drops rows the daemon has saved since;
  the next refresh heals it, which is why `Phase2HasItsRows` is about graphs without
  audits and `CatalogCatchesUp` holds with them;
* after a fault or beside an audit a row of the same second can keep the summary of an
  older text (`CatalogMatchesPages` says which rows are exact);
* a stop between the turns of a long page drops the answers already paid for
  (`hierarchical_summarization.py:133`), and the next start asks again from the first chunk:
  `SummaryIsPaidOnce` allows each stop the chunks of one page;
* a page that has the heading of an index but no summary that can be read, as after an
  answer that says nothing, gets nothing appended (`bootstrap_harvest.py:154`): every harvest
  that comes by asks the model about it again. With `Headed` non-empty and pages of `spoilt`
  not left out of it, `BootstrapHarvest` violates `SummaryIsPaidOnce`; `CatalogMatchesPages`
  asks no summary of their rows either;
* an error of Phase 2 is recorded with the page's mtime: a page without an index keeps none
  until it is saved again or the daemon restarts;
* a catalog file that is valid JSON but no object (`Damages` with `"notObject"`) is
  neither quarantined nor saved over: the catalog is not rebuilt until it is removed;
* loading after a malformed primary copies that primary over the good backup;
* a page that appears during Phase 1 makes it count as failed, and no page is indexed
  until the catalog is complete, which nothing but the next start of the daemon or a
  human makes it when a page has no index (`PhaseTwoBlocked` in `CatalogCatchesUp`);
* a page that is empty when Phase 1 passes it and written before Phase 1 ends has no row
  until the next refresh (`Phase2HasItsRows` excepts pages that were empty).

About caches, calls and clusters:

* the cache key is computed again after the call (1602): an answer about the old text is
  filed under the mtime of the new one and served from then on (`raced` in `AnswersFit`);
* lowering `MATRYCA_SEMANTIC_CACHE_MAX_PAYLOAD_BYTES` while a daemon runs lets `cache_get`
  evict an entry under its own lock, which is not reentrant: the thread waits for itself
  (`MayShrink = TRUE` violates `CallsSettle`);
* a failing write of the cache loses the answer, and the log then has a turn that went
  well and one that failed; a log that cannot be written inside path B asks the model
  again; failed calls other than the index leave no turn;
* the "LRU" table is first in, first out; the capability probe is never reused, because
  each completion drops it; two processes rotate the token log without a common lock;
* garbage collection of the caches stamps mtimes without indexing the pages again; a
  patch of the alias index does not restore the claim of another page; a page made and
  deleted during a backlink scan leaves counts under a matching signature (the exceptions
  of the three properties of `GraphIndexes`);
* the minimum size of clusters is not enforced ({1,2,3} and {4} can come out), Louvain
  moves can go back and forth until the cut-off, and ties depend on the hash seed of the
  process although the docstring says "Deterministic"; after a commit in the middle of a
  cycle a cluster id may name another cluster;
* the neighborhood that `inject_cluster_focus_context` puts into the history reaches no
  request: every caller in the repository passes `stateless=True`, and
  `_completion_messages` (`llm_client.py:685`) then empties the history first (`Ask`),
  although `docs/openspec/llm-performance.md:54` says it "seeds neighborhood summaries
  once per cluster". The history's compression (`agent/context_compressor.py`) is
  unreachable for the same reason and not modelled.

About operations on several pages:

* a split whose child page exists does not write it but replaces the block all the same:
  the block is lost (`split.reused` in `BlocksKept`);
* `split_large` computes the protected places once and splits bottom up
  (`split_large_blocks.py:154`): a code example below a bullet that was split has moved
  out of its place and is split in the same call (`_process_page` in `NewPages`), although
  `docs/roadmaps/ROADMAP_IRONCLAD_SHIELD.md:6` says "block-level mutators reject spans
  overlapping protected lines"; the whole example is in the `.bak`, so `BlocksKept` holds;
* nested candidates: the `end` of the outer one is stale after the inner one was replaced
  (`auto_split.py:107`), because the inner embed is one element of the list for all its lines:
  following siblings move to the child, and the slice may cut the last of them from its
  `id::` line, which stays behind the embed (blocks are told apart by their text, so
  `BlocksKept` does not ask where an `id::` is);
* an outline that meets a conflict leaves its first blocks; a map of content built twice
  overwrites in `.bak` the page the human had;
* a human's save between a writer's last look and its `os.replace` is overwritten
  (`markdown_blocks.py:289`); `CheckedCommitsAreFresh` and `Late` say exactly where.

About impatient operators: a second command before the first has returned, or after a
`startup_timeout`, can remove the pid file of a daemon it did not start; `stop` then
reports it as not running. SIGKILL after 125 s goes to the pid, whoever has it by then.

## 4. What is proved

`PageLockProofs` proves, for every number of processes, threads and pages, every cap,
every number of attempts and with or without flock support:

* `TypeCorrect`: `Spec => []TypeOK`. Not inductive alone: an attempt appends `cand` to
  `held`, so the invariant also needs `HasCandidate` (a thread at its RLock has looked one up).
* `FlocksAreExclusive`: `Spec => []FlockExclusive` (no inode carries two flocks), by
  `Phases` (what a thread's `pc` says of its `depth`, `fd` and `flk`) and
  `OneFlockPerInode`. Holds with sweeps too.
* `LockExcludes`: `FlockIsSound => (Spec => []MutualExclusion)`, where `FlockIsSound`
  says that `fcntl` exists, degradation is off and nobody sweeps sidecars. The
  invariant adds `SidecarIsLinked` (an open sidecar is the one the path names) and
  `InsideHasFlock` (whoever is inside carries the flock of its page). From there the
  argument is short: two threads in one page carry flocks of one inode. The registry
  plays no part in it, which is why evicting held locks is harmless.
* `LockImplementsMutex`: under the same condition `PageLock` implements `RmwMutex`.
* `ThreadsExclude`: `RLocksAreKept => (Spec => []ThreadExclusion)`, the layer below,
  whatever the flocks do. `RLocksAreKept` says that the registry has room for every page
  and that only processes that wait for their threads clear it: an evicted or cleared
  RLock that is held is forgotten, and the next thread of the process gets another one.
  The invariant: one row per page, and whoever holds an RLock or is about to take it
  holds the one the registry has for its page (`RegistryRows`, `LockOfPage`), as often as
  it says (`HeldOften`) and alone (`OneOwner`).

`PageLockThreads` and the sweep described above show why `FlockIsSound` is needed.

`PageWriteProofs` proves, for every number of writers, any choice among the functions
that write, and any number of saves, sweeps, errors, retries and crashes:

* `InvariantHolds`, `TypeIsCorrect`;
* `CommitsAreFresh`: `Spec => []CheckedCommitsAreFresh`;
* `DroppedEditsAreBackedUp`: `Spec => DroppedEditsAreInBackup`;
* `PageIsSerial`: `Spec => ImplementsSerialPage`, the refinement. It says something
  of the instances in which every writer is `Guarded`; of a page that an unguarded
  function writes too it promises nothing.

A program is a straight line, so what a writer has done when it stands at a line is a
matter of its text. That is settled first, program by program: every one keeps
`LockOrder`, `AttemptOrder`, `CommitOrder`, `BaselineOrder` and `GuardedOrder`
(`ProgramsAreOrdered`). The invariant then says what follows at a line: who holds the
lock (`Control`), that baselines are not in the future (`Times`), that a writer whose
baseline still is the page's mtime has all of the page (`FreshReads`), that one which read
behind the lock misses no other call's edit (`LockedReads`), that one past its check
missed nothing when it looked (`CheckedReads`) and that the copy made under the lock has
the rest (`Backups`). A step passes its line, tries again or returns
(`WriterStepForms`), so the proof does not go through the programs a second time.

`NewPagesProofs` proves, for every first page, set of edits, outline, table of sentences
and all bounds:

* `NoBlockIsLost`: `MocIsNoChild => (Spec => BlocksKept)`. A split takes a block out of
  its page in memory long before it commits, and its child is written to under no lock, so
  the invariant `KeepInv` speaks of buffers as well as of pages: `Types`; `Splitting` (the
  places of the candidates still to come are in order) and `Paged`; `Seen` (a writer has
  seen no mtime newer than the page's, and if it is the page's still, it has seen the
  page); `Carried` (a block a split took out is on another page and in the buffer of
  whoever is about to replace that page).
* `OutlineIsWhole`: `MocIsApart => (Spec => []OutlineWhole)`: an outline that reports
  success, and that nobody else wrote in between, is the whole tree in place. The
  invariant `WholeInv`: `Walk` (the page is the first page with the first k nodes below
  the block, and `Chain`, the stack of parents, has for each depth the last node of the
  one above), `AllClean` and `NodesApart` (the block and the nodes are nowhere twice),
  `Placed` (nor on a page that is written without being read). Appending node k + 1 below
  its parent then gives the first k + 1 nodes (`WithFirst`), for every tree.

The hypotheses are about the title given for the map of content: it is not one a block
is split to (`MocIsNoChild`), nor that of the page the outline is written to
(`MocIsApart`). The first cannot be dropped. `write_moc_page` replaces its page without
reading it, so a map under the title of a child can be written, after its copy to `.bak`,
over the child that a split has just made under no lock; the split then commits its
page, and nothing has the block. TLC finds this in the instance of section 3 when
`a` is split to `moc`.

`DaemonCycleProofs` proves, for every finite set of pages and all bounds:

* `TypeIsCorrect`; the invariant adds that there is a page in hand during a turn.
* `OneIndexPerPage`: `Spec => []AtMostOneIndex`.
* `CrashLosesAtMostOnePage`: `Spec => []CrashLosesOnePage`.
* `CommitsTriggerNothing`: `Spec => []NoSelfTrigger`. The commits of a page, and one more
  for a page that is neither settled nor gone, are at most the faults, failures after the
  commit among them, and one (`Owed`); a page
  is `Settled` when the ledger that counts, the one on disk while the daemon is down,
  records it as processed at its mtime, or a turn is on its way to say so.
* `PayloadsAreFresh`: `~Modules => (Spec => PayloadIsFresh)`. With the cognitive modules
  the page is read again and then its baseline taken again
  (`maintenance_daemon.py:2380-2381`); a save between the two escapes.

And of `SemanticClusters`, for every number of pages, all similarities and bounds, and
every order in which a process meets the neighbors of a page:

* `ClustersPartitionPages`: `ClustersSpec => []PagesPartitioned`: at every moment of the
  computation every page is in exactly one cluster or in the pool, and no cluster that
  comes out is empty or larger than the maximum. The invariant `PartsInv` carries this
  through moves, bisections, pooling and packing: `Whole` (stack, kept clusters and pool
  share the pages out, none twice) and `Left` (what a phase has used up is empty). A
  bisection is a recursive function over the pages of a cluster; what is proved of it is
  what one page adds to the two halves (`Halves`), so that both end up non-empty,
  disjoint and together the cluster.
* `GroupsPartitionPages`: `ClustersSpec => []Grouping`: the map a cycle works by, and any
  map in the file, has every page of the catalog exactly once, whoever saved it.
* `GroupBeginsWithItself`: `ClustersSpec => NeighborhoodIsTheGroups`: while nothing else
  has changed the catalog or the file, the pages a group puts into the client's history
  are those of the map the cycle groups by. `MapInv` says that without changes the file
  is the cycle's own map under the catalog's `updated_at` and the cycle's own size.

`DaemonLifecycleProofs` proves, for every number of processes, operators and pages:

* `LifecycleTypeCorrect`: `Spec => []TypeOK`; the invariant adds `HasSeen` (a command
  that waits for a worker knows its pid).
* `LiveDaemonIsNamed`: `Patient => (Spec => []DaemonIsNamed)`, by `PatientInv`. Its parts
  lean on each other: at most one worker is on its way to serve or serving (`OneEngaged`),
  because a start spawns one only when the pid file names no live program, and the pid file
  names whoever serves (`Named`), because nobody clears it while somebody is engaged
  (`Quiet`, `OneCommand`).
* `LifecycleImplementsService`: `Spec /\ [][~Race]_vars => ImplementsService`, for any number
  of commands at once. A `Race` is a step of one of two kinds: a worker creates the lock file
  while another one has the unlinked one open and locked or is about to lock it
  (`_release_daemon_process_lock` unlinks after it has unlocked), or a stop saves a ledger
  that lacks a record written since it loaded. As long as neither happens, it is the flock
  that keeps daemons apart: whoever may take it has opened the one file there is (`OneLock`),
  so one serves (`OneServing`), and knows the records (`Grows`).
* `PatienceAvoidsRaces`: `Patient => (Spec => [][~Race]_vars /\ ImplementsService)`: one
  command at a time, and none while a worker is starting, keeps both races away, also when a
  start comes while a stopping daemon still has to unlink its lock file. Nothing in the CLI
  or the web UI makes operators patient; this is a condition of the run and of this theorem.

And of `LedgerFile`, for every number of processes, saves and faults:

* `LedgerTypeCorrect`: `FileSpec => []FileTypeOK`, also with overlapping restores; the invariant
  adds `Holder` (the flock names the one process inside) and `Ready`.
* `LedgerSurvivesOneFault` and `LedgerLoadsAreCurrent`, both from `~Overlap`. It is not
  enough to say that the newest save can be found: a step that writes one file is
  harmless only because of what the other holds. `NoFault` says that without a fault
  one file is good and the other good or being copied; `OneFault` that after a fault
  one is good and the other unreadable or as new; `Newest`, `Entered` and `Apart` say
  what the writers and readers hold meanwhile.

`BootstrapHarvestProofs` proves, for every set of pages and processes and all bounds:

* `HarvestTypeCorrect`: `Spec => []TypeOK`, with damaged files and kills.
* `HarvestKeepsRows`: `Spec => []Phase2HasItsRows`. What Phase 1 gathers is in the
  daemon's memory until its end; the invariant `RowsInv` follows a row from there to the
  disk: `Visited` (pages passed have rows in memory unless a stop came), `Saved` (and on
  disk at the end), `Synced` (a row in memory that has not changed since the last save is
  on disk), `Kept` (after Phase 1 nothing loses it), with `Memory`, `Sound`, `Undecided`
  and `Texted` for where the cache is loaded, what the file is, when Phase 1 may begin
  and which pages have a text.
* `HarvestPaysOnce`: `Spec => []SummaryIsPaidOnce`, by a potential. The answers got for a
  page, the turns of it that audits at work may still take (`TurnsAhead`) and the turns the
  daemon may still take, or lose to a stop already asked for (`Chances`), are together at
  most what a summary takes, once and for each save, audit and fault so far, and all its
  turns but the last for each stop (`Paid`, `Allowance`). Each step that raises one of them
  lowers another or is counted. `Turn` says what of a summary in progress has been
  answered. Pages that are or were without a readable summary under the heading of one
  are left out.

`GraphIndexesProofs` proves, for every set of processes, threads, pages and texts:

* `BacklinkCountsAreFresh`: `Spec => []BacklinkHitsAreFresh`. Counts are stored under the
  signature taken before the scan, and later writes have higher mtimes: as long as the
  signature is the graph's, what was read is what is there (`Taken`, `Shows`, `Tallies`).
* `CorpusStaysCounted`: `Spec => []CorpusCounts`: after builds, removals and additions
  in any order the documents of a corpus and its document frequencies agree.
  Each operation changes the set of documents that hold a word by a bijection or one
  element (`RemovingCounts`, `AppendingCounts`), and one thread works under the lock.
* `AliasesResolve`: `Spec => []ResolvesAsPagesSay`: the index of a process agrees with
  every page whose mtime it is stamped with, except pages that were raced, and the
  claim of a name is a page that has it or was displaced by one (`Owned`, `Synced`,
  `Patched`, `Doing`).

That a scan meets every page once rests on the order of pages: every set has a first
page and one increasing enumeration (`ForemostIsFirst`, `SortExists`).

`InferenceProofs` proves, for every set of processes and operations, size of the table,
number of tries and all bounds:

* `CacheTypeCorrect`: `Spec => []TypeOK`;
* `AnswersFitTheirQuestions`: `Spec => []AnswersFit`. What is filed under a key answers the
  key's operation about the key's version, or is marked as filed by a call the page
  changed under (`Caches`); a call the page did not change under has the key of the
  text it read (`Keyed`), so what it finds is about that text (`InHand`).
* `TurnsTellOutcomes`: `Spec => []TurnsTell`: a call logs its success once and last
  (`Logged`), through all retries and fallbacks.

The assumptions on the constants, one per module, are all that is taken for granted.

Only model-checked:

* all liveness: `CallsSettle`, `CallsReturn`, `PagesSettle`, `StopEnds`, `SignalledEnds`,
  `StopSettles`, `CatalogCatchesUp` and `CycleEnds`. Fairness and ENABLED are out of the
  prover's reach.

What a recursive definition computes would need induction over data, which the provers
cannot instantiate either. The theorems above do not skip it: where the code walks a list,
the invariant speaks of the part walked so far, and where one step of a model walks a whole
list, the value is a recursive function whose steps are lemmas, followed from one element
to the next by the least place at which the claim would fail.

## 5. Plan

1. Done: page lock, page writes, operations on several pages, duty cycle, lifecycle,
   ledger file, catalog and harvest, indexes, inference and its cache, clusters; theorems
   that state every safety property the runs check, invariants and action properties.
2. Left to model: algorithms as functions, compared with reference definitions over
   bounded inputs (merging of duplicate ledger keys, link hops, the fence scanner); the
   rotation of the token log by two processes; the `O_EXCL` lock of Windows.

## 6. Not modelled

Text and layout (prompts, parsing of answers, Markdown rendering, UI), configuration,
service installation, analytics that only read, process priority and memory
budget: no state that two actors share, or input and output only. Within the modelled
parts: the git snapshot before a refactor, fuzzy suggestions and scores of the indexes,
the compression of prompts (its callers pass
no state, so the path is never taken), rotation and totals of the token log.
`PROJECT.json` lists every component with its status.
