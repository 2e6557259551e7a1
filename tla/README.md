# A verification project for travsr

travsr keeps a graph of a repository's code (nodes for files and symbols, edges
for imports, calls and references) in an SQLite database under `.travsr/`, next
to git. `travsr init` builds it, a daemon keeps it up to date while the files
change, and clients (the command line, an MCP server, an editor extension) query
it. This directory holds TLA+ models of the parts of travsr in which several
actors share that database, the TLC runs that check them and proofs for TLAPS.
All paths below are relative to the repository; `lib.rs` without a crate is
`crates/travsr-daemon/src/lib.rs`, `store` is `crates/travsr-store/src/lib.rs`.

To repeat the work, in this directory: `tlc -workers 2 -config X.cfg M` for the
runs in the table below and `tlapm M.tla` for the eight modules `*Proofs.tla`.

- [1. The system](#1-the-system)
- [2. Modules and code](#2-modules-and-code)
- [3. The runs](#3-the-runs)
- [4. What the runs found](#4-what-the-runs-found)
- [5. The proofs](#5-the-proofs)
- [6. What is not modelled](#6-what-is-not-modelled)
- [7. Plan](#7-plan)

## 1. The system

### How the parts interact

```
   working tree          git HEAD, hooks                 travsr init (own process)
        |                      |                                   |
     notify             reindex-commit                          init.lock
        v                      v                                   |
   watcher threads ---> select loop ---> indexer worker            |
   (raw queue,          (gc tick: HEAD   (Tier-0 callers           |
    debounce table)      reconcile)       back into its queue)     |
        |                      |                |                  |
        |              Phase B scheduler        |                  |
        |                      v                v                  v
        |              background Phase B --> store mutex --> SQLite: nodes, edges,
        |              (plugins, SCIP/LSIF)                   hashes, search, meta
        |                                                         |
   control socket <--- CLI, MCP server, editor             query cache, status
```

Indexing has two layers. *Phase A* parses one file with tree-sitter and writes its
nodes, imports and hash row. *Phase B* runs external analysers over the whole tree
and writes call edges. Phase A is incremental and immediate; Phase B is batched
behind a scheduler, because it takes minutes. When Phase A rewrites a file it
drops the calls of the definitions that changed and raises `phase_b_dirty`.

One mutex in the daemon guards its store connection. `travsr init` is a different
process with a connection of its own: `init.lock` keeps two inits apart and makes
background Phase B stand aside, but nothing keeps init and the daemon's reindex
jobs apart except SQLite's transactions.

### Inventory

For each part: the state it keeps, what changes that state, what is hard about it
and what makes it correct.

| part | state | operations | hard behaviour | correct when |
|---|---|---|---|---|
| Phase B scheduler, `phase_b_sched.rs` | pending mark (deadline, first arm), `running`, failure and partial counters, back-off instant, each behind its own lock or atomic | `mark_dirty`, `arm_immediate`, `try_claim_at`, `finish_with_outcome_at` | the tick's reads interleave with the writes of a finishing run | one run at a time; no mark is lost; crashing sidecars stop being started; no stream of commits starves the run |
| init and rebuild, `lib.rs` 1384–2420, `store` 2375–2825, 8380–8723, 10268– | tables `nodes`, `files`, `nodes_fts(_map)`, TEMP staging tables, meta rows | purge, batches, staging flush, search rebuild, format stamp, closing stamps | killed at any transaction, run again; the daemon writes in between | a hash row never stands without its nodes; a rebuild leaves nothing of the old format |
| semantic markers, `lib.rs` 5571–5760, 6040–6400, 2009–2420 | `last_commit`, `phase_b_commit`, `phase_b_dirty(_seq)`, `phase_b_warnings` | reindex jobs, hooks, HEAD reconcile, background Phase B, init's inline Phase B | a pass reads the tree, works without the mutex and stamps later; each row is its own transaction | "semantic: complete" is true; the markers reach HEAD |
| watcher and indexing pipeline, `watcher.rs`, `lib.rs` 15560–15720, 16020–16280 | raw queue, debounce table, channel, indexer queue, event in hand | notify callback, event thread, flush thread, select loop, worker, editor request, gc tick | five bounded hand-overs, three of which shed; the worker feeds its own queue | the index catches up with the tree; the chain drains; no edge without its nodes |
| daemon life cycle and control socket, `lib.rs` 15195–16012, `daemon_client.rs`, `travsr-ipc` | `daemon.lock`, the socket file, `daemon-restart.lock`, the breadcrumb of a failed start | fork, lock, bind, rebind, wind down, exit; probe, start, replace, stop | several commands and daemons over files, no step of which is atomic with the next; a probe takes the lock it asks about; budgets that run out | the serving daemon is the one behind the socket; only a stale daemon is replaced; a repository keeps its daemon |
| query cache and KNN hook, `query_cache.rs`, `embed_supervisor.rs` | LRU with entry and byte bounds; the worker, its queue, the sidecar and its generation | lookup, insert, evict; submit, wait, give up, respawn | keys carry freshness tokens read before the answer is computed; other connections write in between; late replies | an answer is made of states the databases were in since the question; every query is answered |
| editor plane and live overlay, `live_resolve.rs`, `lib.rs` 16116–16885, `store` 3069–3670 | live edges, `ref_resolution_state`, stashed occurrences with TTL, sessions | save, target request, report, commit, sweep | two saves side by side, late and partial reports, expiry of the stash while a request is out | what a save leaves is true; a report becomes edges only for references the text still has; the commit brings what a fresh index has |
| embedding pipeline, `embed_catalog.rs`, `watchdog.rs`, `embed.rs`, `lib.rs` 4290–4470 | `embed.lock`, cancel sentinel, PID and path of the run, pause flag, tombstone log | tick, trigger, claim, spawn, wait, cancel, kill; reconfigure, gc | a daemon and a command line that start, stop and kill each other's sidecars through files | one writer of `embed.db`; what is asked to stop stops, and nothing else; everything is embedded in the end |
| graph store, `store` | all tables | batches, replace, delete, sweep, reconcile, migrations | a mass-delete breaker at small sizes; migrations | edges end in nodes; a failed step leaves the old state |
| registry, `registry.rs` | one JSON file under a file lock | register, remove | read-modify-write by several processes | no lost entry |
| git hooks, `hook.rs` | hook scripts | install, dispatch | the message is fire-and-forget; reset and rebase have no hook | what no hook reports, the reconcile finds |
| plugin host, protocol, SDK | child processes, crash counts | spawn, call, kill | hung or crashing children | a crash is counted once and contained |
| indexers, analysis, retrieval | none | pure functions over texts and graphs | – | agree with their definitions |
| MCP server, CLI, core types, editor extension | SSE session table; else none | read-only queries, formatting | – | – |

The hazards of this code, each at its line and with the properties that watch it,
are listed in `PROJECT.json`.

## 2. Modules and code

| module | models | proofs |
|---|---|---|
| `PhaseBScheduler` | `phase_b_sched.rs` and the tick that drives it | `PhaseBSchedulerProofs` |
| `InitRebuild` | Phase A of `travsr init` against the tables it writes | `InitRebuildProofs` |
| `SemanticMarkers` | everybody who moves the freshness markers | `SemanticMarkersProofs` |
| `IndexPipeline`, `MCIndexPipeline` | from the notify callback to the graph | `IndexPipelineProofs` |
| `LiveOverlay` | what the graph says of a file's calls between a save and a commit | `LiveOverlayProofs` |
| `DaemonLifecycle` | the processes that start, replace and stop the daemon | `DaemonLifecycleProofs` |
| `FreshAnswers` | what a query promises, whatever is cached (abstract) | `QueryServingProofs` |
| `QueryServing`, `MCQueryServing` | the Query arm, its cache and the KNN hook; implements `FreshAnswers` | `QueryServingProofs` |
| `EmbedReindex` | the passes that write `embed.db`, of the daemon and of the command line | `EmbedReindexProofs` |

`PROJECT.json` ("map") gives the source lines of every definition. Mutated forms of
definitions stand next to the definitions they differ from, each marked as a slip or
a mutant; no action uses them. Where the code leaves a gap, a history variable (`gaps`
in the newer modules) records that a behaviour went through it, and a property says
what holds of the others: so the list of gaps is itself checked to be complete.

### PhaseBScheduler

`dirty` is the `Option<DirtyState>`, `running` the single-flight flag, `failures` and
`partials` the two counters, `backoff` the instant of the gate. `tick` is the select
loop's place inside `try_claim_at` and `run` the place of each run task inside
`finish_with_outcome_at`: every read or write under a lock of its own is a step.
Instants are kept as time left (`left`, `age`, `backoff`), and values that no
comparison can tell apart are identified, so time is unbounded and the state
finite. `Elapse` may not happen inside a call, because the code reads the clock
once per call. A panicking run reports `AllCrashed` through its guard (#404), so
that is simply one of the outcomes of `Work`.

### InitRebuild

One step per SQLite transaction of `init_repo_with_progress`, in the code's order:
`PurgeGraph`, `ClearHashes`, `DeleteMarker`, the walk, `MarkDropped`, batches, `Flush`,
`RebuildSearch`, `StampFormat`, `Trace`. `Kill` is possible between any two; tables
survive it, TEMP tables (`ini.staged`, `ini.owed`) do not. A file's content is a
version, and its nodes are a version and a signature format. The daemon's `Reindex`
and `BackgroundPhaseB` may come in between, as whole transactions here. `Starts`
are the databases an init can meet: none, one of an older format, one that was
initialised when the repository had no indexable file. Init's inline Phase B is a
single step here; `SemanticMarkers` has it step by step. Files are neither added
nor deleted during an init (`IndexPipeline` has that).

### SemanticMarkers

`indexed` is the content each file's nodes come from and `traced` the content its call
edges come from, 0 once some of them were dropped. A reindex job (`Job…`), a
background run (`Bg…`) and an init (`Init…`) are three processes with a program
counter each; the first two share the daemon's mutex (`MutexFree`), init does not.
Every `set_meta` is a step. `Restart` is a kill and a start of the daemon.

Three abstractions matter. Which files a hook's diff names is any subset. Every
language can crash in every run. A replaced file loses its calls whatever the edit
was: the code keeps those of unchanged definitions, which can only make a
"complete" truer. `lost`, `missed` and `uncounted` are history: they record which
files fell through a gap the code has, so that `HonestOutsideGaps` can say that
there are no others. The gaps are, exactly:

- a pass writes the calls of the tree it read over files reindexed since, and the
  daemon's then clears the flag whatever happened (`lib.rs:5745`);
- init compares `phase_b_dirty_seq` and then clears the flag, in two transactions, and
  a reindex bumps the counter only after it has written nodes and flag;
- init raises the flag before its batches (`lib.rs:534`), a background run that was
  already under way clears it, and the batches then drop calls;
- the daemon dies between `reindex_replace` and the flag (`lib.rs:6317`).

### IndexPipeline

Content is a version, 0 for an absent file; some versions do not parse. Of the
graph the module keeps the version each file was indexed from and the import edges,
which end in file nodes. `raw`, `pending`, `flush`, `chan`, `queue` and `held` are the
hand-overs of the chain, `job` is the reindex job holding the mutex, started by the
worker, by an editor's request or by the reconcile. A job reads a file and writes
it in separate steps, so a save can come between. `missed` (no job has read the file
since one of its events was dropped) and `unswept` (rewritten and not swept since)
are history.

Two pairs of code steps are one step here: the sweep and the enqueueing of callers
at the end of a job (nothing else can use the mutex between them), and
`delete_file` with the callers of a removal. An edit that changes only bodies keeps
the file's edges, an edit that changes a signature writes them again: both are
possible for every edit. Callers collected by an edit are any set of other files.
HEAD moves here are those that no hook reports.

### LiveOverlay

One file with a definition `caller`, whose references are followed, a `helper` whose
type one of them goes through, and a third definition that may come and go. `disk`,
`index` and `buffer` are the text on disk, the one the index has the hash of and the
one the editor has open. `committed` are the caller's compiler edges, `live` the
edges of the overlay, `pending` and `resolved` the rows of `ref_resolution_state`,
`stash` the file's entry in `EditorPlane.changed_occurrences`. `thread` has two calls of
`process_saved_file`, the worker's and the request handler's: `Compare`
(`file_matches_index`, the first read of the file), `Fold` (`reindex_replace`, which
reads it again, and the lexical lane), `Stash`, which comes after the store's mutex was
released. `Demoted`, `Preserved`, `Kept` and `Occurrences` are the sets that
`reindex_replace` computes, `Lane` the lexical lane with the rows it writes. The
extension asks (`RequestTargets`, `Serve`), resolves some of what it was asked for
against its buffer (`Publish`) and reports (`Report`). `Commit` is the hook's reindex;
`RunStart` and `RunEnd` are the Phase B run it arms, with the sweep of the overlay.

A reference is known by its name: each stands on a line of its own and keeps its
column. The language's edges come from SCIP and it has a native extractor. A fold
and its lane read the file once. `base` and `touched` are history, for the properties.
Dependents in other files, the precision gate and its meter, crashed languages, and
the lane for languages without a native extractor are left out.

### DaemonLifecycle

`lock` is the flock on `daemon.lock`, `sock` the daemon whose listener is at the socket
path, `swap` the flock on `daemon-restart.lock`, `startErr` the breadcrumb. A daemon
goes from `forked` over `TakeLock`, `RemoveStaleSocket` and `Bind` to `serving`, through
`LeaveLoop` and `WindDown` to its end; a client goes through its command with one step
per look at the disk or at the daemon. `daemon_lock_held` is two steps, since it
finds out whether the lock is held by taking it. `image` is the build and the path
of a daemon: the version check replaces an older build at the client's own path.
A wait with a deadline may expire at any time; a request and its answer are one step.

### FreshAnswers and QueryServing

`FreshAnswers` is the promise: an answer is made of states that `graph.db` and, for an
`ask`, `embed.db` were in since the question was put, or it is an error. `QueryServing`
is the Query arm (`LookUp`, `Submit`, `ReadFirst`, `Finish`) with the cache as a sequence in
order of use, keyed by the query and the freshness tokens of both databases and of
the sidecar, and the hook behind it: a bounded queue, a worker that holds the
sidecar, deadlines, respawns and the generation. The store lock is held while the
hook is waited for. Writers of both databases are other connections and may come at
any point. The refinement maps `question`, `since` and `reply` by name and takes
`seeds` out of the answer.

### EmbedReindex

Nodes are numbered in the order of their shells; `pending` are those without a vector,
`stale` counts the tombstones not applied yet. `tick` and `trigger` are the two callers
inside the daemon, `run` the reindex thread, `stop` one control request (stop-embed,
reconfigure or shutdown), `cli` one foreground command, `side` the sidecars of daemon
and command line, and one that outlived its daemon. They meet in `embed.lock`, the
sentinel file and the PID and path that a run registers. Left out: installing
models, deferred tombstones, the text of the progress output. The lookups and the
pause check of a tick are one step, as are lock and spawn of a foreground command;
there is one control request at a time. The sidecar is external and follows the
protocol in the comments of `embed_catalog.rs`; it works unless it hangs.

## 3. The runs

| run | module, configuration | expected | checks | distinct states |
|---|---|---|---|---|
| scheduler | `PhaseBScheduler`, `PhaseBScheduler.cfg` | holds | `TypeOK`, `SingleFlight`, `CrashBudget`, `MarkConsumedByRun`, `NoStarvation` | 8,841 |
| init_rebuild | `InitRebuild`, `InitRebuild.cfg` | holds | `TypeOK`, `HashVouches`, `RebuildComplete` | 2,202 |
| init_force | `InitRebuild`, `InitRebuildForce.cfg` | violated | `InitHeals` | |
| markers | `SemanticMarkers`, `SemanticMarkers.cfg` | holds | `TypeOK`, `HonestOutsideGaps`, `BgMarkerAnalysed` | 5,106,351 |
| markers_live | `SemanticMarkers`, `SemanticMarkersLive.cfg` | holds | `CatchUp` | 112,444 |
| pipeline | `MCIndexPipeline`, `IndexPipeline.cfg` | holds | `TypeOK`, `FreshAtRest`, `NoOrphanEdges`, `Drains` | 672,953 |
| overlay | `LiveOverlay`, `LiveOverlay.cfg` | holds | `TypeOK`, `CommittedTrue`, `LiveTrue`, `Accounted`, `Converges` | 1,361,868 |
| daemon | `DaemonLifecycle`, `DaemonLifecycle.cfg` | holds | `TypeOK`, `ServingReachable`, `DaemonLeftRunning`, `SwapStopsStale`, `ComesToRest` | 1,174,639 |
| query_cache | `MCQueryServing`, `QueryServing.cfg` | holds | `TypeOK`, `CacheBounded`, `HitIsCurrent`, `ImplementsFreshAnswers` | 4,196,968 |
| query_hook | `MCQueryServing`, `QueryServingHook.cfg` | holds | `SeedsMatchQuestion`, `EveryQueryAnswered` | 561,365 |
| embed | `EmbedReindex`, `EmbedReindex.cfg` | holds | `TypeOK`, `OneWriter`, `StopStops`, `CancelReachesItsRun`, `AllEmbedded` | 1,052,387 |
| embed_threshold | `EmbedReindex`, `EmbedReindexThreshold.cfg` | violated | `AlwaysEmbedded` | |

The two runs expected to be violated check something the repository says of itself;
section 4 quotes it.

### What the passing runs show

**scheduler.** At most one run is in flight. A mark made while a run is in flight is
not consumed by that run's end. The all-crash cap is read before the slot is
claimed, so broken sidecars may be started once more than `MAX_FAILURES` and never
twice more. With `max_defer`, no stream of commits and no sequence of partial
crashes keeps a pending mark from its run. The back-off does not have the first
property: its gate is read before the claim (`phase_b_sched.rs:167`), so a run that
ends partially in between is followed by the next at once; it is a delay and
nothing rests on it.

**init_rebuild.** However often unforced inits are killed, a hash row under a current
stamp has its nodes in the current format, which is what the hash delta takes for
granted when it skips a file; and a rebuild that reaches its stamp has re-created
nodes, hash and search rows of every file.

**markers.** "complete" is true of every file outside the four gaps above. A
background run never stamps a commit that was made after it read the tree (init
does: it reads HEAD again after its pass, `lib.rs:2295`; what follows from that is
still flagged, as `HonestOutsideGaps` shows).

**markers_live.** Once HEAD rests and no process comes or goes, `last_commit` and
`phase_b_commit` reach HEAD, unless all languages crashed as often as the scheduler
retries. A partial crash does not hold the marker back (#712).

**pipeline.** When nothing is on its way, every file none of whose events was dropped
is indexed as it is on disk. Edges into missing files exist only from files a job
rewrote and, because the daemon was killed, did not sweep. The chain always drains,
although the worker puts callers into the queue it consumes and the flush thread
blocks on a full channel.

**overlay.** Outside its gaps (section 4): an edge that `reindex_replace` preserves, for
a definition no save has touched, is the one a fresh analysis would give, although
the type it goes through may have changed; every live edge is true of the indexed
text, so that an answer of the editor becomes none for a reference that is gone,
whatever saves, expiries and partial reports came between question and report, and
no later save keeps one it has made wrong; a reference that had an edge and is still
there has one or is pending; and once the last save is committed and the run has
ended, the edges are those of a fresh index, the overlay is empty and nothing stays
pending.

**daemon.** A serving daemon holds the lock and the socket path is its own: no start,
replacement or shutdown of another takes either away (the socket is removed while
the lock is still held). The version check stops none but a stale daemon, also when
two clients found the same one. Without a crash a repository keeps its daemon, save
for four named exceptions. Every command ends and every daemon serves or is gone.

**query_cache, query_hook.** Both budgets of the cache hold through replacement,
refusal and eviction. A hit is what the query would compute now. `QueryServing`
implements `FreshAnswers`: no answer is older than its question, from the cache or
not. A late reply of the worker reaches nobody but the caller it was for, and every
query is answered although the worker waits for a sidecar that hangs while the
query holds the store lock.

**embed.** Two passes, or a pass and a gc, never write `embed.db` together, unless a
sidecar outlived a killed daemon. An acknowledged stop-embed leaves no pass of the
daemon running, unless one was on its way unregistered. A sentinel cancels the run
it was meant for, unless it came late or the command line wrote it. If daemon and
sidecar agree on the boundary of phase 1, everything is embedded in the end, whatever
crashed, hung or was cancelled once.

### Bounds

| module | bound | why it is enough |
|---|---|---|
| PhaseBScheduler | 2 run identities, debounce 2, ceiling 3, back-off 1 doubling to 3, cap 2 | two runs are what single flight can confuse; the ceiling lies past the debounce; the back-off reaches its cap |
| InitRebuild | 2 files, 2 versions | one file in a batch and one not; an edit between two inits |
| SemanticMarkers | 1 file with its own language, one more language, 2 versions, 2 commits | partial crashes need two languages; the races are between processes over one file. The invariants relate a file's own columns to the markers, and files do not touch each other's columns |
| IndexPipeline | 2 files, one importing the other, 3 versions of which one does not parse, raw queue 2, the other capacities 1, 2 HEADs, 3 acts of the environment | each hand-over is full with one event in it; save–delete–recreate is three acts. The invariants also held with 4 acts (11.4 million states) |
| LiveOverlay | three texts of the caller, two of the helper, 2 saves, 1 commit, one name the extractor leaves out | one save under way while the other is made, in the editor or outside; a run overtaken by a save; a scoped and a whole-file fold. `shadowed` takes three saves and `ahead` four: the proofs found them, and cover any number |
| DaemonLifecycle | 2 clients with the four commands that act on a daemon, 3 daemon slots (reused), 2 polls, 1 fault | two clients are what the restart lock and the second look are for; an old daemon, its replacement and one more |
| QueryServing, query_cache | 2 clients, an `ask` and another query, 2 entries and 2 bytes with an answer that takes them all and one that is larger, 3 questions, one write of each database, 1 respawn, 1 error | a hit, a stale entry and an eviction need three questions; one write between any two reads mixes an answer |
| QueryServing, query_hook | 2 `ask`s, queue of 2, 4 questions, 2 respawns | a queue full of requests nobody waits for, and a late reply across a respawn |
| EmbedReindex | 2 nodes in shells 1 and 2, 1 edit, 1 crash, hang, kill, stop or Ctrl-C, reconfigure or gc | one node for each phase; a second trouble multiplies the states by thirty |

No set is declared symmetric: the liveness runs would not allow it, and the others
do not need it. `IndexPipeline` and `LiveOverlay` stop when the environment has done
its bounded number of acts and all threads are idle, hence `CHECK_DEADLOCK FALSE`
there and nowhere else.

### Fairness

- `PhaseBScheduler`: the select loop polls on an interval; a run ends, because its
  sidecars have a watchdog and a panic unwinds through the finish guard; time passes,
  however often calls are made (strong fairness, since a call in progress disables
  `Elapse`).
- `SemanticMarkers`: a job or an init under way goes on. Background run and reconcile
  are strongly fair: their ticks recur and the mutex is released between jobs.
- `LiveOverlay`: the worker, the handler of a request and a run that is due go on, and
  a report that was sent arrives. The extension need not answer.
- `DaemonLifecycle`: each client goes on with its command, and the daemons' steps
  happen. Faults do not have to.
- `QueryServing`: the thread that serves queries goes on. The worker and the sidecar
  have no fairness: that a query is answered rests on the deadline alone.
- `EmbedReindex`: tick, reindex thread, control handler, sidecar (unless it hangs) and
  the foreground command go on, and somebody restarts a daemon that died.
  `LeftToWork` restricts `AllEmbedded` to behaviours in which the daemon is not paused
  for good.
- `IndexPipeline`: every thread of the chain loops with a timeout. The worker and
  the reconcile are strongly fair in taking the mutex: its other users come a bounded
  number of times and let go of it each time. Nothing of the environment is fair,
  restarts included, so a daemon that stays down refutes nothing.

## 4. What the runs found

Two runs end in a counterexample, each against a sentence of the repository.

- **init_force.** In staging mode the hash rows of a batch go to the production table
  and the nodes to a TEMP table. Kill `init --force` (or the first init after files
  appeared in a repository initialised empty) between a batch and the flush, and the
  hash rows are orphans; under a current stamp nothing notices, and the next init
  skips the files. `lib.rs:1818` says bulk mode is "Safe because `travsr init` is
  always re-runnable".
- **embed_threshold.** When the top shell holds more than `PHASE1_COVERAGE_FRACTION` of
  the nodes, `derive_phase1_threshold` finds no threshold. The tick then counts phase 1
  by shell 3 and asks for phase 1 as long as a node of shell 3 or above has no vector;
  `spawn_background_reindex_phase1` refuses without a threshold, and phase 2 is never
  asked for. The comment at `lib.rs:4307` says that tick and partitioning "always
  agree on the Phase 1/2 boundary".

The passing runs hold outside gaps, and these are gaps of the code as well. They were
met while the models were made; each is exempted by name in a property or described
where the model leaves it out.

*Init and markers*

- Kill an init between its last batch and `rebuild_fts_from_map`: the token map has its
  rows, the search table has not, and the counts that `backfill_fts_if_needed`
  compares agree (`store:8645`).
- Kill a rebuild between `purge_graph` and the deletion of `phase_b_commit`: `travsr
  status` prints "complete" over an empty graph, which the deletion is there to
  prevent (`lib.rs:1653`).
- A background Phase B clears `phase_b_dirty` over a file that was reindexed while it
  ran. Init compares a counter for this reason (`tests/semantic_marker.rs:300`); the
  daemon's run does not.
- A background run whose results could not be written advances the marker, clears the
  flag and leaves no warning; the comment at `lib.rs:3484` tells of the same symptom
  for the case it was added for.

*Pipeline*

- A file that appears after the file that imports it gets no import edge until the
  importer changes, although RFC-027 (line 65) asks that a full and an incremental
  reindex "must produce identical graphs".
- An event that the full indexer queue sheds is to be covered by the HEAD reconcile
  (`lib.rs:15615`, `16027`); but any other save stamps `last_commit` with the live HEAD
  (`lib.rs:6305`), after which the reconcile sees no drift.

*Live overlay* (the names are those of `Gaps` in `LiveOverlay`)

- `missed`: `file_matches_index` and the reindex read the file separately; a save in
  between is folded in without lane, pending rows and stash (`lib.rs:16150`). `commit`:
  the hook's reindex never has them.
- `cleared`: `replace_ref_resolution_states` clears the rows of the whole file, while a
  scoped save records only those of the changed region again, and no noise; a pending
  reference of a preserved definition, or one the extractor leaves out, is dropped
  without a row.
- `shadowed`: a fold that detects no reference leaves the rows as they are; an edge it
  drops has then no row but an old one that says resolved.
- `wholesale`: a file that is derived as a whole loses references whose names the
  extractor leaves out; only a scoped save captures their occurrences.
- `stash`: `process_saved_file` lets go of the store before it puts its stash in. Two
  saves can leave the older stash, and the folds of `missed` and `commit` leave the
  previous one; a report is then held against a region that is gone, and a reference
  the text no longer has can become a live edge, until the next run.
- `reworded`: name and line are all a report is matched on; a reference that means
  something else by now is accepted. I0 likewise keeps an edited definition's edge
  while its name still occurs in the body. `ahead`: an answer may be about a text on
  disk that no fold has indexed yet; the edge waits for a text that may never be
  indexed, if the next save takes the edit back.
- `blank`: a fold without references, or without the lane, leaves rows of references
  that are gone; the reconcile after Phase B clears only rows with a site.
- `unlinked`: a definition whose edge to what it depends on is missing is preserved
  when that changes.

*Daemon life cycle*

- `probe`: `daemon_lock_held` takes the lock it asks about, so a second prober or a
  daemon that starts in that moment is misled. `expired`: a version swap waits 10 s
  (`daemon_client.rs:194`) for a daemon whose drain and embed termination may take 40 s;
  the new daemon then loses the lock, the old one leaves, and none is left, although
  "a stale-but-live daemon beats none" (`daemon_client.rs:262`). `unanswered`: a second
  Status without an answer does not stop the replacement being replaced.

*Embedding*

- `unregistered`: stop-embed reads PID 0 while a pass is past its pause check and not
  registered; it reports that nothing was running. `late`: a cancel sentinel written
  after its run has ended waits for the next one. `nudge`: one written by Ctrl-C or by
  a reconfigure lies until a run takes it, and counts as progress for the watchdog
  of a sidecar that hangs. `uncounted`: an unchanged number of tombstones is taken for
  an unchanged log. `orphan`: a killed daemon frees `embed.lock` while its sidecar goes
  on. A reconfigure killed between stop and resume leaves the daemon paused.

## 5. The proofs

TLC's results are about the instances above. Every safety property of a passing run
is also a theorem, for every value of the constants that satisfies the module's
`ASSUME`: any number of files, clients, daemons, commits, kills. A module of proofs
states its inductive invariants, one named conjunct per idea, has a lemma per action
or process and ends each part with its theorems. `TypeCorrect` is one in every module.

**PhaseBSchedulerProofs.** `TypeCorrect`, `SingleFlightHolds`, `CrashBudgetHolds` and
`MarksReachARun`, for every debounce, ceiling, back-off and set of run identities.
The inductive invariant `Inv` adds three facts. `SlotHeld`: a task that has not
released the slot has the flag up; `SingleFlight` alone says nothing about the flag a
claim looks at. `PartialCounted`: a run about to set the back-off was counted, so
that `Delay` gets a natural number. `CrashRoom`: the failure count leaves room for
what is under way; a tick past the cap and a run that may yet crash together need
two, which is why the bound is `MaxFailures + 1`.

**InitRebuildProofs.** `TypeCorrect` for every start and every init. `HashVouchesHolds`,
`InitHealsHolds` and `RebuildCompleteHolds`, for any number of edits, inits, kills and
daemon reindexes, when no init is forced and no start is the "empty" one
(`Unforced`, which is also the setting of run `init_rebuild`); with either,
`InitHeals` is what run `init_force` violates. `HashVouches` is not inductive: before
the stamp is current it says nothing, and staged batches put hash rows ahead of
nodes. The invariant therefore follows the rebuild through its phases: `Settled`
(current stamp: tables agree, the graph is not empty, so nobody stages), `Emptied`
(purged), `Staged` (hash rows are exactly the staged rows), `Flushed` (every file
agrees). For the search rows there is `Search`: before the stamp is current, this init
wrote every hash row there is, and still owes its search row.

**SemanticMarkersProofs.** `TypeCorrect`; `MarkerIsAnalysed`, that a background run never
stamps a commit newer than the tree it read; `CompleteIsHonest`, that "complete" is
true of every file outside the gaps of section 2, given `~StoreMayFail` as in the run
(a failed store is the last gap of *Init and markers* in section 4). A file behind
its own calls (`Behind`) must be kept from looking complete by somebody at every
moment, and `Accounted` says by whom: the flag, a warning, an init that is to write
it, or no pass has ended. What makes that inductive is `Contents` (what a pass read is
no older than what was parsed, unless the file changed under it) and `Counter`
(`phase_b_dirty_seq` shows an init every change it slept through that was flagged).
The attempt also showed that `HonestOutsideGaps` can be said without exempting the
files an init has yet to write, and now it is.

**IndexPipelineProofs.** `NoOrphanEdgesHolds`, `TypeCorrect` and `FreshWhenAtRest`, for every
set of files and imports and all capacities. Only four actions touch the graph:
deletion takes the edges of both directions, a replacement records the file as
unswept, the sweep removes what it forgives, and a replacement never takes nodes
away, because the content it read exists. `FreshAtRest` speaks of the end only.
`Owed` speaks of every moment: a file that is not `missed` and exists has an Upsert
somewhere in the chain with no Remove behind it, or a job has its present text in
hand, or the index has it; one that is gone has an event on its way, or the index
has nothing of it. The order of events of one file through all five hand-overs is what the
proof is about; it needs that the debounce table has one event per file (`Shape`).

**LiveOverlayProofs.** `TypeCorrect`, `PreservedEdgesAreTrue`, `LiveEdgesAreTrue` and
`NoReferenceIsLost`, for any number of saves and commits, any of the bodies and any
names that are noise. Two strengthenings carry it. `CommittedWhole`: until the caller is
edited a save keeps all of its compiler edges or none; `CommittedTrue` alone would let
a save keep an edge without the one it goes through. `StashCurrent`: the stash that is
in, or the one on its way that replaces it, names occurrences of the indexed text.
The proof failed at first, for good reasons: with two saves TLC had not met a dropped
edge behind an old row (`shadowed`), noise lost by a second save (`cleared`), or an
answer whose text came and went between two folds (`ahead`). TLC finds each with
three or four saves. They are gaps of the code and have names now.

**DaemonLifecycleProofs.** `TypeCorrect`, `AlwaysReachable`, `SwapSafe` and `KeepsDaemon`, for
any number of clients and at least one daemon. All rest on `Lock`: a live daemon, from
the moment it has `daemon.lock` to the removal of its socket, holds it, so there is
one, and the socket path is its own. For the replacement there is `OneSwap`: as long
as only version checks stop daemons and the restart lock's weak points (`expired`,
`unanswered`) were not met, the holder of the lock is the only one to stop a daemon,
and the stale one it looked at is still there. That a repository keeps its daemon needs
a successor at every moment: `StopHasHeir`, `DaemonAhead` and `StaleSeen` (while a stale
daemon is left alone, everybody who checks versions has the check ahead).

**QueryServingProofs.** `TypeCorrect`, `CacheKeepsBudgets`, `HitsAreCurrent`,
`SeedsReachTheirQuestion` and `ServesFreshAnswers`, which is the refinement of
`FreshAnswers`: `RefinesInit` and `RefinesStep` map each step to one of the abstract
specification or to a stutter. They hold for every size of cache and queue and any
number of clients, writes and respawns. The core is `Entry`: what a cache entry was
computed from is no older than the tokens of its key, which were read no earlier than
its question was put (`KeyRead`, `Reads`). `Numbered` ties the number of a request to the
one query that waits. `ValuesAssumption` says that "no value" and "failed" are no keys
and no answers. The bytes of the cache are a sum over a sequence; `BytesIsSum`, `RemoveAtIs`,
`TrimIs` and `PutIs` say what each operation of the cache does to it.

**EmbedReindexProofs.** `TypeCorrect`, `AtMostOneWriter`, `StopEmbedStops` and
`CancelsReachTheirRun`, for any number of nodes, edits and faults. `Locked` says what each
run holds where it is, so that two sidecars mean two holders of one flock, or an
orphan. `Stopping`: after a stop has read the PID nothing is left but the one sidecar
it found; `paused` keeps the next one from starting. `Cancels`: a run of the command line
has no sentinel lying there while it works. The attempt found a slip in the model: the
reply to any control request let a waiting command line go on, whoever it was for.
`StopReply` now does so only for its own reconfigure.

**Left to TLC.** The liveness properties (`NoStarvation`, `CatchUp`, `Drains`, `Converges`,
`ComesToRest`, `EveryQueryAnswered`, `AllEmbedded`) and everything about fairness and
`ENABLED`, which the prover does not support. Induction theorems that take an operator
cannot be used here. The one induction the proofs need, over the length of a cache,
goes by the least element of a set of numbers (`LeastNat`, `InductiveSet`). No module
declares a `RECURSIVE` operator.

## 6. What is not modelled

- Tree-sitter extraction, SCIP/LSIF parsing, ranking and formatting: functions of
  data without shared state, far too large for a model of this kind. Their outcome
  (parsed or not, crashed or not) is an input of the models.
- Operating system and SQLite: a transaction happens or does not. Power loss with a
  relaxed `synchronous` setting is not considered.
- In the pipeline: ignore files and unwatching (files here are indexable and tracked),
  the clock of the debounce table (any part of it may be flushed at any time), the
  graceful shutdown drain (a kill loses more), the ghost-prune breaker, FFI and
  workspace markers; the live overlay is `LiveOverlay`, apart from the chain.
- In init: progress output, the registry row, plugin bootstrapping.
- The components `PROJECT.json` lists as not modelled, with the reasons there.

## 7. Plan

The order is that of importance: first what decides whether the graph is right, then
what is served from it, then the rest.

1. *(done)* `PhaseBScheduler`, `InitRebuild`, `SemanticMarkers`, `IndexPipeline` with
   their runs; the theorems of section 5.
2. *(done)* `DaemonLifecycle`. Left: connection permits, and tasks whose flag a panic
   leaves set (`head_reconcile_running`).
3. *(done)* `FreshAnswers` and `QueryServing`, with the KNN hook and the refinement.
4. *(done)* `LiveOverlay`. Left: the diagnostics sessions of `EditorPlane`, dependents in
   other files, the precision gate.
5. *(done)* `EmbedReindex`. Left: deferred tombstones, switching models.
6. Small modules: the store's mass-delete breaker, the registry, the crash counting of
   the plugin host; k-core and knapsack against reference definitions.
7. Composition: the scheduler inside `SemanticMarkers` (which has its cap and its
   single flight only), by refinement of an abstract "runs one at a time, eventually".
8. *(done)* The theorems of section 5: every invariant and action property of a passing
   run, and the refinement of `FreshAnswers`. Left: the refinement of item 7, step by
   step; the small modules of item 6 as they come.
