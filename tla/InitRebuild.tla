------------------------------ MODULE InitRebuild ------------------------------
(***************************************************************************)
(* What `travsr init' leaves on disk when it is killed: the Phase A part   *)
(* of init_repo_with_progress (crates/travsr-daemon/src/lib.rs) with the   *)
(* SQLite tables it writes (crates/travsr-store/src/lib.rs).               *)
(*                                                                         *)
(* Every SQLite transaction of init is one step, so the process may die    *)
(* between any two of them.  Tables survive a kill; the connection's TEMP  *)
(* tables (the node staging tables and the list of nodes whose search rows *)
(* are owed) do not.  The running daemon reindexes single files and runs   *)
(* background Phase B between the steps of init, in its own connection.    *)
(*                                                                         *)
(* A file's content is a version number and stands for its SHA-256; the    *)
(* nodes of a file are the version they were parsed from and the signature *)
(* format of their ids.  Version 0 is "no rows".                           *)
(***************************************************************************)
EXTENDS Naturals, FiniteSets

CONSTANTS
    Files,          \* the indexable files, all present on disk
    MaxVersion,     \* bound on the edits of one file
    Forces,         \* the values of `--force' that inits are run with
    Starts          \* the databases the first init may find

ASSUME InitRebuildAssumption ==
    /\ IsFiniteSet(Files) /\ Files # {}
    /\ MaxVersion \in Nat \ {0}
    /\ Forces \subseteq BOOLEAN
    /\ Starts \subseteq {"fresh", "old", "empty"}

VARIABLES
    disk,           \* content of each file in the working tree
    graph,          \* `nodes': version and signature format of a file's nodes
    hash,           \* `files': the content hash recorded for a file
    map,            \* `nodes_fts_map': version whose search tokens are mapped
    fts,            \* `nodes_fts': version whose search rows exist
    stamp,          \* meta signature_format_version
    marker,         \* meta phase_b_commit is present and equals last_commit
    dirty,          \* meta phase_b_dirty
    known,          \* meta last_commit is present
    ini             \* the init process and its connection

vars == <<disk, graph, hash, map, fts, stamp, marker, dirty, known, ini>>

tables == <<graph, hash, map, fts>>
metas == <<stamp, marker, dirty, known>>

Versions == 0..MaxVersion
Formats == {"none", "old", "current"}
NoNodes == [ver |-> 0, fmt |-> "none"]
Current(v) == [ver |-> v, fmt |-> "current"]
NoRows == [f \in Files |-> 0]

\* Steps of init_repo_with_progress, in order.
Steps == {"off", "purge", "clear", "unmark", "walk", "index", "flush",
          "search", "stamp", "trace"}

\* The init process: its next step, whether it purges, and what lives in its
\* connection: the parsed files not yet written, the staging table, the nodes
\* whose search rows are owed, and whether this init marked dropped calls.
Processes == [pc : Steps, purges : BOOLEAN, parsed : [Files -> Versions],
              staging : BOOLEAN, staged : [Files -> Versions],
              owed : SUBSET Files, marked : BOOLEAN]

Off == [pc |-> "off", purges |-> FALSE, parsed |-> NoRows, staging |-> FALSE,
        staged |-> NoRows, owed |-> {}, marked |-> FALSE]

\* The format stamp of each starting database.
FirstStamp == [fresh |-> "none", old |-> "old", empty |-> "current"]

\* A database nobody indexed, one an older binary wrote completely, or one the
\* current binary wrote when the repository had no indexable file yet.
Init ==
    /\ \E start \in Starts :
        LET old == start = "old"
        IN  /\ disk = [f \in Files |-> 1]
            /\ graph = [f \in Files |-> IF old THEN [ver |-> 1, fmt |-> "old"] ELSE NoNodes]
            /\ hash = [f \in Files |-> IF old THEN 1 ELSE 0]
            /\ map = hash
            /\ fts = hash
            /\ stamp = FirstStamp[start]
            /\ marker = (start # "fresh")
            /\ known = (start # "fresh")
    /\ dirty = FALSE
    /\ ini = Off

-----------------------------------------------------------------------------
\* Mutated forms of definitions below: slips the properties must catch.

\* The format stamp goes in right after the walk, before the rebuild landed.
BeginIndexStamps ==
    /\ ini.pc = "walk"
    /\ stamp' = "current"
    /\ ini' = [ini EXCEPT !.pc = "index",
                          !.parsed = [f \in Files |-> IF hash[f] = disk[f] THEN 0 ELSE disk[f]],
                          !.staging = \A f \in Files : graph[f].ver = 0]
    /\ UNCHANGED <<disk, tables, marker, dirty, known>>

\* The purge keeps the hash rows, so the delta skips every unchanged file.
ClearHashesSkipped ==
    /\ ini.pc = "clear"
    /\ ini' = [ini EXCEPT !.pc = "unmark"]
    /\ UNCHANGED <<disk, tables, metas>>

\* Every row of the staging table is promoted, the missing ones too.
FlushUnchecked ==
    /\ ini.pc = "flush"
    /\ graph' = [f \in Files |-> Current(ini.staged[f])]
    /\ ini' = [ini EXCEPT !.pc = "search", !.staging = FALSE, !.staged = NoRows]
    /\ UNCHANGED <<disk, hash, map, fts, metas>>

-----------------------------------------------------------------------------
\* The user edits a file.
Edit(f) ==
    /\ disk[f] < MaxVersion
    /\ disk' = [disk EXCEPT ![f] = @ + 1]
    /\ UNCHANGED <<tables, metas, ini>>

\* backfill_fts_if_needed, run when a store is opened: the gate compares the
\* row counts of `nodes' and `nodes_fts_map'.
Unmapped ==
    IF Cardinality({f \in Files : graph[f].ver # 0}) = Cardinality({f \in Files : map[f] # 0})
    THEN {}
    ELSE {f \in Files : graph[f].ver # 0 /\ map[f] = 0}

Backfill(rows) == [f \in Files |-> IF f \in Unmapped THEN graph[f].ver ELSE rows[f]]

\* node_ids_match_current_format: the id of one stored node is derived again.
\* Which node the query returns is not specified.
IdsCurrent(sample) == graph[sample].ver = 0 \/ graph[sample].fmt = "current"

NoGraph == \A f \in Files : graph[f].ver = 0

\* nodes_before > 0, or file_hash_count() > 0
IndexedBefore == ~NoGraph \/ \E f \in Files : hash[f] # 0

\* init takes init.lock, opens the store and decides whether to rebuild.
InitStart(forced, sample) ==
    /\ ini.pc = "off"
    /\ NoGraph \/ graph[sample].ver # 0
    /\ LET skew == IndexedBefore /\ (stamp # "current" \/ ~IdsCurrent(sample))
       IN  ini' = [Off EXCEPT !.pc = IF forced \/ skew THEN "purge" ELSE "walk",
                              !.purges = forced \/ skew]
    /\ map' = Backfill(map)
    /\ fts' = Backfill(fts)
    /\ UNCHANGED <<disk, graph, hash, metas>>

\* purge_graph: one transaction over the node, edge and search tables.
PurgeGraph ==
    /\ ini.pc = "purge"
    /\ graph' = [f \in Files |-> NoNodes]
    /\ map' = NoRows
    /\ fts' = NoRows
    /\ ini' = [ini EXCEPT !.pc = "clear"]
    /\ UNCHANGED <<disk, hash, metas>>

\* clear_file_hashes
ClearHashes ==
    /\ ini.pc = "clear"
    /\ hash' = NoRows
    /\ ini' = [ini EXCEPT !.pc = "unmark"]
    /\ UNCHANGED <<disk, graph, map, fts, metas>>

\* delete_meta("phase_b_commit")
DeleteMarker ==
    /\ ini.pc = "unmark"
    /\ marker' = FALSE
    /\ ini' = [ini EXCEPT !.pc = "walk"]
    /\ UNCHANGED <<disk, tables, stamp, dirty, known>>

\* The walk, begin_staging_tables on an empty graph, and the parse workers:
\* the stored hashes are loaded once and unchanged files are skipped.
BeginIndex ==
    /\ ini.pc = "walk"
    /\ ini' = [ini EXCEPT !.pc = "index",
                          !.parsed = [f \in Files |-> IF hash[f] = disk[f] THEN 0 ELSE disk[f]],
                          !.staging = NoGraph]
    /\ UNCHANGED <<disk, tables, metas>>

Unwritten == {f \in Files : ini.parsed[f] # 0}

\* Before the first batch: phase_b_dirty, when Phase B ever ran.
MarkDropped ==
    /\ ini.pc = "index" /\ Unwritten # {} /\ ~ini.marked
    /\ dirty' = (dirty \/ marker)
    /\ ini' = [ini EXCEPT !.marked = TRUE]
    /\ UNCHANGED <<disk, tables, stamp, marker, known>>

\* `rows' with the files of a batch at the version this init parsed.
Written(rows, batch) == [f \in Files |-> IF f \in batch THEN ini.parsed[f] ELSE rows[f]]

\* write_file_graphs_batch, one transaction.  The hash and token-map rows go
\* to the production tables on both paths; the nodes only when not staging,
\* where the old search rows are retracted too.
WriteBatch(batch) ==
    /\ ini.pc = "index" /\ ini.marked
    /\ batch # {} /\ batch \subseteq Unwritten
    /\ hash' = Written(hash, batch)
    /\ map' = Written(map, batch)
    /\ graph' = IF ini.staging THEN graph
                ELSE [f \in Files |-> IF f \in batch THEN Current(ini.parsed[f]) ELSE graph[f]]
    /\ fts' = IF ini.staging THEN fts
              ELSE [f \in Files |-> IF f \in batch THEN 0 ELSE fts[f]]
    /\ ini' = [ini EXCEPT !.parsed = [f \in Files |-> IF f \in batch THEN 0 ELSE @[f]],
                          !.staged = IF ini.staging THEN Written(@, batch) ELSE @,
                          !.owed = @ \cup batch]
    /\ UNCHANGED <<disk, metas>>

\* The workers and the writer are done.
EndIndex ==
    /\ ini.pc = "index" /\ Unwritten = {}
    /\ ini' = [ini EXCEPT !.pc = "flush"]
    /\ UNCHANGED <<disk, tables, metas>>

\* flush_staging_to_production: one transaction, then the TEMP tables are gone.
\* Over rows that another process wrote meanwhile the staged ones win.
Flush ==
    /\ ini.pc = "flush"
    /\ graph' = [f \in Files |-> IF ini.staged[f] # 0 THEN Current(ini.staged[f]) ELSE graph[f]]
    /\ ini' = [ini EXCEPT !.pc = "search", !.staging = FALSE, !.staged = NoRows]
    /\ UNCHANGED <<disk, hash, map, fts, metas>>

\* rebuild_fts_from_map: search rows for the nodes this init wrote, no others.
RebuildSearch ==
    /\ ini.pc = "search"
    /\ fts' = [f \in Files |-> IF f \in ini.owed THEN map[f] ELSE fts[f]]
    /\ ini' = [ini EXCEPT !.pc = "stamp", !.owed = {}]
    /\ UNCHANGED <<disk, graph, hash, map, metas>>

\* set_signature_format_version, after everything above has landed.
StampFormat ==
    /\ ini.pc = "stamp"
    /\ stamp' = "current"
    /\ ini' = [ini EXCEPT !.pc = "trace"]
    /\ UNCHANGED <<disk, tables, marker, dirty, known>>

\* Phase B inline and the closing stamps; the module SemanticMarkers has them
\* step by step.
Trace ==
    /\ ini.pc = "trace"
    /\ marker' = TRUE
    /\ dirty' = FALSE
    /\ known' = TRUE
    /\ ini' = Off
    /\ UNCHANGED <<disk, tables, stamp>>

\* Ctrl-C, SIGTERM, or a failed step: the connection goes, the tables stay.
Kill ==
    /\ ini.pc # "off"
    /\ ini' = Off
    /\ UNCHANGED <<disk, tables, metas>>

-----------------------------------------------------------------------------
\* The daemon reindexes one file: reindex_files with its format guard and hash
\* delta, then reindex_replace, which writes every table in one transaction.
Reindex(f) ==
    /\ stamp = "current"
    /\ hash[f] # disk[f]
    /\ graph' = [graph EXCEPT ![f] = Current(disk[f])]
    /\ hash' = [hash EXCEPT ![f] = disk[f]]
    /\ map' = [map EXCEPT ![f] = disk[f]]
    /\ fts' = [fts EXCEPT ![f] = disk[f]]
    /\ dirty' = TRUE
    /\ known' = TRUE
    /\ UNCHANGED <<disk, stamp, marker, ini>>

\* The daemon's background Phase B: armed while the markers differ, and not
\* while an init holds init.lock.
BackgroundPhaseB ==
    /\ known /\ ~marker
    /\ ini.pc = "off"
    /\ marker' = TRUE
    /\ dirty' = FALSE
    /\ UNCHANGED <<disk, tables, stamp, known, ini>>

InitStep ==
    \/ \E forced \in Forces, sample \in Files : InitStart(forced, sample)
    \/ PurgeGraph
    \/ ClearHashes
    \/ DeleteMarker
    \/ BeginIndex
    \/ MarkDropped
    \/ \E batch \in SUBSET Files : WriteBatch(batch)
    \/ EndIndex
    \/ Flush
    \/ RebuildSearch
    \/ StampFormat
    \/ Trace

Next ==
    \/ InitStep
    \/ Kill
    \/ BackgroundPhaseB
    \/ \E f \in Files : Edit(f) \/ Reindex(f)

Spec == Init /\ [][Next]_vars

-----------------------------------------------------------------------------
Entries == {NoNodes} \cup [ver : 1..MaxVersion, fmt : {"old", "current"}]

\* Every table row, meta key and the init process keep their types.
TypeOK ==
    /\ disk \in [Files -> 1..MaxVersion]
    /\ graph \in [Files -> Entries]
    /\ hash \in [Files -> Versions]
    /\ map \in [Files -> Versions]
    /\ fts \in [Files -> Versions]
    /\ stamp \in Formats
    /\ marker \in BOOLEAN /\ dirty \in BOOLEAN /\ known \in BOOLEAN
    /\ ini \in Processes

\* Under a current format stamp a hash row vouches for the file's nodes: they
\* exist, in the current format, parsed from the content the row records.  The
\* hash delta of init and of reindex_files skips a file on the word of that
\* row alone, so a row without its nodes loses the file for good.
HashVouches ==
    stamp = "current" =>
        \A f \in Files : hash[f] # 0 => graph[f] = Current(hash[f])

\* A rebuild that reaches its stamp has re-created every file: nodes in the
\* current format, the hash row and the search rows all agree.
RebuildComplete ==
    ini.pc = "stamp" /\ ini.purges =>
        \A f \in Files : /\ hash[f] # 0
                         /\ graph[f] = Current(hash[f])
                         /\ fts[f] = hash[f]

\* `travsr init' can always be run again (the comment on bulk mode says so, and
\* that on begin_staging_tables that a crash leaves the production tables
\* untouched): an init that completes leaves no file without its nodes.
InitHeals ==
    ini.pc = "trace" =>
        \A f \in Files : hash[f] # 0 => graph[f] = Current(hash[f])

-----------------------------------------------------------------------------
\* The inductive strengthening of HashVouches when no init is forced.  Once the
\* stamp is current the tables agree, some node exists, and no later init
\* purges or stages.  Before that the hash rows run ahead of the nodes by
\* exactly the staging table, and only from an emptied database.
Agrees(f) == graph[f] = IF hash[f] = 0 THEN NoNodes ELSE Current(hash[f])

Settled ==
    stamp = "current" =>
        /\ \A f \in Files : Agrees(f)
        /\ ~NoGraph
        /\ ini.pc \notin {"purge", "clear", "unmark"}
        /\ ~ini.staging /\ ini.staged = NoRows

Emptied ==
    stamp # "current" =>
        /\ ini.pc # "trace"
        /\ ini.pc \in {"clear", "unmark", "walk"} => NoGraph
        /\ ini.pc \in {"unmark", "walk"} => hash = NoRows
        /\ ini.pc \in {"purge", "clear", "unmark", "walk"} => ini.staged = NoRows

InStaging(f) ==
    IF ini.parsed[f] = 0 THEN hash[f] # 0 /\ ini.staged[f] = hash[f]
                         ELSE hash[f] = 0 /\ ini.staged[f] = 0

Staged ==
    stamp # "current" /\ ini.pc \in {"index", "flush"} =>
        /\ ini.staging
        /\ \A f \in Files : InStaging(f)
        /\ ini.pc = "flush" => Unwritten = {}

Flushed ==
    stamp # "current" /\ ini.pc \in {"search", "stamp"} =>
        /\ \A f \in Files : hash[f] # 0 /\ graph[f] = Current(hash[f])
        /\ ~ini.staging /\ ini.staged = NoRows

Inv == TypeOK /\ Settled /\ Emptied /\ Staged /\ Flushed

=============================================================================
