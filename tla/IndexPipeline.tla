----------------------------- MODULE IndexPipeline -----------------------------
(***************************************************************************)
(* How a change of the working tree reaches the graph.  Five bounded or    *)
(* blocking hand-overs lie between the two:                                *)
(*                                                                         *)
(*   notify callback --raw--> event thread --pending--> flush thread       *)
(*     --chan--> select loop --queue--> indexer worker --> store           *)
(*                                                                         *)
(* `raw', `pending' and `queue' shed what does not fit; `chan' blocks its  *)
(* producer.  The worker feeds `queue' itself (Tier-0: the callers of what *)
(* it deleted).  Besides the worker, an editor's target request and the    *)
(* HEAD reconcile run the same reindex job; all three hold the daemon's    *)
(* store mutex while they do.                                              *)
(*                                                                         *)
(* A file's content is a version number, 0 when it is absent.  Of the      *)
(* graph the module keeps the version each file's nodes were parsed from   *)
(* and the import edges between files, which end in file nodes.  Files are *)
(* indexable, not ignored and tracked by git.  HEAD moves here are those   *)
(* that no installed hook reports (reset, rebase); module SemanticMarkers  *)
(* has the hooks.                                                          *)
(***************************************************************************)
EXTENDS Naturals, Sequences, FiniteSets

CONSTANTS
    Files,          \* the files of the repository
    Imports,        \* <<f, g>>: every version of f has an import that names g
    MaxVersion,     \* bound on the versions of one file
    Unparsable,     \* the versions with a syntax error
    RawCap,         \* watcher.rs RAW_EVENT_CAP
    PendingCap,     \* watcher.rs MAX_PENDING
    ChanCap,        \* the select loop's channel (256)
    QueueCap,       \* INDEX_QUEUE_CAP
    MaxHeads,       \* bound on the positions of HEAD
    MaxChanges,     \* bound on what the environment does
    Disturbances    \* which of "move", "editor", "kill" and "fail" it does

ASSUME IndexPipelineAssumption ==
    /\ IsFiniteSet(Files) /\ Files # {}
    /\ Imports \subseteq Files \X Files
    /\ MaxVersion \in Nat \ {0}
    /\ Unparsable \subseteq 1..MaxVersion
    /\ \A n \in {RawCap, PendingCap, ChanCap, QueueCap, MaxHeads} : n \in Nat \ {0}
    /\ MaxChanges \in Nat
    /\ Disturbances \subseteq {"move", "editor", "kill", "fail"}

VARIABLES
    disk,       \* content of each file
    old,        \* files whose mtime predates the daemon's start
    head,       \* the commit HEAD points at
    up,         \* the daemon is running
    raw,        \* events between the notify callback and the event thread
    pending,    \* the debounce table: at most one event per file
    flush,      \* events the flush thread took and has not sent
    chan,       \* events between the flush thread and the select loop
    queue,      \* events between the select loop and the worker
    held,       \* the event the worker is handling, as a set
    rec,        \* the HEAD the reconcile saw drift to; 0: not running
    job,        \* the reindex job that holds the store mutex
    indexed,    \* version each file's hash row names; 0: no row
    edges,      \* import edges
    last,       \* meta last_commit
    missed,     \* history: files that no job read since an event of theirs was dropped
    unswept,    \* history: files rewritten since they were last swept
    changes     \* what the environment has done so far

tree == <<disk, old, head>>
pipes == <<raw, pending, flush, chan, queue>>
graph == <<indexed, edges>>
vars == <<tree, up, pipes, held, rec, job, graph, last, missed, unswept, changes>>

Versions == 0..MaxVersion
Heads == 1..MaxHeads
Kinds == {"Upsert", "Remove"}
Events == [kind : Kinds, f : Files]
Upsert(f) == [kind |-> "Upsert", f |-> f]
Removal(f) == [kind |-> "Remove", f |-> f]

\* A reindex job: who runs it, the files it has yet to read, the one it read and
\* what it read, the ones it rewrote, whether it changed any, the callers it
\* collected, and (reconcile) the HEAD it started for.
Jobs == [pc : {"idle", "files", "write", "sweep"}, by : {"worker", "editor", "reconcile"},
         todo : SUBSET Files, f : Files, snap : Versions, written : SUBSET Files,
         changed : BOOLEAN, callers : SUBSET Files, sha : 0..MaxHeads]
NewJob(by, todo, sha) ==
    [pc |-> "files", by |-> by, todo |-> todo, f |-> CHOOSE f \in Files : TRUE,
     snap |-> 0, written |-> {}, changed |-> FALSE, callers |-> {}, sha |-> sha]
NoJob == [NewJob("worker", {}, 0) EXCEPT !.pc = "idle"]

\* The import edges of a full index: both ends have nodes.
FullEdges(content) == {e \in Imports : content[e[1]] # 0 /\ content[e[2]] # 0}

\* `travsr init' has indexed the tree and the daemon has just started.
Init ==
    /\ disk \in [Files -> {0, 1} \ Unparsable]
    /\ old = {f \in Files : disk[f] # 0} /\ head = 1 /\ up = TRUE
    /\ raw = <<>> /\ pending = {} /\ flush = {} /\ chan = <<>> /\ queue = <<>>
    /\ held = {} /\ rec = 0 /\ job = NoJob
    /\ indexed = disk /\ edges = FullEdges(disk) /\ last = 1
    /\ missed = {} /\ unswept = {} /\ changes = 0

----------------------------------------------------------------------------
(* The environment: the tree, HEAD, kills of the daemon and its restart.   *)

\* The notify callback: try_send, never send.
Notify(e) ==
    \/ up /\ Len(raw) < RawCap /\ raw' = Append(raw, e) /\ UNCHANGED missed
    \/ up /\ Len(raw) = RawCap /\ missed' = missed \cup {e.f} /\ UNCHANGED raw
    \/ ~up /\ missed' = missed \cup {e.f} /\ UNCHANGED raw

Change ==
    /\ changes < MaxChanges
    /\ changes' = changes + 1

Write(f, v) ==
    /\ Change /\ v # disk[f]
    /\ disk' = [disk EXCEPT ![f] = v] /\ old' = old \ {f}
    /\ Notify(Upsert(f))
    /\ UNCHANGED <<head, up, pending, flush, chan, queue, held, rec, job, graph, last,
                   unswept>>

\* A rename or an extraction that keeps an mtime older than the daemon.
MoveIn(f, v) ==
    /\ Change /\ "move" \in Disturbances /\ v # disk[f]
    /\ disk' = [disk EXCEPT ![f] = v] /\ old' = old \cup {f}
    /\ Notify(Upsert(f))
    /\ UNCHANGED <<head, up, pending, flush, chan, queue, held, rec, job, graph, last,
                   unswept>>

Delete(f) ==
    /\ Change /\ disk[f] # 0
    /\ disk' = [disk EXCEPT ![f] = 0] /\ old' = old \ {f}
    /\ Notify(Removal(f))
    /\ UNCHANGED <<head, up, pending, flush, chan, queue, held, rec, job, graph, last,
                   unswept>>

MoveHead ==
    /\ Change /\ head < MaxHeads
    /\ head' = head + 1
    /\ UNCHANGED <<disk, old, up, pipes, held, rec, job, graph, last, missed, unswept>>

\* The daemon is killed: everything but the database is gone, and with it the
\* events of the changes that are not indexed yet.
Kill ==
    /\ Change /\ "kill" \in Disturbances /\ up
    /\ up' = FALSE
    /\ raw' = <<>> /\ pending' = {} /\ flush' = {} /\ chan' = <<>> /\ queue' = <<>>
    /\ held' = {} /\ rec' = 0 /\ job' = NoJob
    /\ missed' = missed \cup {f \in Files : indexed[f] # disk[f]}
    /\ UNCHANGED <<tree, graph, last, unswept>>

Start ==
    /\ ~up
    /\ up' = TRUE
    /\ old' = {f \in Files : disk[f] # 0}
    /\ UNCHANGED <<disk, head, pipes, held, rec, job, graph, last, missed, unswept, changes>>

----------------------------------------------------------------------------
(* The watcher.                                                            *)

\* The replay guard drops an event of a file older than the daemon.
Replayed(e) == disk[e.f] # 0 /\ e.f \in old

\* should_skip_upsert: the file must be there.
Vanished(e) == e.kind = "Upsert" /\ disk[e.f] = 0

\* A slip in Coalesce: the kind that is in the table stays.
CoalesceKeepsKind(e) ==
    /\ IF \E p \in pending : p.f = e.f
       THEN UNCHANGED pending
       ELSE Cardinality(pending) < PendingCap /\ pending' = pending \cup {e}
    /\ UNCHANGED missed

\* A new event of a pending file replaces the one in the table, whatever the
\* kinds; a file that is not in the table needs room.
Coalesce(e) ==
    LET rest == {p \in pending : p.f # e.f}
    IN  \/ /\ rest # pending \/ Cardinality(pending) < PendingCap
           /\ pending' = rest \cup {e} /\ UNCHANGED missed
        \/ /\ rest = pending /\ Cardinality(pending) >= PendingCap
           /\ missed' = missed \cup {e.f} /\ UNCHANGED pending

EventThread ==
    /\ raw # <<>>
    /\ raw' = Tail(raw)
    /\ LET e == Head(raw) IN
       \/ Replayed(e) /\ missed' = missed \cup {e.f} /\ UNCHANGED pending
       \/ ~Replayed(e) /\ Vanished(e) /\ UNCHANGED <<pending, missed>>
       \/ ~Replayed(e) /\ ~Vanished(e) /\ Coalesce(e)
    /\ UNCHANGED <<tree, up, flush, chan, queue, held, rec, job, graph, last, unswept,
                   changes>>

\* The flush thread wakes up and takes the entries whose deadline has passed.
FlushTake ==
    /\ flush = {}
    /\ \E S \in SUBSET pending \ {{}} : flush' = S /\ pending' = pending \ S
    /\ UNCHANGED <<tree, up, raw, chan, queue, held, rec, job, graph, last, missed,
                   unswept, changes>>

\* blocking_send.
FlushSend ==
    /\ Len(chan) < ChanCap
    /\ \E e \in flush : flush' = flush \ {e} /\ chan' = Append(chan, e)
    /\ UNCHANGED <<tree, up, raw, pending, queue, held, rec, job, graph, last, missed,
                   unswept, changes>>

\* A slip in Forward: the queue is taken for an unbounded one.
ForwardUnbounded ==
    /\ chan # <<>>
    /\ chan' = Tail(chan) /\ queue' = Append(queue, Head(chan))
    /\ UNCHANGED <<tree, up, raw, pending, flush, held, rec, job, graph, last, missed,
                   unswept, changes>>

\* The select loop hands an event on to the worker, or sheds it.
Forward ==
    /\ chan # <<>>
    /\ chan' = Tail(chan)
    /\ \/ /\ Len(queue) < QueueCap
          /\ queue' = Append(queue, Head(chan)) /\ UNCHANGED missed
       \/ /\ Len(queue) >= QueueCap
          /\ missed' = missed \cup {Head(chan).f} /\ UNCHANGED queue
    /\ UNCHANGED <<tree, up, raw, pending, flush, held, rec, job, graph, last, unswept,
                   changes>>

----------------------------------------------------------------------------
(* The reindex job.                                                        *)

Smaller(m, n) == IF m < n THEN m ELSE n

\* A slip in EnqueueCallers: send, which waits for room, in place of try_send.
EnqueueCallersBlocking(q, callers) ==
    LET present == {f \in callers : disk[f] # 0}
        n == Cardinality(present)
    IN  {q \o [i \in 1..n |-> Upsert(s[i])] : s \in
            {s \in [1..n -> present] :
                /\ Len(q) + n <= QueueCap
                /\ \A i, j \in 1..n : s[i] = s[j] => i = j}}

\* enqueue_dirty_callers: the callers that are on disk, in any order, until the
\* queue is full.
EnqueueCallers(q, callers) ==
    LET present == {f \in callers : disk[f] # 0}
        n == Smaller(Cardinality(present), QueueCap - Len(q))
    IN  {q \o [i \in 1..n |-> Upsert(s[i])] : s \in
            {s \in [1..n -> present] : \A i, j \in 1..n : s[i] = s[j] => i = j}}

Callers(f) == {e[1] : e \in {e \in edges : e[2] = f /\ e[1] # f}}

\* A slip in Deleted: only the edges the file owns go.
DeletedOwnEdges(f) ==
    /\ indexed' = [indexed EXCEPT ![f] = 0]
    /\ edges' = {e \in edges : e[1] # f}
    /\ unswept' = unswept \ {f}

\* delete_file: nodes, hash row and the edges of both directions, at once.
Deleted(f) ==
    /\ indexed' = [indexed EXCEPT ![f] = 0]
    /\ edges' = {e \in edges : f \notin {e[1], e[2]}}
    /\ unswept' = unswept \ {f}

WorkerTake ==
    /\ queue # <<>> /\ held = {}
    /\ held' = {Head(queue)} /\ queue' = Tail(queue)
    /\ UNCHANGED <<tree, up, raw, pending, flush, chan, rec, job, graph, last, missed,
                   unswept, changes>>

\* handle_watch_event, Remove: the path is deleted whether or not it is back.
WorkerRemove ==
    /\ job.pc = "idle"
    /\ \E f \in Files :
       /\ held = {Removal(f)}
       /\ Deleted(f)
       /\ queue' \in EnqueueCallers(queue, Callers(f))
    /\ held' = {}
    /\ UNCHANGED <<tree, up, raw, pending, flush, chan, rec, job, last, missed, changes>>

\* delete_file fails: a warning, and the event is gone.
WorkerRemoveFails ==
    /\ Change /\ "fail" \in Disturbances /\ job.pc = "idle"
    /\ \E f \in Files : held = {Removal(f)} /\ missed' = missed \cup {f}
    /\ held' = {}
    /\ UNCHANGED <<tree, up, pipes, rec, job, graph, last, unswept>>

\* handle_watch_event, Upsert.
WorkerUpsert ==
    /\ job.pc = "idle"
    /\ \E f \in Files : held = {Upsert(f)} /\ job' = NewJob("worker", {f}, 0)
    /\ UNCHANGED <<tree, up, pipes, held, rec, graph, last, missed, unswept, changes>>

\* LiveResolutionTargets folds the save in before the watcher's debounce does.
EditorRequest(f) ==
    /\ Change /\ "editor" \in Disturbances /\ up /\ job.pc = "idle" /\ disk[f] # 0
    /\ job' = NewJob("editor", {f}, 0)
    /\ UNCHANGED <<tree, up, pipes, held, rec, graph, last, missed, unswept>>

\* The gc tick finds last_commit behind HEAD.
DriftSeen ==
    /\ up /\ rec = 0 /\ last # head
    /\ rec' = head
    /\ UNCHANGED <<tree, up, pipes, held, job, graph, last, missed, unswept, changes>>

ReconcileStart ==
    /\ job.pc = "idle" /\ rec # 0
    /\ job' = NewJob("reconcile", Files, rec)
    /\ UNCHANGED <<tree, up, pipes, held, rec, graph, last, missed, unswept, changes>>

\* Deletions on their way to the worker.  One that was overtaken by a file's
\* return is undone by the event of the return, if that one was not dropped.
Removals ==
    {f \in Files : \/ Removal(f) \in pending \cup flush \cup held
                   \/ \E s \in {raw, chan, queue} : \E i \in DOMAIN s : s[i] = Removal(f)}

JobRead ==
    /\ job.pc = "files"
    /\ \E f \in job.todo :
       /\ job' = [job EXCEPT !.pc = "write", !.todo = @ \ {f}, !.f = f, !.snap = disk[f]]
       /\ missed' = missed \ ({f} \ Removals)
    /\ UNCHANGED <<tree, up, pipes, held, rec, graph, last, unswept, changes>>

JobDelete ==
    /\ job.pc = "write" /\ job.snap = 0
    /\ Deleted(job.f)
    /\ job' = [job EXCEPT !.pc = "files", !.changed = TRUE,
                          !.written = @ \ {job.f}, !.callers = @ \cup Callers(job.f)]
    /\ UNCHANGED <<tree, up, pipes, held, rec, last, missed, changes>>

\* The bytes are the indexed ones, or they do not parse.
JobSkip ==
    /\ job.pc = "write" /\ job.snap # 0
    /\ job.snap = indexed[job.f] \/ job.snap \in Unparsable
    /\ job' = [job EXCEPT !.pc = "files"]
    /\ UNCHANGED <<tree, up, pipes, held, rec, graph, last, missed, unswept, changes>>

\* The read fails, or the transaction does: a warning and the next file.
JobFails ==
    /\ Change /\ "fail" \in Disturbances /\ job.pc = "write"
    /\ job' = [job EXCEPT !.pc = "files"]
    /\ missed' = missed \cup {job.f}
    /\ UNCHANGED <<tree, up, pipes, held, rec, graph, last, unswept>>

\* reindex_replace: the file's own edges are written afresh, a candidate for
\* every import whether or not its target exists, or (a pure body edit) kept.
Replaced(f, v) ==
    LET own(S) == {e \in S : e[1] = f}
    IN  /\ \/ edges' = (edges \ own(edges)) \cup own(Imports)
           \/ indexed[f] # 0 /\ UNCHANGED edges
        /\ indexed' = [indexed EXCEPT ![f] = v]
        /\ unswept' = unswept \cup {f}

\* The file parses; the files that called a symbol the edit removed are collected.
JobReplace ==
    /\ job.pc = "write" /\ job.snap # 0
    /\ job.snap # indexed[job.f] /\ job.snap \notin Unparsable
    /\ Replaced(job.f, job.snap)
    /\ \E C \in SUBSET (Files \ {job.f}) :
       job' = [job EXCEPT !.pc = "files", !.changed = TRUE,
                          !.written = @ \cup {job.f}, !.callers = @ \cup C]
    /\ UNCHANGED <<tree, up, pipes, held, rec, last, missed, changes>>

\* Any change, of whatever file, stamps the HEAD of this moment.
JobStamp ==
    /\ job.pc = "files" /\ job.todo = {}
    /\ last' = IF job.changed THEN head ELSE last
    /\ job' = [job EXCEPT !.pc = "sweep"]
    /\ UNCHANGED <<tree, up, pipes, held, rec, graph, missed, unswept, changes>>

\* sweep_orphan_edges_for_paths over the files of the batch.
Swept(S) ==
    /\ edges' = {e \in edges : e[1] \in S => indexed[e[2]] # 0}
    /\ unswept' = unswept \ S

\* After the sweep the reconcile stamps the HEAD it started for; the callers go
\* to the queue; the mutex is free.
JobFinish ==
    /\ job.pc = "sweep"
    /\ Swept(job.written)
    /\ queue' \in EnqueueCallers(queue, job.callers)
    /\ IF job.by = "reconcile" THEN last' = job.sha /\ rec' = 0
                               ELSE UNCHANGED <<last, rec>>
    /\ held' = IF job.by = "worker" THEN {} ELSE held
    /\ job' = NoJob
    /\ UNCHANGED <<tree, up, raw, pending, flush, chan, indexed, missed, changes>>

----------------------------------------------------------------------------
Environment ==
    \/ \E f \in Files : \/ \E v \in 1..MaxVersion : Write(f, v) \/ MoveIn(f, v)
                        \/ Delete(f)
                        \/ EditorRequest(f)
    \/ MoveHead \/ Kill \/ Start

Watcher == EventThread \/ FlushTake \/ FlushSend \/ Forward
Worker == WorkerTake \/ WorkerRemove \/ WorkerRemoveFails \/ WorkerUpsert
Reconcile == DriftSeen \/ ReconcileStart
Job == JobRead \/ JobDelete \/ JobSkip \/ JobFails \/ JobReplace \/ JobStamp \/ JobFinish

Next == Environment \/ Watcher \/ Worker \/ Reconcile \/ Job

Spec == Init /\ [][Next]_vars

\* Every thread of a running daemon keeps going: the event and flush threads and
\* the worker poll with timeouts, the select loop is never blocked, and the gc
\* tick is periodic.  The mutex is not held for ever, and the worker is not
\* locked out of it by two other users that come and go a bounded number of times.
Fairness ==
    /\ WF_vars(EventThread) /\ WF_vars(FlushTake) /\ WF_vars(FlushSend)
    /\ WF_vars(Forward) /\ WF_vars(WorkerTake)
    /\ SF_vars(WorkerRemove) /\ SF_vars(WorkerUpsert)
    /\ WF_vars(DriftSeen) /\ SF_vars(ReconcileStart)
    /\ WF_vars(Job)

FairSpec == Spec /\ Fairness

----------------------------------------------------------------------------
(* Properties.                                                             *)

\* The queues keep to their capacities and every variable to its type.
TypeOK ==
    /\ disk \in [Files -> Versions] /\ old \subseteq Files /\ head \in Heads
    /\ up \in BOOLEAN
    /\ raw \in Seq(Events) /\ Len(raw) <= RawCap
    /\ pending \subseteq Events /\ Cardinality(pending) <= PendingCap
    /\ flush \subseteq Events
    /\ chan \in Seq(Events) /\ Len(chan) <= ChanCap
    /\ queue \in Seq(Events) /\ Len(queue) <= QueueCap
    /\ held \subseteq Events /\ Cardinality(held) <= 1
    /\ rec \in 0..MaxHeads /\ job \in Jobs
    /\ indexed \in [Files -> Versions] /\ edges \subseteq Imports
    /\ last \in Heads
    /\ missed \subseteq Files /\ unswept \subseteq Files /\ changes \in 0..MaxChanges

AtRest ==
    /\ raw = <<>> /\ pending = {} /\ flush = {} /\ chan = <<>> /\ queue = <<>>
    /\ held = {} /\ job.pc = "idle" /\ rec = 0

\* Once nothing is on its way, the index has the content of every file none of
\* whose events was dropped: no order of saves, deletions, recreations, editor
\* requests and reconciles lets an older job or a delayed Remove have the last
\* word (watcher.rs coalescing, handle_watch_event, process_saved_file).
FreshAtRest ==
    AtRest /\ up =>
        \A f \in Files \ missed : indexed[f] = disk[f] \/ disk[f] \in Unparsable

\* No edge leaves a file without nodes, and none enters one, except from a file
\* that was rewritten and not swept since: every path that drops a file drops
\* the edges of both directions (delete_file, sweep_orphan_edges_for_paths).
NoOrphanEdges ==
    \A e \in edges : indexed[e[1]] # 0 /\ (indexed[e[2]] # 0 \/ e[1] \in unswept)

\* The pipeline drains: the worker feeding its own bounded queue and the flush
\* thread blocked on a full channel never wait for each other for ever.
Drains == <>[]AtRest

=============================================================================
