-------------------------- MODULE IndexPipelineProofs --------------------------
(***************************************************************************)
(* For every set of files and imports, every capacity and any number of    *)
(* changes: no orphan edges, the types and capacities, and an index that   *)
(* is fresh at rest.  The orphan edges need the types of the variables     *)
(* they read and of the job in flight (GraphInv); the capacities need one  *)
(* event per file in the debounce table (PipeInv); freshness needs an      *)
(* account of where the last event of every file is (Owed).                *)
(***************************************************************************)
EXTENDS IndexPipeline, FiniteSetTheorems, SequenceTheorems, TLAPS

\* The part of the type invariant that the argument needs.
GraphTypes ==
    /\ disk \in [Files -> Versions]
    /\ indexed \in [Files -> Versions]
    /\ edges \subseteq Imports
    /\ head \in Heads /\ rec \in 0..MaxHeads /\ job \in Jobs

GraphInv == GraphTypes /\ NoOrphanEdges

LEMMA HeadsNat == MaxHeads \in Nat /\ 1 \in Heads /\ 0 \in 0..MaxHeads
<1>1. MaxHeads \in Nat \ {0}
  BY IndexPipelineAssumption, Zenon
<1> QED
  BY <1>1 DEF Heads

\* A new job is a job, whoever starts it.
LEMMA NewJobTypes ==
    ASSUME NEW by \in {"worker", "editor", "reconcile"}, NEW todo \in SUBSET Files,
           NEW sha \in 0..MaxHeads
    PROVE  NewJob(by, todo, sha) \in Jobs
BY IndexPipelineAssumption DEF NewJob, Jobs, Versions

LEMMA NoJobTypes == NoJob \in Jobs
<1>1. {} \in SUBSET Files
  OBVIOUS
<1>2. NewJob("worker", {}, 0) \in Jobs
  BY <1>1, NewJobTypes, HeadsNat
<1> QED
  BY <1>2 DEF NoJob, Jobs

\* delete_file keeps the invariant: the edges of both directions go with the file.
LEMMA DeletedKeeps ==
    ASSUME NEW f \in Files, GraphInv, Deleted(f)
    PROVE  /\ indexed' \in [Files -> Versions]
           /\ edges' \subseteq Imports
           /\ NoOrphanEdges'
<1>1. Imports \subseteq Files \X Files
  BY IndexPipelineAssumption
<1>2. indexed' \in [Files -> Versions] /\ edges' \subseteq Imports
  BY IndexPipelineAssumption DEF GraphInv, GraphTypes, Deleted, Versions
<1>3. ASSUME NEW e \in edges'
      PROVE  indexed'[e[1]] # 0 /\ (indexed'[e[2]] # 0 \/ e[1] \in unswept')
  <2>1. e \in edges /\ e[1] # f /\ e[2] # f
    BY <1>3 DEF Deleted
  <2>2. e[1] \in Files /\ e[2] \in Files
    BY <1>1, <2>1 DEF GraphInv, GraphTypes
  <2>3. indexed'[e[1]] = indexed[e[1]] /\ indexed'[e[2]] = indexed[e[2]]
    BY <2>1, <2>2 DEF Deleted, GraphInv, GraphTypes
  <2> QED
    BY <2>1, <2>3 DEF Deleted, GraphInv, NoOrphanEdges
<1> QED
  BY <1>2, <1>3 DEF NoOrphanEdges

LEMMA GraphInvInit == Init => GraphInv
<1> SUFFICES ASSUME Init PROVE GraphInv
  OBVIOUS
<1>1. disk \in [Files -> Versions]
  BY IndexPipelineAssumption DEF Init, Versions
<1>2. edges \subseteq Imports /\ NoOrphanEdges
  BY DEF Init, FullEdges, NoOrphanEdges
<1> QED
  BY <1>1, <1>2, NoJobTypes, HeadsNat DEF Init, GraphInv, GraphTypes

\* reindex_replace keeps it: the file is rewritten, so it is unswept.
LEMMA ReplaceKeeps == GraphInv /\ JobReplace => GraphInv'
<1> SUFFICES ASSUME GraphInv, JobReplace PROVE GraphInv'
  OBVIOUS
<1> USE DEF GraphInv, GraphTypes
<1>1. Imports \subseteq Files \X Files
  BY IndexPipelineAssumption
<1>2. job' \in Jobs /\ UNCHANGED <<disk, head, rec>>
  <2>1. PICK C \in SUBSET (Files \ {job.f}) :
          job' = [job EXCEPT !.pc = "files", !.changed = TRUE,
                             !.written = @ \cup {job.f}, !.callers = @ \cup C]
    BY DEF JobReplace
  <2>2. C \subseteq Files /\ job \in Jobs
    BY <2>1
  <2>3. job' \in Jobs
    BY <2>1, <2>2 DEF Jobs
  <2> QED
    BY <2>3 DEF JobReplace, tree
<1>0. job.f \in Files /\ job.snap \in Versions
  BY DEF Jobs
<1>3. /\ indexed' = [indexed EXCEPT ![job.f] = job.snap] /\ job.snap # 0
      /\ unswept' = unswept \cup {job.f}
  BY DEF JobReplace, Replaced
<1>4. \A e \in edges' : e \in edges \/ (e \in Imports /\ e[1] = job.f)
  BY DEF JobReplace, Replaced
<1>5. ASSUME NEW e \in edges'
      PROVE  indexed'[e[1]] # 0 /\ (indexed'[e[2]] # 0 \/ e[1] \in unswept')
  <2>1. e[1] \in Files /\ e[2] \in Files
    BY <1>1, <1>4
  <2>2. \A g \in Files : indexed[g] # 0 => indexed'[g] # 0
    BY <1>0, <1>3
  <2>3. CASE e[1] = job.f
    BY <1>0, <1>3, <2>3
  <2>4. CASE e[1] # job.f
    BY <1>3, <1>4, <2>1, <2>2, <2>4 DEF NoOrphanEdges
  <2> QED
    BY <2>3, <2>4
<1> QED
  BY <1>0, <1>2, <1>3, <1>4, <1>5 DEF NoOrphanEdges

LEMMA GraphInvNext == GraphInv /\ [Next]_vars => GraphInv'
<1> SUFFICES ASSUME GraphInv, [Next]_vars PROVE GraphInv'
  OBVIOUS
<1> USE DEF GraphInv, GraphTypes
<1>1. ASSUME UNCHANGED <<graph, unswept, job>>, disk' \in [Files -> Versions],
             head' \in Heads, rec' \in 0..MaxHeads
      PROVE  GraphInv'
  BY <1>1 DEF graph, NoOrphanEdges
<1>2. ASSUME UNCHANGED <<graph, unswept, disk, head>>, job' \in Jobs, rec' \in 0..MaxHeads
      PROVE  GraphInv'
  BY <1>2 DEF graph, NoOrphanEdges
<1>0. 0 \in 0..MaxHeads /\ \A h \in Heads : h \in 0..MaxHeads
  BY HeadsNat DEF Heads
<1>3. CASE Environment
  <2>1. ASSUME NEW f \in Files, NEW v \in 1..MaxVersion, Write(f, v) \/ MoveIn(f, v)
        PROVE  GraphInv'
    BY <2>1, <1>1, IndexPipelineAssumption DEF Write, MoveIn, Versions
  <2>2. ASSUME NEW f \in Files, Delete(f) PROVE GraphInv'
    BY <2>2, <1>1, IndexPipelineAssumption DEF Delete, Versions
  <2>3. ASSUME NEW f \in Files, EditorRequest(f) PROVE GraphInv'
    <3>1. NewJob("editor", {f}, 0) \in Jobs
      BY <2>3, <1>0, NewJobTypes
    <3> QED
      BY <2>3, <3>1, <1>2 DEF EditorRequest, tree
  <2>4. CASE MoveHead
    BY <2>4, <1>1, HeadsNat DEF MoveHead, Heads
  <2>5. CASE Kill
    BY <2>5, <1>0, <1>2, NoJobTypes DEF Kill, tree
  <2>6. CASE Start
    BY <2>6, <1>1 DEF Start
  <2> QED
    BY <1>3, <2>1, <2>2, <2>3, <2>4, <2>5, <2>6 DEF Environment
<1>4. CASE Watcher
  BY <1>4, <1>1 DEF Watcher, EventThread, FlushTake, FlushSend, Forward, tree
<1>5. CASE Worker
  <2>1. CASE WorkerTake
    BY <2>1, <1>1 DEF WorkerTake, tree
  <2>2. CASE WorkerRemove
    <3>1. PICK f \in Files : Deleted(f)
      BY <2>2 DEF WorkerRemove
    <3> QED
      BY <2>2, <3>1, DeletedKeeps DEF WorkerRemove, tree
  <2>3. CASE WorkerUpsert
    <3>1. PICK f \in Files : job' = NewJob("worker", {f}, 0)
      BY <2>3 DEF WorkerUpsert
    <3>2. job' \in Jobs
      BY <1>0, <3>1, NewJobTypes
    <3> QED
      BY <2>3, <3>2, <1>2 DEF WorkerUpsert, tree
  <2>4. CASE WorkerRemoveFails
    BY <2>4, <1>1 DEF WorkerRemoveFails, tree
  <2> QED
    BY <1>5, <2>1, <2>2, <2>3, <2>4 DEF Worker
<1>6. CASE Reconcile
  <2>1. CASE DriftSeen
    BY <2>1, <1>0, <1>1 DEF DriftSeen, tree
  <2>2. CASE ReconcileStart
    <3>1. NewJob("reconcile", Files, rec) \in Jobs
      BY NewJobTypes
    <3> QED
      BY <2>2, <3>1, <1>2 DEF ReconcileStart, tree
  <2> QED
    BY <1>6, <2>1, <2>2 DEF Reconcile
<1>7. CASE Job
  <2>1. CASE JobRead
    <3>1. PICK f \in job.todo : job' = [job EXCEPT !.pc = "write", !.todo = @ \ {f},
                                                  !.f = f, !.snap = disk[f]]
      BY <2>1 DEF JobRead
    <3>2. f \in Files /\ disk[f] \in Versions
      BY <3>1 DEF Jobs
    <3>3. job' \in Jobs
      BY <3>1, <3>2 DEF Jobs
    <3> QED
      BY <2>1, <3>3, <1>2 DEF JobRead, tree
  <2>2. CASE JobDelete
    <3>1. Callers(job.f) \subseteq Files
      BY IndexPipelineAssumption DEF Callers
    <3>2. job' \in Jobs /\ job.f \in Files
      BY <2>2, <3>1 DEF JobDelete, Jobs
    <3> QED
      BY <2>2, <3>2, DeletedKeeps DEF JobDelete, tree
  <2>3. CASE JobSkip
    BY <2>3, <1>2 DEF JobSkip, Jobs, tree
  <2>4. CASE JobReplace
    BY <2>4, ReplaceKeeps
  <2>5. CASE JobStamp
    BY <2>5, <1>2 DEF JobStamp, Jobs, tree
  <2>6. CASE JobFinish
    <3>1. edges' \subseteq Imports /\ NoOrphanEdges'
      BY <2>6 DEF JobFinish, Swept, NoOrphanEdges
    <3>2. rec' \in 0..MaxHeads /\ job' \in Jobs
      BY <2>6, <1>0, NoJobTypes DEF JobFinish
    <3> QED
      BY <2>6, <3>1, <3>2 DEF JobFinish, tree
  <2>7. CASE JobFails
    BY <2>7, <1>2 DEF JobFails, Jobs, tree
  <2> QED
    BY <1>7, <2>1, <2>2, <2>3, <2>4, <2>5, <2>6, <2>7 DEF Job
<1>8. CASE UNCHANGED vars
  BY <1>8, <1>1 DEF vars, tree
<1> QED
  BY <1>3, <1>4, <1>5, <1>6, <1>7, <1>8 DEF Next

\* The store never holds an import edge with an end that has no nodes, except
\* from a file that reindex_replace rewrote and no sweep has followed up: the
\* deletions by a watched Remove, by a job that finds the file gone and the sweep
\* keep it so in every interleaving, kills included.
THEOREM NoOrphanEdgesHolds == Spec => []NoOrphanEdges
<1>1. GraphInv => NoOrphanEdges
  BY DEF GraphInv
<1> QED
  BY <1>1, GraphInvInit, GraphInvNext, PTL DEF Spec

\* Every reachable state satisfies the invariant of the graph.
LEMMA GraphInvariance == Spec => []GraphInv
BY GraphInvInit, GraphInvNext, PTL DEF Spec

-----------------------------------------------------------------------------
(* Events in sequences and sets of events.                                 *)

Has(s, e) == \E i \in DOMAIN s : s[i] = e

\* No event of the file.
QuietSeq(s, f) == \A i \in DOMAIN s : s[i].f # f
QuietSet(S, f) == \A e \in S : e.f # f

\* An Upsert of the file, and no Remove of it behind.
UpIn(s, f) == \E i \in DOMAIN s : s[i] = Upsert(f) /\ \A j \in DOMAIN s : j > i => s[j] # Removal(f)

\* There are two events of a file.
LEMMA EventIs ==
    ASSUME NEW e \in Events
    PROVE  /\ e.f \in Files /\ (e = Upsert(e.f) \/ e = Removal(e.f))
           /\ \A f : Upsert(f).f = f /\ Removal(f).f = f /\ Upsert(f) # Removal(f)
           /\ \A f \in Files : Upsert(f) \in Events /\ Removal(f) \in Events
BY DEF Events, Kinds, Upsert, Removal

\* An event at the end of a sequence.
LEMMA AppendIs ==
    ASSUME NEW s \in Seq(Events), NEW e \in Events, NEW f \in Files
    PROVE  /\ Append(s, e) \in Seq(Events) /\ Len(Append(s, e)) = Len(s) + 1
           /\ e = Upsert(f) => UpIn(Append(s, e), f)
           /\ e.f # f /\ UpIn(s, f) => UpIn(Append(s, e), f)
           /\ e.f # f /\ QuietSeq(s, f) => QuietSeq(Append(s, e), f)
           /\ ~QuietSeq(s, f) \/ e.f = f => ~QuietSeq(Append(s, e), f)
           /\ \A d : Has(s, d) \/ d = e => Has(Append(s, e), d)
<1> DEFINE L == Len(s)
           t == Append(s, e)
<1>1. /\ t \in Seq(Events) /\ Len(t) = L + 1 /\ L \in Nat
      /\ DOMAIN s = 1..L /\ DOMAIN t = 1..L + 1
      /\ \A i \in 1..L : t[i] = s[i]
      /\ t[L + 1] = e
  BY AppendProperties, LenProperties
<1> HIDE DEF L, t
<1>2. L + 1 \in 1..L + 1 /\ (\A i \in 1..L : i \in 1..L + 1) /\ (\A i \in 1..L + 1 : i \in 1..L \/ i = L + 1)
  BY <1>1
<1>3. e.f # f => e # Removal(f)
  BY EventIs
<1>4. e = Upsert(f) => UpIn(t, f)
  <2>1. \A j \in 1..L + 1 : ~(j > L + 1)
    BY <1>1
  <2> QED
    BY <1>1, <1>2, <2>1 DEF UpIn
<1>5. e.f # f /\ UpIn(s, f) => UpIn(t, f)
  BY <1>1, <1>2, <1>3 DEF UpIn
<1>6. e.f # f /\ QuietSeq(s, f) => QuietSeq(t, f)
  BY <1>1, <1>2 DEF QuietSeq
<1>7. ~QuietSeq(s, f) \/ e.f = f => ~QuietSeq(t, f)
  BY <1>1, <1>2 DEF QuietSeq
<1>8. \A d : Has(s, d) \/ d = e => Has(t, d)
  BY <1>1, <1>2 DEF Has
<1> QED
  BY <1>1, <1>4, <1>5, <1>6, <1>7, <1>8 DEF L, t

\* A sequence without its first event.
LEMMA TailIs ==
    ASSUME NEW s \in Seq(Events), s # <<>>, NEW f \in Files
    PROVE  /\ Tail(s) \in Seq(Events) /\ Len(Tail(s)) = Len(s) - 1 /\ Head(s) \in Events
           /\ UpIn(s, f) => UpIn(Tail(s), f) \/ (QuietSeq(Tail(s), f) /\ Head(s) = Upsert(f))
           /\ QuietSeq(s, f) => QuietSeq(Tail(s), f) /\ Head(s).f # f
           /\ ~QuietSeq(s, f) => ~QuietSeq(Tail(s), f) \/ Head(s).f = f
           /\ \A d : Has(s, d) => Has(Tail(s), d) \/ Head(s) = d
           /\ Has(s, Head(s))
<1> DEFINE L == Len(s)
           t == Tail(s)
<1>1. /\ t \in Seq(Events) /\ Len(t) = L - 1 /\ L \in Nat /\ L >= 1
      /\ DOMAIN s = 1..L /\ DOMAIN t = 1..L - 1
      /\ \A i \in 1..L - 1 : t[i] = s[i + 1]
      /\ Head(s) = s[1] /\ Head(s) \in Events
  BY HeadTailProperties, LenProperties, EmptySeq
<1>2. \A i \in DOMAIN t : t[i] \in Events
  BY <1>1, ElementOfSeq
<1> HIDE DEF L, t
<1>3. /\ 1 \in 1..L /\ \A i \in 1..L - 1 : i + 1 \in 1..L
      /\ \A i \in 1..L : i = 1 \/ (i - 1 \in 1..L - 1 /\ (i - 1) + 1 = i)
  BY <1>1
<1>4. \A i \in 1..L : s[i] = Head(s) \/ \E k \in 1..L - 1 : k + 1 = i /\ t[k] = s[i]
  BY <1>1, <1>3
<1>5. UpIn(s, f) => UpIn(t, f) \/ (QuietSeq(t, f) /\ Head(s) = Upsert(f))
  <2> SUFFICES ASSUME UpIn(s, f) PROVE UpIn(t, f) \/ (QuietSeq(t, f) /\ Head(s) = Upsert(f))
    OBVIOUS
  <2>1. PICK i \in 1..L : s[i] = Upsert(f) /\ \A j \in 1..L : j > i => s[j] # Removal(f)
    BY <1>1 DEF UpIn
  <2>2. CASE i = 1
    <3>1. \A k \in 1..L - 1 : t[k] # Removal(f)
      BY <1>1, <1>3, <2>1, <2>2
    <3>2. CASE QuietSeq(t, f)
      BY <1>1, <2>1, <2>2, <3>2
    <3>3. CASE ~QuietSeq(t, f)
      <4>1. PICK k \in 1..L - 1 : t[k].f = f
        BY <1>1, <3>3 DEF QuietSeq
      <4>2. t[k] = Upsert(f)
        BY <1>1, <1>2, <3>1, <4>1, EventIs
      <4> QED
        BY <1>1, <3>1, <4>1, <4>2 DEF UpIn
    <3> QED
      BY <3>2, <3>3
  <2>3. CASE i # 1
    <3>1. i - 1 \in 1..L - 1 /\ t[i - 1] = Upsert(f)
      BY <1>1, <1>3, <2>1, <2>3
    <3>2. ASSUME NEW k \in 1..L - 1, k > i - 1 PROVE t[k] # Removal(f)
      <4>1. k + 1 \in 1..L /\ k + 1 > i
        BY <1>1, <2>1, <3>2
      <4> QED
        BY <1>1, <2>1, <4>1
    <3> QED
      BY <1>1, <3>1, <3>2 DEF UpIn
  <2> QED
    BY <2>2, <2>3
<1>6. QuietSeq(s, f) => QuietSeq(t, f) /\ Head(s).f # f
  BY <1>1, <1>3 DEF QuietSeq
<1>7. ~QuietSeq(s, f) => ~QuietSeq(t, f) \/ Head(s).f = f
  BY <1>1, <1>4 DEF QuietSeq
<1>8. \A d : Has(s, d) => Has(t, d) \/ Head(s) = d
  BY <1>1, <1>4 DEF Has
<1>9. Has(s, Head(s))
  BY <1>1, <1>3 DEF Has
<1> QED
  BY <1>1, <1>5, <1>6, <1>7, <1>8, <1>9 DEF L, t

\* Without a Remove the events of a file are Upserts.
LEMMA NoRemovalIs ==
    ASSUME NEW s \in Seq(Events), NEW f \in Files, ~Has(s, Removal(f))
    PROVE  UpIn(s, f) \/ QuietSeq(s, f)
<1>1. \A i \in DOMAIN s : s[i] \in Events /\ s[i] # Removal(f)
  BY ElementOfSeq, LenProperties DEF Has
<1>2. ASSUME NEW i \in DOMAIN s, s[i].f = f PROVE UpIn(s, f)
  <2>1. s[i] = Upsert(f)
    BY <1>1, <1>2, EventIs
  <2> QED
    BY <1>1, <2>1 DEF UpIn
<1> QED
  BY <1>2 DEF QuietSeq

\* What enqueue_dirty_callers puts behind the queue: Upserts, as far as there is room.
LEMMA EnqueueIs ==
    ASSUME NEW q \in Seq(Events), Len(q) <= QueueCap, NEW callers \in SUBSET Files,
           NEW r \in EnqueueCallers(q, callers)
    PROVE  /\ r \in Seq(Events) /\ Len(r) <= QueueCap
           /\ \A f \in Files : /\ UpIn(q, f) => UpIn(r, f)
                               /\ QuietSeq(q, f) => QuietSeq(r, f) \/ UpIn(r, f)
                               /\ ~QuietSeq(q, f) => ~QuietSeq(r, f)
           /\ \A f : Has(q, Removal(f)) => Has(r, Removal(f))
<1> DEFINE present == {f \in callers : disk[f] # 0}
           n == Smaller(Cardinality(present), QueueCap - Len(q))
           L == Len(q)
<1>1. Cardinality(present) \in Nat
  <2>1. IsFiniteSet(Files) /\ present \in SUBSET Files
    BY IndexPipelineAssumption
  <2> QED
    BY <2>1, FS_Subset, FS_CardinalityType
<1>2. L \in Nat /\ QueueCap \in Nat /\ n \in Nat /\ L + n <= QueueCap
  BY <1>1, IndexPipelineAssumption, LenProperties DEF Smaller
<1>3. PICK c \in [1..n -> present] : r = q \o [i \in 1..n |-> Upsert(c[i])]
  BY DEF EnqueueCallers
<1> DEFINE t == [i \in 1..n |-> Upsert(c[i])]
<1>4. /\ t \in Seq(Events) /\ Len(t) = n
      /\ \A i \in 1..n : t[i] = Upsert(c[i])
  <2>1. \A i \in 1..n : Upsert(c[i]) \in Events
    BY <1>3 DEF Upsert, Events, Kinds
  <2> QED
    BY <1>2, <2>1, IsASeq
<1>0. r = q \o t
  BY <1>3
<1> HIDE DEF n, t, present
<1>5. /\ r \in Seq(Events) /\ Len(r) = L + n /\ DOMAIN r = 1..L + n
      /\ \A i \in 1..L + n : r[i] = IF i <= L THEN q[i] ELSE t[i - L]
      /\ DOMAIN q = 1..L /\ \A i \in 1..L : q[i] \in Events
  BY <1>0, <1>2, <1>4, ConcatProperties, LenProperties, ElementOfSeq
<1> HIDE DEF L
<1>6. /\ \A i \in 1..L : i \in 1..L + n /\ r[i] = q[i]
      /\ \A i \in 1..L + n : i > L => \E k \in 1..n : r[i] = Upsert(c[k])
  <2>1. \A i \in 1..L : i \in 1..L + n /\ r[i] = q[i]
    BY <1>2, <1>5
  <2>2. ASSUME NEW i \in 1..L + n, i > L PROVE \E k \in 1..n : r[i] = Upsert(c[k])
    <3>1. i - L \in 1..n /\ r[i] = t[i - L]
      BY <1>2, <1>5, <2>2
    <3> QED
      BY <1>4, <3>1
  <2> QED
    BY <2>1, <2>2
<1>7. ASSUME NEW f, NEW i \in 1..L + n, i > L PROVE r[i] # Removal(f)
  <2>1. PICK k \in 1..n : r[i] = Upsert(c[k])
    BY <1>6, <1>7
  <2>2. Upsert(c[k]).kind # Removal(f).kind
    BY DEF Upsert, Removal
  <2> QED
    BY <2>1, <2>2
<1>8. ASSUME NEW f \in Files, UpIn(q, f) PROVE UpIn(r, f)
  <2>1. PICK i \in 1..L : q[i] = Upsert(f) /\ \A j \in 1..L : j > i => q[j] # Removal(f)
    BY <1>5, <1>8 DEF UpIn
  <2>2. ASSUME NEW j \in 1..L + n, j > i PROVE r[j] # Removal(f)
    <3>1. j \in 1..L \/ j > L
      BY <1>2
    <3> QED
      BY <1>6, <1>7, <2>1, <2>2, <3>1
  <2> QED
    BY <1>5, <1>6, <2>1, <2>2 DEF UpIn
<1>9. ASSUME NEW f \in Files, QuietSeq(q, f), ~QuietSeq(r, f) PROVE UpIn(r, f)
  <2>1. PICK i \in 1..L + n : r[i].f = f
    BY <1>5, <1>9 DEF QuietSeq
  <2>2. ~(i \in 1..L)
    BY <1>5, <1>6, <1>9, <2>1 DEF QuietSeq
  <2>3. i > L
    BY <1>2, <2>2
  <2>4. r[i] = Upsert(f)
    <3>1. PICK k \in 1..n : r[i] = Upsert(c[k])
      BY <1>6, <2>3
    <3> QED
      BY <2>1, <3>1 DEF Upsert
  <2>5. \A j \in 1..L + n : j > i => r[j] # Removal(f)
    BY <1>2, <1>7, <2>3
  <2> QED
    BY <1>5, <2>4, <2>5 DEF UpIn
<1>10. ASSUME NEW f \in Files, ~QuietSeq(q, f) PROVE ~QuietSeq(r, f)
  BY <1>5, <1>6, <1>10 DEF QuietSeq
<1>11. ASSUME NEW f, Has(q, Removal(f)) PROVE Has(r, Removal(f))
  BY <1>5, <1>6, <1>11 DEF Has
<1> QED
  BY <1>2, <1>5, <1>8, <1>9, <1>10, <1>11

-----------------------------------------------------------------------------
(* The types of the hand-overs.                                            *)

PipeTypes ==
    /\ old \subseteq Files /\ up \in BOOLEAN
    /\ raw \in Seq(Events) /\ Len(raw) <= RawCap
    /\ pending \subseteq Events /\ IsFiniteSet(pending) /\ Cardinality(pending) <= PendingCap
    /\ flush \subseteq Events
    /\ chan \in Seq(Events) /\ Len(chan) <= ChanCap
    /\ queue \in Seq(Events) /\ Len(queue) <= QueueCap
    /\ last \in Heads
    /\ missed \subseteq Files /\ unswept \subseteq Files /\ changes \in 0..MaxChanges

OnePerFile(S) == \A a, b \in S : a.f = b.f => a = b

\* The worker runs a job for the Upsert it holds.
WorkerBusy == job.pc # "idle" /\ job.by = "worker"

\* A file has one event in the debounce table and in what was taken from it; a job
\* has read what it writes, and the reconcile knows its HEAD.
Shape ==
    /\ OnePerFile(pending) /\ OnePerFile(flush)
    /\ held = {} \/ \E e \in Events : held = {e}
    /\ WorkerBusy => \E g \in Files : held = {Upsert(g)}
    /\ job.pc \in {"idle", "sweep"} => job.todo = {}
    /\ job.pc = "write" => job.f \notin job.todo
    /\ job.by = "reconcile" => job.sha # 0

PipeInv == PipeTypes /\ Shape

\* The bounds are numbers.
LEMMA CapsNat ==
    /\ RawCap \in Nat \ {0} /\ PendingCap \in Nat \ {0} /\ ChanCap \in Nat \ {0}
    /\ QueueCap \in Nat \ {0} /\ MaxChanges \in Nat
BY IndexPipelineAssumption

\* A change counts.
LEMMA ChangeCounts == PipeTypes /\ Change => changes' \in 0..MaxChanges
BY CapsNat DEF PipeTypes, Change

\* The callback does not overfill its channel.
LEMMA NotifyTypes ==
    ASSUME PipeTypes, NEW e \in Events, Notify(e)
    PROVE  raw' \in Seq(Events) /\ Len(raw') <= RawCap /\ missed' \subseteq Files
<1>1. Append(raw, e) \in Seq(Events) /\ Len(Append(raw, e)) = Len(raw) + 1
  BY AppendProperties DEF PipeTypes
<1>2. Len(raw) \in Nat /\ RawCap \in Nat /\ e.f \in Files
  BY CapsNat, LenProperties, EventIs DEF PipeTypes
<1>3. CASE Len(raw) < RawCap /\ raw' = Append(raw, e) /\ UNCHANGED missed
  BY <1>1, <1>2, <1>3 DEF PipeTypes
<1>4. CASE missed' = missed \cup {e.f} /\ UNCHANGED raw
  BY <1>2, <1>4 DEF PipeTypes
<1> QED
  BY <1>3, <1>4 DEF Notify

LEMMA PipeInvInit == Init => PipeInv
<1> SUFFICES ASSUME Init PROVE PipeInv
  OBVIOUS
<1>1. /\ <<>> \in Seq(Events) /\ Len(<<>>) = 0
      /\ IsFiniteSet({}) /\ Cardinality({}) = 0
  BY FS_EmptySet, EmptySeq
<1>2. PipeTypes
  BY <1>1, CapsNat, HeadsNat DEF Init, PipeTypes
<1>3. job = NoJob /\ NoJob.pc = "idle" /\ NoJob.todo = {} /\ NoJob.by = "worker"
  BY DEF Init, NoJob, NewJob
<1> QED
  BY <1>2, <1>3 DEF Init, PipeInv, Shape, OnePerFile, WorkerBusy

\* The debounce table stays within its bound, with one event per file.
LEMMA CoalesceKeeps ==
    ASSUME PipeInv, NEW e \in Events, Coalesce(e)
    PROVE  /\ pending' \subseteq Events /\ IsFiniteSet(pending')
           /\ Cardinality(pending') <= PendingCap
           /\ OnePerFile(pending') /\ missed' \subseteq Files
<1> DEFINE rest == {p \in pending : p.f # e.f}
<1>1. PendingCap \in Nat /\ e.f \in Files
  BY CapsNat, EventIs
<1>2. CASE rest = pending /\ UNCHANGED pending /\ missed' = missed \cup {e.f}
  BY <1>1, <1>2 DEF PipeInv, PipeTypes, Shape, OnePerFile
<1>3. CASE /\ rest # pending \/ Cardinality(pending) < PendingCap
           /\ pending' = rest \cup {e} /\ UNCHANGED missed
  <2>1. /\ IsFiniteSet(pending) /\ Cardinality(pending) \in Nat /\ rest \subseteq pending
        /\ Cardinality(pending) <= PendingCap
    BY FS_CardinalityType DEF PipeInv, PipeTypes
  <2>2. /\ IsFiniteSet(rest) /\ Cardinality(rest) \in Nat
        /\ Cardinality(rest) <= Cardinality(pending)
        /\ rest # pending => Cardinality(rest) < Cardinality(pending)
    <3> HIDE DEF rest
    <3> QED
      BY <2>1, FS_Subset, FS_CardinalityType
  <2>3. e \notin rest
    OBVIOUS
  <2>4. IsFiniteSet(rest \cup {e}) /\ Cardinality(rest \cup {e}) = Cardinality(rest) + 1
    <3> HIDE DEF rest
    <3> QED
      BY <2>2, <2>3, FS_AddElement
  <2>5. Cardinality(rest) < PendingCap
    <3> HIDE DEF rest
    <3> QED
      BY <1>1, <1>3, <2>1, <2>2
  <2>6. Cardinality(pending') <= PendingCap
    <3> HIDE DEF rest
    <3> QED
      BY <1>1, <1>3, <2>2, <2>4, <2>5
  <2>7. OnePerFile(pending')
    BY <1>3 DEF PipeInv, Shape, OnePerFile
  <2>8. IsFiniteSet(pending')
    BY <1>3, <2>4
  <2> QED
    BY <1>3, <2>6, <2>7, <2>8 DEF PipeInv, PipeTypes
<1> QED
  BY <1>2, <1>3 DEF Coalesce

\* The environment leaves the hand-overs well formed.
LEMMA PipeInvEnvironment ==
    ASSUME GraphInv, PipeInv, Environment PROVE PipeInv'
<1> USE DEF PipeInv
<1>1. ASSUME UNCHANGED <<pending, flush, chan, queue, held, job, last, unswept, up>>,
             Change, old' \subseteq Files,
             raw' \in Seq(Events), Len(raw') <= RawCap, missed' \subseteq Files
      PROVE  PipeInv'
  BY <1>1, ChangeCounts DEF PipeTypes, Shape, WorkerBusy, OnePerFile
<1>2. ASSUME NEW f \in Files, NEW v \in 1..MaxVersion, Write(f, v) \/ MoveIn(f, v)
      PROVE  PipeInv'
  <2>1. Upsert(f) \in Events
    BY DEF Upsert, Events, Kinds
  <2>2. raw' \in Seq(Events) /\ Len(raw') <= RawCap /\ missed' \subseteq Files
    BY <1>2, <2>1, NotifyTypes DEF Write, MoveIn
  <2>3. old' \subseteq Files
    BY <1>2 DEF Write, MoveIn, PipeTypes
  <2> QED
    BY <1>1, <1>2, <2>2, <2>3 DEF Write, MoveIn
<1>3. ASSUME NEW f \in Files, Delete(f) PROVE PipeInv'
  <2>1. Removal(f) \in Events
    BY DEF Removal, Events, Kinds
  <2>2. raw' \in Seq(Events) /\ Len(raw') <= RawCap /\ missed' \subseteq Files
    BY <1>3, <2>1, NotifyTypes DEF Delete
  <2>3. old' \subseteq Files
    BY <1>3 DEF Delete, PipeTypes
  <2> QED
    BY <1>1, <1>3, <2>2, <2>3 DEF Delete
<1>4. ASSUME NEW f \in Files, EditorRequest(f) PROVE PipeInv'
  <2>1. job'.pc = "files" /\ job'.by = "editor"
    BY <1>4 DEF EditorRequest, NewJob
  <2>2. PipeTypes'
    BY <1>4, ChangeCounts DEF EditorRequest, PipeTypes, tree, pipes, graph
  <2> QED
    BY <1>4, <2>1, <2>2 DEF EditorRequest, Shape, WorkerBusy, OnePerFile, pipes
<1>5. CASE MoveHead
  BY <1>1, <1>5 DEF MoveHead, pipes, PipeTypes
<1>6. CASE Kill
  <2>1. /\ <<>> \in Seq(Events) /\ Len(<<>>) = 0
        /\ IsFiniteSet({}) /\ Cardinality({}) = 0
    BY FS_EmptySet, EmptySeq
  <2>0. 0 <= RawCap /\ 0 <= PendingCap /\ 0 <= ChanCap /\ 0 <= QueueCap
    BY CapsNat
  <2>4. missed' \subseteq Files /\ changes' \in 0..MaxChanges
    BY <1>6, ChangeCounts DEF Kill, PipeTypes
  <2>5. /\ raw' = <<>> /\ pending' = {} /\ flush' = {} /\ chan' = <<>> /\ queue' = <<>>
        /\ up' = FALSE /\ UNCHANGED <<old, last, unswept>>
    BY <1>6 DEF Kill, tree
  <2>2. PipeTypes'
    BY <2>0, <2>1, <2>4, <2>5 DEF PipeTypes
  <2>3. job' = NoJob /\ NoJob.pc = "idle" /\ NoJob.todo = {} /\ NoJob.by = "worker"
    BY <1>6 DEF Kill, NoJob, NewJob
  <2> QED
    BY <1>6, <2>2, <2>3 DEF Kill, Shape, OnePerFile, WorkerBusy
<1>7. CASE Start
  BY <1>7 DEF Start, pipes, PipeTypes, Shape, WorkerBusy, OnePerFile
<1> QED
  BY <1>2, <1>3, <1>4, <1>5, <1>6, <1>7 DEF Environment

\* So do the event thread, the flush thread and the select loop.
LEMMA PipeInvWatcher ==
    ASSUME GraphInv, PipeInv, Watcher PROVE PipeInv'
<1> USE DEF PipeInv
<1>0. \A s \in Seq(Events) : Len(s) \in Nat
  BY LenProperties
<1>f. PICK g : g \in Files
  BY IndexPipelineAssumption
<1>1. CASE EventThread
  <2>1. /\ Tail(raw) \in Seq(Events) /\ Len(Tail(raw)) = Len(raw) - 1
        /\ Head(raw) \in Events /\ Head(raw).f \in Files
    BY <1>f, <1>1, TailIs, EventIs DEF EventThread, PipeTypes
  <2>2. raw' \in Seq(Events) /\ Len(raw') <= RawCap
    BY <1>0, <1>1, <2>1, CapsNat DEF EventThread, PipeTypes
  <2>3. /\ pending' \subseteq Events /\ IsFiniteSet(pending')
        /\ Cardinality(pending') <= PendingCap
        /\ OnePerFile(pending') /\ missed' \subseteq Files
    <3>1. CASE Coalesce(Head(raw))
      BY <2>1, <3>1, CoalesceKeeps
    <3>2. CASE UNCHANGED pending /\ (missed' = missed \cup {Head(raw).f} \/ UNCHANGED missed)
      BY <2>1, <3>2 DEF PipeTypes, Shape, OnePerFile
    <3> QED
      BY <1>1, <3>1, <3>2 DEF EventThread
  <2> QED
    BY <1>1, <2>2, <2>3 DEF EventThread, PipeTypes, Shape, WorkerBusy, OnePerFile, tree
<1>2. CASE FlushTake
  <2>1. PICK S \in SUBSET pending : flush' = S /\ pending' = pending \ S
    BY <1>2 DEF FlushTake
  <2>2. /\ pending' \subseteq pending /\ IsFiniteSet(pending')
        /\ Cardinality(pending') <= Cardinality(pending)
    BY <2>1, FS_Subset DEF PipeTypes
  <2>3. Cardinality(pending') <= PendingCap
    BY <2>2, FS_CardinalityType, CapsNat DEF PipeTypes
  <2>4. OnePerFile(pending') /\ OnePerFile(flush')
    BY <2>1 DEF Shape, OnePerFile
  <2> QED
    BY <1>2, <2>1, <2>2, <2>3, <2>4 DEF FlushTake, PipeTypes, Shape, WorkerBusy, tree
<1>3. CASE FlushSend
  <2>1. PICK e \in flush : flush' = flush \ {e} /\ chan' = Append(chan, e)
    BY <1>3 DEF FlushSend
  <2>2. e \in Events
    BY <2>1 DEF PipeTypes
  <2>3. chan' \in Seq(Events) /\ Len(chan') = Len(chan) + 1
    BY <1>f, <2>1, <2>2, AppendIs DEF PipeTypes
  <2>4. Len(chan') <= ChanCap
    BY <1>0, <1>3, <2>3, CapsNat DEF FlushSend, PipeTypes
  <2>5. OnePerFile(flush')
    BY <2>1 DEF Shape, OnePerFile
  <2> QED
    BY <1>3, <2>1, <2>3, <2>4, <2>5 DEF FlushSend, PipeTypes, Shape, WorkerBusy, OnePerFile, tree
<1>4. CASE Forward
  <2>1. /\ Tail(chan) \in Seq(Events) /\ Len(Tail(chan)) = Len(chan) - 1
        /\ Head(chan) \in Events /\ Head(chan).f \in Files
    BY <1>f, <1>4, TailIs, EventIs DEF Forward, PipeTypes
  <2>2. chan' \in Seq(Events) /\ Len(chan') <= ChanCap
    BY <1>0, <1>4, <2>1, CapsNat DEF Forward, PipeTypes
  <2>3. /\ Append(queue, Head(chan)) \in Seq(Events)
        /\ Len(Append(queue, Head(chan))) = Len(queue) + 1
    BY <1>f, <2>1, AppendIs DEF PipeTypes
  <2>4. queue' \in Seq(Events) /\ Len(queue') <= QueueCap /\ missed' \subseteq Files
    <3>1. CASE Len(queue) < QueueCap /\ queue' = Append(queue, Head(chan)) /\ UNCHANGED missed
      <4>1. Len(queue) \in Nat /\ QueueCap \in Nat
        BY <1>0, CapsNat DEF PipeTypes
      <4> QED
        BY <2>3, <3>1, <4>1 DEF PipeTypes
    <3>2. CASE missed' = missed \cup {Head(chan).f} /\ UNCHANGED queue
      BY <2>1, <3>2 DEF PipeTypes
    <3> QED
      BY <1>4, <3>1, <3>2 DEF Forward
  <2>5. UNCHANGED <<old, up, raw, pending, flush, held, job, last, unswept, changes>>
    BY <1>4 DEF Forward, tree
  <2>6. PipeTypes'
    BY <2>2, <2>4, <2>5 DEF PipeTypes
  <2> QED
    BY <2>5, <2>6 DEF Shape, WorkerBusy, OnePerFile
<1> QED
  BY <1>1, <1>2, <1>3, <1>4 DEF Watcher

\* The worker takes events off the queue and puts the callers of what it deleted
\* behind it.
LEMMA PipeInvWorker ==
    ASSUME GraphInv, PipeInv, Worker PROVE PipeInv'
<1> USE DEF PipeInv
<1>0. \A s \in Seq(Events) : Len(s) \in Nat
  BY LenProperties
<1>1. CASE WorkerTake
  <2>f. PICK g : g \in Files
    BY IndexPipelineAssumption
  <2>1. /\ Tail(queue) \in Seq(Events) /\ Len(Tail(queue)) = Len(queue) - 1
        /\ Head(queue) \in Events
    BY <2>f, <1>1, TailIs DEF WorkerTake, PipeTypes
  <2>2. queue' \in Seq(Events) /\ Len(queue') <= QueueCap
    BY <1>0, <1>1, <2>1, CapsNat DEF WorkerTake, PipeTypes
  <2>3. UNCHANGED <<old, up, raw, pending, flush, chan, job, last, missed, unswept, changes>>
    BY <1>1 DEF WorkerTake, tree
  <2>4. PipeTypes'
    BY <2>2, <2>3 DEF PipeTypes
  <2>5. held = {} /\ held' = {Head(queue)}
    BY <1>1 DEF WorkerTake
  <2>6. ~WorkerBusy
    BY <2>5 DEF Shape
  <2> QED
    BY <2>1, <2>3, <2>4, <2>5, <2>6 DEF Shape, WorkerBusy, OnePerFile
<1>2. CASE WorkerRemove
  <2>1. PICK f \in Files : Deleted(f) /\ queue' \in EnqueueCallers(queue, Callers(f))
    BY <1>2 DEF WorkerRemove
  <2>2. Callers(f) \subseteq Files
    BY IndexPipelineAssumption DEF Callers, GraphInv, GraphTypes
  <2>3. queue' \in Seq(Events) /\ Len(queue') <= QueueCap
    BY <2>1, <2>2, EnqueueIs DEF PipeTypes
  <2>4. UNCHANGED <<old, up, raw, pending, flush, chan, job, last, missed, changes>>
    BY <1>2 DEF WorkerRemove, tree
  <2>5. PipeTypes'
    BY <2>1, <2>3, <2>4 DEF PipeTypes, Deleted
  <2>6. held' = {} /\ job.pc = "idle"
    BY <1>2 DEF WorkerRemove
  <2> QED
    BY <2>4, <2>5, <2>6 DEF Shape, WorkerBusy, OnePerFile
<1>3. CASE WorkerRemoveFails
  <2>1. missed' \subseteq Files /\ changes' \in 0..MaxChanges
    BY <1>3, ChangeCounts DEF WorkerRemoveFails, PipeTypes
  <2>2. UNCHANGED <<old, up, raw, pending, flush, chan, queue, job, last, unswept>>
    BY <1>3 DEF WorkerRemoveFails, tree, pipes
  <2>3. PipeTypes'
    BY <2>1, <2>2 DEF PipeTypes
  <2>4. held' = {} /\ job.pc = "idle"
    BY <1>3 DEF WorkerRemoveFails
  <2> QED
    BY <2>2, <2>3, <2>4 DEF Shape, WorkerBusy, OnePerFile
<1>4. CASE WorkerUpsert
  <2>1. PICK f \in Files : held = {Upsert(f)} /\ job' = NewJob("worker", {f}, 0)
    BY <1>4 DEF WorkerUpsert
  <2>2. job'.pc = "files" /\ job'.by = "worker"
    BY <2>1 DEF NewJob
  <2>3. UNCHANGED <<old, up, raw, pending, flush, chan, queue, held, last, missed, unswept,
                    changes>>
    BY <1>4 DEF WorkerUpsert, tree, pipes
  <2>4. PipeTypes'
    BY <2>3 DEF PipeTypes
  <2> QED
    BY <2>1, <2>2, <2>3, <2>4 DEF Shape, OnePerFile
<1> QED
  BY <1>1, <1>2, <1>3, <1>4 DEF Worker

\* A job reads each file once, and the reconcile stamps the HEAD it started for.
LEMMA PipeInvJob ==
    ASSUME GraphInv, PipeInv, Reconcile \/ Job PROVE PipeInv'
<1> USE DEF PipeInv
<1>j. job \in Jobs /\ head \in Heads /\ rec \in 0..MaxHeads
  BY DEF GraphInv, GraphTypes
<1>1. ASSUME UNCHANGED <<old, up, raw, pending, flush, chan, queue, held>>, last' \in Heads,
             missed' \subseteq Files, unswept' \subseteq Files, changes' \in 0..MaxChanges,
             job'.pc \in {"files", "write"} \/ (job'.pc = "sweep" /\ job'.todo = {}),
             job'.by = job.by, job.pc # "idle",
             job'.pc = "write" => job'.f \notin job'.todo,
             job'.sha = job.sha
      PROVE  PipeInv'
  <2>1. PipeTypes'
    BY <1>1 DEF PipeTypes
  <2> QED
    BY <1>1, <2>1 DEF Shape, WorkerBusy, OnePerFile
<1>2. CASE DriftSeen
  BY <1>2 DEF DriftSeen, tree, pipes, graph, PipeTypes, Shape, WorkerBusy, OnePerFile
<1>3. CASE ReconcileStart
  <2>1. job'.pc = "files" /\ job'.by = "reconcile" /\ job'.sha = rec /\ rec # 0
    BY <1>3 DEF ReconcileStart, NewJob
  <2>2. UNCHANGED <<old, up, raw, pending, flush, chan, queue, held, last, missed, unswept,
                    changes>>
    BY <1>3 DEF ReconcileStart, tree, pipes, graph
  <2>3. PipeTypes'
    BY <2>2 DEF PipeTypes
  <2> QED
    BY <2>1, <2>2, <2>3 DEF Shape, WorkerBusy, OnePerFile
<1>4. CASE JobRead
  <2>1. PICK f \in job.todo :
          /\ job' = [job EXCEPT !.pc = "write", !.todo = @ \ {f}, !.f = f, !.snap = disk[f]]
          /\ missed' = missed \ ({f} \ Removals)
    BY <1>4 DEF JobRead
  <2>2. /\ job'.pc = "write" /\ job'.by = job.by /\ job'.f = f /\ job'.todo = job.todo \ {f}
        /\ job'.sha = job.sha
    BY <2>1, <1>j DEF Jobs
  <2> QED
    BY <1>1, <1>4, <2>1, <2>2 DEF JobRead, tree, pipes, graph, PipeTypes
<1>5. CASE JobDelete
  <2>1. /\ job' = [job EXCEPT !.pc = "files", !.changed = TRUE,
                              !.written = @ \ {job.f}, !.callers = @ \cup Callers(job.f)]
        /\ unswept' = unswept \ {job.f}
    BY <1>5 DEF JobDelete, Deleted
  <2>2. job'.pc = "files" /\ job'.by = job.by /\ job'.sha = job.sha
    BY <2>1, <1>j DEF Jobs
  <2> QED
    BY <1>1, <1>5, <2>1, <2>2 DEF JobDelete, tree, pipes, PipeTypes
<1>6. CASE JobSkip
  <2>1. job'.pc = "files" /\ job'.by = job.by /\ job'.sha = job.sha
    BY <1>6, <1>j DEF JobSkip, Jobs
  <2> QED
    BY <1>1, <1>6, <2>1 DEF JobSkip, tree, pipes, graph, PipeTypes
<1>7. CASE JobFails
  <2>1. job'.pc = "files" /\ job'.by = job.by /\ job'.sha = job.sha /\ job.f \in Files
    BY <1>7, <1>j DEF JobFails, Jobs
  <2>2. changes' \in 0..MaxChanges
    BY <1>7, ChangeCounts DEF JobFails
  <2> QED
    BY <1>1, <1>7, <2>1, <2>2 DEF JobFails, tree, pipes, graph, PipeTypes
<1>8. CASE JobReplace
  <2>1. PICK C \in SUBSET (Files \ {job.f}) :
          job' = [job EXCEPT !.pc = "files", !.changed = TRUE,
                             !.written = @ \cup {job.f}, !.callers = @ \cup C]
    BY <1>8 DEF JobReplace
  <2>2. job'.pc = "files" /\ job'.by = job.by /\ job'.sha = job.sha /\ job.f \in Files
    BY <2>1, <1>j DEF Jobs
  <2> QED
    BY <1>1, <1>8, <2>2 DEF JobReplace, Replaced, tree, pipes, PipeTypes
<1>9. CASE JobStamp
  <2>1. /\ job'.pc = "sweep" /\ job'.by = job.by /\ job'.sha = job.sha
        /\ job'.todo = {} /\ last' \in Heads
    BY <1>9, <1>j DEF JobStamp, Jobs, PipeTypes
  <2> QED
    BY <1>1, <1>9, <2>1 DEF JobStamp, tree, pipes, graph, PipeTypes
<1>10. CASE JobFinish
  <2>1. queue' \in Seq(Events) /\ Len(queue') <= QueueCap
    <3>1. job.callers \in SUBSET Files
      BY <1>j DEF Jobs
    <3> QED
      BY <1>10, <3>1, EnqueueIs DEF JobFinish, PipeTypes
  <2>2. last' \in Heads
    <3>1. CASE job.by = "reconcile"
      <4>1. job.sha \in 0..MaxHeads /\ job.sha # 0
        BY <1>j, <3>1 DEF Jobs, Shape
      <4>2. job.sha \in Heads
        BY <4>1, HeadsNat DEF Heads
      <4> QED
        BY <1>10, <3>1, <4>2 DEF JobFinish
    <3>2. CASE job.by # "reconcile"
      BY <1>10, <3>2 DEF JobFinish, PipeTypes
    <3> QED
      BY <3>1, <3>2
  <2>3. /\ UNCHANGED <<old, up, raw, pending, flush, chan, missed, changes>>
        /\ unswept' \subseteq unswept
    BY <1>10 DEF JobFinish, Swept, tree
  <2>4. PipeTypes'
    BY <2>1, <2>2, <2>3 DEF PipeTypes
  <2>5. job'.pc = "idle" /\ job'.todo = {} /\ job'.by = "worker"
    BY <1>10 DEF JobFinish, NoJob, NewJob
  <2>6. held' = {} \/ held' = held
    BY <1>10 DEF JobFinish
  <2> QED
    BY <2>3, <2>4, <2>5, <2>6 DEF Shape, WorkerBusy, OnePerFile
<1> QED
  BY <1>2, <1>3, <1>4, <1>5, <1>6, <1>7, <1>8, <1>9, <1>10 DEF Reconcile, Job

LEMMA PipeInvNext == GraphInv /\ PipeInv /\ [Next]_vars => PipeInv'
<1> SUFFICES ASSUME GraphInv, PipeInv, [Next]_vars PROVE PipeInv'
  OBVIOUS
<1>1. CASE UNCHANGED vars
  BY <1>1 DEF vars, tree, pipes, graph, PipeInv, PipeTypes, Shape, WorkerBusy, OnePerFile
<1> QED
  BY <1>1, PipeInvEnvironment, PipeInvWatcher, PipeInvWorker, PipeInvJob DEF Next

LEMMA PipeInvariance == Spec => []PipeInv
BY PipeInvInit, PipeInvNext, GraphInvariance, PTL DEF Spec

\* Every variable keeps to its type, and every hand-over to its capacity: the raw
\* channel, the debounce table, the select loop's channel and the index queue,
\* which the worker itself feeds.
THEOREM TypeCorrect == Spec => []TypeOK
<1>1. GraphInv /\ PipeInv => TypeOK
  <2> SUFFICES ASSUME GraphInv, PipeInv PROVE TypeOK
    OBVIOUS
  <2>1. held \subseteq Events /\ Cardinality(held) <= 1
    BY FS_EmptySet, FS_Singleton DEF PipeInv, Shape
  <2> QED
    BY <2>1 DEF GraphInv, GraphTypes, PipeInv, PipeTypes, TypeOK
<1> QED
  BY <1>1, GraphInvariance, PipeInvariance, PTL

-----------------------------------------------------------------------------
(* What is owed to a file whose events were all taken.  If it is there, its *)
(* last event is an Upsert with no Remove behind it, wherever on its way to *)
(* the worker; or nothing of it is on its way, and a job has its content in *)
(* hand or the index has.  If it is gone, an event of it is on its way that *)
(* will find it gone.  The places are read from the callback to the worker: *)
(* an event in one of them is younger than all those in the places after it. *)

\* The event the worker has not started on; once it has, the job stands for it.
Held == IF WorkerBusy THEN {} ELSE held

UpQueue(f) == UpIn(queue, f) \/ (QuietSeq(queue, f) /\ Upsert(f) \in Held)
UpChan(f) == UpIn(chan, f) \/ (QuietSeq(chan, f) /\ UpQueue(f))
UpFlush(f) == Upsert(f) \in flush \/ (QuietSet(flush, f) /\ UpChan(f))
UpPending(f) == Upsert(f) \in pending \/ (QuietSet(pending, f) /\ UpFlush(f))
Up(f) == UpIn(raw, f) \/ (QuietSeq(raw, f) /\ UpPending(f))

Quiet(f) ==
    /\ QuietSeq(raw, f) /\ QuietSet(pending, f) /\ QuietSet(flush, f)
    /\ QuietSeq(chan, f) /\ QuietSeq(queue, f) /\ QuietSet(Held, f)

\* An event that the event thread does not take for a vanished file.
Due(f) ==
    \/ Has(raw, Removal(f)) \/ ~QuietSet(pending, f) \/ ~QuietSet(flush, f)
    \/ ~QuietSeq(chan, f) \/ ~QuietSeq(queue, f) \/ ~QuietSet(Held, f)

Fresh(f) == indexed[f] = disk[f] \/ disk[f] \in Unparsable

InHand(f) ==
    \/ f \in job.todo
    \/ job.pc = "write" /\ job.f = f /\ job.snap = disk[f]
    \/ Fresh(f) /\ ~(job.pc = "write" /\ job.f = f)

Owes(f) ==
    IF disk[f] = 0 THEN Due(f) \/ InHand(f)
                   ELSE Up(f) \/ (Quiet(f) /\ InHand(f))

Owed == \A f \in Files \ missed : Owes(f)

LEMMA OwedInit == Init => Owed
<1> SUFFICES ASSUME Init PROVE Owed
  OBVIOUS
<1>1. job.pc = "idle"
  BY DEF Init, NoJob, NewJob
<1>2. ASSUME NEW f \in Files PROVE Quiet(f) /\ InHand(f)
  BY <1>1 DEF Init, Quiet, QuietSeq, QuietSet, Held, InHand, Fresh
<1> QED
  BY <1>2 DEF Owed, Owes

\* What keeps the debt to one file.
LEMMA OwesCarried ==
    ASSUME NEW f \in Files, Owes(f), disk'[f] = disk[f],
           Up(f) => Up(f)',
           Quiet(f) => Quiet(f)' \/ Up(f)',
           Due(f) => Due(f)' \/ InHand(f)',
           InHand(f) => InHand(f)'
    PROVE  Owes(f)'
BY DEF Owes

\* The hand-overs as they are.
LEMMA PipesStay ==
    ASSUME UNCHANGED pipes, Held' = Held, NEW f \in Files
    PROVE  (Up(f) => Up(f)') /\ (Quiet(f) => Quiet(f)') /\ (Due(f) => Due(f)')
BY DEF pipes, Up, UpPending, UpFlush, UpChan, UpQueue, Quiet, Due

\* More of them behind the queue.
LEMMA QueueGrows ==
    ASSUME GraphInv, PipeInv, UNCHANGED <<raw, pending, flush, chan>>, Held' = Held,
           NEW callers \in SUBSET Files, queue' \in EnqueueCallers(queue, callers),
           NEW f \in Files
    PROVE  (Up(f) => Up(f)') /\ (Quiet(f) => Quiet(f)' \/ Up(f)') /\ (Due(f) => Due(f)')
<1>1. /\ UpIn(queue, f) => UpIn(queue', f)
      /\ QuietSeq(queue, f) => QuietSeq(queue', f) \/ UpIn(queue', f)
      /\ ~QuietSeq(queue, f) => ~QuietSeq(queue', f)
  BY EnqueueIs DEF PipeInv, PipeTypes
<1> QED
  BY <1>1 DEF Up, UpPending, UpFlush, UpChan, UpQueue, Quiet, Due

\* A change of the tree comes with its event, or with a dropped one.
LEMMA OwedEnvironment ==
    ASSUME GraphInv, PipeInv, Owed, Environment PROVE Owed'
<1>1. ASSUME UNCHANGED <<disk, pipes, held, job, indexed, missed>> PROVE Owed'
  <2>1. Held' = Held
    BY <1>1 DEF Held, WorkerBusy
  <2>2. ASSUME NEW f \in Files \ missed' PROVE Owes(f)'
    <3>1. InHand(f) => InHand(f)'
      BY <1>1 DEF InHand, Fresh
    <3> QED
      BY <1>1, <2>1, <2>2, <3>1, PipesStay, OwesCarried DEF Owed
  <2> QED
    BY <2>2 DEF Owed
<1>2. ASSUME NEW e \in Events, Notify(e),
             UNCHANGED <<pending, flush, chan, queue, held, job, indexed>>,
             NEW v \in Versions, disk' = [disk EXCEPT ![e.f] = v],
             v = 0 <=> e = Removal(e.f)
      PROVE  Owed'
  <2>0. Held' = Held
    BY <1>2 DEF Held, WorkerBusy
  <2>1. ASSUME NEW f \in Files \ missed', f # e.f PROVE Owes(f)'
    <3>1. disk'[f] = disk[f] /\ f \notin missed
      BY <1>2, <2>1 DEF GraphInv, GraphTypes, Notify
    <3>2. InHand(f) => InHand(f)'
      BY <1>2, <3>1 DEF InHand, Fresh
    <3>3. /\ UpIn(raw, f) => UpIn(raw', f)
          /\ QuietSeq(raw, f) => QuietSeq(raw', f)
          /\ Has(raw, Removal(f)) => Has(raw', Removal(f))
      <4>1. CASE raw' = raw
        BY <4>1
      <4>2. CASE raw' = Append(raw, e)
        BY <2>1, <4>2, AppendIs DEF PipeInv, PipeTypes
      <4> QED
        BY <1>2, <4>1, <4>2 DEF Notify
    <3>4. (Up(f) => Up(f)') /\ (Quiet(f) => Quiet(f)') /\ (Due(f) => Due(f)')
      BY <1>2, <2>0, <3>3 DEF Up, UpPending, UpFlush, UpChan, UpQueue, Quiet, Due
    <3> QED
      BY <2>1, <3>1, <3>2, <3>4, OwesCarried DEF Owed
  <2>2. ASSUME NEW f \in Files \ missed', f = e.f PROVE Owes(f)'
    <3>1. raw' = Append(raw, e) /\ raw \in Seq(Events)
      BY <1>2, <2>2 DEF Notify, PipeInv, PipeTypes
    <3>2. disk'[f] = v
      BY <1>2, <2>2 DEF GraphInv, GraphTypes
    <3>3. CASE v = 0
      <4>1. Has(raw', Removal(f))
        BY <1>2, <2>2, <3>1, <3>3, AppendIs
      <4> QED
        BY <3>2, <3>3, <4>1 DEF Owes, Due
    <3>4. CASE v # 0
      <4>1. e = Upsert(f)
        BY <1>2, <2>2, <3>4, EventIs
      <4>2. UpIn(raw', f)
        BY <3>1, <4>1, AppendIs
      <4> QED
        BY <3>2, <3>4, <4>2 DEF Owes, Up
    <3> QED
      BY <3>3, <3>4
  <2> QED
    BY <2>1, <2>2 DEF Owed
<1>0. /\ \A f \in Files : /\ Upsert(f) \in Events /\ Upsert(f).f = f
                          /\ Removal(f) \in Events /\ Removal(f).f = f
                          /\ Upsert(f) # Removal(f)
      /\ 0 \in Versions /\ \A v \in 1..MaxVersion : v \in Versions /\ v # 0
  <2>1. MaxVersion \in Nat
    BY IndexPipelineAssumption
  <2>2. \A f \in Files : Upsert(f).kind # Removal(f).kind
    BY DEF Upsert, Removal
  <2> QED
    BY <2>1, <2>2 DEF Versions, Upsert, Removal, Events, Kinds
<1>3. ASSUME NEW f \in Files, NEW v \in 1..MaxVersion, Write(f, v) \/ MoveIn(f, v)
      PROVE  Owed'
  <2>1. /\ Notify(Upsert(f)) /\ disk' = [disk EXCEPT ![f] = v]
        /\ UNCHANGED <<pending, flush, chan, queue, held, job, indexed>>
    BY <1>3 DEF Write, MoveIn, graph
  <2> QED
    BY <1>0, <1>2, <2>1
<1>4. ASSUME NEW f \in Files, Delete(f) PROVE Owed'
  <2>1. /\ Notify(Removal(f)) /\ disk' = [disk EXCEPT ![f] = 0]
        /\ UNCHANGED <<pending, flush, chan, queue, held, job, indexed>>
    BY <1>4 DEF Delete, graph
  <2> QED
    BY <1>0, <1>2, <2>1
<1>5. ASSUME NEW g \in Files, EditorRequest(g) PROVE Owed'
  <2>1. /\ job.pc = "idle" /\ job'.pc = "files" /\ job'.by = "editor"
        /\ UNCHANGED <<disk, pipes, held, indexed, missed>>
    BY <1>5 DEF EditorRequest, NewJob, tree, graph
  <2>2. Held' = Held
    BY <2>1 DEF Held, WorkerBusy
  <2>3. ASSUME NEW f \in Files \ missed' PROVE Owes(f)'
    <3>1. InHand(f) => InHand(f)'
      BY <2>1 DEF InHand, Fresh, PipeInv, Shape
    <3> QED
      BY <2>1, <2>2, <2>3, <3>1, PipesStay, OwesCarried DEF Owed
  <2> QED
    BY <2>3 DEF Owed
<1>6. CASE MoveHead
  BY <1>1, <1>6 DEF MoveHead, graph
<1>7. CASE Kill
  <2>1. job'.pc = "idle"
    BY <1>7 DEF Kill, NoJob, NewJob
  <2>2. /\ raw' = <<>> /\ pending' = {} /\ flush' = {} /\ chan' = <<>> /\ queue' = <<>>
        /\ held' = {} /\ UNCHANGED <<disk, indexed>>
    BY <1>7 DEF Kill, tree, graph
  <2>3. ASSUME NEW f \in Files \ missed' PROVE Owes(f)'
    <3>1. indexed[f] = disk[f]
      BY <1>7, <2>3 DEF Kill
    <3>2. Quiet(f)'
      BY <2>2 DEF Quiet, QuietSeq, QuietSet, Held
    <3>3. InHand(f)'
      BY <2>1, <2>2, <3>1 DEF InHand, Fresh
    <3> QED
      BY <3>2, <3>3 DEF Owes
  <2> QED
    BY <2>3 DEF Owed
<1>8. CASE Start
  BY <1>1, <1>8 DEF Start, graph
<1> QED
  BY <1>3, <1>4, <1>5, <1>6, <1>7, <1>8 DEF Environment

\* The event thread lets go of an event only if it is replayed, or an Upsert whose
\* file is gone.
LEMMA OwedEventThread ==
    ASSUME GraphInv, PipeInv, Owed, EventThread PROVE Owed'
<1> DEFINE e == Head(raw)
<1>1. /\ raw \in Seq(Events) /\ raw # <<>> /\ raw' = Tail(raw)
      /\ UNCHANGED <<disk, flush, chan, queue, held, job, indexed>>
  BY DEF EventThread, PipeInv, PipeTypes, tree, graph
<1>2. Held' = Held
  BY <1>1 DEF Held, WorkerBusy
<1>3. ASSUME NEW f \in Files \ missed', f # e.f PROVE Owes(f)'
  <2>1. f \notin missed /\ \A p : p.f = f => (p \in pending' <=> p \in pending)
    BY <1>3 DEF EventThread, Coalesce
  <2>2. /\ UpIn(raw, f) => UpIn(raw', f)
        /\ QuietSeq(raw, f) => QuietSeq(raw', f)
        /\ Has(raw, Removal(f)) => Has(raw', Removal(f))
    <3>1. Upsert(f).f = f /\ Removal(f).f = f
      BY DEF Upsert, Removal
    <3> QED
      BY <1>1, <1>3, <3>1, TailIs
  <2>3. /\ Upsert(f) \in pending <=> Upsert(f) \in pending'
        /\ QuietSet(pending, f) <=> QuietSet(pending', f)
    <3>1. Upsert(f).f = f
      BY DEF Upsert
    <3> QED
      BY <2>1, <3>1 DEF QuietSet
  <2>4. (Up(f) => Up(f)') /\ (Quiet(f) => Quiet(f)') /\ (Due(f) => Due(f)')
    BY <1>1, <1>2, <2>2, <2>3 DEF Up, UpPending, UpFlush, UpChan, UpQueue, Quiet, Due
  <2>5. InHand(f) => InHand(f)'
    BY <1>1 DEF InHand, Fresh
  <2> QED
    BY <1>1, <1>3, <2>1, <2>4, <2>5, OwesCarried DEF Owed
<1>4. ASSUME NEW f \in Files \ missed', f = e.f PROVE Owes(f)'
  <2>1. /\ e \in Events /\ e \notin {Removal(f)} => e = Upsert(f)
        /\ ~QuietSeq(raw, f)
        /\ UpIn(raw, f) => UpIn(raw', f) \/ (QuietSeq(raw', f) /\ e = Upsert(f))
        /\ Has(raw, Removal(f)) => Has(raw', Removal(f)) \/ e = Removal(f)
    <3>1. e \in Events
      BY <1>1, <1>4, TailIs
    <3>2. Has(raw, e)
      BY <1>1, <1>4, TailIs
    <3>3. ~QuietSeq(raw, f)
      BY <1>4, <3>2 DEF Has, QuietSeq
    <3> HIDE DEF e
    <3>4. e \notin {Removal(f)} => e = Upsert(f)
      BY <1>4, <3>1, EventIs
    <3> QED
      BY <1>1, <3>1, <3>3, <3>4, TailIs DEF e
  <2>2. f \notin missed /\ Owes(f)
    <3>1. f \notin missed
      BY <1>4 DEF EventThread, Coalesce
    <3> QED
      BY <3>1 DEF Owed
  <2>3. CASE Vanished(e) /\ UNCHANGED pending
    <3>1. disk[f] = 0 /\ e # Removal(f)
      BY <1>4, <2>3 DEF Vanished, Removal
    <3>2. InHand(f) => InHand(f)'
      BY <1>1 DEF InHand, Fresh
    <3>3. Due(f) => Due(f)'
      BY <1>1, <1>2, <2>1, <2>3, <3>1 DEF Due
    <3> QED
      BY <1>1, <2>2, <3>1, <3>2, <3>3 DEF Owes
  <2>4. CASE ~Vanished(e) /\ e \in pending'
    <3>1. CASE disk[f] = 0
      <4>1. ~QuietSet(pending', f)
        BY <1>4, <2>4 DEF QuietSet
      <4> QED
        BY <1>1, <3>1, <4>1 DEF Owes, Due
    <3>2. CASE disk[f] # 0
      <4>1. UpIn(raw, f)
        BY <2>1, <2>2, <3>2 DEF Owes, Up, Quiet
      <4>2. Up(f)'
        BY <2>1, <2>4, <4>1 DEF Up, UpPending
      <4> QED
        BY <1>1, <3>2, <4>2 DEF Owes
    <3> QED
      BY <3>1, <3>2
  <2>5. ~(f \in missed')
    BY <1>4
  <2>6. Coalesce(e) => e \in pending'
    BY <1>4, <2>5 DEF Coalesce
  <2> QED
    BY <1>4, <2>3, <2>4, <2>5, <2>6 DEF EventThread
<1> QED
  BY <1>3, <1>4 DEF Owed

\* The flush thread moves an event to the next place, and waits for its predecessors.
LEMMA OwedFlush ==
    ASSUME GraphInv, PipeInv, Owed, FlushTake \/ FlushSend PROVE Owed'
<1>1. /\ UNCHANGED <<disk, raw, queue, held, job, indexed, missed>>
      /\ OnePerFile(pending) /\ OnePerFile(flush)
      /\ pending \subseteq Events /\ flush \subseteq Events /\ chan \in Seq(Events)
  BY DEF FlushTake, FlushSend, PipeInv, PipeTypes, Shape, tree, graph
<1>2. Held' = Held
  BY <1>1 DEF Held, WorkerBusy
<1>3. ASSUME NEW f \in Files \ missed' PROVE Owes(f)'
  <2>1. InHand(f) => InHand(f)'
    BY <1>1 DEF InHand, Fresh
  <2>2. Upsert(f).f = f
    BY DEF Upsert
  <2>3. CASE FlushTake
    <3>1. PICK S \in SUBSET pending : flush' = S /\ pending' = pending \ S
      BY <2>3 DEF FlushTake
    <3>2. flush = {} /\ UNCHANGED chan
      BY <2>3 DEF FlushTake
    <3>3. /\ Upsert(f) \in pending =>
                Upsert(f) \in pending' \/ (QuietSet(pending', f) /\ Upsert(f) \in flush')
          /\ QuietSet(pending, f) => QuietSet(pending', f) /\ QuietSet(flush', f)
          /\ ~QuietSet(pending, f) => ~QuietSet(pending', f) \/ ~QuietSet(flush', f)
          /\ QuietSet(flush, f) /\ Upsert(f) \notin flush
      BY <1>1, <2>2, <3>1, <3>2 DEF QuietSet, OnePerFile
    <3>4. (Up(f) => Up(f)') /\ (Quiet(f) => Quiet(f)') /\ (Due(f) => Due(f)')
      BY <1>1, <1>2, <3>2, <3>3 DEF Up, UpPending, UpFlush, UpChan, UpQueue, Quiet, Due
    <3> QED
      BY <1>1, <1>3, <2>1, <3>4, OwesCarried DEF Owed
  <2>4. CASE FlushSend
    <3>1. PICK e \in flush : flush' = flush \ {e} /\ chan' = Append(chan, e)
      BY <2>4 DEF FlushSend
    <3>2. UNCHANGED pending /\ e \in Events
      BY <1>1, <2>4, <3>1 DEF FlushSend
    <3>3. /\ Upsert(f) \in flush =>
                Upsert(f) \in flush' \/ (QuietSet(flush', f) /\ UpIn(chan', f))
          /\ QuietSet(flush, f) => QuietSet(flush', f) /\ e.f # f
          /\ ~QuietSet(flush, f) => ~QuietSet(flush', f) \/ e.f = f
      <4>1. e = Upsert(f) => UpIn(chan', f)
        BY <1>1, <3>1, <3>2, AppendIs
      <4> QED
        BY <1>1, <2>2, <3>1, <4>1 DEF QuietSet, OnePerFile
    <3>4. /\ e.f # f /\ UpIn(chan, f) => UpIn(chan', f)
          /\ e.f # f /\ QuietSeq(chan, f) => QuietSeq(chan', f)
          /\ ~QuietSeq(chan, f) \/ e.f = f => ~QuietSeq(chan', f)
      BY <1>1, <3>1, <3>2, AppendIs
    <3>5. (Up(f) => Up(f)') /\ (Quiet(f) => Quiet(f)') /\ (Due(f) => Due(f)')
      BY <1>1, <1>2, <3>2, <3>3, <3>4
         DEF Up, UpPending, UpFlush, UpChan, UpQueue, Quiet, Due
    <3> QED
      BY <1>1, <1>3, <2>1, <3>5, OwesCarried DEF Owed
  <2> QED
    BY <2>3, <2>4
<1> QED
  BY <1>3 DEF Owed

\* The select loop drops an event or puts it behind the others.
LEMMA OwedForward ==
    ASSUME GraphInv, PipeInv, Owed, Forward PROVE Owed'
<1> DEFINE e == Head(chan)
<1>1. /\ UNCHANGED <<disk, raw, pending, flush, held, job, indexed>>
      /\ chan \in Seq(Events) /\ chan # <<>> /\ chan' = Tail(chan) /\ queue \in Seq(Events)
  BY DEF Forward, PipeInv, PipeTypes, tree, graph
<1>2. Held' = Held
  BY <1>1 DEF Held, WorkerBusy
<1>3. ASSUME NEW f \in Files \ missed' PROVE Owes(f)'
  <2>1. InHand(f) => InHand(f)'
    BY <1>1 DEF InHand, Fresh
  <2>2. f \notin missed /\ Owes(f)
    BY <1>3 DEF Forward, Owed
  <2>3. /\ e \in Events
        /\ UpIn(chan, f) => UpIn(chan', f) \/ (QuietSeq(chan', f) /\ e = Upsert(f))
        /\ QuietSeq(chan, f) => QuietSeq(chan', f) /\ e.f # f
        /\ ~QuietSeq(chan, f) => ~QuietSeq(chan', f) \/ e.f = f
    BY <1>1, TailIs
  <2> HIDE DEF e
  <2>4. CASE queue' = Append(queue, e)
    <3>1. /\ e = Upsert(f) => UpIn(queue', f)
          /\ e.f # f /\ UpIn(queue, f) => UpIn(queue', f)
          /\ e.f # f /\ QuietSeq(queue, f) => QuietSeq(queue', f)
          /\ ~QuietSeq(queue, f) \/ e.f = f => ~QuietSeq(queue', f)
      BY <1>1, <2>3, <2>4, AppendIs
    <3>2. (Up(f) => Up(f)') /\ (Quiet(f) => Quiet(f)') /\ (Due(f) => Due(f)')
      BY <1>1, <1>2, <2>3, <3>1 DEF Up, UpPending, UpFlush, UpChan, UpQueue, Quiet, Due
    <3> QED
      BY <1>1, <2>1, <2>2, <3>2, OwesCarried
  <2>5. CASE missed' = missed \cup {e.f} /\ UNCHANGED queue
    <3>1. e.f # f /\ e # Upsert(f)
      BY <1>3, <2>5 DEF Upsert
    <3>2. (Up(f) => Up(f)') /\ (Quiet(f) => Quiet(f)') /\ (Due(f) => Due(f)')
      BY <1>1, <1>2, <2>3, <2>5, <3>1
         DEF Up, UpPending, UpFlush, UpChan, UpQueue, Quiet, Due
    <3> QED
      BY <1>1, <2>1, <2>2, <3>2, OwesCarried
  <2> QED
    BY <2>4, <2>5 DEF Forward, e
<1> QED
  BY <1>3 DEF Owed

\* The worker holds the oldest event; an Upsert becomes a job, a Remove is only
\* harmless because the file is gone or an Upsert is on its way.
LEMMA OwedWorker ==
    ASSUME GraphInv, PipeInv, Owed, Worker PROVE Owed'
<1>1. CASE WorkerTake
  <2> DEFINE e == Head(queue)
  <2>1. /\ UNCHANGED <<disk, raw, pending, flush, chan, job, indexed, missed>>
        /\ queue \in Seq(Events) /\ queue # <<>> /\ queue' = Tail(queue)
        /\ held = {} /\ held' = {e}
    BY <1>1 DEF WorkerTake, PipeInv, PipeTypes, tree, graph
  <2>2. Held = {} /\ Held' = {e}
    <3>1. ~WorkerBusy /\ ~WorkerBusy'
      BY <2>1 DEF PipeInv, Shape, WorkerBusy
    <3> QED
      BY <2>1, <3>1 DEF Held
  <2>3. ASSUME NEW f \in Files \ missed' PROVE Owes(f)'
    <3>1. InHand(f) => InHand(f)'
      BY <2>1 DEF InHand, Fresh
    <3>2. /\ UpIn(queue, f) => UpIn(queue', f) \/ (QuietSeq(queue', f) /\ e = Upsert(f))
          /\ QuietSeq(queue, f) => QuietSeq(queue', f) /\ e.f # f
          /\ ~QuietSeq(queue, f) => ~QuietSeq(queue', f) \/ e.f = f
      BY <2>1, TailIs
    <3> HIDE DEF e
    <3>3. (Up(f) => Up(f)') /\ (Quiet(f) => Quiet(f)') /\ (Due(f) => Due(f)')
      BY <2>1, <2>2, <3>2
         DEF Up, UpPending, UpFlush, UpChan, UpQueue, Quiet, Due, QuietSet
    <3> QED
      BY <2>1, <2>3, <3>1, <3>3, OwesCarried DEF Owed
  <2> QED
    BY <2>3 DEF Owed
<1>2. CASE WorkerRemove
  <2>1. PICK g \in Files : /\ held = {Removal(g)} /\ Deleted(g)
                           /\ queue' \in EnqueueCallers(queue, Callers(g))
    BY <1>2 DEF WorkerRemove
  <2>2. /\ UNCHANGED <<disk, raw, pending, flush, chan, job, missed>>
        /\ job.pc = "idle" /\ held' = {}
        /\ indexed' = [indexed EXCEPT ![g] = 0]
    BY <1>2, <2>1 DEF WorkerRemove, Deleted, tree
  <2>3. Held = {Removal(g)} /\ Held' = {}
    BY <2>1, <2>2 DEF Held, WorkerBusy
  <2>4. Callers(g) \in SUBSET Files
    BY IndexPipelineAssumption DEF Callers, GraphInv, GraphTypes
  <2>5. ASSUME NEW f \in Files \ missed' PROVE Owes(f)'
    <3>1. Owes(f)
      BY <2>2, <2>5 DEF Owed
    <3>2. Upsert(f) # Removal(g) /\ Removal(g).f = g
      <4>1. Upsert(f).kind # Removal(g).kind
        BY DEF Upsert, Removal
      <4> QED
        BY <4>1 DEF Removal
    <3>3. /\ UpIn(queue, f) => UpIn(queue', f)
          /\ QuietSeq(queue, f) => QuietSeq(queue', f) \/ UpIn(queue', f)
          /\ ~QuietSeq(queue, f) => ~QuietSeq(queue', f)
      BY <2>1, <2>4, EnqueueIs DEF PipeInv, PipeTypes
    <3>4. Up(f) => Up(f)'
      BY <2>2, <2>3, <3>2, <3>3 DEF Up, UpPending, UpFlush, UpChan, UpQueue
    <3>5. indexed'[f] = IF f = g THEN 0 ELSE indexed[f]
      BY <2>2 DEF GraphInv, GraphTypes
    <3>6. CASE f = g
      <4>1. ~Quiet(f)
        BY <2>3, <3>2, <3>6 DEF Quiet, QuietSet
      <4>2. disk[f] = 0 => InHand(f)'
        BY <2>2, <3>5, <3>6 DEF InHand, Fresh
      <4> QED
        BY <2>2, <3>1, <3>4, <4>1, <4>2 DEF Owes
    <3>7. CASE f # g
      <4>1. InHand(f) => InHand(f)'
        BY <2>2, <3>5, <3>7 DEF InHand, Fresh
      <4>2. (Quiet(f) => Quiet(f)' \/ Up(f)') /\ (Due(f) => Due(f)')
        BY <2>2, <2>3, <3>2, <3>3, <3>7
           DEF Up, UpPending, UpFlush, UpChan, UpQueue, Quiet, Due, QuietSet
      <4> QED
        BY <2>2, <3>1, <3>4, <4>1, <4>2, OwesCarried
    <3> QED
      BY <3>6, <3>7
  <2> QED
    BY <2>5 DEF Owed
<1>3. CASE WorkerRemoveFails
  <2>1. PICK g \in Files : held = {Removal(g)} /\ missed' = missed \cup {g}
    BY <1>3 DEF WorkerRemoveFails
  <2>2. /\ UNCHANGED <<disk, raw, pending, flush, chan, queue, job, indexed>>
        /\ job.pc = "idle" /\ held' = {}
    BY <1>3 DEF WorkerRemoveFails, tree, pipes, graph
  <2>3. Held = {Removal(g)} /\ Held' = {}
    BY <2>1, <2>2 DEF Held, WorkerBusy
  <2>4. ASSUME NEW f \in Files \ missed' PROVE Owes(f)'
    <3>1. f \notin missed /\ f # g
      BY <2>1, <2>4
    <3>2. Upsert(f) # Removal(g) /\ Removal(g).f = g
      <4>1. Upsert(f).kind # Removal(g).kind
        BY DEF Upsert, Removal
      <4> QED
        BY <4>1 DEF Removal
    <3>3. (Up(f) => Up(f)') /\ (Quiet(f) => Quiet(f)') /\ (Due(f) => Due(f)')
      BY <2>2, <2>3, <3>1, <3>2
         DEF Up, UpPending, UpFlush, UpChan, UpQueue, Quiet, Due, QuietSet
    <3>4. InHand(f) => InHand(f)'
      BY <2>2 DEF InHand, Fresh
    <3> QED
      BY <2>2, <3>1, <3>3, <3>4, OwesCarried DEF Owed
  <2> QED
    BY <2>4 DEF Owed
<1>4. CASE WorkerUpsert
  <2>1. PICK g \in Files : held = {Upsert(g)} /\ job' = NewJob("worker", {g}, 0)
    BY <1>4 DEF WorkerUpsert
  <2>2. /\ UNCHANGED <<disk, raw, pending, flush, chan, queue, held, indexed, missed>>
        /\ job.pc = "idle"
    BY <1>4 DEF WorkerUpsert, tree, pipes, graph
  <2>3. job'.pc = "files" /\ job'.by = "worker" /\ job'.todo = {g} /\ job.todo = {}
    BY <2>1, <2>2 DEF NewJob, PipeInv, Shape
  <2>4. Held = {Upsert(g)} /\ Held' = {}
    BY <2>1, <2>2, <2>3 DEF Held, WorkerBusy
  <2>5. ASSUME NEW f \in Files \ missed' PROVE Owes(f)'
    <3>1. Owes(f) /\ Upsert(g).f = g /\ (Upsert(f) = Upsert(g) => f = g)
      BY <2>2, <2>5 DEF Owed, Upsert
    <3>2. InHand(f) => InHand(f)'
      BY <2>2, <2>3 DEF InHand, Fresh
    <3>3. CASE f = g
      <4>1. InHand(f)'
        BY <2>3, <3>3 DEF InHand
      <4>2. (Up(f) => Up(f)' \/ Quiet(f)') /\ ~Quiet(f)
        BY <2>2, <2>4, <3>1, <3>3
           DEF Up, UpPending, UpFlush, UpChan, UpQueue, Quiet, QuietSet
      <4> QED
        BY <2>2, <3>1, <4>1, <4>2 DEF Owes
    <3>4. CASE f # g
      <4>1. (Up(f) => Up(f)') /\ (Quiet(f) => Quiet(f)') /\ (Due(f) => Due(f)')
        BY <2>2, <2>4, <3>1, <3>4
           DEF Up, UpPending, UpFlush, UpChan, UpQueue, Quiet, Due, QuietSet
      <4> QED
        BY <2>2, <3>1, <3>2, <4>1, OwesCarried
    <3> QED
      BY <3>3, <3>4
  <2> QED
    BY <2>5 DEF Owed
<1> QED
  BY <1>1, <1>2, <1>3, <1>4 DEF Worker

\* A file that no Remove of which is on its way is owed nothing, or an Upsert.
LEMMA NoRemovals ==
    ASSUME PipeInv, NEW f \in Files, f \notin Removals
    PROVE  Up(f) \/ Quiet(f)
<1>1. /\ ~Has(raw, Removal(f)) /\ ~Has(chan, Removal(f)) /\ ~Has(queue, Removal(f))
      /\ Removal(f) \notin pending /\ Removal(f) \notin flush /\ Removal(f) \notin Held
  BY DEF Removals, Has, Held
<1>2. /\ UpIn(raw, f) \/ QuietSeq(raw, f)
      /\ UpIn(chan, f) \/ QuietSeq(chan, f)
      /\ UpIn(queue, f) \/ QuietSeq(queue, f)
  BY <1>1, NoRemovalIs DEF PipeInv, PipeTypes
<1>3. ASSUME NEW S \in SUBSET Events, Removal(f) \notin S
      PROVE  Upsert(f) \in S \/ QuietSet(S, f)
  BY <1>3, EventIs DEF QuietSet
<1>4. pending \subseteq Events /\ flush \subseteq Events /\ Held \subseteq Events
  BY DEF PipeInv, PipeTypes, Shape, Held
<1>5. /\ Upsert(f) \in pending \/ QuietSet(pending, f)
      /\ Upsert(f) \in flush \/ QuietSet(flush, f)
      /\ Upsert(f) \in Held \/ QuietSet(Held, f)
  BY <1>1, <1>3, <1>4
<1> QED
  BY <1>2, <1>5 DEF Up, UpPending, UpFlush, UpChan, UpQueue, Quiet

\* A job writes what it read if the file still says so; a file that changed since
\* has an event on its way.
LEMMA OwedJob ==
    ASSUME GraphInv, PipeInv, Owed, Reconcile \/ Job PROVE Owed'
<1>j. job \in Jobs
  BY DEF GraphInv, GraphTypes
<1>1. ASSUME UNCHANGED <<disk, pipes, held>>, WorkerBusy' = WorkerBusy, missed \subseteq missed',
             \A f \in Files \ missed' : InHand(f) => InHand(f)'
      PROVE  Owed'
  <2>1. Held' = Held
    BY <1>1 DEF Held
  <2>2. ASSUME NEW f \in Files \ missed' PROVE Owes(f)'
    <3>1. (Up(f) => Up(f)') /\ (Quiet(f) => Quiet(f)') /\ (Due(f) => Due(f)')
      BY <1>1, <2>1, PipesStay
    <3> QED
      BY <1>1, <2>2, <3>1, OwesCarried DEF Owed
  <2> QED
    BY <2>2 DEF Owed
<1>2. CASE DriftSeen
  <2>1. UNCHANGED <<disk, pipes, held, job, indexed, missed>>
    BY <1>2 DEF DriftSeen, tree, graph
  <2> QED
    BY <1>1, <2>1 DEF WorkerBusy, InHand, Fresh
<1>3. CASE ReconcileStart
  <2>1. /\ job.pc = "idle" /\ job'.pc = "files" /\ job'.by = "reconcile"
        /\ UNCHANGED <<disk, pipes, held, indexed, missed>>
    BY <1>3 DEF ReconcileStart, NewJob, tree, graph
  <2> QED
    BY <1>1, <2>1 DEF WorkerBusy, InHand, Fresh, PipeInv, Shape
<1>4. CASE JobRead
  <2>1. PICK g \in job.todo :
          /\ job' = [job EXCEPT !.pc = "write", !.todo = @ \ {g}, !.f = g, !.snap = disk[g]]
          /\ missed' = missed \ ({g} \ Removals)
    BY <1>4 DEF JobRead
  <2>2. /\ job.pc = "files" /\ job'.pc = "write" /\ job'.by = job.by /\ job'.f = g
        /\ job'.todo = job.todo \ {g} /\ job'.snap = disk[g]
    BY <1>4, <2>1, <1>j DEF JobRead, Jobs
  <2>3. UNCHANGED <<disk, pipes, held, indexed>>
    BY <1>4 DEF JobRead, tree, graph
  <2>4. Held' = Held
    BY <2>2, <2>3 DEF Held, WorkerBusy
  <2>5. ASSUME NEW f \in Files \ missed' PROVE Owes(f)'
    <3>1. (Up(f) => Up(f)') /\ (Quiet(f) => Quiet(f)') /\ (Due(f) => Due(f)')
      BY <2>3, <2>4, PipesStay
    <3>2. InHand(f) => InHand(f)'
      BY <2>2, <2>3 DEF InHand, Fresh
    <3>3. CASE f \notin missed
      BY <2>3, <2>5, <3>1, <3>2, <3>3, OwesCarried DEF Owed
    <3>4. CASE f \in missed
      <4>1. f = g /\ f \notin Removals
        BY <2>1, <2>5, <3>4
      <4>2. InHand(f)'
        BY <2>2, <2>3, <4>1 DEF InHand
      <4>3. Up(f) \/ Quiet(f)
        BY <4>1, NoRemovals
      <4> QED
        BY <3>1, <4>2, <4>3 DEF Owes
    <3> QED
      BY <3>3, <3>4
  <2> QED
    BY <2>5 DEF Owed
<1>5. CASE JobDelete
  <2>1. /\ job' = [job EXCEPT !.pc = "files", !.changed = TRUE,
                              !.written = @ \ {job.f}, !.callers = @ \cup Callers(job.f)]
        /\ indexed' = [indexed EXCEPT ![job.f] = 0]
        /\ job.pc = "write" /\ job.snap = 0 /\ job.f \notin job.todo
        /\ UNCHANGED <<disk, pipes, held, missed>>
    BY <1>5 DEF JobDelete, Deleted, PipeInv, Shape, tree
  <2>2. job'.pc = "files" /\ job'.by = job.by /\ job'.todo = job.todo /\ job'.f = job.f
    BY <2>1, <1>j DEF Jobs
  <2>3. \A f \in Files : indexed'[f] = IF f = job.f THEN 0 ELSE indexed[f]
    BY <2>1 DEF GraphInv, GraphTypes
  <2>4. ASSUME NEW f \in Files \ missed', InHand(f) PROVE InHand(f)'
    BY <2>1, <2>2, <2>3, <2>4 DEF InHand, Fresh
  <2> QED
    BY <1>1, <2>1, <2>2, <2>4 DEF WorkerBusy
<1>6. CASE JobSkip
  <2>1. /\ job'.pc = "files" /\ job'.by = job.by /\ job'.todo = job.todo /\ job'.f = job.f
        /\ job.pc = "write" /\ job.f \notin job.todo
        /\ job.snap = indexed[job.f] \/ job.snap \in Unparsable
        /\ UNCHANGED <<disk, pipes, held, indexed, missed>>
    BY <1>6, <1>j DEF JobSkip, Jobs, PipeInv, Shape, tree, graph
  <2>2. ASSUME NEW f \in Files \ missed', InHand(f) PROVE InHand(f)'
    BY <2>1, <2>2 DEF InHand, Fresh
  <2> QED
    BY <1>1, <2>1, <2>2 DEF WorkerBusy
<1>7. CASE JobFails
  <2>1. /\ job'.pc = "files" /\ job'.by = job.by /\ job'.todo = job.todo /\ job'.f = job.f
        /\ job.pc = "write" /\ missed' = missed \cup {job.f}
        /\ UNCHANGED <<disk, pipes, held, indexed>>
    BY <1>7, <1>j DEF JobFails, Jobs, tree, graph
  <2>2. ASSUME NEW f \in Files \ missed', InHand(f) PROVE InHand(f)'
    BY <2>1, <2>2 DEF InHand, Fresh
  <2> QED
    BY <1>1, <2>1, <2>2 DEF WorkerBusy
<1>8. CASE JobReplace
  <2>1. PICK C \in SUBSET (Files \ {job.f}) :
          job' = [job EXCEPT !.pc = "files", !.changed = TRUE,
                             !.written = @ \cup {job.f}, !.callers = @ \cup C]
    BY <1>8 DEF JobReplace
  <2>2. /\ job'.pc = "files" /\ job'.by = job.by /\ job'.todo = job.todo /\ job'.f = job.f
        /\ job.pc = "write" /\ job.f \notin job.todo
        /\ indexed' = [indexed EXCEPT ![job.f] = job.snap]
        /\ UNCHANGED <<disk, pipes, held, missed>>
    BY <1>8, <2>1, <1>j DEF JobReplace, Replaced, Jobs, PipeInv, Shape, tree
  <2>3. \A f \in Files : indexed'[f] = IF f = job.f THEN job.snap ELSE indexed[f]
    BY <2>2 DEF GraphInv, GraphTypes
  <2>4. ASSUME NEW f \in Files \ missed', InHand(f) PROVE InHand(f)'
    BY <2>2, <2>3, <2>4 DEF InHand, Fresh
  <2> QED
    BY <1>1, <2>2, <2>4 DEF WorkerBusy
<1>9. CASE JobStamp
  <2>1. /\ job'.pc = "sweep" /\ job'.by = job.by /\ job'.todo = job.todo /\ job'.f = job.f
        /\ job.pc = "files" /\ UNCHANGED <<disk, pipes, held, indexed, missed>>
    BY <1>9, <1>j DEF JobStamp, Jobs, tree, graph
  <2>2. ASSUME NEW f \in Files \ missed', InHand(f) PROVE InHand(f)'
    BY <2>1, <2>2 DEF InHand, Fresh
  <2> QED
    BY <1>1, <2>1, <2>2 DEF WorkerBusy
<1>10. CASE JobFinish
  <2>1. /\ job.pc = "sweep" /\ job.todo = {} /\ job'.pc = "idle"
        /\ held' = (IF job.by = "worker" THEN {} ELSE held)
        /\ UNCHANGED <<disk, raw, pending, flush, chan, indexed, missed>>
    BY <1>10 DEF JobFinish, NoJob, NewJob, PipeInv, Shape, tree
  <2>2. Held' = Held
    BY <2>1 DEF Held, WorkerBusy
  <2>3. job.callers \in SUBSET Files /\ queue' \in EnqueueCallers(queue, job.callers)
    BY <1>10, <1>j DEF JobFinish, Jobs
  <2>4. ASSUME NEW f \in Files \ missed' PROVE Owes(f)'
    <3>1. (Up(f) => Up(f)') /\ (Quiet(f) => Quiet(f)' \/ Up(f)') /\ (Due(f) => Due(f)')
      BY <2>1, <2>2, <2>3, QueueGrows
    <3>2. InHand(f) => InHand(f)'
      BY <2>1 DEF InHand, Fresh
    <3> QED
      BY <2>1, <2>4, <3>1, <3>2, OwesCarried DEF Owed
  <2> QED
    BY <2>4 DEF Owed
<1> QED
  BY <1>2, <1>3, <1>4, <1>5, <1>6, <1>7, <1>8, <1>9, <1>10 DEF Reconcile, Job

LEMMA OwedNext == GraphInv /\ PipeInv /\ Owed /\ [Next]_vars => Owed'
<1> SUFFICES ASSUME GraphInv, PipeInv, Owed, [Next]_vars PROVE Owed'
  OBVIOUS
<1>1. CASE UNCHANGED vars
  <2>1. UNCHANGED <<disk, pipes, held, job, indexed, missed>>
    BY <1>1 DEF vars, tree, graph
  <2>2. Held' = Held
    BY <2>1 DEF Held, WorkerBusy
  <2>3. ASSUME NEW f \in Files \ missed' PROVE Owes(f)'
    <3>1. InHand(f) => InHand(f)'
      BY <2>1 DEF InHand, Fresh
    <3> QED
      BY <2>1, <2>2, <2>3, <3>1, PipesStay, OwesCarried DEF Owed
  <2> QED
    BY <2>3 DEF Owed
<1> QED
  BY <1>1, OwedEnvironment, OwedEventThread, OwedFlush, OwedForward, OwedWorker, OwedJob
     DEF Next, Watcher

\* At rest the index has the content of every file none of whose events was
\* dropped, whatever the order of saves, deletions, recreations, editor requests
\* and reconciles, with the coalescing of the debounce table, the replay guard and
\* the bounded hand-overs in between: no older job and no delayed Remove has the
\* last word.
THEOREM FreshWhenAtRest == Spec => []FreshAtRest
<1>1. PipeInv /\ Owed => FreshAtRest
  <2> SUFFICES ASSUME PipeInv, Owed, AtRest, NEW f \in Files \ missed PROVE Fresh(f)
    BY DEF FreshAtRest, Fresh
  <2>1. Owes(f)
    BY DEF Owed
  <2>2. ~Due(f) /\ ~Up(f)
    BY DEF AtRest, Due, Up, UpPending, UpFlush, UpChan, UpQueue, UpIn, QuietSeq, QuietSet,
           Has, Held
  <2>3. InHand(f)
    BY <2>1, <2>2 DEF Owes
  <2> QED
    BY <2>3 DEF AtRest, InHand, PipeInv, Shape
<1>2. Spec => []Owed
  BY OwedInit, OwedNext, GraphInvariance, PipeInvariance, PTL DEF Spec
<1> QED
  BY <1>1, <1>2, PipeInvariance, PTL

=============================================================================
