---------------------------- MODULE SemanticMarkers ----------------------------
(***************************************************************************)
(* The freshness markers of the semantic layer and everybody who moves     *)
(* them.  `travsr status' reads "semantic: complete" off four rows of the  *)
(* `meta' table: last_commit, phase_b_commit, phase_b_dirty and            *)
(* phase_b_warnings.  They are written by                                  *)
(*                                                                         *)
(*   - the daemon's reindex jobs (a watched save, a git hook, the HEAD     *)
(*     reconcile), which run under the daemon's store mutex;               *)
(*   - the daemon's background Phase B, which analyses the tree without    *)
(*     that mutex and takes it again to write;                             *)
(*   - `travsr init', a separate process with its own connection, kept     *)
(*     apart from other inits by init.lock and from nothing else.          *)
(*                                                                         *)
(* Each set_meta and each table write is a transaction of its own, so each *)
(* is a step here.  The daemon and init die between steps; rows survive.   *)
(*                                                                         *)
(* A file's content is a version number; its absence is a version too.     *)
(* Files are those whose language has traced calls (no other file can drop *)
(* a call edge), each in a language of its own, and there is one more      *)
(* language whose files never change.  Commits are numbered in the order   *)
(* they are made.  The database is initialised in the current signature    *)
(* format; module InitRebuild has the other ones.                          *)
(***************************************************************************)
EXTENDS Naturals, FiniteSets

CONSTANTS
    Files,              \* files in traced languages
    MaxVersion,         \* bound on the versions of one file
    MaxCommits,         \* bound on the commits made
    MaxFailures,        \* phase_b_sched's MAX_RETRIES: runs that may all crash
    WithInit,           \* whether `travsr init' is run beside the daemon
    StoreMayFail        \* whether the write of a Phase B result may fail

ASSUME SemanticMarkersAssumption ==
    /\ IsFiniteSet(Files) /\ Files # {}
    /\ MaxVersion \in Nat \ {0}
    /\ MaxCommits \in Nat \ {0}
    /\ MaxFailures \in Nat \ {0}
    /\ WithInit \in BOOLEAN
    /\ StoreMayFail \in BOOLEAN

VARIABLES
    disk,       \* content of each file in the working tree
    tip,        \* the newest commit
    head,       \* the commit HEAD points at
    hooks,      \* commits named by hook messages not yet handled
    indexed,    \* content each file's nodes were parsed from
    traced,     \* content each file's call edges come from; 0: some were dropped
    last,       \* meta last_commit
    pb,         \* meta phase_b_commit; 0: absent
    dirty,      \* meta phase_b_dirty
    seq,        \* meta phase_b_dirty_seq
    warned,     \* meta phase_b_warnings names a crashed language
    fails,      \* the scheduler's consecutive all-crashed runs
    job,        \* the reindex job that holds the daemon's store mutex
    bg,         \* the background Phase B run
    ini,        \* the init process
    lost        \* history: files whose dropped calls no flag accounts for

tree == <<disk, tip, head>>
rows == <<indexed, traced>>
metas == <<last, pb, dirty, seq, warned>>
vars == <<tree, hooks, rows, metas, fails, job, bg, ini, lost>>

Versions == 0..MaxVersion
Commits == 1..MaxCommits
None == [f \in Files |-> 0]
Languages == Files \cup {"other"}

\* A reindex job: what started it, the files it has yet to read, the ones it
\* replaced, and the commit it stamps at the end.
Jobs == [pc : {"idle", "files", "stamp", "mark", "bump", "finish"},
         kind : {"save", "commit", "drift"}, todo : SUBSET Files,
         hit : SUBSET Files, sha : Commits]
Idle == [pc |-> "idle", kind |-> "save", todo |-> {}, hit |-> {}, sha |-> 1]

\* A Phase B pass of the daemon: the commit it will stamp, the newest commit and
\* the contents when it read the tree, and (history) the files that changed
\* under it since.
Runs == [pc : {"off", "analyse", "write", "stamp", "clear"}, target : 0..MaxCommits,
         tip : 0..MaxCommits, snap : [Files -> Versions], missed : SUBSET Files]
NoRun == [pc |-> "off", target |-> 0, tip |-> 0, snap |-> None, missed |-> {}]

\* The init process: the same for its inline pass, the changed files it has yet
\* to write, the commit it read, phase_b_dirty_seq before the pass, and
\* (history) the missed files that had not moved that counter when it compared it.
Inits == [pc : {"off", "mark", "files", "read", "analyse", "write", "restamp",
                "stamp", "check", "clear"}, todo : SUBSET Files, sha : 0..MaxCommits,
          tip : 0..MaxCommits, snap : [Files -> Versions], missed : SUBSET Files,
          uncounted : SUBSET Files, progress : BOOLEAN, seq : Nat]
NoInit == [pc |-> "off", todo |-> {}, sha |-> 0, tip |-> 0, snap |-> None,
           missed |-> {}, uncounted |-> {}, progress |-> FALSE, seq |-> 0]

\* An init finished at commit 1, or was killed before its Phase B.
Init ==
    /\ disk = [f \in Files |-> 1]
    /\ tip = 1 /\ head = 1 /\ hooks = {}
    /\ indexed = disk
    /\ last = 1
    /\ \/ traced = disk /\ pb = 1
       \/ traced = None /\ pb = 0
    /\ dirty = FALSE /\ seq = 0 /\ warned = FALSE
    /\ fails = 0 /\ job = Idle /\ bg = NoRun /\ ini = NoInit
    /\ lost = {}

----------------------------------------------------------------------------
(* The working tree, git and its hooks.                                    *)

Edit(f) ==
    /\ disk[f] < MaxVersion
    /\ disk' = [disk EXCEPT ![f] = @ + 1]
    /\ UNCHANGED <<tip, head, hooks, rows, metas, fails, job, bg, ini, lost>>

\* Every hook sends `reindex-commit' with the HEAD it sees and does not wait.
Commit ==
    /\ tip < MaxCommits
    /\ tip' = tip + 1
    /\ head' = tip'
    /\ hooks' = hooks \cup {head'}
    /\ UNCHANGED <<disk, rows, metas, fails, job, bg, ini, lost>>

Checkout(c) ==
    /\ c # head
    /\ head' = c
    /\ hooks' = hooks \cup {c}
    /\ UNCHANGED <<disk, tip, rows, metas, fails, job, bg, ini, lost>>

----------------------------------------------------------------------------
(* Reindex jobs.  One thread at a time holds the store mutex.              *)

MutexFree == job.pc = "idle" /\ bg.pc \notin {"stamp", "clear"}

JobStart(kind, files, sha) ==
    /\ MutexFree
    /\ job' = [Idle EXCEPT !.pc = "files", !.kind = kind, !.todo = files, !.sha = sha]
    /\ UNCHANGED <<tree, rows, metas, fails, bg, ini, lost>>

\* A batch of watched saves, or `reindex-paths'.
JobSave(files) == JobStart("save", files, 1) /\ UNCHANGED hooks

\* `reindex-commit': the files of the diff are whatever git says they are.
JobCommit(files, sha) ==
    /\ JobStart("commit", files, sha)
    /\ hooks' = hooks \ {sha}

\* The HEAD reconcile: every tracked file, when last_commit is not HEAD.
JobDrift ==
    /\ last # head
    /\ JobStart("drift", Files, head)
    /\ UNCHANGED hooks

\* The file is unchanged, unreadable or does not parse: nothing is written.
JobSkip(f) ==
    /\ job.pc = "files" /\ f \in job.todo
    /\ job' = [job EXCEPT !.todo = @ \ {f}]
    /\ UNCHANGED <<tree, hooks, rows, metas, fails, bg, ini, lost>>

\* (History.)  f changed under a pass that has read the tree and not finished.
HasRead(p) == p.pc \in {"write", "restamp", "stamp", "check", "clear"}
BgMisses(f) == IF HasRead(bg) THEN [bg EXCEPT !.missed = @ \cup {f}] ELSE bg
InitMisses(f) == IF HasRead(ini)
                 THEN [ini EXCEPT !.missed = @ \cup {f}, !.uncounted = @ \cup {f}]
                 ELSE ini

\* reindex_replace: new nodes and the hash in one transaction; the calls of the
\* definitions that changed are dropped.
JobReplace(f) ==
    /\ job.pc = "files" /\ f \in job.todo
    /\ indexed[f] # disk[f]
    /\ indexed' = [indexed EXCEPT ![f] = disk[f]]
    /\ traced' = [traced EXCEPT ![f] = 0]
    /\ job' = [job EXCEPT !.todo = @ \ {f}, !.hit = @ \cup {f}]
    /\ bg' = BgMisses(f)
    /\ ini' = InitMisses(f)
    /\ UNCHANGED <<tree, hooks, metas, fails, lost>>

\* Where a job goes when its files are done and flagged: the commit and drift
\* jobs stamp the commit they were started for.
AfterFiles == IF job.kind = "save" THEN Idle ELSE [job EXCEPT !.pc = "finish", !.hit = {}]

JobNothing ==
    /\ job.pc = "files" /\ job.todo = {} /\ job.hit = {}
    /\ job' = AfterFiles
    /\ UNCHANGED <<tree, hooks, rows, metas, fails, bg, ini, lost>>

\* last_commit takes HEAD as it is now.
JobStamp ==
    /\ job.pc = "files" /\ job.todo = {} /\ job.hit # {}
    /\ last' = head
    /\ job' = [job EXCEPT !.pc = "mark"]
    /\ UNCHANGED <<tree, hooks, rows, pb, dirty, seq, warned, fails, bg, ini, lost>>

\* Mutated form: the change is taken for one that cannot drop a call.
JobMarkForgotten ==
    /\ job.pc = "mark"
    /\ job' = [job EXCEPT !.pc = "bump"]
    /\ UNCHANGED <<tree, hooks, rows, metas, fails, bg, ini, lost>>

JobMark ==
    /\ job.pc = "mark"
    /\ dirty' = TRUE
    /\ job' = [job EXCEPT !.pc = "bump"]
    /\ UNCHANGED <<tree, hooks, rows, last, pb, seq, warned, fails, bg, ini, lost>>

JobBump ==
    /\ job.pc = "bump"
    /\ seq' = seq + 1
    /\ job' = AfterFiles
    /\ ini' = IF ini.pc = "clear" THEN ini ELSE [ini EXCEPT !.uncounted = @ \ job.hit]
    /\ UNCHANGED <<tree, hooks, rows, last, pb, dirty, warned, fails, bg, lost>>

JobFinish ==
    /\ job.pc = "finish"
    /\ last' = job.sha
    /\ job' = Idle
    /\ UNCHANGED <<tree, hooks, rows, pb, dirty, seq, warned, fails, bg, ini, lost>>

----------------------------------------------------------------------------
(* A Phase B pass, as the daemon and init both make it.                    *)

\* The call edges the pass derived from the tree it read replace what is there;
\* a crashed language keeps its own.  A failed write stores none of them, and
\* phase_b_warnings does not name it.
PassWrites(p, crashed, stored) ==
    LET ran == IF stored THEN Files \ crashed ELSE {}
    IN  /\ traced' = [f \in Files |-> IF f \in ran THEN p.snap[f] ELSE traced[f]]
        /\ warned' = (crashed # {})
        /\ lost' = (lost \ ran) \cup (ran \cap p.missed)

\* Some language ran, or none crashed.
MadeProgress(crashed) == crashed # Languages

Stored == IF StoreMayFail THEN BOOLEAN ELSE {TRUE}

----------------------------------------------------------------------------
(* The background run.                                                     *)

\* Mutated form: the retry cap is not looked at.
BgStartUncapped ==
    /\ bg.pc = "off" /\ MutexFree
    /\ last # pb
    /\ ini.pc = "off"
    /\ bg' = [NoRun EXCEPT !.pc = "analyse", !.target = last]
    /\ UNCHANGED <<tree, hooks, rows, metas, fails, job, ini, lost>>

\* The scheduler claims a run while the markers differ and the retry cap is not
\* reached; the run bails out when an init holds init.lock.
BgStart ==
    /\ bg.pc = "off" /\ MutexFree
    /\ last # pb /\ fails < MaxFailures
    /\ ini.pc = "off"
    /\ bg' = [NoRun EXCEPT !.pc = "analyse", !.target = last]
    /\ UNCHANGED <<tree, hooks, rows, metas, fails, job, ini, lost>>

\* The indexers read the tree, without the mutex.
BgAnalyse ==
    /\ bg.pc = "analyse"
    /\ bg' = [bg EXCEPT !.pc = "write", !.tip = tip, !.snap = disk]
    /\ UNCHANGED <<tree, hooks, rows, metas, fails, job, ini, lost>>

\* Mutated form: as before #712, only a run in which nothing crashed advances
\* the marker.
BgWriteAllOrNothing(crashed, stored) ==
    /\ bg.pc = "write" /\ MutexFree
    /\ PassWrites(bg, crashed, stored)
    /\ bg' = IF crashed = {} THEN [bg EXCEPT !.pc = "stamp"] ELSE NoRun
    /\ fails' = IF crashed = Languages THEN fails + 1 ELSE fails
    /\ UNCHANGED <<tree, hooks, indexed, last, pb, dirty, seq, job, ini>>

BgWrite(crashed, stored) ==
    /\ bg.pc = "write" /\ MutexFree
    /\ PassWrites(bg, crashed, stored)
    /\ bg' = IF MadeProgress(crashed) THEN [bg EXCEPT !.pc = "stamp"] ELSE NoRun
    /\ fails' = IF MadeProgress(crashed) THEN fails ELSE fails + 1
    /\ UNCHANGED <<tree, hooks, indexed, last, pb, dirty, seq, job, ini>>

\* (History.)  What the flag accounts for when a run advances the marker or
\* clears the flag: what changed under the run, and what an init has looked at
\* and not written yet.
Flagged == bg.missed \cup ini.todo

\* Mutated form: the marker takes last_commit as it is when the run ends.
BgStampLatest ==
    /\ bg.pc = "stamp"
    /\ pb' = last
    /\ bg' = [bg EXCEPT !.pc = "clear"]
    /\ lost' = IF dirty THEN lost ELSE lost \cup Flagged
    /\ UNCHANGED <<tree, hooks, rows, last, dirty, seq, warned, fails, job, ini>>

\* (History: an init that found no marker did not set the flag.)
BgStamp ==
    /\ bg.pc = "stamp"
    /\ pb' = bg.target
    /\ bg' = [bg EXCEPT !.pc = "clear"]
    /\ lost' = IF dirty THEN lost ELSE lost \cup Flagged
    /\ UNCHANGED <<tree, hooks, rows, last, dirty, seq, warned, fails, job, ini>>

\* The flag is cleared whoever set it, and whenever.
BgClear ==
    /\ bg.pc = "clear"
    /\ dirty' = FALSE
    /\ fails' = 0
    /\ bg' = NoRun
    /\ lost' = lost \cup Flagged
    /\ UNCHANGED <<tree, hooks, rows, last, pb, seq, warned, job, ini>>

----------------------------------------------------------------------------
(* `travsr init' at an initialised database.                               *)

InitStart ==
    /\ WithInit /\ ini.pc = "off"
    /\ ini' = [NoInit EXCEPT !.pc = "mark"]
    /\ UNCHANGED <<tree, hooks, rows, metas, fails, job, bg, lost>>

\* index_paths_parallel marks before its first write, and only when Phase B has
\* run before.
InitMark ==
    /\ ini.pc = "mark"
    /\ LET changed == {f \in Files : indexed[f] # disk[f]}
       IN  /\ dirty' = (dirty \/ (changed # {} /\ pb # 0))
           /\ ini' = [ini EXCEPT !.pc = "files", !.todo = changed, !.snap = disk]
    /\ UNCHANGED <<tree, hooks, rows, last, pb, seq, warned, fails, job, bg, lost>>

InitFile(f) ==
    /\ ini.pc = "files" /\ f \in ini.todo
    /\ indexed' = [indexed EXCEPT ![f] = ini.snap[f]]
    /\ traced' = [traced EXCEPT ![f] = 0]
    /\ ini' = [ini EXCEPT !.todo = @ \ {f}]
    /\ bg' = BgMisses(f)
    /\ UNCHANGED <<tree, hooks, metas, fails, job, lost>>

\* HEAD, the markers and the counter are read, and last_commit is stamped; the
\* pass is needed unless phase_b_commit is HEAD and nothing is flagged.
InitRead ==
    /\ ini.pc = "files" /\ ini.todo = {}
    /\ last' = head
    /\ ini' = [ini EXCEPT !.pc = IF pb # head \/ dirty THEN "analyse" ELSE "restamp",
                          !.seq = seq]
    /\ UNCHANGED <<tree, hooks, rows, pb, dirty, seq, warned, fails, job, bg, lost>>

InitAnalyse ==
    /\ ini.pc = "analyse"
    /\ ini' = [ini EXCEPT !.pc = "write", !.tip = tip, !.snap = disk]
    /\ UNCHANGED <<tree, hooks, rows, metas, fails, job, bg, lost>>

InitWrite(crashed, stored) ==
    /\ ini.pc = "write"
    /\ PassWrites(ini, crashed, stored)
    /\ ini' = [ini EXCEPT !.pc = "restamp", !.progress = MadeProgress(crashed)]
    /\ UNCHANGED <<tree, hooks, indexed, last, pb, dirty, seq, fails, job, bg>>

\* HEAD is read again, and it is this one that both markers take.
InitRestamp ==
    /\ ini.pc = "restamp"
    /\ last' = head
    /\ ini' = IF ini.progress THEN [ini EXCEPT !.pc = "stamp", !.sha = head] ELSE NoInit
    /\ UNCHANGED <<tree, hooks, rows, pb, dirty, seq, warned, fails, job, bg, lost>>

InitStampPb ==
    /\ ini.pc = "stamp"
    /\ pb' = ini.sha
    /\ ini' = [ini EXCEPT !.pc = "check"]
    /\ UNCHANGED <<tree, hooks, rows, last, dirty, seq, warned, fails, job, bg, lost>>

\* Mutated form: the flag is cleared without the counter being compared.
InitCheckNothing ==
    /\ ini.pc = "check"
    /\ ini' = [ini EXCEPT !.pc = "clear"]
    /\ UNCHANGED <<tree, hooks, rows, metas, fails, job, bg, lost>>

InitCheck ==
    /\ ini.pc = "check"
    /\ ini' = IF seq = ini.seq THEN [ini EXCEPT !.pc = "clear"] ELSE NoInit
    /\ UNCHANGED <<tree, hooks, rows, metas, fails, job, bg, lost>>

InitClear ==
    /\ ini.pc = "clear"
    /\ dirty' = FALSE
    /\ ini' = NoInit
    /\ lost' = lost \cup ini.uncounted
    /\ UNCHANGED <<tree, hooks, rows, last, pb, seq, warned, fails, job, bg>>

InitKill ==
    /\ ini.pc # "off"
    /\ ini' = NoInit
    /\ UNCHANGED <<tree, hooks, rows, metas, fails, job, bg, lost>>

----------------------------------------------------------------------------
\* The files the job has replaced and not flagged yet.
Unmarked == IF job.pc = "bump" THEN {} ELSE job.hit

\* The daemon dies and is started again: the job, the run, the scheduler's
\* counter and the messages on their way are gone.  (History: so is the flag of
\* a file replaced and not yet marked.)
Restart ==
    /\ job' = Idle /\ bg' = NoRun /\ fails' = 0 /\ hooks' = {}
    /\ lost' = lost \cup Unmarked
    /\ UNCHANGED <<tree, rows, metas, ini>>

JobStep ==
    \/ \E f \in Files : JobSkip(f) \/ JobReplace(f)
    \/ JobNothing \/ JobStamp \/ JobMark \/ JobBump \/ JobFinish

BgStep ==
    \/ BgAnalyse \/ BgStamp \/ BgClear
    \/ \E crashed \in SUBSET Languages, stored \in Stored : BgWrite(crashed, stored)

InitStep ==
    \/ InitMark \/ InitRead \/ InitAnalyse \/ InitRestamp
    \/ InitStampPb \/ InitCheck \/ InitClear
    \/ \E f \in Files : InitFile(f)
    \/ \E crashed \in SUBSET Languages, stored \in Stored : InitWrite(crashed, stored)

\* What the outside does to the markers: HEAD moves, processes come and go.
Disturbance ==
    \/ Commit
    \/ \E c \in 1..tip : Checkout(c)
    \/ Restart
    \/ InitStart
    \/ InitKill

Next ==
    \/ \E f \in Files : Edit(f)
    \/ Disturbance
    \/ \E files \in SUBSET Files \ {{}} : JobSave(files)
    \/ \E files \in SUBSET Files, sha \in hooks : JobCommit(files, sha)
    \/ JobDrift
    \/ JobStep
    \/ BgStart
    \/ BgStep
    \/ InitStep

Spec == Init /\ [][Next]_vars

\* A job that holds the mutex and an init under way go on.  The scheduler and
\* reconcile ticks recur for as long as the daemon lives, and other jobs give
\* the mutex back each time, so the run and the reconcile get it in the end.
FairSpec ==
    /\ Spec
    /\ WF_vars(JobStep)
    /\ WF_vars(InitStep)
    /\ SF_vars(BgStart)
    /\ SF_vars(BgStep)
    /\ SF_vars(JobDrift)

----------------------------------------------------------------------------
(* Properties.                                                             *)

\* Rows, markers and the three processes keep their types; the crash counter stays
\* within the scheduler's retries.
TypeOK ==
    /\ disk \in [Files -> Versions]
    /\ tip \in Commits /\ head \in 1..tip /\ hooks \subseteq 1..tip
    /\ indexed \in [Files -> Versions]
    /\ traced \in [Files -> Versions]
    /\ last \in Commits /\ pb \in 0..MaxCommits
    /\ dirty \in BOOLEAN /\ warned \in BOOLEAN
    /\ seq \in Nat
    /\ fails \in 0..MaxFailures
    /\ job \in Jobs /\ bg \in Runs /\ ini \in Inits
    /\ lost \subseteq Files

\* `travsr status' prints "semantic: complete".
Complete == pb = last /\ ~dirty /\ ~warned

\* The call edges of f are those of a content at least as new as its nodes.
UpToDate(f) == traced[f] >= indexed[f]

\* "complete" is true of every file, but for the ones that fell through a gap:
\* replaced while a pass was under way that then cleared the flag (the daemon's
\* always, init's when the counter had not moved yet), looked at by an init
\* whose mark a background run cleared before the write, or replaced by a job
\* whose daemon died before it set the flag.
HonestOutsideGaps ==
    Complete => \A f \in Files \ (lost \cup Unmarked) : UpToDate(f)

\* A background run never puts phase_b_commit on a commit made after it read the
\* tree.
BgMarkerAnalysed == [][bg.pc = "stamp" /\ bg'.pc = "clear" => pb' <= bg.tip]_vars

\* When HEAD rests, the processes live and no init comes, both markers reach
\* HEAD and stay, or every language crashed as often as the scheduler retries.
CatchUp ==
    <>[][~Disturbance]_vars =>
        <>[](fails = MaxFailures \/ (last = head /\ pb = last))
=============================================================================
