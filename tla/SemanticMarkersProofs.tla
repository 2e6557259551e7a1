------------------------- MODULE SemanticMarkersProofs -------------------------
(***************************************************************************)
(* For every number of files, versions, commits and retries, with any      *)
(* number of inits and restarts: phase_b_commit never runs ahead of what   *)
(* the background run has read, and "semantic: complete" is true of every  *)
(* file but for those that fell through one of the known gaps.             *)
(***************************************************************************)
EXTENDS SemanticMarkers, TLAPS

-----------------------------------------------------------------------------
(* The inductive invariant. *)

Typed == TypeOK

\* No job, run or marker is ahead of the newest commit, and no run ahead of what it
\* has read; a run was started below the cap of the retries.
Ordered ==
    /\ last <= tip /\ job.sha <= tip /\ bg.target <= tip
    /\ HasRead(bg) => bg.target <= bg.tip
    /\ bg.pc \in {"analyse", "write"} => fails < MaxFailures

\* Where the processes are, and what they then have; what an init has yet to write is
\* flagged for as long as the run that was under way before it.
Places ==
    /\ job.pc \in {"idle", "finish"} => job.hit = {}
    /\ bg.pc \in {"stamp", "clear"} => job.pc = "idle"
    /\ ini.pc # "files" => ini.todo = {}
    /\ ~HasRead(ini) => ini.missed = {}
    /\ ini.pc \in {"mark", "files", "read", "analyse", "write"} => ~ini.progress
    /\ bg.pc \in {"analyse", "write"} /\ ini.todo # {} => dirty \/ pb = 0

\* What was parsed is no newer than the tree, and what a pass has read no older than
\* what was parsed, unless the file changed under it.
Contents ==
    \A f \in Files :
        /\ indexed[f] <= disk[f]
        /\ ini.pc = "files" => ini.snap[f] <= disk[f]
        /\ bg.pc = "write" /\ f \notin bg.missed => indexed[f] <= bg.snap[f]
        /\ ini.pc = "write" /\ f \notin ini.missed => indexed[f] <= ini.snap[f]

\* phase_b_dirty_seq shows an init every file that changed under its pass and was
\* flagged before it looks.
Counter ==
    /\ ini.pc = "analyse" \/ HasRead(ini) => ini.seq <= seq
    /\ HasRead(ini) /\ (ini.seq = seq \/ ini.pc = "clear") => ini.missed \subseteq ini.uncounted

Inv == Typed /\ Ordered /\ Places /\ Contents /\ Counter

\* Some calls of f were dropped since it was traced.
Behind(f) == traced[f] < indexed[f]

InitHasWritten ==
    ini.pc \in {"stamp", "check", "clear"} \/ (ini.pc = "restamp" /\ ini.progress)

\* A file that is behind keeps the status from being complete, if it did not fall
\* through a gap: it is flagged or about to be, a language crashed, or no pass has
\* ever ended.  Once a pass has written, only a crash or a change under it leaves it
\* behind, and what changed under an init's pass is flagged.
Accounted(f) ==
    /\ Behind(f) => dirty \/ warned \/ pb = 0 \/ f \in Unmarked
    /\ Behind(f) /\ bg.pc \in {"stamp", "clear"} => warned \/ f \in bg.missed
    /\ Behind(f) /\ InitHasWritten => warned \/ f \in ini.missed
    /\ Behind(f) /\ f \in ini.missed => dirty \/ warned \/ f \in Unmarked
    /\ f \in ini.todo => dirty \/ pb = 0

AllAccounted == \A f \in Files \ lost : Accounted(f)

-----------------------------------------------------------------------------
(* Types. *)

\* What the parts of the type invariant say one by one.
TreeTyped ==
    /\ disk \in [Files -> Versions]
    /\ tip \in Commits /\ head \in 1..tip /\ hooks \subseteq 1..tip
RowsTyped == indexed \in [Files -> Versions] /\ traced \in [Files -> Versions]
MetasTyped ==
    /\ last \in Commits /\ pb \in 0..MaxCommits
    /\ dirty \in BOOLEAN /\ warned \in BOOLEAN
    /\ seq \in Nat
    /\ fails \in 0..MaxFailures
    /\ lost \subseteq Files
ProcessesTyped == job \in Jobs /\ bg \in Runs /\ ini \in Inits

LEMMA TypedParts == TypeOK <=> TreeTyped /\ RowsTyped /\ MetasTyped /\ ProcessesTyped
BY DEF TypeOK, TreeTyped, RowsTyped, MetasTyped, ProcessesTyped

\* The processes that do not run have their types.
LEMMA RestTyped ==
    None \in [Files -> Versions] /\ Idle \in Jobs /\ NoRun \in Runs /\ NoInit \in Inits
<1>1. None \in [Files -> Versions]
    BY SemanticMarkersAssumption DEF None, Versions
<1>2. Idle \in Jobs
    BY SemanticMarkersAssumption DEF Idle, Jobs, Commits
<1>3. NoRun \in Runs
    BY <1>1, SemanticMarkersAssumption DEF NoRun, Runs
<1>4. NoInit \in Inits
    BY <1>1, SemanticMarkersAssumption DEF NoInit, Inits
<1> QED
    BY <1>1, <1>2, <1>3, <1>4

\* The sets of files of the processes.
LEMMA FieldsTyped ==
    ASSUME TypeOK
    PROVE  /\ job.hit \subseteq Files /\ bg.missed \subseteq Files
           /\ ini.todo \subseteq Files /\ ini.missed \subseteq Files
<1>1. job.hit \subseteq Files
    BY DEF TypeOK, Jobs
<1>2. bg.missed \subseteq Files
    BY DEF TypeOK, Runs
<1>3. ini.todo \subseteq Files /\ ini.missed \subseteq Files
    BY DEF TypeOK, Inits
<1> QED
    BY <1>1, <1>2, <1>3


-----------------------------------------------------------------------------
(* The working tree and git. *)

LEMMA StepEdit ==
    ASSUME Inv, NEW f \in Files, Edit(f)
    PROVE  Inv' /\ (~StoreMayFail /\ AllAccounted => AllAccounted')
<1> USE DEF Edit, Versions, tree, rows, metas
<1>1. Typed'
    BY SemanticMarkersAssumption DEF Inv, Typed, TypeOK, Ordered, Jobs, Runs, Inits, Versions,
       Commits, None
<1>2. Ordered'
    BY DEF Inv, Typed, TypeOK, Ordered, Jobs, Runs, Commits, HasRead
<1>3. Places'
    BY DEF Inv, Typed, TypeOK, Places, Jobs, Runs, Inits, HasRead
<1>4. Contents'
    BY DEF Inv, Typed, TypeOK, Places, Contents, Jobs, Runs, Inits, Versions, HasRead
<1>5. Counter'
    BY DEF Inv, Typed, TypeOK, Places, Counter, Jobs, Runs, Inits, HasRead
<1>6. ASSUME ~StoreMayFail, AllAccounted PROVE AllAccounted'
    BY <1>6 DEF Inv, Typed, TypeOK, Ordered, Places, Contents, Counter, AllAccounted, Accounted, Behind,
       Unmarked, InitHasWritten, Jobs, Runs, Inits, Versions, Commits, HasRead
<1> QED
    BY <1>1, <1>2, <1>3, <1>4, <1>5, <1>6 DEF Inv

LEMMA StepCommit ==
    ASSUME Inv, Commit
    PROVE  Inv' /\ (~StoreMayFail /\ AllAccounted => AllAccounted')
<1> USE DEF Commit, Commits, tree, rows, metas
<1>1. Typed'
    BY SemanticMarkersAssumption DEF Inv, Typed, TypeOK, Ordered, Jobs, Runs, Inits, Versions,
       Commits, None
<1>2. Ordered'
    BY DEF Inv, Typed, TypeOK, Ordered, Jobs, Runs, Commits, HasRead
<1>3. Places'
    BY DEF Inv, Typed, TypeOK, Places, Jobs, Runs, Inits, HasRead
<1>4. Contents'
    BY DEF Inv, Typed, TypeOK, Places, Contents, Jobs, Runs, Inits, Versions, HasRead
<1>5. Counter'
    BY DEF Inv, Typed, TypeOK, Places, Counter, Jobs, Runs, Inits, HasRead
<1>6. ASSUME ~StoreMayFail, AllAccounted PROVE AllAccounted'
    BY <1>6 DEF Inv, Typed, TypeOK, Ordered, Places, Contents, Counter, AllAccounted, Accounted, Behind,
       Unmarked, InitHasWritten, Jobs, Runs, Inits, Versions, Commits, HasRead
<1> QED
    BY <1>1, <1>2, <1>3, <1>4, <1>5, <1>6 DEF Inv

LEMMA StepCheckout ==
    ASSUME Inv, NEW c \in 1..tip, Checkout(c)
    PROVE  Inv' /\ (~StoreMayFail /\ AllAccounted => AllAccounted')
<1> USE DEF Checkout, Commits, tree, rows, metas
<1>1. Typed'
    BY SemanticMarkersAssumption DEF Inv, Typed, TypeOK, Ordered, Jobs, Runs, Inits, Versions,
       Commits, None
<1>2. Ordered'
    BY DEF Inv, Typed, TypeOK, Ordered, Jobs, Runs, Commits, HasRead
<1>3. Places'
    BY DEF Inv, Typed, TypeOK, Places, Jobs, Runs, Inits, HasRead
<1>4. Contents'
    BY DEF Inv, Typed, TypeOK, Places, Contents, Jobs, Runs, Inits, Versions, HasRead
<1>5. Counter'
    BY DEF Inv, Typed, TypeOK, Places, Counter, Jobs, Runs, Inits, HasRead
<1>6. ASSUME ~StoreMayFail, AllAccounted PROVE AllAccounted'
    BY <1>6 DEF Inv, Typed, TypeOK, Ordered, Places, Contents, Counter, AllAccounted, Accounted, Behind,
       Unmarked, InitHasWritten, Jobs, Runs, Inits, Versions, Commits, HasRead
<1> QED
    BY <1>1, <1>2, <1>3, <1>4, <1>5, <1>6 DEF Inv

-----------------------------------------------------------------------------
(* Reindex jobs. *)

LEMMA StepJobSave ==
    ASSUME Inv, NEW files \in SUBSET Files, JobSave(files)
    PROVE  Inv' /\ (~StoreMayFail /\ AllAccounted => AllAccounted')
<1> USE DEF JobSave, JobStart, MutexFree, Idle, tree, rows, metas
<1>1. Typed'
    <2> USE SemanticMarkersAssumption
    <2>1. TreeTyped'
        BY TypedParts DEF Inv, Typed, TreeTyped, Versions, Commits
    <2>2. RowsTyped'
        BY TypedParts, RestTyped DEF Inv, Typed, TreeTyped, RowsTyped, ProcessesTyped, Runs, Inits
    <2>3. MetasTyped'
        BY TypedParts DEF Inv, Typed, Ordered, TreeTyped, MetasTyped, ProcessesTyped, Jobs, Runs, Inits, Commits
    <2>4. (job \in Jobs)'
        BY TypedParts, RestTyped DEF Inv, Typed, TreeTyped, ProcessesTyped, Jobs, Commits
    <2>5. (bg \in Runs)'
        BY TypedParts, RestTyped DEF Inv, Typed, TreeTyped, MetasTyped, ProcessesTyped, Runs, Commits
    <2>6. (ini \in Inits)'
        BY TypedParts, RestTyped DEF Inv, Typed, TreeTyped, MetasTyped, ProcessesTyped, Inits, Commits
    <2> QED
        BY <2>1, <2>2, <2>3, <2>4, <2>5, <2>6 DEF Typed, TypeOK, TreeTyped, RowsTyped, MetasTyped
<1>2. Ordered'
    BY DEF Inv, Typed, TypeOK, Ordered, Jobs, Runs, Commits, HasRead
<1>3. Places'
    BY DEF Inv, Typed, TypeOK, Places, Jobs, Runs, Inits, HasRead
<1>4. Contents'
    BY DEF Inv, Typed, TypeOK, Places, Contents, Jobs, Runs, Inits, Versions, HasRead
<1>5. Counter'
    BY DEF Inv, Typed, TypeOK, Places, Counter, Jobs, Runs, Inits, HasRead
<1>6. ASSUME ~StoreMayFail, AllAccounted PROVE AllAccounted'
    BY <1>6 DEF Inv, Typed, TypeOK, Ordered, Places, Contents, Counter, AllAccounted, Accounted, Behind,
       Unmarked, InitHasWritten, Jobs, Runs, Inits, Versions, Commits, HasRead
<1> QED
    BY <1>1, <1>2, <1>3, <1>4, <1>5, <1>6 DEF Inv

LEMMA StepJobCommit ==
    ASSUME Inv, NEW files \in SUBSET Files, NEW sha \in hooks, JobCommit(files, sha)
    PROVE  Inv' /\ (~StoreMayFail /\ AllAccounted => AllAccounted')
<1> USE DEF JobCommit, JobStart, MutexFree, Idle, tree, rows, metas
<1>1. Typed'
    <2> USE SemanticMarkersAssumption
    <2>1. TreeTyped'
        BY TypedParts DEF Inv, Typed, TreeTyped, Versions, Commits
    <2>2. RowsTyped'
        BY TypedParts, RestTyped DEF Inv, Typed, TreeTyped, RowsTyped, ProcessesTyped, Runs, Inits
    <2>3. MetasTyped'
        BY TypedParts DEF Inv, Typed, Ordered, TreeTyped, MetasTyped, ProcessesTyped, Jobs, Runs, Inits, Commits
    <2>4. (job \in Jobs)'
        <3>1. sha \in Commits
            BY TypedParts DEF Inv, Typed, TreeTyped, Commits
        <3> QED
            BY <3>1 DEF Jobs
    <2>5. (bg \in Runs)'
        BY TypedParts, RestTyped DEF Inv, Typed, TreeTyped, MetasTyped, ProcessesTyped, Runs, Commits
    <2>6. (ini \in Inits)'
        BY TypedParts, RestTyped DEF Inv, Typed, TreeTyped, MetasTyped, ProcessesTyped, Inits, Commits
    <2> QED
        BY <2>1, <2>2, <2>3, <2>4, <2>5, <2>6 DEF Typed, TypeOK, TreeTyped, RowsTyped, MetasTyped
<1>2. Ordered'
    BY DEF Inv, Typed, TypeOK, Ordered, Jobs, Runs, Commits, HasRead
<1>3. Places'
    BY DEF Inv, Typed, TypeOK, Places, Jobs, Runs, Inits, HasRead
<1>4. Contents'
    BY DEF Inv, Typed, TypeOK, Places, Contents, Jobs, Runs, Inits, Versions, HasRead
<1>5. Counter'
    BY DEF Inv, Typed, TypeOK, Places, Counter, Jobs, Runs, Inits, HasRead
<1>6. ASSUME ~StoreMayFail, AllAccounted PROVE AllAccounted'
    BY <1>6 DEF Inv, Typed, TypeOK, Ordered, Places, Contents, Counter, AllAccounted, Accounted, Behind,
       Unmarked, InitHasWritten, Jobs, Runs, Inits, Versions, Commits, HasRead
<1> QED
    BY <1>1, <1>2, <1>3, <1>4, <1>5, <1>6 DEF Inv

LEMMA StepJobDrift ==
    ASSUME Inv, JobDrift
    PROVE  Inv' /\ (~StoreMayFail /\ AllAccounted => AllAccounted')
<1> USE DEF JobDrift, JobStart, MutexFree, Idle, tree, rows, metas
<1>1. Typed'
    <2> USE SemanticMarkersAssumption
    <2>1. TreeTyped'
        BY TypedParts DEF Inv, Typed, TreeTyped, Versions, Commits
    <2>2. RowsTyped'
        BY TypedParts, RestTyped DEF Inv, Typed, TreeTyped, RowsTyped, ProcessesTyped, Runs, Inits
    <2>3. MetasTyped'
        BY TypedParts DEF Inv, Typed, Ordered, TreeTyped, MetasTyped, ProcessesTyped, Jobs, Runs, Inits, Commits
    <2>4. (job \in Jobs)'
        <3>1. head \in Commits
            BY TypedParts DEF Inv, Typed, TreeTyped, Commits
        <3> QED
            BY <3>1 DEF Jobs
    <2>5. (bg \in Runs)'
        BY TypedParts, RestTyped DEF Inv, Typed, TreeTyped, MetasTyped, ProcessesTyped, Runs, Commits
    <2>6. (ini \in Inits)'
        BY TypedParts, RestTyped DEF Inv, Typed, TreeTyped, MetasTyped, ProcessesTyped, Inits, Commits
    <2> QED
        BY <2>1, <2>2, <2>3, <2>4, <2>5, <2>6 DEF Typed, TypeOK, TreeTyped, RowsTyped, MetasTyped
<1>2. Ordered'
    BY DEF Inv, Typed, TypeOK, Ordered, Jobs, Runs, Commits, HasRead
<1>3. Places'
    BY DEF Inv, Typed, TypeOK, Places, Jobs, Runs, Inits, HasRead
<1>4. Contents'
    BY DEF Inv, Typed, TypeOK, Places, Contents, Jobs, Runs, Inits, Versions, HasRead
<1>5. Counter'
    BY DEF Inv, Typed, TypeOK, Places, Counter, Jobs, Runs, Inits, HasRead
<1>6. ASSUME ~StoreMayFail, AllAccounted PROVE AllAccounted'
    BY <1>6 DEF Inv, Typed, TypeOK, Ordered, Places, Contents, Counter, AllAccounted, Accounted, Behind,
       Unmarked, InitHasWritten, Jobs, Runs, Inits, Versions, Commits, HasRead
<1> QED
    BY <1>1, <1>2, <1>3, <1>4, <1>5, <1>6 DEF Inv

LEMMA StepJobSkip ==
    ASSUME Inv, NEW f \in Files, JobSkip(f)
    PROVE  Inv' /\ (~StoreMayFail /\ AllAccounted => AllAccounted')
<1> USE DEF JobSkip, tree, rows, metas
<1>1. Typed'
    BY SemanticMarkersAssumption DEF Inv, Typed, TypeOK, Ordered, Jobs, Runs, Inits, Versions,
       Commits, None
<1>2. Ordered'
    BY DEF Inv, Typed, TypeOK, Ordered, Jobs, Runs, Commits, HasRead
<1>3. Places'
    BY DEF Inv, Typed, TypeOK, Places, Jobs, Runs, Inits, HasRead
<1>4. Contents'
    BY DEF Inv, Typed, TypeOK, Places, Contents, Jobs, Runs, Inits, Versions, HasRead
<1>5. Counter'
    BY DEF Inv, Typed, TypeOK, Places, Counter, Jobs, Runs, Inits, HasRead
<1>6. ASSUME ~StoreMayFail, AllAccounted PROVE AllAccounted'
    BY <1>6 DEF Inv, Typed, TypeOK, Ordered, Places, Contents, Counter, AllAccounted, Accounted, Behind,
       Unmarked, InitHasWritten, Jobs, Runs, Inits, Versions, Commits, HasRead
<1> QED
    BY <1>1, <1>2, <1>3, <1>4, <1>5, <1>6 DEF Inv

LEMMA StepJobReplace ==
    ASSUME Inv, NEW f \in Files, JobReplace(f)
    PROVE  Inv' /\ (~StoreMayFail /\ AllAccounted => AllAccounted')
<1> USE DEF JobReplace, BgMisses, InitMisses, HasRead, tree, rows, metas
<1>1. Typed'
    <2> USE SemanticMarkersAssumption
    <2>1. TreeTyped'
        BY TypedParts DEF Inv, Typed, TreeTyped, Versions, Commits
    <2>2. RowsTyped'
        <3>1. 0 \in Versions /\ disk[f] \in Versions
            BY TypedParts DEF Inv, Typed, TreeTyped, Versions
        <3> QED
            BY <3>1, TypedParts DEF Inv, Typed, RowsTyped
    <2>3. MetasTyped'
        BY TypedParts DEF Inv, Typed, Ordered, TreeTyped, MetasTyped, ProcessesTyped, Jobs, Runs, Inits, Commits
    <2>4. (job \in Jobs)'
        BY TypedParts, RestTyped DEF Inv, Typed, TreeTyped, ProcessesTyped, Jobs, Commits
    <2>5. (bg \in Runs)'
        BY TypedParts, RestTyped DEF Inv, Typed, TreeTyped, MetasTyped, ProcessesTyped, Runs, Commits
    <2>6. (ini \in Inits)'
        BY TypedParts, RestTyped DEF Inv, Typed, TreeTyped, MetasTyped, ProcessesTyped, Inits, Commits
    <2> QED
        BY <2>1, <2>2, <2>3, <2>4, <2>5, <2>6 DEF Typed, TypeOK, TreeTyped, RowsTyped, MetasTyped
<1>2. Ordered'
    BY DEF Inv, Typed, TypeOK, Ordered, Jobs, Runs, Commits, HasRead
<1>3. Places'
    BY DEF Inv, Typed, TypeOK, Places, Jobs, Runs, Inits, HasRead
<1>4. Contents'
    BY DEF Inv, Typed, TypeOK, Places, Contents, Jobs, Runs, Inits, Versions, HasRead
<1>5. Counter'
    BY DEF Inv, Typed, TypeOK, Places, Counter, Jobs, Runs, Inits, HasRead
<1>6. ASSUME ~StoreMayFail, AllAccounted PROVE AllAccounted'
    BY <1>6 DEF Inv, Typed, TypeOK, Ordered, Places, Contents, Counter, AllAccounted, Accounted, Behind,
       Unmarked, InitHasWritten, Jobs, Runs, Inits, Versions, Commits, HasRead
<1> QED
    BY <1>1, <1>2, <1>3, <1>4, <1>5, <1>6 DEF Inv

LEMMA StepJobNothing ==
    ASSUME Inv, JobNothing
    PROVE  Inv' /\ (~StoreMayFail /\ AllAccounted => AllAccounted')
<1> USE DEF JobNothing, AfterFiles, Idle, tree, rows, metas
<1>1. Typed'
    <2> USE SemanticMarkersAssumption
    <2>1. TreeTyped'
        BY TypedParts DEF Inv, Typed, TreeTyped, Versions, Commits
    <2>2. RowsTyped'
        BY TypedParts, RestTyped DEF Inv, Typed, TreeTyped, RowsTyped, ProcessesTyped, Runs, Inits
    <2>3. MetasTyped'
        BY TypedParts DEF Inv, Typed, Ordered, TreeTyped, MetasTyped, ProcessesTyped, Jobs, Runs, Inits, Commits
    <2>4. (job \in Jobs)'
        BY TypedParts, RestTyped DEF Inv, Typed, TreeTyped, ProcessesTyped, Jobs, Commits
    <2>5. (bg \in Runs)'
        BY TypedParts, RestTyped DEF Inv, Typed, TreeTyped, MetasTyped, ProcessesTyped, Runs, Commits
    <2>6. (ini \in Inits)'
        BY TypedParts, RestTyped DEF Inv, Typed, TreeTyped, MetasTyped, ProcessesTyped, Inits, Commits
    <2> QED
        BY <2>1, <2>2, <2>3, <2>4, <2>5, <2>6 DEF Typed, TypeOK, TreeTyped, RowsTyped, MetasTyped
<1>2. Ordered'
    BY DEF Inv, Typed, TypeOK, Ordered, Jobs, Runs, Commits, HasRead
<1>3. Places'
    BY DEF Inv, Typed, TypeOK, Places, Jobs, Runs, Inits, HasRead
<1>4. Contents'
    BY DEF Inv, Typed, TypeOK, Places, Contents, Jobs, Runs, Inits, Versions, HasRead
<1>5. Counter'
    BY DEF Inv, Typed, TypeOK, Places, Counter, Jobs, Runs, Inits, HasRead
<1>6. ASSUME ~StoreMayFail, AllAccounted PROVE AllAccounted'
    BY <1>6 DEF Inv, Typed, TypeOK, Ordered, Places, Contents, Counter, AllAccounted, Accounted, Behind,
       Unmarked, InitHasWritten, Jobs, Runs, Inits, Versions, Commits, HasRead
<1> QED
    BY <1>1, <1>2, <1>3, <1>4, <1>5, <1>6 DEF Inv

LEMMA StepJobStamp ==
    ASSUME Inv, JobStamp
    PROVE  Inv' /\ (~StoreMayFail /\ AllAccounted => AllAccounted')
<1> USE DEF JobStamp, tree, rows, metas
<1>1. Typed'
    BY SemanticMarkersAssumption DEF Inv, Typed, TypeOK, Ordered, Jobs, Runs, Inits, Versions,
       Commits, None
<1>2. Ordered'
    BY DEF Inv, Typed, TypeOK, Ordered, Jobs, Runs, Commits, HasRead
<1>3. Places'
    BY DEF Inv, Typed, TypeOK, Places, Jobs, Runs, Inits, HasRead
<1>4. Contents'
    BY DEF Inv, Typed, TypeOK, Places, Contents, Jobs, Runs, Inits, Versions, HasRead
<1>5. Counter'
    BY DEF Inv, Typed, TypeOK, Places, Counter, Jobs, Runs, Inits, HasRead
<1>6. ASSUME ~StoreMayFail, AllAccounted PROVE AllAccounted'
    BY <1>6 DEF Inv, Typed, TypeOK, Ordered, Places, Contents, Counter, AllAccounted, Accounted, Behind,
       Unmarked, InitHasWritten, Jobs, Runs, Inits, Versions, Commits, HasRead
<1> QED
    BY <1>1, <1>2, <1>3, <1>4, <1>5, <1>6 DEF Inv

LEMMA StepJobMark ==
    ASSUME Inv, JobMark
    PROVE  Inv' /\ (~StoreMayFail /\ AllAccounted => AllAccounted')
<1> USE DEF JobMark, tree, rows, metas
<1>1. Typed'
    BY SemanticMarkersAssumption DEF Inv, Typed, TypeOK, Ordered, Jobs, Runs, Inits, Versions,
       Commits, None
<1>2. Ordered'
    BY DEF Inv, Typed, TypeOK, Ordered, Jobs, Runs, Commits, HasRead
<1>3. Places'
    BY DEF Inv, Typed, TypeOK, Places, Jobs, Runs, Inits, HasRead
<1>4. Contents'
    BY DEF Inv, Typed, TypeOK, Places, Contents, Jobs, Runs, Inits, Versions, HasRead
<1>5. Counter'
    BY DEF Inv, Typed, TypeOK, Places, Counter, Jobs, Runs, Inits, HasRead
<1>6. ASSUME ~StoreMayFail, AllAccounted PROVE AllAccounted'
    BY <1>6 DEF Inv, Typed, TypeOK, Ordered, Places, Contents, Counter, AllAccounted, Accounted, Behind,
       Unmarked, InitHasWritten, Jobs, Runs, Inits, Versions, Commits, HasRead
<1> QED
    BY <1>1, <1>2, <1>3, <1>4, <1>5, <1>6 DEF Inv

LEMMA StepJobBump ==
    ASSUME Inv, JobBump
    PROVE  Inv' /\ (~StoreMayFail /\ AllAccounted => AllAccounted')
<1> USE DEF JobBump, AfterFiles, Idle, tree, rows, metas
<1>1. Typed'
    <2> USE SemanticMarkersAssumption
    <2>1. TreeTyped'
        BY TypedParts DEF Inv, Typed, TreeTyped, Versions, Commits
    <2>2. RowsTyped'
        BY TypedParts, RestTyped DEF Inv, Typed, TreeTyped, RowsTyped, ProcessesTyped, Runs, Inits
    <2>3. MetasTyped'
        BY TypedParts DEF Inv, Typed, Ordered, TreeTyped, MetasTyped, ProcessesTyped, Jobs, Runs, Inits, Commits
    <2>4. (job \in Jobs)'
        BY TypedParts, RestTyped DEF Inv, Typed, TreeTyped, ProcessesTyped, Jobs, Commits
    <2>5. (bg \in Runs)'
        BY TypedParts, RestTyped DEF Inv, Typed, TreeTyped, MetasTyped, ProcessesTyped, Runs, Commits
    <2>6. (ini \in Inits)'
        BY TypedParts, RestTyped DEF Inv, Typed, TreeTyped, MetasTyped, ProcessesTyped, Inits, Commits
    <2> QED
        BY <2>1, <2>2, <2>3, <2>4, <2>5, <2>6 DEF Typed, TypeOK, TreeTyped, RowsTyped, MetasTyped
<1>2. Ordered'
    BY DEF Inv, Typed, TypeOK, Ordered, Jobs, Runs, Commits, HasRead
<1>3. Places'
    BY DEF Inv, Typed, TypeOK, Places, Jobs, Runs, Inits, HasRead
<1>4. Contents'
    BY DEF Inv, Typed, TypeOK, Places, Contents, Jobs, Runs, Inits, Versions, HasRead
<1>5. Counter'
    BY DEF Inv, Typed, TypeOK, Places, Counter, Jobs, Runs, Inits, HasRead
<1>6. ASSUME ~StoreMayFail, AllAccounted PROVE AllAccounted'
    BY <1>6 DEF Inv, Typed, TypeOK, Ordered, Places, Contents, Counter, AllAccounted, Accounted, Behind,
       Unmarked, InitHasWritten, Jobs, Runs, Inits, Versions, Commits, HasRead
<1> QED
    BY <1>1, <1>2, <1>3, <1>4, <1>5, <1>6 DEF Inv

LEMMA StepJobFinish ==
    ASSUME Inv, JobFinish
    PROVE  Inv' /\ (~StoreMayFail /\ AllAccounted => AllAccounted')
<1> USE DEF JobFinish, Idle, tree, rows, metas
<1>1. Typed'
    BY SemanticMarkersAssumption DEF Inv, Typed, TypeOK, Ordered, Jobs, Runs, Inits, Versions,
       Commits, None
<1>2. Ordered'
    BY DEF Inv, Typed, TypeOK, Ordered, Jobs, Runs, Commits, HasRead
<1>3. Places'
    BY DEF Inv, Typed, TypeOK, Places, Jobs, Runs, Inits, HasRead
<1>4. Contents'
    BY DEF Inv, Typed, TypeOK, Places, Contents, Jobs, Runs, Inits, Versions, HasRead
<1>5. Counter'
    BY DEF Inv, Typed, TypeOK, Places, Counter, Jobs, Runs, Inits, HasRead
<1>6. ASSUME ~StoreMayFail, AllAccounted PROVE AllAccounted'
    BY <1>6 DEF Inv, Typed, TypeOK, Ordered, Places, Contents, Counter, AllAccounted, Accounted, Behind,
       Unmarked, InitHasWritten, Jobs, Runs, Inits, Versions, Commits, HasRead
<1> QED
    BY <1>1, <1>2, <1>3, <1>4, <1>5, <1>6 DEF Inv

-----------------------------------------------------------------------------
(* The background run. *)

LEMMA StepBgStart ==
    ASSUME Inv, BgStart
    PROVE  Inv' /\ (~StoreMayFail /\ AllAccounted => AllAccounted')
<1> USE DEF BgStart, NoRun, MutexFree, tree, rows, metas
<1>1. Typed'
    <2> USE SemanticMarkersAssumption
    <2>1. TreeTyped'
        BY TypedParts DEF Inv, Typed, TreeTyped, Versions, Commits
    <2>2. RowsTyped'
        BY TypedParts, RestTyped DEF Inv, Typed, TreeTyped, RowsTyped, ProcessesTyped, Runs, Inits
    <2>3. MetasTyped'
        BY TypedParts DEF Inv, Typed, Ordered, TreeTyped, MetasTyped, ProcessesTyped, Jobs, Runs, Inits, Commits
    <2>4. (job \in Jobs)'
        BY TypedParts, RestTyped DEF Inv, Typed, TreeTyped, ProcessesTyped, Jobs, Commits
    <2>5. (bg \in Runs)'
        <3>1. last \in 0..MaxCommits /\ None \in [Files -> Versions]
            BY TypedParts, RestTyped DEF Inv, Typed, MetasTyped, Commits
        <3>2. bg' = [pc |-> "analyse", target |-> last, tip |-> 0, snap |-> None, missed |-> {}]
            OBVIOUS
        <3> HIDE DEF BgStart, NoRun, MutexFree
        <3>3. 0 \in 0..MaxCommits
            OBVIOUS
        <3> QED
            BY <3>1, <3>2, <3>3 DEF Runs
    <2>6. (ini \in Inits)'
        BY TypedParts, RestTyped DEF Inv, Typed, TreeTyped, MetasTyped, ProcessesTyped, Inits, Commits
    <2> QED
        BY <2>1, <2>2, <2>3, <2>4, <2>5, <2>6 DEF Typed, TypeOK, TreeTyped, RowsTyped, MetasTyped
<1>2. Ordered'
    BY DEF Inv, Typed, TypeOK, Ordered, Jobs, Runs, Commits, HasRead
<1>3. Places'
    BY DEF Inv, Typed, TypeOK, Places, Jobs, Runs, Inits, HasRead
<1>4. Contents'
    BY DEF Inv, Typed, TypeOK, Places, Contents, Jobs, Runs, Inits, Versions, HasRead
<1>5. Counter'
    BY DEF Inv, Typed, TypeOK, Places, Counter, Jobs, Runs, Inits, HasRead
<1>6. ASSUME ~StoreMayFail, AllAccounted PROVE AllAccounted'
    BY <1>6 DEF Inv, Typed, TypeOK, Ordered, Places, Contents, Counter, AllAccounted, Accounted, Behind,
       Unmarked, InitHasWritten, Jobs, Runs, Inits, Versions, Commits, HasRead
<1> QED
    BY <1>1, <1>2, <1>3, <1>4, <1>5, <1>6 DEF Inv

LEMMA StepBgAnalyse ==
    ASSUME Inv, BgAnalyse
    PROVE  Inv' /\ (~StoreMayFail /\ AllAccounted => AllAccounted')
<1> USE DEF BgAnalyse, tree, rows, metas
<1>1. Typed'
    <2> USE SemanticMarkersAssumption
    <2>1. TreeTyped'
        BY TypedParts DEF Inv, Typed, TreeTyped, Versions, Commits
    <2>2. RowsTyped'
        BY TypedParts, RestTyped DEF Inv, Typed, TreeTyped, RowsTyped, ProcessesTyped, Runs, Inits
    <2>3. MetasTyped'
        BY TypedParts DEF Inv, Typed, Ordered, TreeTyped, MetasTyped, ProcessesTyped, Jobs, Runs, Inits, Commits
    <2>4. (job \in Jobs)'
        BY TypedParts, RestTyped DEF Inv, Typed, TreeTyped, ProcessesTyped, Jobs, Commits
    <2>5. (bg \in Runs)'
        <3>1. tip \in 0..MaxCommits /\ disk \in [Files -> Versions]
            BY TypedParts DEF Inv, Typed, TreeTyped, Commits
        <3> QED
            BY <3>1, TypedParts DEF Inv, Typed, ProcessesTyped, Runs
    <2>6. (ini \in Inits)'
        BY TypedParts, RestTyped DEF Inv, Typed, TreeTyped, MetasTyped, ProcessesTyped, Inits, Commits
    <2> QED
        BY <2>1, <2>2, <2>3, <2>4, <2>5, <2>6 DEF Typed, TypeOK, TreeTyped, RowsTyped, MetasTyped
<1>2. Ordered'
    BY DEF Inv, Typed, TypeOK, Ordered, Jobs, Runs, Commits, HasRead
<1>3. Places'
    BY DEF Inv, Typed, TypeOK, Places, Jobs, Runs, Inits, HasRead
<1>4. Contents'
    BY DEF Inv, Typed, TypeOK, Places, Contents, Jobs, Runs, Inits, Versions, HasRead
<1>5. Counter'
    BY DEF Inv, Typed, TypeOK, Places, Counter, Jobs, Runs, Inits, HasRead
<1>6. ASSUME ~StoreMayFail, AllAccounted PROVE AllAccounted'
    BY <1>6 DEF Inv, Typed, TypeOK, Ordered, Places, Contents, Counter, AllAccounted, Accounted, Behind,
       Unmarked, InitHasWritten, Jobs, Runs, Inits, Versions, Commits, HasRead
<1> QED
    BY <1>1, <1>2, <1>3, <1>4, <1>5, <1>6 DEF Inv

LEMMA StepBgWrite ==
    ASSUME Inv, NEW crashed \in SUBSET Languages, NEW stored \in Stored, BgWrite(crashed, stored)
    PROVE  Inv' /\ (~StoreMayFail /\ AllAccounted => AllAccounted')
<1> USE DEF BgWrite, PassWrites, MadeProgress, NoRun, MutexFree, tree, rows, metas
<1>1. Typed'
    BY SemanticMarkersAssumption DEF Inv, Typed, TypeOK, Ordered, Jobs, Runs, Inits, Versions,
       Commits, None
<1>2. Ordered'
    BY DEF Inv, Typed, TypeOK, Ordered, Jobs, Runs, Commits, HasRead
<1>3. Places'
    BY DEF Inv, Typed, TypeOK, Places, Jobs, Runs, Inits, HasRead
<1>4. Contents'
    BY DEF Inv, Typed, TypeOK, Places, Contents, Jobs, Runs, Inits, Versions, HasRead
<1>5. Counter'
    BY DEF Inv, Typed, TypeOK, Places, Counter, Jobs, Runs, Inits, HasRead
<1>6. ASSUME ~StoreMayFail, AllAccounted PROVE AllAccounted'
    <2>1. TypeOK
        BY DEF Inv, Typed
    <2>2. traced \in [Files -> Versions] /\ indexed \in [Files -> Versions] /\ bg.snap \in [Files -> Versions]
        BY <2>1 DEF TypeOK, Runs, Inits
    <2>3. stored
        BY <1>6 DEF Stored
    <2>4. /\ warned' = (crashed # {})
          /\ ini'.todo = ini.todo /\ dirty' = dirty /\ pb' = pb
          /\ ini'.todo # {} => dirty \/ pb = 0
        BY <2>1 DEF TypeOK, Inits, Inv, Places
    <2>5. CASE crashed # {}
        <3>1. warned' = TRUE
            BY <2>4, <2>5
        <3> HIDE DEF BgWrite, PassWrites
        <3> QED
            BY <2>4, <3>1 DEF AllAccounted, Accounted
    <2>6. CASE crashed = {}
        <3>1. lost' = Files \cap bg.missed \/ lost' = (lost \ Files) \cup (Files \cap bg.missed)
            BY <2>3, <2>6
        <3>2. ASSUME NEW g \in Files, g \notin lost' PROVE g \notin bg.missed /\ ~Behind(g)'
            <4>1. g \notin bg.missed
                BY <3>1, <3>2
            <4>2. traced'[g] = bg.snap[g] /\ indexed' = indexed
                BY <2>3, <2>6
            <4>3. indexed[g] <= bg.snap[g]
                BY <4>1 DEF Inv, Contents
            <4> QED
                BY <2>2, <4>1, <4>2, <4>3 DEF Behind, Versions
        <3> HIDE DEF BgWrite, PassWrites
        <3> QED
            BY <2>4, <3>2 DEF AllAccounted, Accounted
    <2> QED
        BY <2>5, <2>6
<1> QED
    BY <1>1, <1>2, <1>3, <1>4, <1>5, <1>6 DEF Inv

LEMMA StepBgStamp ==
    ASSUME Inv, BgStamp
    PROVE  Inv' /\ (~StoreMayFail /\ AllAccounted => AllAccounted')
<1> USE DEF BgStamp, Flagged, tree, rows, metas
<1>1. Typed'
    BY SemanticMarkersAssumption DEF Inv, Typed, TypeOK, Ordered, Jobs, Runs, Inits, Versions,
       Commits, None
<1>2. Ordered'
    BY DEF Inv, Typed, TypeOK, Ordered, Jobs, Runs, Commits, HasRead
<1>3. Places'
    BY DEF Inv, Typed, TypeOK, Places, Jobs, Runs, Inits, HasRead
<1>4. Contents'
    BY DEF Inv, Typed, TypeOK, Places, Contents, Jobs, Runs, Inits, Versions, HasRead
<1>5. Counter'
    BY DEF Inv, Typed, TypeOK, Places, Counter, Jobs, Runs, Inits, HasRead
<1>6. ASSUME ~StoreMayFail, AllAccounted PROVE AllAccounted'
    BY <1>6 DEF Inv, Typed, TypeOK, Ordered, Places, Contents, Counter, AllAccounted, Accounted, Behind,
       Unmarked, InitHasWritten, Jobs, Runs, Inits, Versions, Commits, HasRead
<1> QED
    BY <1>1, <1>2, <1>3, <1>4, <1>5, <1>6 DEF Inv

LEMMA StepBgClear ==
    ASSUME Inv, BgClear
    PROVE  Inv' /\ (~StoreMayFail /\ AllAccounted => AllAccounted')
<1> USE DEF BgClear, Flagged, NoRun, tree, rows, metas
<1>1. Typed'
    <2> USE SemanticMarkersAssumption
    <2>1. TreeTyped'
        BY TypedParts DEF Inv, Typed, TreeTyped, Versions, Commits
    <2>2. RowsTyped'
        BY TypedParts, RestTyped DEF Inv, Typed, TreeTyped, RowsTyped, ProcessesTyped, Runs, Inits
    <2>3. MetasTyped'
        <3>1. Flagged \subseteq Files
            BY FieldsTyped DEF Inv, Typed
        <3>2. 0 \in 0..MaxFailures /\ lost \subseteq Files
            BY TypedParts DEF Inv, Typed, MetasTyped
        <3>3. lost' \subseteq Files
            BY <3>1, <3>2
        <3> QED
            BY <3>2, <3>3, TypedParts DEF Inv, Typed, MetasTyped
    <2>4. (job \in Jobs)'
        BY TypedParts, RestTyped DEF Inv, Typed, TreeTyped, ProcessesTyped, Jobs, Commits
    <2>5. (bg \in Runs)'
        BY TypedParts, RestTyped DEF Inv, Typed, TreeTyped, MetasTyped, ProcessesTyped, Runs, Commits
    <2>6. (ini \in Inits)'
        BY TypedParts, RestTyped DEF Inv, Typed, TreeTyped, MetasTyped, ProcessesTyped, Inits, Commits
    <2> QED
        BY <2>1, <2>2, <2>3, <2>4, <2>5, <2>6 DEF Typed, TypeOK, TreeTyped, RowsTyped, MetasTyped
<1>2. Ordered'
    BY DEF Inv, Typed, TypeOK, Ordered, Jobs, Runs, Commits, HasRead
<1>3. Places'
    BY DEF Inv, Typed, TypeOK, Places, Jobs, Runs, Inits, HasRead
<1>4. Contents'
    BY DEF Inv, Typed, TypeOK, Places, Contents, Jobs, Runs, Inits, Versions, HasRead
<1>5. Counter'
    BY DEF Inv, Typed, TypeOK, Places, Counter, Jobs, Runs, Inits, HasRead
<1>6. ASSUME ~StoreMayFail, AllAccounted PROVE AllAccounted'
    BY <1>6 DEF Inv, Typed, TypeOK, Ordered, Places, Contents, Counter, AllAccounted, Accounted, Behind,
       Unmarked, InitHasWritten, Jobs, Runs, Inits, Versions, Commits, HasRead
<1> QED
    BY <1>1, <1>2, <1>3, <1>4, <1>5, <1>6 DEF Inv

-----------------------------------------------------------------------------
(* The init process. *)

LEMMA StepInitStart ==
    ASSUME Inv, InitStart
    PROVE  Inv' /\ (~StoreMayFail /\ AllAccounted => AllAccounted')
<1> USE DEF InitStart, NoInit, tree, rows, metas
<1>1. Typed'
    <2> USE SemanticMarkersAssumption
    <2>1. TreeTyped'
        BY TypedParts DEF Inv, Typed, TreeTyped, Versions, Commits
    <2>2. RowsTyped'
        BY TypedParts, RestTyped DEF Inv, Typed, TreeTyped, RowsTyped, ProcessesTyped, Runs, Inits
    <2>3. MetasTyped'
        BY TypedParts DEF Inv, Typed, Ordered, TreeTyped, MetasTyped, ProcessesTyped, Jobs, Runs, Inits, Commits
    <2>4. (job \in Jobs)'
        BY TypedParts, RestTyped DEF Inv, Typed, TreeTyped, ProcessesTyped, Jobs, Commits
    <2>5. (bg \in Runs)'
        BY TypedParts, RestTyped DEF Inv, Typed, TreeTyped, MetasTyped, ProcessesTyped, Runs, Commits
    <2>6. (ini \in Inits)'
        BY TypedParts, RestTyped DEF Inv, Typed, TreeTyped, MetasTyped, ProcessesTyped, Inits, Commits
    <2> QED
        BY <2>1, <2>2, <2>3, <2>4, <2>5, <2>6 DEF Typed, TypeOK, TreeTyped, RowsTyped, MetasTyped
<1>2. Ordered'
    BY DEF Inv, Typed, TypeOK, Ordered, Jobs, Runs, Commits, HasRead
<1>3. Places'
    BY DEF Inv, Typed, TypeOK, Places, Jobs, Runs, Inits, HasRead
<1>4. Contents'
    BY DEF Inv, Typed, TypeOK, Places, Contents, Jobs, Runs, Inits, Versions, HasRead
<1>5. Counter'
    BY DEF Inv, Typed, TypeOK, Places, Counter, Jobs, Runs, Inits, HasRead
<1>6. ASSUME ~StoreMayFail, AllAccounted PROVE AllAccounted'
    BY <1>6 DEF Inv, Typed, TypeOK, Ordered, Places, Contents, Counter, AllAccounted, Accounted, Behind,
       Unmarked, InitHasWritten, Jobs, Runs, Inits, Versions, Commits, HasRead
<1> QED
    BY <1>1, <1>2, <1>3, <1>4, <1>5, <1>6 DEF Inv

LEMMA StepInitMark ==
    ASSUME Inv, InitMark
    PROVE  Inv' /\ (~StoreMayFail /\ AllAccounted => AllAccounted')
<1> USE DEF InitMark, tree, rows, metas
<1>1. Typed'
    BY SemanticMarkersAssumption DEF Inv, Typed, TypeOK, Ordered, Jobs, Runs, Inits, Versions,
       Commits, None
<1>2. Ordered'
    BY DEF Inv, Typed, TypeOK, Ordered, Jobs, Runs, Commits, HasRead
<1>3. Places'
    BY DEF Inv, Typed, TypeOK, Places, Jobs, Runs, Inits, HasRead
<1>4. Contents'
    BY DEF Inv, Typed, TypeOK, Places, Contents, Jobs, Runs, Inits, Versions, HasRead
<1>5. Counter'
    BY DEF Inv, Typed, TypeOK, Places, Counter, Jobs, Runs, Inits, HasRead
<1>6. ASSUME ~StoreMayFail, AllAccounted PROVE AllAccounted'
    BY <1>6 DEF Inv, Typed, TypeOK, Ordered, Places, Contents, Counter, AllAccounted, Accounted, Behind,
       Unmarked, InitHasWritten, Jobs, Runs, Inits, Versions, Commits, HasRead
<1> QED
    BY <1>1, <1>2, <1>3, <1>4, <1>5, <1>6 DEF Inv

LEMMA StepInitFile ==
    ASSUME Inv, NEW f \in Files, InitFile(f)
    PROVE  Inv' /\ (~StoreMayFail /\ AllAccounted => AllAccounted')
<1> USE DEF InitFile, BgMisses, HasRead, tree, rows, metas
<1>1. Typed'
    BY SemanticMarkersAssumption DEF Inv, Typed, TypeOK, Ordered, Jobs, Runs, Inits, Versions,
       Commits, None
<1>2. Ordered'
    BY DEF Inv, Typed, TypeOK, Ordered, Jobs, Runs, Commits, HasRead
<1>3. Places'
    BY DEF Inv, Typed, TypeOK, Places, Jobs, Runs, Inits, HasRead
<1>4. Contents'
    BY DEF Inv, Typed, TypeOK, Places, Contents, Jobs, Runs, Inits, Versions, HasRead
<1>5. Counter'
    BY DEF Inv, Typed, TypeOK, Places, Counter, Jobs, Runs, Inits, HasRead
<1>6. ASSUME ~StoreMayFail, AllAccounted PROVE AllAccounted'
    BY <1>6 DEF Inv, Typed, TypeOK, Ordered, Places, Contents, Counter, AllAccounted, Accounted, Behind,
       Unmarked, InitHasWritten, Jobs, Runs, Inits, Versions, Commits, HasRead
<1> QED
    BY <1>1, <1>2, <1>3, <1>4, <1>5, <1>6 DEF Inv

LEMMA StepInitRead ==
    ASSUME Inv, InitRead
    PROVE  Inv' /\ (~StoreMayFail /\ AllAccounted => AllAccounted')
<1> USE DEF InitRead, tree, rows, metas
<1>1. Typed'
    <2> USE SemanticMarkersAssumption
    <2>1. TreeTyped'
        BY TypedParts DEF Inv, Typed, TreeTyped, Versions, Commits
    <2>2. RowsTyped'
        BY TypedParts, RestTyped DEF Inv, Typed, TreeTyped, RowsTyped, ProcessesTyped, Runs, Inits
    <2>3. MetasTyped'
        BY TypedParts DEF Inv, Typed, Ordered, TreeTyped, MetasTyped, ProcessesTyped, Jobs, Runs, Inits, Commits
    <2>4. (job \in Jobs)'
        BY TypedParts, RestTyped DEF Inv, Typed, TreeTyped, ProcessesTyped, Jobs, Commits
    <2>5. (bg \in Runs)'
        BY TypedParts, RestTyped DEF Inv, Typed, TreeTyped, MetasTyped, ProcessesTyped, Runs, Commits
    <2>6. (ini \in Inits)'
        BY TypedParts, RestTyped DEF Inv, Typed, TreeTyped, MetasTyped, ProcessesTyped, Inits, Commits
    <2> QED
        BY <2>1, <2>2, <2>3, <2>4, <2>5, <2>6 DEF Typed, TypeOK, TreeTyped, RowsTyped, MetasTyped
<1>2. Ordered'
    BY DEF Inv, Typed, TypeOK, Ordered, Jobs, Runs, Commits, HasRead
<1>3. Places'
    BY DEF Inv, Typed, TypeOK, Places, Jobs, Runs, Inits, HasRead
<1>4. Contents'
    BY DEF Inv, Typed, TypeOK, Places, Contents, Jobs, Runs, Inits, Versions, HasRead
<1>5. Counter'
    BY DEF Inv, Typed, TypeOK, Places, Counter, Jobs, Runs, Inits, HasRead
<1>6. ASSUME ~StoreMayFail, AllAccounted PROVE AllAccounted'
    <2>1. TypeOK
        BY DEF Inv, Typed
    <2>2. /\ ini'.todo = {} /\ ini'.missed = ini.missed /\ ~ini'.progress
          /\ ini'.pc \in {"analyse", "restamp"}
        BY <2>1 DEF TypeOK, Inits, Inv, Places
    <2>3. ini.pc = "files" /\ ini.missed = {}
        BY <2>1 DEF Inv, Places, HasRead
    <2> QED
        BY <1>6, <2>2, <2>3 DEF AllAccounted, Accounted, Behind, Unmarked, InitHasWritten
<1> QED
    BY <1>1, <1>2, <1>3, <1>4, <1>5, <1>6 DEF Inv

LEMMA StepInitAnalyse ==
    ASSUME Inv, InitAnalyse
    PROVE  Inv' /\ (~StoreMayFail /\ AllAccounted => AllAccounted')
<1> USE DEF InitAnalyse, tree, rows, metas
<1>1. Typed'
    <2> USE SemanticMarkersAssumption
    <2>1. TreeTyped'
        BY TypedParts DEF Inv, Typed, TreeTyped, Versions, Commits
    <2>2. RowsTyped'
        BY TypedParts, RestTyped DEF Inv, Typed, TreeTyped, RowsTyped, ProcessesTyped, Runs, Inits
    <2>3. MetasTyped'
        BY TypedParts DEF Inv, Typed, Ordered, TreeTyped, MetasTyped, ProcessesTyped, Jobs, Runs, Inits, Commits
    <2>4. (job \in Jobs)'
        BY TypedParts, RestTyped DEF Inv, Typed, TreeTyped, ProcessesTyped, Jobs, Commits
    <2>5. (bg \in Runs)'
        BY TypedParts, RestTyped DEF Inv, Typed, TreeTyped, MetasTyped, ProcessesTyped, Runs, Commits
    <2>6. (ini \in Inits)'
        <3>1. tip \in 0..MaxCommits /\ disk \in [Files -> Versions]
            BY TypedParts DEF Inv, Typed, TreeTyped, Commits
        <3> QED
            BY <3>1, TypedParts DEF Inv, Typed, ProcessesTyped, Inits
    <2> QED
        BY <2>1, <2>2, <2>3, <2>4, <2>5, <2>6 DEF Typed, TypeOK, TreeTyped, RowsTyped, MetasTyped
<1>2. Ordered'
    BY DEF Inv, Typed, TypeOK, Ordered, Jobs, Runs, Commits, HasRead
<1>3. Places'
    BY DEF Inv, Typed, TypeOK, Places, Jobs, Runs, Inits, HasRead
<1>4. Contents'
    BY DEF Inv, Typed, TypeOK, Places, Contents, Jobs, Runs, Inits, Versions, HasRead
<1>5. Counter'
    BY DEF Inv, Typed, TypeOK, Places, Counter, Jobs, Runs, Inits, HasRead
<1>6. ASSUME ~StoreMayFail, AllAccounted PROVE AllAccounted'
    BY <1>6 DEF Inv, Typed, TypeOK, Ordered, Places, Contents, Counter, AllAccounted, Accounted, Behind,
       Unmarked, InitHasWritten, Jobs, Runs, Inits, Versions, Commits, HasRead
<1> QED
    BY <1>1, <1>2, <1>3, <1>4, <1>5, <1>6 DEF Inv

LEMMA StepInitWrite ==
    ASSUME Inv, NEW crashed \in SUBSET Languages, NEW stored \in Stored, InitWrite(crashed, stored)
    PROVE  Inv' /\ (~StoreMayFail /\ AllAccounted => AllAccounted')
<1> USE DEF InitWrite, PassWrites, MadeProgress, tree, rows, metas
<1>1. Typed'
    BY SemanticMarkersAssumption DEF Inv, Typed, TypeOK, Ordered, Jobs, Runs, Inits, Versions,
       Commits, None
<1>2. Ordered'
    BY DEF Inv, Typed, TypeOK, Ordered, Jobs, Runs, Commits, HasRead
<1>3. Places'
    BY DEF Inv, Typed, TypeOK, Places, Jobs, Runs, Inits, HasRead
<1>4. Contents'
    BY DEF Inv, Typed, TypeOK, Places, Contents, Jobs, Runs, Inits, Versions, HasRead
<1>5. Counter'
    BY DEF Inv, Typed, TypeOK, Places, Counter, Jobs, Runs, Inits, HasRead
<1>6. ASSUME ~StoreMayFail, AllAccounted PROVE AllAccounted'
    <2>1. TypeOK
        BY DEF Inv, Typed
    <2>2. traced \in [Files -> Versions] /\ indexed \in [Files -> Versions] /\ ini.snap \in [Files -> Versions]
        BY <2>1 DEF TypeOK, Runs, Inits
    <2>3. stored
        BY <1>6 DEF Stored
    <2>4. /\ warned' = (crashed # {})
          /\ ini'.todo = ini.todo /\ dirty' = dirty /\ pb' = pb
          /\ ini'.todo # {} => dirty \/ pb = 0
        BY <2>1 DEF TypeOK, Inits, Inv, Places
    <2>5. CASE crashed # {}
        <3>1. warned' = TRUE
            BY <2>4, <2>5
        <3> HIDE DEF InitWrite, PassWrites
        <3> QED
            BY <2>4, <3>1 DEF AllAccounted, Accounted
    <2>6. CASE crashed = {}
        <3>1. lost' = Files \cap ini.missed \/ lost' = (lost \ Files) \cup (Files \cap ini.missed)
            BY <2>3, <2>6
        <3>2. ASSUME NEW g \in Files, g \notin lost' PROVE g \notin ini.missed /\ ~Behind(g)'
            <4>1. g \notin ini.missed
                BY <3>1, <3>2
            <4>2. traced'[g] = ini.snap[g] /\ indexed' = indexed
                BY <2>3, <2>6
            <4>3. indexed[g] <= ini.snap[g]
                BY <4>1 DEF Inv, Contents
            <4> QED
                BY <2>2, <4>1, <4>2, <4>3 DEF Behind, Versions
        <3> HIDE DEF InitWrite, PassWrites
        <3> QED
            BY <2>4, <3>2 DEF AllAccounted, Accounted
    <2> QED
        BY <2>5, <2>6
<1> QED
    BY <1>1, <1>2, <1>3, <1>4, <1>5, <1>6 DEF Inv

LEMMA StepInitRestamp ==
    ASSUME Inv, InitRestamp
    PROVE  Inv' /\ (~StoreMayFail /\ AllAccounted => AllAccounted')
<1> USE DEF InitRestamp, NoInit, tree, rows, metas
<1>1. Typed'
    <2> USE SemanticMarkersAssumption
    <2>1. TreeTyped'
        BY TypedParts DEF Inv, Typed, TreeTyped, Versions, Commits
    <2>2. RowsTyped'
        BY TypedParts, RestTyped DEF Inv, Typed, TreeTyped, RowsTyped, ProcessesTyped, Runs, Inits
    <2>3. MetasTyped'
        BY TypedParts DEF Inv, Typed, Ordered, TreeTyped, MetasTyped, ProcessesTyped, Jobs, Runs, Inits, Commits
    <2>4. (job \in Jobs)'
        BY TypedParts, RestTyped DEF Inv, Typed, TreeTyped, ProcessesTyped, Jobs, Commits
    <2>5. (bg \in Runs)'
        BY TypedParts, RestTyped DEF Inv, Typed, TreeTyped, MetasTyped, ProcessesTyped, Runs, Commits
    <2>6. (ini \in Inits)'
        <3>1. head \in 0..MaxCommits
            BY TypedParts DEF Inv, Typed, TreeTyped, Commits
        <3>2. [ini EXCEPT !.pc = "stamp", !.sha = head] \in Inits
            BY <3>1, TypedParts DEF Inv, Typed, ProcessesTyped, Inits
        <3> QED
            BY <3>2, RestTyped
    <2> QED
        BY <2>1, <2>2, <2>3, <2>4, <2>5, <2>6 DEF Typed, TypeOK, TreeTyped, RowsTyped, MetasTyped
<1>2. Ordered'
    BY DEF Inv, Typed, TypeOK, Ordered, Jobs, Runs, Commits, HasRead
<1>3. Places'
    BY DEF Inv, Typed, TypeOK, Places, Jobs, Runs, Inits, HasRead
<1>4. Contents'
    BY DEF Inv, Typed, TypeOK, Places, Contents, Jobs, Runs, Inits, Versions, HasRead
<1>5. Counter'
    BY DEF Inv, Typed, TypeOK, Places, Counter, Jobs, Runs, Inits, HasRead
<1>6. ASSUME ~StoreMayFail, AllAccounted PROVE AllAccounted'
    BY <1>6 DEF Inv, Typed, TypeOK, Ordered, Places, Contents, Counter, AllAccounted, Accounted, Behind,
       Unmarked, InitHasWritten, Jobs, Runs, Inits, Versions, Commits, HasRead
<1> QED
    BY <1>1, <1>2, <1>3, <1>4, <1>5, <1>6 DEF Inv

LEMMA StepInitStampPb ==
    ASSUME Inv, InitStampPb
    PROVE  Inv' /\ (~StoreMayFail /\ AllAccounted => AllAccounted')
<1> USE DEF InitStampPb, tree, rows, metas
<1>1. Typed'
    BY SemanticMarkersAssumption DEF Inv, Typed, TypeOK, Ordered, Jobs, Runs, Inits, Versions,
       Commits, None
<1>2. Ordered'
    BY DEF Inv, Typed, TypeOK, Ordered, Jobs, Runs, Commits, HasRead
<1>3. Places'
    BY DEF Inv, Typed, TypeOK, Places, Jobs, Runs, Inits, HasRead
<1>4. Contents'
    BY DEF Inv, Typed, TypeOK, Places, Contents, Jobs, Runs, Inits, Versions, HasRead
<1>5. Counter'
    BY DEF Inv, Typed, TypeOK, Places, Counter, Jobs, Runs, Inits, HasRead
<1>6. ASSUME ~StoreMayFail, AllAccounted PROVE AllAccounted'
    BY <1>6 DEF Inv, Typed, TypeOK, Ordered, Places, Contents, Counter, AllAccounted, Accounted, Behind,
       Unmarked, InitHasWritten, Jobs, Runs, Inits, Versions, Commits, HasRead
<1> QED
    BY <1>1, <1>2, <1>3, <1>4, <1>5, <1>6 DEF Inv

LEMMA StepInitCheck ==
    ASSUME Inv, InitCheck
    PROVE  Inv' /\ (~StoreMayFail /\ AllAccounted => AllAccounted')
<1> USE DEF InitCheck, NoInit, tree, rows, metas
<1>1. Typed'
    BY SemanticMarkersAssumption DEF Inv, Typed, TypeOK, Ordered, Jobs, Runs, Inits, Versions,
       Commits, None
<1>2. Ordered'
    BY DEF Inv, Typed, TypeOK, Ordered, Jobs, Runs, Commits, HasRead
<1>3. Places'
    BY DEF Inv, Typed, TypeOK, Places, Jobs, Runs, Inits, HasRead
<1>4. Contents'
    BY DEF Inv, Typed, TypeOK, Places, Contents, Jobs, Runs, Inits, Versions, HasRead
<1>5. Counter'
    BY DEF Inv, Typed, TypeOK, Places, Counter, Jobs, Runs, Inits, HasRead
<1>6. ASSUME ~StoreMayFail, AllAccounted PROVE AllAccounted'
    BY <1>6 DEF Inv, Typed, TypeOK, Ordered, Places, Contents, Counter, AllAccounted, Accounted, Behind,
       Unmarked, InitHasWritten, Jobs, Runs, Inits, Versions, Commits, HasRead
<1> QED
    BY <1>1, <1>2, <1>3, <1>4, <1>5, <1>6 DEF Inv

LEMMA StepInitClear ==
    ASSUME Inv, InitClear
    PROVE  Inv' /\ (~StoreMayFail /\ AllAccounted => AllAccounted')
<1> USE DEF InitClear, NoInit, tree, rows, metas
<1>1. Typed'
    <2> USE SemanticMarkersAssumption
    <2>1. TreeTyped'
        BY TypedParts DEF Inv, Typed, TreeTyped, Versions, Commits
    <2>2. RowsTyped'
        BY TypedParts, RestTyped DEF Inv, Typed, TreeTyped, RowsTyped, ProcessesTyped, Runs, Inits
    <2>3. MetasTyped'
        BY TypedParts DEF Inv, Typed, Ordered, TreeTyped, MetasTyped, ProcessesTyped, Jobs, Runs, Inits, Commits
    <2>4. (job \in Jobs)'
        BY TypedParts, RestTyped DEF Inv, Typed, TreeTyped, ProcessesTyped, Jobs, Commits
    <2>5. (bg \in Runs)'
        BY TypedParts, RestTyped DEF Inv, Typed, TreeTyped, MetasTyped, ProcessesTyped, Runs, Commits
    <2>6. (ini \in Inits)'
        BY TypedParts, RestTyped DEF Inv, Typed, TreeTyped, MetasTyped, ProcessesTyped, Inits, Commits
    <2> QED
        BY <2>1, <2>2, <2>3, <2>4, <2>5, <2>6 DEF Typed, TypeOK, TreeTyped, RowsTyped, MetasTyped
<1>2. Ordered'
    BY DEF Inv, Typed, TypeOK, Ordered, Jobs, Runs, Commits, HasRead
<1>3. Places'
    BY DEF Inv, Typed, TypeOK, Places, Jobs, Runs, Inits, HasRead
<1>4. Contents'
    BY DEF Inv, Typed, TypeOK, Places, Contents, Jobs, Runs, Inits, Versions, HasRead
<1>5. Counter'
    BY DEF Inv, Typed, TypeOK, Places, Counter, Jobs, Runs, Inits, HasRead
<1>6. ASSUME ~StoreMayFail, AllAccounted PROVE AllAccounted'
    BY <1>6 DEF Inv, Typed, TypeOK, Ordered, Places, Contents, Counter, AllAccounted, Accounted, Behind,
       Unmarked, InitHasWritten, Jobs, Runs, Inits, Versions, Commits, HasRead
<1> QED
    BY <1>1, <1>2, <1>3, <1>4, <1>5, <1>6 DEF Inv

LEMMA StepInitKill ==
    ASSUME Inv, InitKill
    PROVE  Inv' /\ (~StoreMayFail /\ AllAccounted => AllAccounted')
<1> USE DEF InitKill, NoInit, tree, rows, metas
<1>1. Typed'
    BY SemanticMarkersAssumption DEF Inv, Typed, TypeOK, Ordered, Jobs, Runs, Inits, Versions,
       Commits, None
<1>2. Ordered'
    BY DEF Inv, Typed, TypeOK, Ordered, Jobs, Runs, Commits, HasRead
<1>3. Places'
    BY DEF Inv, Typed, TypeOK, Places, Jobs, Runs, Inits, HasRead
<1>4. Contents'
    BY DEF Inv, Typed, TypeOK, Places, Contents, Jobs, Runs, Inits, Versions, HasRead
<1>5. Counter'
    BY DEF Inv, Typed, TypeOK, Places, Counter, Jobs, Runs, Inits, HasRead
<1>6. ASSUME ~StoreMayFail, AllAccounted PROVE AllAccounted'
    BY <1>6 DEF Inv, Typed, TypeOK, Ordered, Places, Contents, Counter, AllAccounted, Accounted, Behind,
       Unmarked, InitHasWritten, Jobs, Runs, Inits, Versions, Commits, HasRead
<1> QED
    BY <1>1, <1>2, <1>3, <1>4, <1>5, <1>6 DEF Inv

-----------------------------------------------------------------------------
(* The daemon dies. *)

LEMMA StepRestart ==
    ASSUME Inv, Restart
    PROVE  Inv' /\ (~StoreMayFail /\ AllAccounted => AllAccounted')
<1> USE DEF Restart, Idle, NoRun, tree, rows, metas
<1>1. Typed'
    <2> USE SemanticMarkersAssumption
    <2>1. TreeTyped'
        BY TypedParts DEF Inv, Typed, TreeTyped, Versions, Commits
    <2>2. RowsTyped'
        BY TypedParts, RestTyped DEF Inv, Typed, TreeTyped, RowsTyped, ProcessesTyped, Runs, Inits
    <2>3. MetasTyped'
        <3>1. Unmarked \subseteq Files
            BY TypedParts DEF Inv, Typed, ProcessesTyped, Unmarked, Jobs
        <3> QED
            BY <3>1, TypedParts DEF Inv, Typed, MetasTyped
    <2>4. (job \in Jobs)'
        BY TypedParts, RestTyped DEF Inv, Typed, TreeTyped, ProcessesTyped, Jobs, Commits
    <2>5. (bg \in Runs)'
        BY TypedParts, RestTyped DEF Inv, Typed, TreeTyped, MetasTyped, ProcessesTyped, Runs, Commits
    <2>6. (ini \in Inits)'
        BY TypedParts, RestTyped DEF Inv, Typed, TreeTyped, MetasTyped, ProcessesTyped, Inits, Commits
    <2> QED
        BY <2>1, <2>2, <2>3, <2>4, <2>5, <2>6 DEF Typed, TypeOK, TreeTyped, RowsTyped, MetasTyped
<1>2. Ordered'
    BY DEF Inv, Typed, TypeOK, Ordered, Jobs, Runs, Commits, HasRead
<1>3. Places'
    BY DEF Inv, Typed, TypeOK, Places, Jobs, Runs, Inits, HasRead
<1>4. Contents'
    BY DEF Inv, Typed, TypeOK, Places, Contents, Jobs, Runs, Inits, Versions, HasRead
<1>5. Counter'
    BY DEF Inv, Typed, TypeOK, Places, Counter, Jobs, Runs, Inits, HasRead
<1>6. ASSUME ~StoreMayFail, AllAccounted PROVE AllAccounted'
    BY <1>6 DEF Inv, Typed, TypeOK, Ordered, Places, Contents, Counter, AllAccounted, Accounted, Behind,
       Unmarked, InitHasWritten, Jobs, Runs, Inits, Versions, Commits, HasRead
<1> QED
    BY <1>1, <1>2, <1>3, <1>4, <1>5, <1>6 DEF Inv

-----------------------------------------------------------------------------
(* The invariant, and what follows from it. *)

\* The invariant holds at the start, and so does the account of the files.
LEMMA InitInv == Init => Inv /\ AllAccounted
<1> SUFFICES ASSUME Init PROVE Inv /\ AllAccounted
    OBVIOUS
<1> USE SemanticMarkersAssumption
<1>1. disk \in [Files -> Versions] /\ indexed = disk /\ (traced = disk \/ pb = 0)
    BY DEF Init, Versions
<1>2. TypeOK
    <2>1. TreeTyped
        BY <1>1 DEF Init, TreeTyped, Commits
    <2>2. RowsTyped
        BY <1>1, RestTyped DEF Init, RowsTyped
    <2>3. MetasTyped
        <3>1. 1 \in Commits /\ 0 \in 0..MaxCommits /\ 1 \in 0..MaxCommits /\ 0 \in 0..MaxFailures
            BY DEF Commits
        <3> QED
            BY <3>1 DEF Init, MetasTyped
    <2>4. ProcessesTyped
        BY RestTyped DEF Init, ProcessesTyped
    <2> QED
        BY <2>1, <2>2, <2>3, <2>4, TypedParts
<1>3. Ordered
    BY DEF Init, Ordered, Idle, NoRun, HasRead
<1>4. Places
    BY DEF Init, Places, Idle, NoRun, NoInit, HasRead
<1>5. Contents
    BY <1>1 DEF Init, Contents, NoRun, NoInit, Versions
<1>6. Counter
    BY DEF Init, Counter, NoInit, HasRead
<1>7. AllAccounted
    BY <1>1 DEF Init, AllAccounted, Accounted, Behind, InitHasWritten, NoRun, NoInit, Versions
<1> QED
    BY <1>2, <1>3, <1>4, <1>5, <1>6, <1>7 DEF Inv, Typed

\* No step breaks either.
LEMMA StepInv ==
    Inv /\ [Next]_vars => Inv' /\ (~StoreMayFail /\ AllAccounted => AllAccounted')
<1> DEFINE Goal == Inv' /\ (~StoreMayFail /\ AllAccounted => AllAccounted')
<1> SUFFICES ASSUME Inv, [Next]_vars PROVE Goal
    OBVIOUS
<1>1. ASSUME NEW f \in Files, Edit(f) PROVE Goal
    BY <1>1, StepEdit
<1>2. CASE Disturbance
    <2>1. ASSUME NEW c \in 1..tip, Checkout(c) PROVE Goal
        BY <2>1, StepCheckout
    <2> QED
        BY <1>2, <2>1, StepCommit, StepRestart, StepInitStart, StepInitKill DEF Disturbance
<1>3. ASSUME NEW files \in SUBSET Files, JobSave(files) PROVE Goal
    BY <1>3, StepJobSave
<1>4. ASSUME NEW files \in SUBSET Files, NEW sha \in hooks, JobCommit(files, sha) PROVE Goal
    BY <1>4, StepJobCommit
<1>5. CASE JobStep
    <2>1. ASSUME NEW f \in Files, JobSkip(f) \/ JobReplace(f) PROVE Goal
        BY <2>1, StepJobSkip, StepJobReplace
    <2> QED
        BY <1>5, <2>1, StepJobNothing, StepJobStamp, StepJobMark, StepJobBump, StepJobFinish
           DEF JobStep
<1>6. CASE BgStep
    <2>1. ASSUME NEW crashed \in SUBSET Languages, NEW stored \in Stored, BgWrite(crashed, stored)
          PROVE Goal
        BY <2>1, StepBgWrite
    <2> QED
        BY <1>6, <2>1, StepBgAnalyse, StepBgStamp, StepBgClear DEF BgStep
<1>7. CASE InitStep
    <2>1. ASSUME NEW f \in Files, InitFile(f) PROVE Goal
        BY <2>1, StepInitFile
    <2>2. ASSUME NEW crashed \in SUBSET Languages, NEW stored \in Stored, InitWrite(crashed, stored)
          PROVE Goal
        BY <2>2, StepInitWrite
    <2> QED
        BY <1>7, <2>1, <2>2, StepInitMark, StepInitRead, StepInitAnalyse, StepInitRestamp,
           StepInitStampPb, StepInitCheck, StepInitClear DEF InitStep
<1>8. CASE UNCHANGED vars
    <2> USE <1>8 DEF vars, tree, rows, metas
    <2>1. Typed'
        BY DEF Inv, Typed, TypeOK
    <2>2. Ordered' /\ Places' /\ Contents' /\ Counter'
        BY DEF Inv, Ordered, Places, Contents, Counter, HasRead
    <2>3. AllAccounted => AllAccounted'
        BY DEF AllAccounted, Accounted, Behind, Unmarked, InitHasWritten
    <2> QED
        BY <2>1, <2>2, <2>3 DEF Inv
<1> QED
    BY <1>1, <1>2, <1>3, <1>4, <1>5, <1>6, <1>7, <1>8, StepJobDrift, StepBgStart DEF Next

\* Every reachable state satisfies the invariant.
LEMMA Invariance == Spec => []Inv
<1>1. Init => Inv
    BY InitInv
<1>2. Inv /\ [Next]_vars => Inv'
    BY StepInv
<1> QED
    BY <1>1, <1>2, PTL DEF Spec

\* Rows, markers and processes keep their types, and the runs that all crash are
\* never more than the scheduler's retries (phase_b_sched.rs, MAX_RETRIES).
THEOREM TypeCorrect == Spec => []TypeOK
<1>1. Inv => TypeOK
    BY DEF Inv, Typed
<1> QED
    BY <1>1, Invariance, PTL

\* However jobs, inits and restarts fall between, the daemon's background run puts
\* phase_b_commit on the commit it claimed, and that is none it has not analysed.
THEOREM MarkerIsAnalysed == Spec => BgMarkerAnalysed
<1>1. Inv /\ [Next]_vars => [bg.pc = "stamp" /\ bg'.pc = "clear" => pb' <= bg.tip]_vars
    <2> SUFFICES ASSUME Inv, Next, bg.pc = "stamp", bg'.pc = "clear" PROVE pb' <= bg.tip
        OBVIOUS
    <2>1. bg.target <= bg.tip
        BY DEF Inv, Ordered, HasRead
    <2>2. bg \in Runs
        BY DEF Inv, Typed, TypeOK
    <2>3. bg' # bg /\ bg' # NoRun /\ \A f \in Files : bg' # [bg EXCEPT !.missed = @ \cup {f}]
        <3>1. \A f \in Files : [bg EXCEPT !.missed = @ \cup {f}].pc = "stamp"
            BY <2>2 DEF Runs
        <3>2. "stamp" # "clear" /\ "off" # "clear" /\ NoRun.pc = "off"
            BY DEF NoRun
        <3> QED
            BY <3>1, <3>2, Zenon
    <2>4. ASSUME NEW f \in Files, Edit(f) \/ JobSkip(f) \/ JobReplace(f) \/ InitFile(f) PROVE FALSE
        BY <2>3, <2>4 DEF Edit, JobSkip, JobReplace, InitFile, BgMisses
    <2>5. ~Disturbance
        BY <2>3 DEF Disturbance, Commit, Checkout, Restart, InitStart, InitKill
    <2>6. ASSUME NEW files, NEW sha, JobSave(files) \/ JobCommit(files, sha) \/ JobDrift PROVE FALSE
        BY <2>3, <2>6 DEF JobSave, JobCommit, JobDrift, JobStart
    <2>7. ~JobStep
        BY <2>3, <2>4 DEF JobStep, JobNothing, JobStamp, JobMark, JobBump, JobFinish
    <2>8. ~InitStep
        BY <2>3, <2>4 DEF InitStep, InitMark, InitRead, InitAnalyse, InitWrite, InitRestamp,
           InitStampPb, InitCheck, InitClear
    <2>9. BgStamp
        BY <2>3, <2>4, <2>5, <2>6, <2>7, <2>8 DEF Next, BgStep, BgStart, BgAnalyse, BgClear, BgWrite
    <2> QED
        BY <2>1, <2>9 DEF BgStamp
<1> QED
    BY <1>1, Invariance, PTL DEF Spec, BgMarkerAnalysed

\* When the writes of a Phase B result do not fail, `travsr status' says "complete"
\* only when the call edges of every file are up to date, but for the files that fell
\* through one of the gaps HonestOutsideGaps names.
THEOREM CompleteIsHonest == ~StoreMayFail => (Spec => []HonestOutsideGaps)
<1> SUFFICES ASSUME ~StoreMayFail PROVE Spec => []HonestOutsideGaps
    OBVIOUS
<1>1. Init => Inv /\ AllAccounted
    BY InitInv
<1>2. (Inv /\ AllAccounted) /\ [Next]_vars => (Inv /\ AllAccounted)'
    BY StepInv
<1>3. Inv /\ AllAccounted => HonestOutsideGaps
    <2> SUFFICES ASSUME Inv, AllAccounted, Complete, NEW f \in Files \ (lost \cup Unmarked)
                 PROVE UpToDate(f)
        BY DEF HonestOutsideGaps
    <2>1. /\ pb # 0 /\ ~dirty /\ ~warned
          /\ traced[f] \in Nat /\ indexed[f] \in Nat
        BY SemanticMarkersAssumption DEF Inv, Typed, TypeOK, Complete, Commits, Versions
    <2>2. ~Behind(f)
        BY <2>1 DEF AllAccounted, Accounted
    <2> QED
        BY <2>1, <2>2 DEF Behind, UpToDate
<1> QED
    BY <1>1, <1>2, <1>3, PTL DEF Spec

=============================================================================
