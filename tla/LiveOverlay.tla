------------------------------- MODULE LiveOverlay -------------------------------
(***************************************************************************)
(* The live overlay of one source file: what the graph says of its calls   *)
(* between a save and the next commit.  A save drops the edges that it may *)
(* have made wrong; the lexical lane resolves again what it can, records   *)
(* the rest as pending, and stashes the changed region, about which the    *)
(* editor then asks.  The editor's answers become live edges.  A commit    *)
(* starts a Phase B run, which writes the compiler's edges and sweeps the  *)
(* overlay.  The watcher's worker and the editor's request fold saves in   *)
(* side by side (travsr-daemon/src/lib.rs, live_resolve.rs;                *)
(* travsr-store/src/lib.rs, reindex_replace).                              *)
(*                                                                         *)
(* The file has a definition `caller', whose references are followed, and  *)
(* a definition `helper', whose type one of them goes through; a third one *)
(* may come and go.  A reference is known by its name: each stands on a    *)
(* line of its own and keeps its column.  The language is one whose edges  *)
(* come from SCIP, with a native extractor of references.  A compiler edge *)
(* is `committed' here, whatever its provenance.                           *)
(***************************************************************************)
EXTENDS Naturals

CONSTANTS
    Bodies,         \* texts of the caller that occur
    Noise,          \* names that the extractor leaves out (NOISE_NAMES)
    MaxSaves,       \* bound on saves, in the editor or outside
    MaxCommits      \* bound on commits

ASSUME LiveOverlayAssumption ==
    /\ Bodies \subseteq {"one", "two", "new", "via"}
    /\ Noise \subseteq {"run", "new", "helper"}
    /\ MaxSaves \in Nat
    /\ MaxCommits \in Nat

VARIABLES
    disk,           \* the text on disk
    index,          \* the text the index has the hash of
    buffer,         \* the text the editor has open
    committed,      \* targets of the caller's compiler edges
    live,           \* targets of the caller's live edges
    pending,        \* references recorded as pending in ref_resolution_state
    resolved,       \* references recorded there as resolved
    stash,          \* EditorPlane.changed_occurrences of the file
    holder,         \* the thread that has the store's mutex between two steps
    thread,         \* process_saved_file of the worker and of the request
    latest,         \* the thread that folded a save in last
    event,          \* a watcher event waits
    client,         \* the extension, about the newest version of its document
    report,         \* a report on its way to the daemon
    changed,        \* a save since the last commit
    armed,          \* a Phase B run is due
    run,            \* the text that a Phase B run has read
    base,           \* references that the last run resolved and no save removed
    touched,        \* a save since the last run edited the caller
    saves, commits,
    gaps

texts == <<disk, index, buffer>>
rows == <<pending, resolved>>
graph == <<committed, live, rows>>
daemon == <<holder, thread, latest, event>>
editor == <<client, report>>
phaseB == <<changed, armed, run>>
ghosts == <<base, touched>>
vars == <<texts, graph, stash, daemon, editor, phaseB, ghosts, saves, commits, gaps>>

Threads == {"watcher", "request"}
Names == {"run", "new", "helper"}
Targets == {"T1.run", "T2.run", "T3.new", "helper"}
Defs == {"caller", "helper", "extra"}
Texts == [caller : Bodies, helper : {"one", "two"}, extra : BOOLEAN]

None == [kind |-> "none"]
NoStash == None
Idle == [at |-> "idle"]

\* A save that came between two reads of the file; a reindex by a commit; noise
\* in a file that is derived as a whole; a run that read another text; pending
\* references that a later save does not look at again, noise or of a definition it
\* preserves; a dropped edge whose reference has an old row that says resolved; rows
\* that no reference of the text replaces; a stash of an older save, or one that is
\* not in yet; an answer for a reference that now means something else; one taken for
\* a text that is not indexed yet; one that came to nothing; a definition preserved
\* without the edge it depends on.
Gaps == {"missed", "commit", "wholesale", "overtaken", "cleared", "shadowed", "blank",
         "stash", "reworded", "ahead", "nowhere", "unlinked"}

-----------------------------------------------------------------------------
(* What the texts mean: the compiler's view. *)

\* The type that the helper returns.
Returned(text) == IF text.helper = "one" THEN "T1.run" ELSE "T2.run"

\* `via' calls helper().run() and T3::new().
Truth(text) ==
    CASE text.caller = "one" -> {"T1.run"}
      [] text.caller = "two" -> {"T2.run"}
      [] text.caller = "new" -> {"T3.new"}
      [] text.caller = "via" -> {"helper", Returned(text), "T3.new"}

Leaf(target) ==
    CASE target \in {"T1.run", "T2.run"} -> "run"
      [] target = "T3.new" -> "new"
      [] target = "helper" -> "helper"

Leaves(targets) == {Leaf(t) : t \in targets}
Refs(text) == Leaves(Truth(text))

\* What the language server says of a reference.
Answer(text, name) == CHOOSE t \in Truth(text) : Leaf(t) = name

-----------------------------------------------------------------------------
Init ==
    /\ disk \in {text \in Texts : text.helper = "one" /\ ~text.extra}
    /\ index = disk /\ buffer = disk /\ changed = FALSE
    /\ committed = Truth(disk) /\ live = {}
    /\ pending = {} /\ resolved = {}
    /\ stash = NoStash
    /\ holder = "none" /\ latest = "none" /\ event = FALSE
    /\ thread = [p \in Threads |-> Idle]
    /\ client = Idle /\ report = {}
    /\ armed = FALSE /\ run = None
    /\ base = Refs(disk) /\ touched = FALSE
    /\ saves = 0 /\ commits = 0
    /\ gaps = {}

-----------------------------------------------------------------------------
(* reindex_replace: which edges of the file a save leaves. *)

Edges == committed \cup live

Symbols(text) == {"caller", "helper"} \cup {d \in {"extra"} : text.extra}

\* A pure body edit: the symbols are the same.
BodyEdit(text) == Symbols(text) = Symbols(index)

Edited(text) == IF BodyEdit(text) THEN {d \in Symbols(text) : text[d] # index[d]} ELSE {}
Same(text) == IF BodyEdit(text) THEN Symbols(text) \ Edited(text) ELSE {}

\* Mutant of Demoted: the graph around the save is not looked at.
DemotedNone(text) == {}

\* A preserved definition that refers to a changed one is demoted: the caller is
\* the only one that refers to another.
Demoted(text) == {d \in {"caller"} : "helper" \in Edges /\ "helper" \notin Same(text)}

Preserved(text) == Same(text) \ Demoted(text)

\* I0: what an edited definition still names, unless it refers to another edited one.
Kept(text) ==
    IF "caller" \notin Edited(text) \/ ("helper" \in Edited(text) /\ "helper" \in committed)
    THEN {}
    ELSE {t \in committed : Leaf(t) \in Refs(text)}

\* The changed definitions' occurrences whose edge is dropped (and those that are
\* kept: _dropped_edge_pairs does not leave them out).
Occurrences(text) ==
    IF Preserved(text) = {} \/ "caller" \in Preserved(text) THEN {}
    ELSE Leaves(Edges) \cap Refs(text)

CommittedAfter(text) == IF "caller" \in Preserved(text) THEN committed ELSE Kept(text)
LiveAfter(text) == IF "caller" \in Preserved(text) THEN live ELSE {}

\* The rest of a fold, and what it does to the ghosts.
Indexed(text) ==
    /\ index' = text
    /\ committed' = CommittedAfter(text)
    /\ base' = base \cap Refs(text)
    /\ touched' = (touched \/ text.caller # index.caller)

-----------------------------------------------------------------------------
(* The lexical lane: live_resolve_file and what process_saved_file adds. *)

Detected(text) == Refs(text) \ Noise

\* What the lane looks at: the changed definitions, or the whole file.
Seen(text, scope) == {n \in Detected(text) : scope = None \/ "caller" \in scope.defs}

\* The one name with a single definition.
Lexical == {"helper"}

\* Mutant of PutLive: the edge is written again as live.
PutOver(targets, c) == targets

\* put_edge_live leaves an edge of another provenance alone.
PutLive(targets, c) == targets \ c

\* Mutant of RecordDropped: the lane's own rows are all there is.
RecordNothing(occ, known) == {}

\* record_pending_changed_occurrences: insert if absent.
RecordDropped(occ, known) == occ \ known

\* replace_ref_resolution_states clears the whole file; a file without references
\* is not looked at.
Lane(text, scope, occ, c, l) ==
    LET seen == Seen(text, scope)
        p == IF Detected(text) = {} THEN pending ELSE seen \ Lexical
        r == IF Detected(text) = {} THEN resolved ELSE seen \cap Lexical
    IN  /\ live' = l \cup PutLive(seen \cap Lexical, c)
        /\ pending' = p \cup RecordDropped(occ, p \cup r)
        /\ resolved' = r

-----------------------------------------------------------------------------
(* process_saved_file, in the worker and in the handler of a request. *)

Begin(p) == thread' = [thread EXCEPT ![p] = [at |-> "compare", fresh |-> TRUE]]

WatcherEvent ==
    /\ event /\ thread["watcher"].at = "idle"
    /\ event' = FALSE
    /\ Begin("watcher")
    /\ UNCHANGED <<texts, graph, stash, holder, latest, editor, phaseB, ghosts, saves,
                   commits, gaps>>

RequestTargets ==
    /\ client.at = "asked" /\ thread["request"].at = "idle"
    /\ client' = [at |-> "waiting"]
    /\ Begin("request")
    /\ UNCHANGED <<texts, graph, stash, holder, latest, event, report, phaseB, ghosts,
                   saves, commits, gaps>>

\* file_matches_index, with the store's mutex.
Compare(p) ==
    /\ thread[p].at = "compare"
    /\ holder = "none"
    /\ holder' = p
    /\ thread' = [thread EXCEPT ![p] = [at |-> "fold", fresh |-> thread[p].fresh,
                                        known |-> disk = index]]
    /\ UNCHANGED <<texts, graph, stash, latest, event, editor, phaseB, ghosts, saves,
                   commits, gaps>>

After(p) == IF p = "request" THEN "serve" ELSE "idle"

\* The early return of a save that is in.
Leave(p) ==
    /\ holder' = "none"
    /\ thread' = [thread EXCEPT ![p] = [at |-> After(p), fresh |-> thread[p].fresh]]

\* What goes into the stash when the mutex is free again.
Release(p, scope, occ) ==
    /\ holder' = "none"
    /\ latest' = p
    /\ thread' = [thread EXCEPT ![p] =
           [at |-> "stash", fresh |-> thread[p].fresh,
            stash |-> IF scope = None THEN NoStash
                      ELSE [kind |-> "stash", occ |-> occ, defs |-> scope.defs]]]

\* A fold without the lane leaves the rows of references that are gone.
Stranded(text) == {g \in {"blank"} : pending \ Refs(text) # {}}

\* What a fold with the lane loses.
Losses(text, scope) ==
    {g \in {"cleared"} : scope # None /\ Detected(text) # {}
                         /\ (pending \cap Refs(text)) \ Seen(text, scope) # {}}
        \cup {g \in {"shadowed"} : Detected(text) = {} /\ Occurrences(text) \cap resolved # {}}
        \cup {g \in {"wholesale"} : scope = None /\ Noise \cap Refs(text) # {}}
        \cup {g \in Stranded(text) : Detected(text) = {}}
        \cup {g \in {"unlinked"} : "caller" \in Preserved(text) /\ "helper" \in Refs(text)
                                  /\ "helper" \in Edited(text)}

\* reindex_files_reporting reads the file again: it may find more than the
\* comparison did, or nothing new after all.
Fold(p) ==
    /\ thread[p].at = "fold"
    /\ LET known == thread[p].known
           scope == IF disk = index \/ Preserved(disk) = {} THEN None
                    ELSE [kind |-> "scope", defs |-> Symbols(disk) \ Preserved(disk)]
           occ == IF disk = index THEN {} ELSE Occurrences(disk)
           c == IF disk = index THEN committed ELSE CommittedAfter(disk)
           l == IF disk = index THEN live ELSE LiveAfter(disk)
       IN
       /\ IF disk = index THEN UNCHANGED <<index, committed, ghosts>> ELSE Indexed(disk)
       /\ \/ /\ known
             /\ live' = l
             /\ gaps' = IF disk = index THEN gaps
                        ELSE gaps \cup {"missed", "stash"} \cup Stranded(disk)
             /\ Leave(p)
             /\ UNCHANGED <<rows, latest>>
          \/ /\ ~known
             /\ Lane(disk, scope, occ, c, l)
             /\ gaps' = gaps \cup Losses(disk, scope)
             /\ Release(p, scope, occ)
    /\ UNCHANGED <<disk, buffer, stash, event, editor, phaseB, saves, commits>>

\* stash_changed_occurrences, under the other mutex.
Stash(p) ==
    /\ thread[p].at = "stash"
    /\ stash' = thread[p].stash
    /\ gaps' = IF latest = p THEN gaps ELSE gaps \cup {"stash"}
    /\ thread' = [thread EXCEPT ![p] = [at |-> After(p), fresh |-> thread[p].fresh]]
    /\ UNCHANGED <<texts, graph, holder, latest, event, editor, phaseB, ghosts, saves,
                   commits>>

\* The stash expires, or 64 other files push it out.
Expire ==
    /\ stash # NoStash
    /\ stash' = NoStash
    /\ UNCHANGED <<texts, graph, daemon, editor, phaseB, ghosts, saves, commits, gaps>>

-----------------------------------------------------------------------------
(* The editor's request and its report. *)

\* live_resolution_targets: the references of the changed region that the lexical
\* lane leaves, and the stashed occurrences.
Asked == IF stash = NoStash THEN Detected(disk) \ Lexical
         ELSE (Seen(disk, stash) \ Lexical) \cup stash.occ

\* The reply; the extension drops it when its document has moved on.
Serve ==
    /\ thread["request"].at = "serve"
    /\ holder = "none"
    /\ thread' = [thread EXCEPT !["request"] = Idle]
    /\ client' = IF thread["request"].fresh
                 THEN [at |-> "asking", names |-> Asked] ELSE client
    /\ UNCHANGED <<texts, graph, stash, holder, latest, event, report, phaseB, ghosts,
                   saves, commits, gaps>>

\* The language server answers some of the references, from the open document; one
\* it places outside the graph becomes no edge.
Publish ==
    /\ client.at = "asking"
    /\ report = {}
    /\ \E answered \in SUBSET (client.names \cap Refs(buffer)), outside \in BOOLEAN :
          report' = {[name |-> n, target |-> IF outside THEN "nowhere"
                                             ELSE Answer(buffer, n)] : n \in answered}
    /\ client' = Idle
    /\ UNCHANGED <<texts, graph, stash, daemon, phaseB, ghosts, saves, commits, gaps>>

\* Mutant of Retained: the report is taken as it comes.
RetainedAll == report

\* retain_current_targets: the daemon still asks for it.
Retained == {a \in report : a.name \in Asked}

\* apply_live_resolutions.
Report ==
    /\ report # {}
    /\ holder = "none"
    /\ report' = {}
    /\ LET placed == {a \in Retained : a.target # "nowhere"}
           names == {a.name : a \in placed}
           lost == {a.name : a \in Retained} \ names
       IN  /\ live' = live \cup PutLive({a.target : a \in placed}, committed)
           /\ resolved' = (resolved \ lost) \cup names
           /\ pending' = (pending \ names) \cup lost
           /\ gaps' = gaps \cup {g \in {"nowhere"} : lost # {}}
                  \cup {g \in {"blank"} : lost \ Refs(index) # {}}
                  \cup {g \in {"reworded"} : \E a \in placed :
                           a.name \in Refs(index) /\ a.target \notin Truth(index)}
                  \cup {g \in {"ahead"} : disk # index /\ \E a \in placed :
                           a.name \notin Refs(index)}
                  \cup {g \in {"stash"} : placed # {} /\ \E p \in Threads :
                                            thread[p].at = "stash"}
    /\ UNCHANGED <<texts, committed, stash, daemon, client, phaseB, ghosts, saves,
                   commits>>

-----------------------------------------------------------------------------
(* Saves, in the editor and by others. *)

\* One of the definitions changes.
Changes(text) ==
    {[text EXCEPT !.caller = b] : b \in Bodies \ {text.caller}}
        \cup {[text EXCEPT !.helper = h] : h \in {"one", "two"} \ {text.helper}}
        \cup {[text EXCEPT !.extra = ~text.extra]}

\* The extension asks with every save; what it had under way is of an older version.
EditorSave ==
    /\ saves < MaxSaves
    /\ saves' = saves + 1
    /\ \E text \in Changes(disk) : disk' = text /\ buffer' = text
    /\ event' = TRUE /\ changed' = TRUE
    /\ client' = [at |-> "asked"]
    /\ thread' = IF thread["request"].at = "idle" THEN thread
                 ELSE [thread EXCEPT !["request"].fresh = FALSE]
    /\ UNCHANGED <<index, graph, stash, holder, latest, report, armed, run, ghosts,
                   commits, gaps>>

OutsideWrite ==
    /\ saves < MaxSaves
    /\ saves' = saves + 1
    /\ disk' \in Changes(disk)
    /\ event' = TRUE /\ changed' = TRUE
    /\ UNCHANGED <<index, buffer, graph, stash, holder, thread, latest, editor, armed,
                   run, ghosts, commits, gaps>>

-----------------------------------------------------------------------------
(* Commits and Phase B. *)

\* The hook has the file reindexed, without the lane and the stash, and a run armed.
Commit ==
    /\ commits < MaxCommits
    /\ holder = "none"
    /\ changed
    /\ commits' = commits + 1
    /\ changed' = FALSE
    /\ armed' = TRUE
    /\ IF disk = index THEN UNCHANGED <<index, committed, live, ghosts, gaps>>
       ELSE /\ Indexed(disk)
            /\ live' = LiveAfter(disk)
            /\ gaps' = gaps \cup {"commit", "stash"} \cup Stranded(disk)
    /\ UNCHANGED <<disk, buffer, rows, stash, daemon, editor, run, saves>>

\* The run reads the tree.
RunStart ==
    /\ armed /\ run = None
    /\ armed' = FALSE
    /\ run' = [kind |-> "run", text |-> disk]
    /\ UNCHANGED <<texts, graph, stash, daemon, editor, changed, ghosts, saves, commits,
                   gaps>>

\* Mutant of Swept: what the run did not confirm stays.
SweptNothing(edges) == edges

\* sweep_live_edges_for_languages: what the run has not derived.
Swept(edges) == {}

\* reconcile_ref_resolution_states: a row goes when a site stands for it.
Reconciled(text) == pending \ Refs(text)

\* write_scip_attributed_batch puts the file's edges in place of the old ones and
\* relabels the live ones it confirms; ratify_live_overlay does the rest.
RunEnd ==
    /\ run # None
    /\ holder = "none"
    /\ run' = None
    /\ committed' = Truth(run.text)
    /\ live' = Swept(live \ Truth(run.text))
    /\ resolved' = {}
    /\ pending' = Reconciled(run.text)
    /\ base' = Refs(run.text) \cap Refs(index)
    /\ touched' = FALSE
    /\ gaps' = IF run.text = index THEN gaps \cap {"blank", "stash"}
               ELSE gaps \cup {"overtaken"}
    /\ UNCHANGED <<texts, stash, daemon, editor, changed, armed, saves, commits>>

-----------------------------------------------------------------------------
SaveStep(p) == Compare(p) \/ Fold(p) \/ Stash(p)

Next ==
    \/ WatcherEvent \/ RequestTargets
    \/ \E p \in Threads : SaveStep(p)
    \/ Serve \/ Publish \/ Report \/ Expire
    \/ EditorSave \/ OutsideWrite
    \/ Commit \/ RunStart \/ RunEnd

\* The worker, the handler of requests and a run that is due get on with their work.
Fairness ==
    /\ WF_vars(WatcherEvent \/ SaveStep("watcher"))
    /\ WF_vars(SaveStep("request") \/ Serve)
    /\ WF_vars(Report)
    /\ WF_vars(RunStart \/ RunEnd)

Spec == Init /\ [][Next]_vars /\ Fairness

-----------------------------------------------------------------------------
(* Properties. *)

Clear(exceptions) == gaps \cap exceptions = {}

\* Every variable has its type; an edge is the compiler's or live, and a reference
\* has one row.
TypeOK ==
    /\ {disk, index, buffer} \subseteq Texts
    /\ committed \subseteq Targets /\ live \subseteq Targets
    /\ committed \cap live = {}
    /\ pending \subseteq Names /\ resolved \subseteq Names
    /\ pending \cap resolved = {}
    /\ holder \in Threads \cup {"none"} /\ latest \in Threads \cup {"none"}
    /\ \A p \in Threads : thread[p].at \in {"idle", "compare", "fold", "stash", "serve"}
    /\ client.at \in {"idle", "asked", "waiting", "asking"}
    /\ {event, changed, armed, touched} \subseteq BOOLEAN
    /\ base \subseteq Names
    /\ saves \in 0..MaxSaves /\ commits \in 0..MaxCommits
    /\ gaps \subseteq Gaps

\* Preservation never leaves a stale edge: as long as no save edits the caller, its
\* compiler edges are those a fresh analysis would give, whatever becomes of the
\* helper that they go through.
CommittedTrue ==
    ~touched /\ Clear({"overtaken"}) => committed \subseteq Truth(index)

\* An answer of the editor never becomes an edge for a reference that the indexed
\* text no longer has, whatever saves came between the question and the report; and
\* no later save keeps a live edge it has made wrong.
LiveTrue ==
    Clear({"stash", "reworded", "ahead", "unlinked"}) => live \subseteq Truth(index)

\* An abstention is recorded, not dropped: a reference that the last run resolved and
\* that is still there has an edge or is pending.
Accounted ==
    Clear({"missed", "commit", "wholesale", "cleared", "shadowed"})
    => base \subseteq pending \cup Leaves(Edges)

\* Once the last save is committed, the file's edges become those a fresh index has,
\* and nothing stays pending.
Converges ==
    <>[]~changed
        => <>[](/\ committed = Truth(disk)
                /\ live = {} \/ ~Clear({"reworded", "stash"})
                /\ pending = {} \/ ~Clear({"blank", "nowhere"}))
=============================================================================
