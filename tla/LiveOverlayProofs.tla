---------------------------- MODULE LiveOverlayProofs ----------------------------
(***************************************************************************)
(* For any number of saves and commits, any names that are noise and any   *)
(* bodies of the caller: what a save preserves is true of the text that is *)
(* indexed, an answer of the editor becomes no edge of a reference that is *)
(* gone, and no reference is lost without a row, but for the gaps that the *)
(* properties name.                                                        *)
(***************************************************************************)
EXTENDS LiveOverlay, TLAPS

-----------------------------------------------------------------------------
(* The inductive invariant. *)

Stashes == {NoStash} \cup [kind : {"stash"}, occ : SUBSET Names, defs : SUBSET Defs]

ThreadStates ==
    {Idle} \cup [at : {"idle", "compare", "serve"}, fresh : BOOLEAN]
           \cup [at : {"fold"}, fresh : BOOLEAN, known : BOOLEAN]
           \cup [at : {"stash"}, fresh : BOOLEAN, stash : Stashes]

Clients == {Idle, [at |-> "asked"], [at |-> "waiting"]}
               \cup [at : {"asking"}, names : SUBSET Names]

\* An answer is about the reference it names.
Answers == {a \in [name : Names, target : Targets \cup {"nowhere"}] :
               a.target # "nowhere" => Leaf(a.target) = a.name}

Runs == {None} \cup [kind : {"run"}, text : Texts]

TextsTyped == disk \in Texts /\ index \in Texts /\ buffer \in Texts /\ run \in Runs

GraphTyped ==
    /\ committed \subseteq Targets /\ live \subseteq Targets /\ committed \cap live = {}
    /\ pending \subseteq Names /\ resolved \subseteq Names /\ pending \cap resolved = {}

ProcessesTyped ==
    /\ holder \in Threads \cup {"none"} /\ latest \in Threads \cup {"none"}
    /\ thread \in [Threads -> ThreadStates]
    /\ stash \in Stashes
    /\ client \in Clients /\ report \subseteq Answers

RestTyped ==
    /\ event \in BOOLEAN /\ changed \in BOOLEAN /\ armed \in BOOLEAN /\ touched \in BOOLEAN
    /\ saves \in 0..MaxSaves /\ commits \in 0..MaxCommits
    /\ gaps \subseteq Gaps

\* The run's references that are left are references of the indexed text.
BaseIndexed == base \subseteq Refs(index)

\* Until the caller is edited its compiler edges go together: a save keeps all of
\* them or none.  (CommittedTrue alone is not inductive: of two edges one of which
\* goes through the other, a save could keep the second.)
CommittedWhole ==
    ~touched /\ Clear({"overtaken"}) => committed = {} \/ committed = Truth(index)

\* The occurrences of a stash are references of the indexed text.
Current(s) == s # NoStash => s.occ \subseteq Refs(index)

\* The stash on its way of the last fold is current, and so is the one that is in,
\* unless the other replaces it.
Replacing(p) == thread[p].at = "stash" /\ latest = p

StashCurrent ==
    "stash" \notin gaps =>
        /\ \A p \in Threads : Replacing(p) => Current(thread[p].stash)
        /\ Current(stash) \/ \E p \in Threads : Replacing(p)

Typed == TextsTyped /\ GraphTyped /\ ProcessesTyped /\ RestTyped
Truths == BaseIndexed /\ CommittedWhole /\ LiveTrue /\ Accounted
Inv == Typed /\ Truths /\ StashCurrent

-----------------------------------------------------------------------------
(* What the texts mean. *)

\* The edges of a text are of the targets that there are.
LEMMA TruthTyped ==
    ASSUME NEW text \in Texts
    PROVE  Truth(text) \subseteq Targets /\ text.caller \in {"one", "two", "new", "via"}
<1>1. text.caller \in {"one", "two", "new", "via"}
    BY LiveOverlayAssumption DEF Texts
<1> QED
    BY <1>1 DEF Truth, Returned, Targets

\* A target has one name.
LEMMA LeafTyped == \A t \in Targets : Leaf(t) \in Names
BY DEF Targets, Names, Leaf

\* The references of a text are names.
LEMMA RefsTyped ==
    ASSUME NEW text \in Texts
    PROVE  Refs(text) \subseteq Names
BY TruthTyped, LeafTyped DEF Refs, Leaves

\* The references depend on the caller only.
LEMMA RefsOfCaller ==
    ASSUME NEW text \in Texts
    PROVE  Refs(text) = CASE text.caller = "one" -> {"run"}
                          [] text.caller = "two" -> {"run"}
                          [] text.caller = "new" -> {"new"}
                          [] text.caller = "via" -> {"helper", "run", "new"}
<1>1. CASE text.caller = "one"
    BY <1>1 DEF Refs, Leaves, Leaf, Truth
<1>2. CASE text.caller = "two"
    BY <1>2 DEF Refs, Leaves, Leaf, Truth
<1>3. CASE text.caller = "new"
    BY <1>3 DEF Refs, Leaves, Leaf, Truth
<1>4. CASE text.caller = "via"
    <2>1. Returned(text) \in {"T1.run", "T2.run"} /\ Leaf(Returned(text)) = "run"
        BY DEF Returned, Leaf
    <2>2. Truth(text) = {"helper", Returned(text), "T3.new"}
        BY <1>4 DEF Truth
    <2>3. Leaf("helper") = "helper" /\ Leaf("T3.new") = "new"
        BY DEF Leaf
    <2>4. Refs(text) = {"helper", "run", "new"}
        BY <2>1, <2>2, <2>3 DEF Refs, Leaves
    <2> QED
        BY <1>4, <2>4
<1> QED
    BY <1>1, <1>2, <1>3, <1>4, TruthTyped

\* Two texts with the same caller have the same references; they have the same edges
\* if they have the same helper, or do not go through it.
LEMMA SameCaller ==
    ASSUME NEW a \in Texts, NEW b \in Texts, a.caller = b.caller
    PROVE  /\ Refs(a) = Refs(b)
           /\ a.helper = b.helper \/ "helper" \notin Refs(a) => Truth(a) = Truth(b)
<1>1. Refs(a) = Refs(b)
    BY RefsOfCaller, TruthTyped
<1>2. "helper" \notin Refs(a) => a.caller # "via"
    BY RefsOfCaller
<1>3. a.caller # "via" => Truth(a) = Truth(b)
    BY TruthTyped DEF Truth
<1>4. a.helper = b.helper => Truth(a) = Truth(b)
    BY TruthTyped DEF Truth, Returned
<1> QED
    BY <1>1, <1>2, <1>3, <1>4

\* A reference to the helper is an edge to it.
LEMMA HelperEdge ==
    ASSUME NEW text \in Texts
    PROVE  /\ "helper" \in Refs(text) <=> "helper" \in Truth(text)
           /\ Leaf("helper") = "helper"
<1>1. "helper" \in Refs(text) <=> text.caller = "via"
    BY RefsOfCaller, TruthTyped
<1>2. "helper" \in Truth(text) <=> text.caller = "via"
    BY TruthTyped DEF Truth, Returned
<1> QED
    BY <1>1, <1>2 DEF Leaf

\* What the language server answers is an edge of the text the editor has.
LEMMA AnswerIs ==
    ASSUME NEW text \in Texts, NEW n \in Refs(text)
    PROVE  Answer(text, n) \in Truth(text) /\ Leaf(Answer(text, n)) = n
<1>1. \E t \in Truth(text) : Leaf(t) = n
    BY DEF Refs, Leaves
<1> QED
    BY <1>1 DEF Answer

-----------------------------------------------------------------------------
(* What a save leaves (reindex_replace). *)

\* A caller that is preserved is the same in both texts; the helper it has an edge to
\* is the same too; and where the helper changed it was edited.
LEMMA PreservedCaller ==
    ASSUME NEW text \in Texts, index \in Texts, "caller" \in Preserved(text)
    PROVE  /\ text.caller = index.caller
           /\ "helper" \in Edges => text.helper = index.helper
           /\ "helper" \notin Edited(text) => text.helper = index.helper
<1>1. BodyEdit(text) /\ "caller" \in Symbols(text) \ Edited(text)
    BY DEF Preserved, Same
<1>2. text.caller = index.caller
    BY <1>1 DEF Edited
<1>3. "helper" \notin Edited(text) => text.helper = index.helper
    BY <1>1 DEF Edited, Symbols
<1>4. "helper" \in Edges => "helper" \in Same(text)
    BY DEF Preserved, Demoted
<1>5. "helper" \in Same(text) => "helper" \notin Edited(text)
    BY DEF Same
<1> QED
    BY <1>2, <1>3, <1>4, <1>5

\* A save adds no edge, and drops the live ones of a caller that it does not preserve.
LEMMA AfterSave ==
    ASSUME NEW text \in Texts
    PROVE  /\ CommittedAfter(text) \subseteq committed /\ LiveAfter(text) \subseteq live
           /\ Occurrences(text) \subseteq Refs(text)
           /\ "caller" \in Preserved(text) => /\ CommittedAfter(text) = committed
                                              /\ LiveAfter(text) = live
                                              /\ Occurrences(text) = {}
BY DEF CommittedAfter, LiveAfter, Occurrences, Kept

\* A save that edits no caller keeps all of its compiler edges or none.
LEMMA AllOrNone ==
    ASSUME NEW text \in Texts
    PROVE  text.caller = index.caller => CommittedAfter(text) \in {committed, {}}
<1>1. text.caller = index.caller => "caller" \notin Edited(text)
    BY DEF Edited
<1> QED
    BY <1>1 DEF CommittedAfter, Kept

\* What a save keeps of the compiler's edges stays whole.
LEMMA IndexedWhole ==
    ASSUME Typed, CommittedWhole, Indexed(disk), gaps \subseteq gaps'
    PROVE  CommittedWhole'
<1> SUFFICES ASSUME ~touched', Clear({"overtaken"})' PROVE (committed = {} \/ committed = Truth(index))'
    BY DEF CommittedWhole
<1>1. /\ disk \in Texts /\ index \in Texts /\ index' = disk
      /\ committed' = CommittedAfter(disk)
    BY DEF Typed, TextsTyped, Indexed
<1>2. ~touched /\ disk.caller = index.caller
    BY DEF Typed, RestTyped, Indexed
<1>3. committed = {} \/ committed = Truth(index)
    BY <1>2 DEF CommittedWhole, Clear
<1>4. CASE committed' = {}
    BY <1>4
<1>5. CASE committed' # {}
    <2>1. committed' = committed /\ committed = Truth(index) /\ "caller" \in Preserved(disk)
        BY <1>1, <1>2, <1>3, <1>5, AllOrNone DEF CommittedAfter, Kept, Edited
    <2>2. "helper" \in Refs(index) => "helper" \in Edges
        BY <1>1, <2>1, HelperEdge DEF Edges
    <2>3. "helper" \in Edges => disk.helper = index.helper
        BY <1>1, <2>1, PreservedCaller
    <2>4. Truth(disk) = Truth(index)
        BY <1>1, <1>2, <2>2, <2>3, SameCaller
    <2> QED
        BY <1>1, <2>1, <2>4
<1> QED
    BY <1>4, <1>5

\* The live edges that a save keeps are true, if it keeps the caller with the edge to
\* the helper, or the helper as it is.
LEMMA LiveKept ==
    ASSUME NEW text \in Texts, index \in Texts, live \subseteq Truth(index),
           ~("caller" \in Preserved(text) /\ "helper" \in Refs(text) /\ "helper" \in Edited(text))
    PROVE  LiveAfter(text) \subseteq Truth(text)
<1>1. CASE "caller" \in Preserved(text)
    <2>1. text.caller = index.caller
          /\ ("helper" \notin Edited(text) => text.helper = index.helper)
        BY <1>1, PreservedCaller
    <2>2. Truth(text) = Truth(index)
        BY <1>1, <2>1, SameCaller
    <2> QED
        BY <2>2 DEF LiveAfter
<1>2. CASE "caller" \notin Preserved(text)
    BY <1>2 DEF LiveAfter
<1> QED
    BY <1>1, <1>2

\* What the lane adds is an edge of the text it reads.
LEMMA LaneTrue ==
    ASSUME NEW text \in Texts, NEW scope, NEW c
    PROVE  PutLive(Seen(text, scope) \cap Lexical, c) \subseteq Truth(text) \cap {"helper"}
<1>1. Seen(text, scope) \subseteq Refs(text)
    BY DEF Seen, Detected
<1> QED
    BY <1>1, HelperEdge DEF PutLive, Lexical

-----------------------------------------------------------------------------
(* Steps that leave the graph or the stash as it is. *)

\* The truths are about the index, the edges and the rows.
LEMMA TruthsFrame ==
    ASSUME Truths, UNCHANGED <<index, graph, ghosts>>, gaps \subseteq gaps'
    PROVE  Truths'
<1> USE DEF graph, rows, ghosts
<1>1. \A exceptions : Clear(exceptions)' => Clear(exceptions)
    BY DEF Clear
<1>2. BaseIndexed'
    BY DEF Truths, BaseIndexed
<1>3. CommittedWhole'
    BY <1>1 DEF Truths, CommittedWhole
<1>4. LiveTrue'
    BY <1>1 DEF Truths, LiveTrue
<1>5. Accounted'
    BY <1>1 DEF Truths, Accounted, Edges
<1> QED
    BY <1>2, <1>3, <1>4, <1>5 DEF Truths

\* A step that brings no stash in, and no thread to it, and no other text.
LEMMA StashFrame ==
    ASSUME StashCurrent, UNCHANGED <<index, latest>>, gaps \subseteq gaps',
           stash' = stash \/ stash' = NoStash,
           \A p \in Threads : Replacing(p) <=> Replacing(p)',
           \A p \in Threads : Replacing(p) => thread'[p].stash = thread[p].stash
    PROVE  StashCurrent'
BY DEF StashCurrent, Current

-----------------------------------------------------------------------------
(* process_saved_file. *)

\* The states of a thread.
LEMMA ThreadIs ==
    ASSUME thread \in [Threads -> ThreadStates], NEW p \in Threads
    PROVE  /\ thread[p].at \in {"idle", "compare", "serve", "fold", "stash"}
           /\ thread[p].at \in {"compare", "serve", "fold", "stash"} => thread[p].fresh \in BOOLEAN
           /\ thread[p].at = "stash" => thread[p].stash \in Stashes
BY DEF ThreadStates, Idle

\* A thread that goes on to a state that is not the one before the stash.
LEMMA ThreadGoesOn ==
    ASSUME ProcessesTyped, NEW p \in Threads, NEW t \in ThreadStates,
           thread' = [thread EXCEPT ![p] = t], t.at # "stash", thread[p].at # "stash"
    PROVE  /\ thread' \in [Threads -> ThreadStates]
           /\ \A q \in Threads : latest' = latest => (Replacing(q) <=> Replacing(q)')
           /\ \A q \in Threads : Replacing(q) => thread'[q].stash = thread[q].stash
BY DEF ProcessesTyped, Replacing

LEMMA StepWatcherEvent ==
    ASSUME Inv, WatcherEvent
    PROVE  Inv'
<1> USE DEF WatcherEvent, texts, editor, phaseB
<1> DEFINE t == [at |-> "compare", fresh |-> TRUE]
<1>1. t \in ThreadStates /\ t.at # "stash" /\ thread["watcher"].at # "stash" /\ "watcher" \in Threads
    BY DEF ThreadStates, Threads
<1>2. ProcessesTyped /\ thread' = [thread EXCEPT !["watcher"] = t]
    BY DEF Inv, Typed, Begin
<1> HIDE DEF t
<1>3. Truths'
    BY TruthsFrame DEF Inv
<1>4. /\ thread' \in [Threads -> ThreadStates]
      /\ \A q \in Threads : Replacing(q) <=> Replacing(q)'
      /\ \A q \in Threads : Replacing(q) => thread'[q].stash = thread[q].stash
    BY <1>1, <1>2, ThreadGoesOn
<1>5. StashCurrent'
    BY <1>4, StashFrame DEF Inv
<1>6. Typed'
    BY <1>4 DEF Inv, Typed, TextsTyped, GraphTyped, ProcessesTyped, RestTyped, graph, rows, ghosts
<1> QED
    BY <1>3, <1>5, <1>6 DEF Inv

LEMMA StepRequestTargets ==
    ASSUME Inv, RequestTargets
    PROVE  Inv'
<1> USE DEF RequestTargets, texts, phaseB
<1> DEFINE t == [at |-> "compare", fresh |-> TRUE]
<1>1. t \in ThreadStates /\ t.at # "stash" /\ thread["request"].at # "stash" /\ "request" \in Threads
    BY DEF ThreadStates, Threads
<1>2. ProcessesTyped /\ thread' = [thread EXCEPT !["request"] = t]
    BY DEF Inv, Typed, Begin
<1> HIDE DEF t
<1>3. Truths'
    BY TruthsFrame DEF Inv
<1>4. /\ thread' \in [Threads -> ThreadStates]
      /\ \A q \in Threads : Replacing(q) <=> Replacing(q)'
      /\ \A q \in Threads : Replacing(q) => thread'[q].stash = thread[q].stash
    BY <1>1, <1>2, ThreadGoesOn
<1>5. StashCurrent'
    BY <1>4, StashFrame DEF Inv
<1>6. Typed'
    BY <1>4 DEF Inv, Typed, TextsTyped, GraphTyped, ProcessesTyped, RestTyped, Clients, graph, rows, ghosts
<1> QED
    BY <1>3, <1>5, <1>6 DEF Inv

LEMMA StepCompare ==
    ASSUME Inv, NEW p \in Threads, Compare(p)
    PROVE  Inv'
<1> USE DEF Compare, texts, editor, phaseB
<1> DEFINE t == [at |-> "fold", fresh |-> thread[p].fresh, known |-> disk = index]
<1>1. ProcessesTyped /\ thread' = [thread EXCEPT ![p] = t] /\ t.at # "stash" /\ thread[p].at # "stash"
    BY DEF Inv, Typed
<1>2. t \in ThreadStates
    BY <1>1, ThreadIs DEF ThreadStates, ProcessesTyped
<1> HIDE DEF t
<1>3. Truths'
    BY TruthsFrame DEF Inv
<1>4. /\ thread' \in [Threads -> ThreadStates]
      /\ \A q \in Threads : Replacing(q) <=> Replacing(q)'
      /\ \A q \in Threads : Replacing(q) => thread'[q].stash = thread[q].stash
    BY <1>1, <1>2, ThreadGoesOn
<1>5. StashCurrent'
    BY <1>4, StashFrame DEF Inv
<1>6. Typed'
    BY <1>4 DEF Inv, Typed, TextsTyped, GraphTyped, ProcessesTyped, RestTyped, graph, rows, ghosts
<1> QED
    BY <1>3, <1>5, <1>6 DEF Inv

\* What a fold without the lane leaves true: the early return of a save that is in.
LEMMA FoldKnown ==
    ASSUME Inv, NEW p \in Threads, thread[p].at = "fold", Leave(p),
           disk = index => UNCHANGED <<index, committed, live, ghosts, gaps>>,
           disk # index => /\ Indexed(disk)
                           /\ live' = LiveAfter(disk)
                           /\ gaps' = gaps \cup {"missed", "stash"} \cup Stranded(disk),
           UNCHANGED <<disk, buffer, stash, event, editor, phaseB, saves, commits, rows, latest>>
    PROVE  Inv'
<1> USE DEF editor, phaseB, rows
<1> DEFINE t == [at |-> After(p), fresh |-> thread[p].fresh]
<1>1. ProcessesTyped /\ thread' = [thread EXCEPT ![p] = t] /\ t.at # "stash" /\ thread[p].at # "stash"
    BY DEF Inv, Typed, Leave, After
<1>2. t \in ThreadStates
    BY <1>1, ThreadIs DEF ThreadStates, ProcessesTyped, After
<1> HIDE DEF t
<1>3. /\ thread' \in [Threads -> ThreadStates]
      /\ \A q \in Threads : Replacing(q) <=> Replacing(q)'
      /\ \A q \in Threads : Replacing(q) => thread'[q].stash = thread[q].stash
    BY <1>1, <1>2, ThreadGoesOn
<1>4. ProcessesTyped'
    BY <1>1, <1>3 DEF ProcessesTyped, Leave
<1>5. CASE disk = index
    <2>1. UNCHANGED <<index, committed, live, ghosts, gaps>>
        BY <1>5
    <2>2. Truths'
        BY <2>1, TruthsFrame DEF Inv, graph
    <2>3. StashCurrent'
        BY <2>1, <1>3, StashFrame DEF Inv
    <2>4. Typed'
        BY <2>1, <1>4 DEF Inv, Typed, TextsTyped, GraphTyped, RestTyped, ghosts
    <2> QED
        BY <2>2, <2>3, <2>4 DEF Inv
<1>6. CASE disk # index
    <2>1. /\ Indexed(disk) /\ live' = LiveAfter(disk)
          /\ gaps' = gaps \cup {"missed", "stash"} \cup Stranded(disk)
          /\ disk \in Texts
        BY <1>6 DEF Inv, Typed, TextsTyped
    <2>2. BaseIndexed'
        BY <2>1 DEF Indexed, BaseIndexed
    <2>3. CommittedWhole'
        BY <2>1, IndexedWhole DEF Inv, Truths
    <2>4. LiveTrue' /\ Accounted' /\ StashCurrent'
        BY <2>1 DEF LiveTrue, Accounted, StashCurrent, Clear
    <2>5. GraphTyped'
        BY <2>1, AfterSave DEF Inv, Typed, GraphTyped, Indexed
    <2>6. Stranded(disk) \subseteq Gaps /\ {"missed", "stash"} \subseteq Gaps
        BY DEF Stranded, Gaps
    <2>7. TextsTyped' /\ RestTyped'
        BY <2>1, <2>6 DEF Inv, Typed, TextsTyped, RestTyped, Indexed
    <2> QED
        BY <1>4, <2>2, <2>3, <2>4, <2>5, <2>7 DEF Inv, Typed, Truths
<1> QED
    BY <1>5, <1>6

\* What a fold with the lane records: every reference of the last run that is still
\* there keeps its edge, or is pending.
LEMMA LaneAccounts ==
    ASSUME Typed, Truths, NEW scope, NEW occ, NEW c \in SUBSET committed, NEW l \in SUBSET live,
           Lane(disk, scope, occ, c, l), committed' = c, base' = base \cap Refs(disk),
           gaps' = gaps \cup Losses(disk, scope),
           \/ scope = None /\ occ = {}
           \/ /\ scope # None /\ "caller" \in scope.defs
              /\ occ = Leaves(Edges) \cap Refs(disk)
              /\ occ = Occurrences(disk)
           \/ scope # None /\ "caller" \notin scope.defs /\ c = committed /\ l = live
    PROVE  Accounted'
<1> SUFFICES ASSUME Clear({"missed", "commit", "wholesale", "cleared", "shadowed"})',
                    NEW n \in base \cap Refs(disk),
                    n \notin Leaves(Edges)'
             PROVE  n \in pending'
    BY DEF Accounted
<1>1. /\ Clear({"missed", "commit", "wholesale", "cleared", "shadowed"})
      /\ {"wholesale", "cleared", "shadowed"} \cap Losses(disk, scope) = {}
    BY DEF Clear
<1>2. n \in pending \cup Leaves(Edges)
    BY <1>1 DEF Truths, Accounted
<1>3. ASSUME n = "helper", n \in Seen(disk, scope) PROVE FALSE
    <2>1. "helper" \in committed' \cup live'
        BY <1>3 DEF Lane, PutLive, Lexical
    <2> QED
        BY <2>1, <1>3 DEF Leaves, Edges, Leaf
<1>4. ASSUME Detected(disk) # {}, n \in Seen(disk, scope) PROVE n \in pending'
    BY <1>3, <1>4 DEF Lane, Lexical
<1>5. CASE scope = None
    <2>1. Noise \cap Refs(disk) = {}
        BY <1>1, <1>5 DEF Losses
    <2>2. n \in Detected(disk) /\ n \in Seen(disk, scope)
        BY <1>5, <2>1 DEF Detected, Seen
    <2> QED
        BY <2>2, <1>4
<1>6. CASE scope # None /\ n \in pending /\ n \notin Leaves(Edges)
    <2>1. CASE Detected(disk) = {}
        BY <2>1, <1>6 DEF Lane
    <2>2. CASE Detected(disk) # {}
        <3>1. (pending \cap Refs(disk)) \ Seen(disk, scope) = {}
            BY <1>1, <1>6, <2>2 DEF Losses
        <3> QED
            BY <1>4, <1>6, <2>2, <3>1
    <2> QED
        BY <2>1, <2>2
<1>7. CASE scope # None /\ "caller" \in scope.defs /\ n \in Leaves(Edges)
    <2>1. n \in occ /\ occ = Occurrences(disk)
        BY <1>7
    <2>2. CASE Detected(disk) = {}
        <3>1. n \notin resolved
            BY <1>1, <2>1, <2>2 DEF Losses
        <3> QED
            BY <2>1, <2>2, <3>1 DEF Lane, RecordDropped
    <2>3. CASE Detected(disk) # {}
        <3>1. n \in pending' \/ n \in Seen(disk, scope)
            BY <2>1, <2>3 DEF Lane, RecordDropped
        <3> QED
            BY <1>4, <2>3, <3>1
    <2> QED
        BY <2>2, <2>3
<1>8. CASE scope # None /\ "caller" \notin scope.defs /\ n \in Leaves(Edges)
    <2>1. committed' = committed /\ live \subseteq live'
        BY <1>8 DEF Lane
    <2>2. Leaves(Edges) \subseteq Leaves(Edges)'
        BY <2>1 DEF Leaves, Edges
    <2> QED
        BY <1>8, <2>2
<1> QED
    BY <1>2, <1>5, <1>6, <1>7, <1>8

\* The definitions that a fold has the lane look at.
ScopeOf(text) == IF text = index \/ Preserved(text) = {} THEN None
                 ELSE [kind |-> "scope", defs |-> Symbols(text) \ Preserved(text)]

OccurrencesOf(text) == IF text = index THEN {} ELSE Occurrences(text)

LEMMA ScopeIs ==
    ASSUME NEW text \in Texts
    PROVE  /\ ScopeOf(text) = None => OccurrencesOf(text) = {}
           /\ ScopeOf(text) # None =>
                  /\ text # index /\ ScopeOf(text).defs \subseteq Defs
                  /\ "caller" \in ScopeOf(text).defs <=> "caller" \notin Preserved(text)
                  /\ "caller" \in ScopeOf(text).defs =>
                         Occurrences(text) = Leaves(Edges) \cap Refs(text)
<1> DEFINE S == [kind |-> "scope", defs |-> Symbols(text) \ Preserved(text)]
<1>1. S # None /\ S.defs = Symbols(text) \ Preserved(text)
    BY DEF None
<1>2. "caller" \in Symbols(text) /\ Symbols(text) \subseteq Defs
    BY DEF Symbols, Defs
<1>3. ScopeOf(text) = None => OccurrencesOf(text) = {}
    BY <1>1 DEF ScopeOf, OccurrencesOf, Occurrences
<1>4. ScopeOf(text) # None => text # index /\ Preserved(text) # {} /\ ScopeOf(text) = S
    BY DEF ScopeOf
<1> QED
    BY <1>1, <1>2, <1>3, <1>4 DEF Occurrences

LEMMA StepFold ==
    ASSUME Inv, NEW p \in Threads, Fold(p)
    PROVE  Inv'
<1> DEFINE c == IF disk = index THEN committed ELSE CommittedAfter(disk)
           l == IF disk = index THEN live ELSE LiveAfter(disk)
           scope == ScopeOf(disk)
           occ == OccurrencesOf(disk)
<1>1. /\ thread[p].at = "fold"
      /\ IF disk = index THEN UNCHANGED <<index, committed, ghosts>> ELSE Indexed(disk)
      /\ UNCHANGED <<disk, buffer, stash, event, editor, phaseB, saves, commits>>
    BY DEF Fold
<1>2. \/ /\ live' = l
         /\ gaps' = IF disk = index THEN gaps
                    ELSE gaps \cup {"missed", "stash"} \cup Stranded(disk)
         /\ Leave(p)
         /\ UNCHANGED <<rows, latest>>
      \/ /\ Lane(disk, scope, occ, c, l)
         /\ gaps' = gaps \cup Losses(disk, scope)
         /\ Release(p, scope, occ)
    BY DEF Fold, ScopeOf, OccurrencesOf
<1>3. CASE /\ live' = l
           /\ gaps' = IF disk = index THEN gaps
                      ELSE gaps \cup {"missed", "stash"} \cup Stranded(disk)
           /\ Leave(p)
           /\ UNCHANGED <<rows, latest>>
    <2>1. disk = index => UNCHANGED <<index, committed, live, ghosts, gaps>>
        BY <1>1, <1>3
    <2>2. disk # index => /\ Indexed(disk) /\ live' = LiveAfter(disk)
                          /\ gaps' = gaps \cup {"missed", "stash"} \cup Stranded(disk)
        BY <1>1, <1>3
    <2> QED
        BY <1>1, <1>3, <2>1, <2>2, FoldKnown
<1>4. CASE /\ Lane(disk, scope, occ, c, l)
           /\ gaps' = gaps \cup Losses(disk, scope)
           /\ Release(p, scope, occ)
    <2>1. disk \in Texts /\ index \in Texts /\ disk' = disk
        BY <1>1 DEF Inv, Typed, TextsTyped
    <2>2. c \subseteq committed /\ l \subseteq live /\ occ \subseteq Refs(disk)
        BY <2>1, AfterSave DEF OccurrencesOf
    <2>3. index' = disk /\ committed' = c /\ base' = base \cap Refs(disk) /\ touched' \in BOOLEAN
        BY <1>1 DEF Indexed, ghosts, Inv, Typed, RestTyped, Truths, BaseIndexed
    <2>4. /\ scope = None => occ = {}
          /\ scope # None => /\ disk # index /\ scope.defs \subseteq Defs
                             /\ "caller" \in scope.defs <=> "caller" \notin Preserved(disk)
                             /\ "caller" \in scope.defs =>
                                    Occurrences(disk) = Leaves(Edges) \cap Refs(disk)
        BY <2>1, ScopeIs
    <2>5. scope # None /\ "caller" \notin scope.defs => c = committed /\ l = live
        BY <2>1, <2>4, AfterSave
    <2>6. scope # None => occ = Occurrences(disk)
        BY <2>4 DEF OccurrencesOf
    <2>7. live' = l \cup PutLive(Seen(disk, scope) \cap Lexical, c)
        BY <1>4 DEF Lane
    <2>8. PutLive(Seen(disk, scope) \cap Lexical, c) \subseteq Truth(disk) \cap {"helper"}
        BY <2>1, LaneTrue
    <2>9. Losses(disk, scope) \subseteq Gaps
        BY DEF Losses, Gaps, Stranded
    <2> HIDE DEF scope, occ
    <2>10. BaseIndexed'
        BY <2>3 DEF BaseIndexed
    <2>11. CommittedWhole'
        <3>1. CASE disk = index
            BY <1>1, <1>4, <3>1 DEF Inv, Truths, CommittedWhole, Clear, ghosts
        <3>2. CASE disk # index
            BY <1>1, <1>4, <3>2, IndexedWhole DEF Inv, Truths
        <3> QED
            BY <3>1, <3>2
    <2>12. LiveTrue'
        <3> SUFFICES ASSUME Clear({"stash", "reworded", "ahead", "unlinked"})'
                     PROVE  live' \subseteq Truth(disk)
            BY <2>3 DEF LiveTrue
        <3>1. live \subseteq Truth(index) /\ "unlinked" \notin Losses(disk, scope)
            BY <1>4 DEF Clear, Inv, Truths, LiveTrue
        <3>2. ~("caller" \in Preserved(disk) /\ "helper" \in Refs(disk) /\ "helper" \in Edited(disk))
            BY <3>1 DEF Losses
        <3>3. l \subseteq Truth(disk)
            BY <2>1, <3>1, <3>2, LiveKept
        <3> QED
            BY <2>7, <2>8, <3>3
    <2>13. Accounted'
        <3>1. \/ scope = None /\ occ = {}
              \/ /\ scope # None /\ "caller" \in scope.defs
                 /\ occ = Leaves(Edges) \cap Refs(disk)
                 /\ occ = Occurrences(disk)
              \/ scope # None /\ "caller" \notin scope.defs /\ c = committed /\ l = live
            BY <2>4, <2>5, <2>6
        <3> HIDE DEF c, l
        <3> QED
            BY <1>4, <2>2, <2>3, <3>1, LaneAccounts DEF Inv
    <2>14. TextsTyped'
        BY <1>1, <2>3 DEF Inv, Typed, TextsTyped, phaseB
    <2>15. GraphTyped'
        <3> HIDE DEF c, l
        <3>1. Seen(disk, scope) \subseteq Names /\ occ \subseteq Names /\ "helper" \in Targets
            BY <2>1, <2>2, RefsTyped DEF Seen, Detected, Targets
        <3>2. committed' \subseteq Targets /\ live' \subseteq Targets
            BY <2>2, <2>3, <2>7, <2>8, <3>1 DEF Inv, Typed, GraphTyped
        <3>3. committed' \cap live' = {}
            BY <2>2, <2>3, <2>7 DEF Inv, Typed, GraphTyped, PutLive
        <3>4. pending' \subseteq Names /\ resolved' \subseteq Names /\ pending' \cap resolved' = {}
            BY <1>4, <3>1 DEF Inv, Typed, GraphTyped, Lane, RecordDropped
        <3> QED
            BY <3>2, <3>3, <3>4 DEF GraphTyped
    <2>16. DEFINE s == IF scope = None THEN NoStash
                       ELSE [kind |-> "stash", occ |-> occ, defs |-> scope.defs]
                  t == [at |-> "stash", fresh |-> thread[p].fresh, stash |-> s]
    <2>17. s \in Stashes /\ (s # NoStash => s.occ \subseteq Refs(disk))
        BY <2>1, <2>2, <2>4, RefsTyped DEF Stashes
    <2>18. t \in ThreadStates /\ t.at = "stash" /\ t.stash = s
        BY <1>1, <2>17, ThreadIs DEF ThreadStates, Inv, Typed, ProcessesTyped
    <2>19. thread' = [thread EXCEPT ![p] = t] /\ latest' = p /\ holder' = "none"
        BY <1>4 DEF Release
    <2> HIDE DEF s, t
    <2>20. ProcessesTyped'
        BY <1>1, <2>18, <2>19 DEF Inv, Typed, ProcessesTyped, editor
    <2>21. StashCurrent'
        <3>1. thread'[p] = t
            BY <2>19 DEF Inv, Typed, ProcessesTyped
        <3>2. \A q \in Threads : Replacing(q)' => q = p
            BY <2>19 DEF Replacing
        <3>3. Replacing(p)' /\ Current(thread[p].stash)'
            BY <2>3, <2>17, <2>18, <2>19, <3>1 DEF Replacing, Current
        <3> QED
            BY <3>2, <3>3 DEF StashCurrent
    <2>22. RestTyped'
        BY <1>1, <1>4, <2>3, <2>9 DEF Inv, Typed, RestTyped, phaseB
    <2> QED
        BY <2>10, <2>11, <2>12, <2>13, <2>14, <2>15, <2>20, <2>21, <2>22 DEF Inv, Typed, Truths
<1> QED
    BY <1>2, <1>3, <1>4

LEMMA StepStash ==
    ASSUME Inv, NEW p \in Threads, Stash(p)
    PROVE  Inv'
<1> USE DEF Stash, texts, graph, editor, phaseB
<1> DEFINE t == [at |-> After(p), fresh |-> thread[p].fresh]
<1>1. ProcessesTyped /\ thread' = [thread EXCEPT ![p] = t] /\ t.at # "stash" /\ thread[p].at = "stash"
    BY DEF Inv, Typed, After
<1>2. t \in ThreadStates /\ thread[p].stash \in Stashes
    BY <1>1, ThreadIs DEF ThreadStates, ProcessesTyped, After
<1> HIDE DEF t
<1>3. Truths'
    BY TruthsFrame DEF Inv
<1>4. ProcessesTyped'
    BY <1>1, <1>2 DEF ProcessesTyped
<1>5. StashCurrent'
    <2> SUFFICES ASSUME "stash" \notin gaps'
                 PROVE  /\ Current(stash)'
                        /\ \A q \in Threads : ~Replacing(q)'
        BY DEF StashCurrent
    <2>1. latest = p /\ "stash" \notin gaps
        OBVIOUS
    <2>2. Current(thread[p].stash)
        BY <1>1, <2>1 DEF Inv, StashCurrent, Replacing
    <2>3. \A q \in Threads : ~Replacing(q)'
        BY <1>1, <2>1 DEF Replacing, ProcessesTyped
    <2> QED
        BY <2>2, <2>3 DEF Current
<1>6. TextsTyped' /\ GraphTyped' /\ RestTyped'
    BY DEF Inv, Typed, TextsTyped, GraphTyped, RestTyped, rows, ghosts, Gaps
<1> QED
    BY <1>3, <1>4, <1>5, <1>6 DEF Inv, Typed

LEMMA StepExpire ==
    ASSUME Inv, Expire
    PROVE  Inv'
<1> USE DEF Expire, texts, daemon, editor, phaseB
<1>1. Truths'
    BY TruthsFrame DEF Inv
<1>2. StashCurrent'
    BY StashFrame DEF Inv, Replacing
<1>3. Typed'
    BY DEF Inv, Typed, TextsTyped, GraphTyped, ProcessesTyped, RestTyped, Stashes, graph, rows, ghosts
<1> QED
    BY <1>1, <1>2, <1>3 DEF Inv

-----------------------------------------------------------------------------
(* The editor's request and its report. *)

\* What the daemon asks for are names.
LEMMA AskedTyped ==
    ASSUME disk \in Texts, stash \in Stashes
    PROVE  /\ Asked \subseteq Names
           /\ Asked \subseteq Refs(disk) \cup (IF stash = NoStash THEN {} ELSE stash.occ)
<1>1. Detected(disk) \subseteq Refs(disk) /\ \A s : Seen(disk, s) \subseteq Refs(disk)
    BY DEF Seen, Detected
<1>2. stash # NoStash => stash.occ \subseteq Names
    BY DEF Stashes
<1> QED
    BY <1>1, <1>2, RefsTyped DEF Asked

LEMMA StepServe ==
    ASSUME Inv, Serve
    PROVE  Inv'
<1> USE DEF Serve, texts, phaseB
<1>1. ProcessesTyped /\ thread' = [thread EXCEPT !["request"] = Idle] /\ "request" \in Threads
      /\ Idle \in ThreadStates /\ Idle.at # "stash" /\ thread["request"].at # "stash"
    BY DEF Inv, Typed, Threads, ThreadStates, Idle
<1>2. Truths'
    BY TruthsFrame DEF Inv
<1>3. /\ thread' \in [Threads -> ThreadStates]
      /\ \A q \in Threads : Replacing(q) <=> Replacing(q)'
      /\ \A q \in Threads : Replacing(q) => thread'[q].stash = thread[q].stash
    BY <1>1, ThreadGoesOn
<1>4. StashCurrent'
    BY <1>3, StashFrame DEF Inv
<1>5. client' \in Clients
    <2>1. [at |-> "asking", names |-> Asked] \in Clients
        BY AskedTyped DEF Inv, Typed, TextsTyped, ProcessesTyped, Clients
    <2> QED
        BY <1>1, <2>1 DEF ProcessesTyped
<1>6. Typed'
    BY <1>3, <1>5 DEF Inv, Typed, TextsTyped, GraphTyped, ProcessesTyped, RestTyped, graph, rows, ghosts
<1> QED
    BY <1>2, <1>4, <1>6 DEF Inv

LEMMA StepPublish ==
    ASSUME Inv, Publish
    PROVE  Inv'
<1>1. Truths'
    BY TruthsFrame DEF Inv, Publish, texts
<1>2. StashCurrent'
    BY StashFrame DEF Inv, Replacing, Publish, texts, daemon
<1>3. report' \subseteq Answers
    <2>1. PICK answered \in SUBSET (client.names \cap Refs(buffer)), outside \in BOOLEAN :
              report' = {[name |-> n, target |-> IF outside THEN "nowhere"
                                                 ELSE Answer(buffer, n)] : n \in answered}
        BY DEF Publish
    <2>2. buffer \in Texts
        BY DEF Inv, Typed, TextsTyped
    <2>3. ASSUME NEW n \in answered
          PROVE  [name |-> n, target |-> IF outside THEN "nowhere" ELSE Answer(buffer, n)] \in Answers
        <3>1. n \in Refs(buffer) /\ n \in Names
            BY <2>2, RefsTyped
        <3>2. Answer(buffer, n) \in Targets /\ Leaf(Answer(buffer, n)) = n
            BY <2>2, <3>1, AnswerIs, TruthTyped
        <3> QED
            BY <3>1, <3>2 DEF Answers
    <2> QED
        BY <2>1, <2>3
<1>4. client' \in Clients
    BY DEF Publish, Clients
<1>5. Typed'
    BY <1>3, <1>4 DEF Publish, Inv, Typed, TextsTyped, GraphTyped, ProcessesTyped, RestTyped,
       texts, graph, rows, daemon, phaseB, ghosts
<1> QED
    BY <1>1, <1>2, <1>5 DEF Inv

LEMMA StepReport ==
    ASSUME Inv, Report
    PROVE  Inv'
<1> DEFINE placed == {a \in Retained : a.target # "nowhere"}
           names == {a.name : a \in placed}
           lost == {a.name : a \in Retained} \ names
           targets == {a.target : a \in placed}
<1>1. /\ report' = {}
      /\ live' = live \cup PutLive(targets, committed)
      /\ resolved' = (resolved \ lost) \cup names
      /\ pending' = (pending \ names) \cup lost
      /\ gaps' = gaps \cup {g \in {"nowhere"} : lost # {}}
                  \cup {g \in {"blank"} : lost \ Refs(index) # {}}
                  \cup {g \in {"reworded"} : \E a \in placed :
                           a.name \in Refs(index) /\ a.target \notin Truth(index)}
                  \cup {g \in {"ahead"} : disk # index /\ \E a \in placed :
                           a.name \notin Refs(index)}
                  \cup {g \in {"stash"} : placed # {} /\ \E p \in Threads :
                                            thread[p].at = "stash"}
      /\ UNCHANGED <<texts, committed, stash, daemon, client, phaseB, ghosts, saves, commits>>
    BY DEF Report
<1>2. /\ disk \in Texts /\ index \in Texts /\ stash \in Stashes
      /\ \A a \in placed : a \in Answers /\ a.name \in Asked /\ a.target # "nowhere"
      /\ \A a \in Retained : a \in Answers
    BY DEF Inv, Typed, TextsTyped, ProcessesTyped, Retained
<1>3. \A a \in placed : a.name \in Names /\ a.target \in Targets /\ Leaf(a.target) = a.name
    BY <1>2 DEF Answers
<1>4. /\ names \subseteq Names /\ lost \subseteq Names /\ targets \subseteq Targets
      /\ \A n \in names : \E t \in targets : Leaf(t) = n
      /\ names \cap lost = {}
    BY <1>2, <1>3 DEF Answers
<1>5. /\ "reworded" \notin gaps' =>
            \A a \in placed : a.name \in Refs(index) => a.target \in Truth(index)
      /\ "ahead" \notin gaps' => disk = index \/ \A a \in placed : a.name \in Refs(index)
      /\ "stash" \notin gaps' => placed = {} \/ \A p \in Threads : thread[p].at # "stash"
    BY <1>1
<1>6. gaps \subseteq gaps' /\ gaps' \subseteq Gaps
    BY <1>1 DEF Inv, Typed, RestTyped, Gaps
<1>7. index' = index /\ committed' = committed /\ base' = base /\ touched' = touched
    BY <1>1 DEF texts, ghosts
<1>8. BaseIndexed' /\ CommittedWhole'
    BY <1>6, <1>7 DEF Inv, Truths, BaseIndexed, CommittedWhole, Clear
<1>9. LiveTrue'
    <2> SUFFICES ASSUME Clear({"stash", "reworded", "ahead", "unlinked"})', NEW a \in placed
                 PROVE  a.target \in Truth(index)
        <3>1. Clear({"stash", "reworded", "ahead", "unlinked"})' =>
                  Clear({"stash", "reworded", "ahead", "unlinked"})
            BY <1>6 DEF Clear
        <3>2. live' \subseteq live \cup targets
            BY <1>1 DEF PutLive
        <3> HIDE DEF placed
        <3> QED
            BY <1>7, <3>1, <3>2 DEF LiveTrue, Inv, Truths
    <2>1. /\ "stash" \notin gaps' /\ "reworded" \notin gaps' /\ "ahead" \notin gaps'
          /\ "stash" \notin gaps
        BY <1>6 DEF Clear
    <2>2. a.name \in Refs(index)
        <3>1. CASE disk = index
            <4>1. Current(stash)
                BY <1>5, <2>1 DEF Inv, StashCurrent, Replacing
            <4>2. a.name \in Refs(disk) \cup (IF stash = NoStash THEN {} ELSE stash.occ)
                BY <1>2, AskedTyped
            <4> QED
                BY <3>1, <4>1, <4>2 DEF Current
        <3>2. CASE disk # index
            BY <1>5, <2>1, <3>2
        <3> QED
            BY <3>1, <3>2
    <2> QED
        BY <1>5, <2>1, <2>2
<1> HIDE DEF placed, names, lost, targets
<1>10. Accounted'
    <2> SUFFICES ASSUME Clear({"missed", "commit", "wholesale", "cleared", "shadowed"})', NEW n \in base,
                        n \notin pending'
                 PROVE  n \in Leaves(Edges)'
        BY <1>7 DEF Accounted
    <2>1. n \in pending \cup Leaves(Edges)
        BY <1>6 DEF Inv, Truths, Accounted, Clear
    <2>2. targets \subseteq Edges'
        BY <1>1, <1>7 DEF Edges, PutLive
    <2>3. CASE n \in names
        BY <1>4, <2>2, <2>3 DEF Leaves
    <2>4. CASE n \notin names
        BY <1>1, <1>7, <2>1, <2>4 DEF Leaves, Edges
    <2> QED
        BY <2>3, <2>4
<1>11. StashCurrent'
    BY <1>1, <1>6, <1>7, StashFrame DEF Inv, Replacing, daemon
<1>12. GraphTyped'
    BY <1>1, <1>4, <1>7 DEF Inv, Typed, GraphTyped, PutLive
<1>13. TextsTyped' /\ ProcessesTyped' /\ RestTyped'
    BY <1>1, <1>6 DEF Inv, Typed, TextsTyped, ProcessesTyped, RestTyped, texts, daemon, phaseB, ghosts
<1> QED
    BY <1>8, <1>9, <1>10, <1>11, <1>12, <1>13 DEF Inv, Typed, Truths

-----------------------------------------------------------------------------
(* Saves, in the editor and by others. *)

\* A changed text is a text.
LEMMA ChangesTyped ==
    ASSUME NEW text \in Texts
    PROVE  Changes(text) \subseteq Texts
BY DEF Changes, Texts

LEMMA StepEditorSave ==
    ASSUME Inv, EditorSave
    PROVE  Inv'
<1> USE DEF EditorSave
<1>1. disk' \in Texts /\ buffer' \in Texts
    BY ChangesTyped DEF Inv, Typed, TextsTyped
<1>2. Truths'
    BY TruthsFrame DEF Inv
<1>3. /\ thread' \in [Threads -> ThreadStates]
      /\ \A q \in Threads : thread'[q].at = thread[q].at
      /\ \A q \in Threads : thread[q].at = "stash" => thread'[q].stash = thread[q].stash
    <2>1. CASE thread' = thread
        BY <2>1 DEF Inv, Typed, ProcessesTyped
    <2>2. CASE thread["request"].at # "idle" /\ thread' = [thread EXCEPT !["request"].fresh = FALSE]
        <3>1. "request" \in Threads /\ thread["request"] \in ThreadStates
              /\ thread \in [Threads -> ThreadStates]
            BY DEF Threads, Inv, Typed, ProcessesTyped
        <3> DEFINE t == [thread["request"] EXCEPT !.fresh = FALSE]
        <3>2. /\ t \in ThreadStates /\ t.at = thread["request"].at
              /\ t.at = "stash" => t.stash = thread["request"].stash
            BY <2>2, <3>1 DEF ThreadStates, Idle
        <3>3. thread' = [thread EXCEPT !["request"] = t]
            BY <2>2, <3>1
        <3> HIDE DEF t
        <3> QED
            BY <3>1, <3>2, <3>3
    <2> QED
        BY <2>1, <2>2
<1>4. StashCurrent'
    BY <1>3, StashFrame DEF Inv, Replacing
<1>5. client' \in Clients /\ saves' \in 0..MaxSaves
    BY LiveOverlayAssumption DEF Clients, Inv, Typed, RestTyped
<1>6. Typed'
    BY <1>1, <1>3, <1>5 DEF Inv, Typed, TextsTyped, GraphTyped, ProcessesTyped, RestTyped, graph, rows, ghosts
<1> QED
    BY <1>2, <1>4, <1>6 DEF Inv

LEMMA StepOutsideWrite ==
    ASSUME Inv, OutsideWrite
    PROVE  Inv'
<1> USE DEF OutsideWrite, editor
<1>1. disk' \in Texts
    BY ChangesTyped DEF Inv, Typed, TextsTyped
<1>2. Truths'
    BY TruthsFrame DEF Inv
<1>3. StashCurrent'
    BY StashFrame DEF Inv, Replacing
<1>4. saves' \in 0..MaxSaves
    BY LiveOverlayAssumption DEF Inv, Typed, RestTyped
<1>5. Typed'
    BY <1>1, <1>4 DEF Inv, Typed, TextsTyped, GraphTyped, ProcessesTyped, RestTyped, graph, rows, ghosts
<1> QED
    BY <1>2, <1>3, <1>5 DEF Inv

-----------------------------------------------------------------------------
(* Commits and Phase B. *)

LEMMA StepCommit ==
    ASSUME Inv, Commit
    PROVE  Inv'
<1> USE DEF Commit, rows, daemon, editor
<1>1. commits' \in 0..MaxCommits
    BY LiveOverlayAssumption DEF Inv, Typed, RestTyped
<1>2. ProcessesTyped'
    BY DEF Inv, Typed, ProcessesTyped
<1>3. CASE disk = index
    <2>1. UNCHANGED <<index, committed, live, ghosts, gaps>>
        BY <1>3
    <2>2. Truths'
        BY <2>1, TruthsFrame DEF Inv, graph
    <2>3. StashCurrent'
        BY <2>1, StashFrame DEF Inv, Replacing
    <2>4. Typed'
        BY <1>1, <1>2, <2>1 DEF Inv, Typed, TextsTyped, GraphTyped, RestTyped, ghosts
    <2> QED
        BY <2>2, <2>3, <2>4 DEF Inv
<1>4. CASE disk # index
    <2>1. /\ Indexed(disk) /\ live' = LiveAfter(disk)
          /\ gaps' = gaps \cup {"commit", "stash"} \cup Stranded(disk)
          /\ disk \in Texts
        BY <1>4 DEF Inv, Typed, TextsTyped
    <2>2. BaseIndexed'
        BY <2>1 DEF Indexed, BaseIndexed
    <2>3. CommittedWhole'
        BY <2>1, IndexedWhole DEF Inv, Truths
    <2>4. LiveTrue' /\ Accounted' /\ StashCurrent'
        BY <2>1 DEF LiveTrue, Accounted, StashCurrent, Clear
    <2>5. GraphTyped'
        BY <2>1, AfterSave DEF Inv, Typed, GraphTyped, Indexed
    <2>6. Stranded(disk) \subseteq Gaps /\ {"commit", "stash"} \subseteq Gaps
        BY DEF Stranded, Gaps
    <2>7. TextsTyped' /\ RestTyped'
        BY <1>1, <2>1, <2>6 DEF Inv, Typed, TextsTyped, RestTyped, Indexed
    <2> QED
        BY <1>2, <2>2, <2>3, <2>4, <2>5, <2>7 DEF Inv, Typed, Truths
<1> QED
    BY <1>3, <1>4

LEMMA StepRunStart ==
    ASSUME Inv, RunStart
    PROVE  Inv'
<1> USE DEF RunStart, texts, daemon, editor
<1>1. Truths'
    BY TruthsFrame DEF Inv
<1>2. StashCurrent'
    BY StashFrame DEF Inv, Replacing
<1>3. run' \in Runs
    BY DEF Inv, Typed, TextsTyped, Runs
<1>4. Typed'
    BY <1>3 DEF Inv, Typed, TextsTyped, GraphTyped, ProcessesTyped, RestTyped, graph, rows, ghosts
<1> QED
    BY <1>1, <1>2, <1>4 DEF Inv

LEMMA StepRunEnd ==
    ASSUME Inv, RunEnd
    PROVE  Inv'
<1> USE DEF RunEnd, texts, daemon, editor
<1>1. run.text \in Texts /\ index \in Texts /\ index' = index
    BY DEF Inv, Typed, TextsTyped, Runs
<1>2. live' = {}
    BY DEF Swept
<1>3. gaps' \subseteq Gaps /\ ("stash" \notin gaps' => "stash" \notin gaps)
      /\ (run.text = index \/ "overtaken" \in gaps')
    BY DEF Gaps, Inv, Typed, RestTyped
<1>4. BaseIndexed' /\ CommittedWhole' /\ LiveTrue'
    BY <1>1, <1>2, <1>3 DEF BaseIndexed, CommittedWhole, LiveTrue, Clear
<1>5. Accounted'
    <2>1. base' \subseteq Leaves(committed')
        BY DEF Refs
    <2>2. Leaves(committed') \subseteq Leaves(Edges)'
        BY DEF Leaves, Edges
    <2> QED
        BY <2>1, <2>2 DEF Accounted
<1>6. StashCurrent'
    BY <1>1, <1>3 DEF Inv, StashCurrent, Current, Replacing
<1>7. GraphTyped'
    BY <1>1, <1>2, TruthTyped DEF Inv, Typed, GraphTyped, Reconciled
<1>8. TextsTyped' /\ ProcessesTyped' /\ RestTyped'
    BY <1>3 DEF Inv, Typed, TextsTyped, ProcessesTyped, RestTyped, Runs
<1> QED
    BY <1>4, <1>5, <1>6, <1>7, <1>8 DEF Inv, Typed, Truths

-----------------------------------------------------------------------------
(* The invariant, and what follows from it. *)

\* The invariant holds at the start.
LEMMA InitInv == Init => Inv
<1> SUFFICES ASSUME Init PROVE Inv
    OBVIOUS
<1> USE LiveOverlayAssumption
<1>1. /\ disk \in Texts /\ index = disk /\ buffer = disk
      /\ committed = Truth(disk) /\ base = Refs(disk) /\ live = {}
    BY DEF Init
<1>2. TextsTyped
    BY <1>1 DEF Init, TextsTyped, Runs
<1>3. GraphTyped
    BY <1>1, TruthTyped DEF Init, GraphTyped
<1>4. ProcessesTyped
    BY DEF Init, ProcessesTyped, ThreadStates, Stashes, Clients
<1>5. RestTyped
    <2>1. 0 \in 0..MaxSaves /\ 0 \in 0..MaxCommits
        OBVIOUS
    <2>2. changed = FALSE /\ event = FALSE /\ armed = FALSE /\ touched = FALSE
          /\ saves = 0 /\ commits = 0 /\ gaps = {}
        BY DEF Init
    <2> QED
        BY <2>1, <2>2 DEF RestTyped
<1>6. Truths
    BY <1>1 DEF Truths, BaseIndexed, CommittedWhole, LiveTrue, Accounted, Edges, Refs, Leaves
<1>7. StashCurrent
    BY DEF Init, StashCurrent, Current, Replacing, Idle
<1> QED
    BY <1>2, <1>3, <1>4, <1>5, <1>6, <1>7 DEF Inv, Typed

\* No step breaks it.
LEMMA StepInv == Inv /\ [Next]_vars => Inv'
<1> SUFFICES ASSUME Inv, [Next]_vars PROVE Inv'
    OBVIOUS
<1>1. ASSUME NEW p \in Threads, SaveStep(p) PROVE Inv'
    BY <1>1, StepCompare, StepFold, StepStash DEF SaveStep
<1>2. CASE UNCHANGED vars
    <2> USE <1>2 DEF vars, texts, daemon, editor, phaseB
    <2>1. Truths'
        BY TruthsFrame DEF Inv
    <2>2. StashCurrent'
        BY StashFrame DEF Inv, Replacing
    <2>3. Typed'
        BY DEF Inv, Typed, TextsTyped, GraphTyped, ProcessesTyped, RestTyped, graph, rows, ghosts
    <2> QED
        BY <2>1, <2>2, <2>3 DEF Inv
<1> QED
    BY <1>1, <1>2, StepWatcherEvent, StepRequestTargets, StepServe, StepPublish, StepReport,
       StepExpire, StepEditorSave, StepOutsideWrite, StepCommit, StepRunStart, StepRunEnd DEF Next

\* Every reachable state satisfies it.
LEMMA Invariance == Spec => []Inv
<1>1. Init => Inv
    BY InitInv
<1>2. Inv /\ [Next]_vars => Inv'
    BY StepInv
<1> QED
    BY <1>1, <1>2, PTL DEF Spec

\* Every variable has its type: an edge is the compiler's or live, never both
\* (put_edge_live), and a reference has one row of ref_resolution_state.
THEOREM TypeCorrect == Spec => []TypeOK
<1>1. Inv => TypeOK
    <2> SUFFICES ASSUME Inv PROVE TypeOK
        OBVIOUS
    <2>1. \A p \in Threads : thread[p].at \in {"idle", "compare", "fold", "stash", "serve"}
        BY ThreadIs DEF Inv, Typed, ProcessesTyped
    <2>2. client.at \in {"idle", "asked", "waiting", "asking"}
        BY DEF Inv, Typed, ProcessesTyped, Clients, Idle
    <2>3. base \subseteq Names
        BY RefsTyped DEF Inv, Typed, TextsTyped, Truths, BaseIndexed
    <2> QED
        BY <2>1, <2>2, <2>3 DEF TypeOK, Inv, Typed, TextsTyped, GraphTyped, ProcessesTyped, RestTyped
<1> QED
    BY <1>1, Invariance, PTL

\* As long as no save edits the caller, the compiler edges that reindex_replace
\* preserves are those of the indexed text, whatever becomes of the helper they go
\* through and of the references to it.
THEOREM PreservedEdgesAreTrue == Spec => []CommittedTrue
<1>1. Inv => CommittedTrue
    BY DEF Inv, Truths, CommittedWhole, CommittedTrue
<1> QED
    BY <1>1, Invariance, PTL

\* An answer of the editor never becomes a live edge of a reference that the indexed
\* text does not have, but through the gaps the property names.
THEOREM LiveEdgesAreTrue == Spec => []LiveTrue
<1>1. Inv => LiveTrue
    BY DEF Inv, Truths
<1> QED
    BY <1>1, Invariance, PTL

\* A reference that the last Phase B run resolved and that no save removed has an edge
\* or a pending row, but through the gaps the property names.
THEOREM NoReferenceIsLost == Spec => []Accounted
<1>1. Inv => Accounted
    BY DEF Inv, Truths
<1> QED
    BY <1>1, Invariance, PTL

=============================================================================
