--------------------------- MODULE InitRebuildProofs ---------------------------
(***************************************************************************)
(* The hash rows can be trusted, and a rebuild is complete, for every set  *)
(* of files and any number of kills, as long as no init is forced and the  *)
(* first init finds either a new database or one that an older binary      *)
(* completed.  The model-checked counterexamples of InitRebuildForce.cfg   *)
(* show that both conditions are needed; the types need neither.           *)
(***************************************************************************)
EXTENDS InitRebuild, TLAPS

\* No `--force', and no completed index of a repository without files.
Unforced == Forces \subseteq {FALSE} /\ Starts \subseteq {"fresh", "old"}

LEMMA CurrentEntry ==
    ASSUME NEW v \in 1..MaxVersion
    PROVE  Current(v) \in Entries /\ Current(v).ver = v /\ Current(v).fmt = "current"
  BY DEF Current, Entries

LEMMA NoNodesEntry == NoNodes \in Entries /\ NoNodes.ver = 0 /\ NoNodes.fmt = "none"
  BY DEF NoNodes, Entries

\* The zero version is the only one without nodes.
LEMMA EntryKinds ==
    ASSUME NEW e \in Entries
    PROVE  /\ e.ver = 0 => e = NoNodes
           /\ e.ver # 0 => e.ver \in 1..MaxVersion
  BY InitRebuildAssumption DEF Entries, NoNodes

LEMMA NoRowsType == NoRows \in [Files -> Versions] /\ \A f \in Files : NoRows[f] = 0
  BY InitRebuildAssumption DEF NoRows, Versions

LEMMA OffType == Off \in Processes /\ Off.pc = "off" /\ ~Off.staging /\ Off.staged = NoRows
<1> HIDE DEF NoRows
<1> QED
  BY NoRowsType DEF Off, Processes, Steps

\* The first init finds a database in one of the two starting states.
LEMMA InitInv == Unforced /\ Init => Inv
<1> SUFFICES ASSUME Unforced, Init PROVE Inv
  OBVIOUS
<1>1. PICK start \in Starts :
        LET old == start = "old"
        IN  /\ disk = [f \in Files |-> 1]
            /\ graph = [f \in Files |-> IF old THEN [ver |-> 1, fmt |-> "old"] ELSE NoNodes]
            /\ hash = [f \in Files |-> IF old THEN 1 ELSE 0]
            /\ map = hash
            /\ fts = hash
            /\ stamp = FirstStamp[start]
            /\ marker = (start # "fresh")
            /\ known = (start # "fresh")
  BY DEF Init
<1>2. start = "fresh" \/ start = "old"
  BY DEF Unforced
<1>3. stamp \in {"none", "old"}
  BY <1>1, <1>2 DEF FirstStamp
<1>4. disk \in [Files -> 1..MaxVersion]
  BY <1>1, InitRebuildAssumption
<1>5. hash \in [Files -> Versions] /\ map \in [Files -> Versions] /\ fts \in [Files -> Versions]
  BY <1>1, InitRebuildAssumption DEF Versions
<1>6. graph \in [Files -> Entries]
  BY <1>1, InitRebuildAssumption DEF Entries, NoNodes
<1>7. marker \in BOOLEAN /\ dirty \in BOOLEAN /\ known \in BOOLEAN
  BY <1>1 DEF Init
<1>8. ini = Off
  BY DEF Init
<1>9. TypeOK
  BY <1>3, <1>4, <1>5, <1>6, <1>7, <1>8, OffType DEF TypeOK, Formats
<1>10. ini.pc = "off"
  BY <1>8, OffType
<1> QED
  BY <1>9, <1>10, <1>3 DEF Inv, Settled, Emptied, Staged, Flushed

\* The whole store is untouched by steps that only move the init process
\* between "off" and a step that promises nothing.
LEMMA StutterInv == Inv /\ UNCHANGED vars => Inv'
  BY DEF vars, Inv, TypeOK, Settled, Emptied, Staged, Flushed, Agrees, InStaging, Unwritten,
         NoGraph

\* An edit touches no table.
LEMMA EditInv == ASSUME Inv, NEW f \in Files, Edit(f) PROVE Inv'
<1> USE DEF Edit, tables, metas
<1>1. TypeOK'
  BY InitRebuildAssumption DEF Inv, TypeOK
<1> QED
  BY <1>1 DEF Inv, Settled, Emptied, Staged, Flushed, Agrees, InStaging, Unwritten, NoGraph

\* A killed init promises nothing; the tables stay as they are.
LEMMA KillInv == ASSUME Inv, Kill PROVE Inv'
<1> USE DEF Kill, tables, metas
<1>1. TypeOK' /\ ini'.pc = "off" /\ ~ini'.staging /\ ini'.staged = NoRows
  BY OffType DEF Inv, TypeOK
<1> QED
  BY <1>1 DEF Inv, Settled, Emptied, Staged, Flushed, Agrees, NoGraph

LEMMA BackgroundInv == ASSUME Inv, BackgroundPhaseB PROVE Inv'
<1> USE DEF BackgroundPhaseB, tables
<1>1. TypeOK'
  BY DEF Inv, TypeOK
<1> QED
  BY <1>1 DEF Inv, Settled, Emptied, Staged, Flushed, Agrees, InStaging, Unwritten, NoGraph

\* The daemon writes only under a current stamp, and all tables at once.
LEMMA ReindexInv == ASSUME Inv, NEW f \in Files, Reindex(f) PROVE Inv'
<1> USE DEF Reindex
<1>1. disk[f] \in 1..MaxVersion /\ disk[f] \in Versions /\ disk[f] # 0
  BY InitRebuildAssumption DEF Inv, TypeOK, Versions
<1>2. Current(disk[f]) \in Entries /\ Current(disk[f]).ver # 0 /\ Current(disk[f]) # NoNodes
  BY <1>1, CurrentEntry, NoNodesEntry
<1>3. TypeOK'
  BY <1>1, <1>2 DEF Inv, TypeOK
<1>4. \A g \in Files : Agrees(g)'
  BY <1>1, <1>2 DEF Inv, TypeOK, Settled, Agrees
<1>5. ~NoGraph'
  BY <1>2 DEF Inv, TypeOK, NoGraph
<1> QED
  BY <1>3, <1>4, <1>5 DEF Inv, Settled, Emptied, Staged, Flushed

\* Under a current stamp an unforced init neither purges nor stages; otherwise
\* it purges whenever anything was indexed.
LEMMA InitStartInv ==
    ASSUME Inv, Unforced, NEW forced \in Forces, NEW sample \in Files, InitStart(forced, sample)
    PROVE  Inv'
<1> DEFINE skew == IndexedBefore /\ (stamp # "current" \/ ~IdsCurrent(sample))
<1>1. ~forced
  BY DEF Unforced
<1>2. ini' = [Off EXCEPT !.pc = IF skew THEN "purge" ELSE "walk", !.purges = skew]
  BY <1>1 DEF InitStart
<1>3. UNCHANGED <<disk, graph, hash, stamp, marker, dirty, known>>
  BY DEF InitStart, metas
<1>4. /\ ini' \in Processes
      /\ ini'.pc = IF skew THEN "purge" ELSE "walk"
      /\ ~ini'.staging
      /\ ini'.staged = NoRows
  <2>2. skew = TRUE \/ skew = FALSE
    BY DEF IndexedBefore, IdsCurrent, NoGraph
  <2> HIDE DEF skew
  <2>3. CASE skew = TRUE
    <3>1. ini' = [Off EXCEPT !.pc = "purge", !.purges = TRUE]
      BY <1>2, <2>3
    <3> QED
      BY <3>1, <2>3, OffType, NoRowsType DEF Off, Processes, Steps
  <2>4. CASE skew = FALSE
    <3>1. ini' = [Off EXCEPT !.pc = "walk", !.purges = FALSE]
      BY <1>2, <2>4
    <3> QED
      BY <3>1, <2>4, OffType, NoRowsType DEF Off, Processes, Steps
  <2> QED
    BY <2>2, <2>3, <2>4
<1>5. map' \in [Files -> Versions] /\ fts' \in [Files -> Versions]
  <2>1. \A g \in Files : graph[g].ver \in Versions
    BY EntryKinds, InitRebuildAssumption DEF Inv, TypeOK, Versions
  <2>2. \A rows \in [Files -> Versions] : Backfill(rows) \in [Files -> Versions]
    BY <2>1 DEF Backfill
  <2> QED
    BY <2>2 DEF InitStart, Inv, TypeOK
<1>6. TypeOK'
  BY <1>3, <1>4, <1>5 DEF Inv, TypeOK
<1>7. stamp = "current" => ~skew
  BY CurrentEntry, NoNodesEntry, EntryKinds DEF Inv, Settled, Agrees, IdsCurrent, TypeOK, Versions, Current
<1>8. stamp # "current" /\ ~skew => NoGraph /\ hash = NoRows
  BY DEF IndexedBefore, NoRows, Inv, TypeOK
<1> HIDE DEF skew
<1>9. Settled'
  BY <1>3, <1>4, <1>7 DEF Inv, Settled, Agrees, NoGraph
<1>10. Emptied' /\ Staged' /\ Flushed'
  BY <1>3, <1>4, <1>8 DEF Emptied, Staged, Flushed, NoGraph
<1> QED
  BY <1>6, <1>9, <1>10 DEF Inv

\* The three steps of the purge only run before the stamp is current.
LEMMA PurgeInv == ASSUME Inv, PurgeGraph \/ ClearHashes \/ DeleteMarker PROVE Inv'
<1>1. stamp # "current" /\ stamp' = stamp
  BY DEF Inv, Settled, PurgeGraph, ClearHashes, DeleteMarker, metas
<1>2. TypeOK'
  BY NoRowsType, NoNodesEntry DEF Inv, TypeOK, PurgeGraph, ClearHashes, DeleteMarker,
     tables, metas, Processes, Steps
<1>3. Emptied'
  BY <1>1, NoRowsType, NoNodesEntry DEF Inv, TypeOK, Emptied, PurgeGraph, ClearHashes, DeleteMarker,
     tables, metas, Processes, NoGraph
<1>4. ini'.pc \in {"clear", "unmark", "walk"}
  BY DEF Inv, TypeOK, PurgeGraph, ClearHashes, DeleteMarker, Processes
<1> QED
  BY <1>1, <1>2, <1>3, <1>4 DEF Inv, Settled, Staged, Flushed

\* The walk: on an emptied database every file is parsed and staged.
LEMMA BeginIndexInv == ASSUME Inv, BeginIndex PROVE Inv'
<1> DEFINE read == [f \in Files |-> IF hash[f] = disk[f] THEN 0 ELSE disk[f]]
<1>1. UNCHANGED <<disk, graph, hash, map, fts, stamp, marker, dirty, known>>
  BY DEF BeginIndex, tables, metas
<1>2. read \in [Files -> Versions]
  BY InitRebuildAssumption DEF Inv, TypeOK, Versions
<1>3. NoGraph \in BOOLEAN
  BY DEF NoGraph
<1>4. /\ ini' = [ini EXCEPT !.pc = "index", !.parsed = read, !.staging = NoGraph]
      /\ ini.pc = "walk"
      /\ ini \in Processes
  BY DEF BeginIndex, Inv, TypeOK
<1>5. /\ ini' \in Processes
      /\ ini'.pc = "index" /\ ini'.parsed = read
      /\ ini'.staging = NoGraph
      /\ ini'.staged = ini.staged
  <2> HIDE DEF read, NoGraph
  <2> QED
    BY <1>2, <1>3, <1>4 DEF Processes, Steps
<1>6. TypeOK'
  BY <1>1, <1>5 DEF Inv, TypeOK
<1>7. Settled'
  BY <1>1, <1>4, <1>5 DEF Inv, Settled, Agrees, NoGraph
<1>8. ASSUME stamp # "current" PROVE Staged'
  <2>1. NoGraph /\ hash = NoRows /\ ini.staged = NoRows
    BY <1>4, <1>8 DEF Inv, Emptied
  <2>2. \A f \in Files : read[f] # 0 /\ hash[f] = 0
    BY <2>1, NoRowsType, InitRebuildAssumption DEF Inv, TypeOK
  <2> QED
    BY <1>1, <1>5, <2>1, <2>2, <1>8, NoRowsType DEF Staged, InStaging
<1> QED
  BY <1>1, <1>5, <1>6, <1>7, <1>8 DEF Inv, Emptied, Flushed, Staged

LEMMA MarkDroppedInv == ASSUME Inv, MarkDropped PROVE Inv'
<1>1. UNCHANGED <<disk, graph, hash, map, fts, stamp, marker, known>> /\ dirty' \in BOOLEAN
  BY DEF MarkDropped, tables, Inv, TypeOK
<1>2. /\ ini' \in Processes
      /\ ini'.pc = ini.pc /\ ini'.parsed = ini.parsed
      /\ ini'.staging = ini.staging /\ ini'.staged = ini.staged
  BY DEF MarkDropped, Inv, TypeOK, Processes
<1>3. TypeOK'
  BY <1>1, <1>2 DEF Inv, TypeOK
<1> QED
  BY <1>1, <1>2, <1>3 DEF Inv, Settled, Emptied, Staged, Flushed, Agrees, InStaging, Unwritten,
     NoGraph

\* A batch moves files from parsed to staged (rebuild) or writes nodes and
\* hash together (incremental).
LEMMA WriteBatchInv == ASSUME Inv, NEW batch \in SUBSET Files, WriteBatch(batch) PROVE Inv'
<1>1. ini \in Processes /\ ini.pc = "index" /\ ini.parsed \in [Files -> Versions]
      /\ ini.staged \in [Files -> Versions]
  BY DEF WriteBatch, Inv, TypeOK, Processes
<1>2. \A f \in batch : ini.parsed[f] \in 1..MaxVersion /\ ini.parsed[f] # 0
  BY <1>1, InitRebuildAssumption DEF WriteBatch, Unwritten, Versions
<1>3. UNCHANGED <<disk, stamp, marker, dirty, known>>
  BY DEF WriteBatch, metas
<1>4. \A rows \in [Files -> Versions] :
        /\ Written(rows, batch) \in [Files -> Versions]
        /\ \A f \in Files : Written(rows, batch)[f] =
                             IF f \in batch THEN ini.parsed[f] ELSE rows[f]
  BY <1>1 DEF Written
<1> DEFINE rest == [f \in Files |-> IF f \in batch THEN 0 ELSE ini.parsed[f]]
           held == IF ini.staging THEN Written(ini.staged, batch) ELSE ini.staged
<1>5. rest \in [Files -> Versions] /\ held \in [Files -> Versions]
  BY <1>1, <1>4, InitRebuildAssumption DEF Versions
<1>6. /\ ini' \in Processes
      /\ ini'.pc = "index" /\ ini'.parsed = rest
      /\ ini'.staging = ini.staging /\ ini'.staged = held
  <2>1. ini' = [ini EXCEPT !.parsed = rest, !.staged = held, !.owed = ini.owed \cup batch]
    BY <1>1 DEF WriteBatch, Processes
  <2> HIDE DEF rest, held
  <2>2. ini.owed \cup batch \in SUBSET Files
    BY <1>1 DEF Processes
  <2> QED
    BY <1>1, <1>5, <2>1, <2>2 DEF Processes
<1>7. hash' = Written(hash, batch) /\ map' = Written(map, batch)
  BY DEF WriteBatch
<1>8. graph' \in [Files -> Entries]
  BY <1>2, CurrentEntry DEF WriteBatch, Inv, TypeOK
<1>9. fts' \in [Files -> Versions]
  BY InitRebuildAssumption DEF WriteBatch, Inv, TypeOK, Versions
<1>10. TypeOK'
  BY <1>3, <1>4, <1>6, <1>7, <1>8, <1>9 DEF Inv, TypeOK
<1>11. ASSUME stamp = "current" PROVE Settled'
  <2>1. ~ini.staging /\ ini.staged = NoRows /\ \A f \in Files : Agrees(f)
    BY <1>11 DEF Inv, Settled
  <2>2. graph' = [f \in Files |-> IF f \in batch THEN Current(ini.parsed[f]) ELSE graph[f]]
    BY <2>1 DEF WriteBatch
  <2>3. \A f \in Files : Agrees(f)'
    BY <1>2, <1>4, <1>7, <2>1, <2>2 DEF Agrees, Inv, TypeOK
  <2>4. ~NoGraph'
    <3>1. PICK g \in Files : graph[g].ver # 0
      BY <1>11 DEF Inv, Settled, NoGraph
    <3>2. graph'[g].ver # 0
      BY <1>2, <2>2, <3>1, CurrentEntry
    <3> QED
      BY <3>2 DEF NoGraph
  <2> QED
    BY <1>3, <1>6, <2>1, <2>3, <2>4 DEF Settled
<1>12. ASSUME stamp # "current" PROVE Staged'
  <2>1. ini.staging /\ \A f \in Files : InStaging(f)
    BY <1>1, <1>12 DEF Inv, Staged
  <2>2. \A f \in Files : InStaging(f)'
    BY <1>1, <1>2, <1>4, <1>6, <1>7, <2>1 DEF InStaging, Inv, TypeOK
  <2> QED
    BY <1>3, <1>6, <2>1, <2>2, <1>12 DEF Staged
<1> QED
  BY <1>3, <1>6, <1>10, <1>11, <1>12 DEF Inv, Settled, Emptied, Flushed, Staged

\* The writer is done, and nothing parsed is left over.
LEMMA EndIndexInv == ASSUME Inv, EndIndex PROVE Inv'
<1>1. UNCHANGED <<disk, graph, hash, map, fts, stamp, marker, dirty, known>>
  BY DEF EndIndex, tables, metas
<1>2. /\ ini' \in Processes
      /\ ini.pc = "index" /\ ini'.pc = "flush" /\ ini'.parsed = ini.parsed
      /\ ini'.staging = ini.staging /\ ini'.staged = ini.staged
  BY DEF EndIndex, Inv, TypeOK, Processes, Steps
<1>3. TypeOK'
  BY <1>1, <1>2 DEF Inv, TypeOK
<1>4. Staged'
  BY <1>1, <1>2 DEF Inv, Staged, InStaging, EndIndex, Unwritten
<1> QED
  BY <1>1, <1>2, <1>3, <1>4 DEF Inv, Settled, Emptied, Flushed, Agrees, NoGraph

\* The flush gives every hash row of a rebuild its nodes, all at once.
LEMMA FlushInv == ASSUME Inv, Flush PROVE Inv'
<1>1. UNCHANGED <<disk, hash, map, fts, stamp, marker, dirty, known>>
  BY DEF Flush, metas
<1>2. /\ ini' \in Processes
      /\ ini.pc = "flush" /\ ini'.pc = "search"
      /\ ~ini'.staging /\ ini'.staged = NoRows
      /\ ini.staged \in [Files -> Versions]
  <2> HIDE DEF NoRows
  <2> QED
    BY NoRowsType DEF Flush, Inv, TypeOK, Processes, Steps
<1>3. graph' = [f \in Files |-> IF ini.staged[f] # 0 THEN Current(ini.staged[f]) ELSE graph[f]]
  BY DEF Flush
<1>4. \A f \in Files : ini.staged[f] # 0 => ini.staged[f] \in 1..MaxVersion
  BY <1>2, InitRebuildAssumption DEF Versions
<1>5. TypeOK'
  BY <1>1, <1>2, <1>3, <1>4, CurrentEntry DEF Inv, TypeOK
<1>6. ASSUME stamp = "current" PROVE graph' = graph
  BY <1>3, <1>6, NoRowsType DEF Inv, Settled, TypeOK
<1>7. ASSUME stamp # "current" PROVE Flushed'
  <2>1. \A f \in Files : ini.parsed[f] = 0 /\ hash[f] # 0 /\ ini.staged[f] = hash[f]
    BY <1>2, <1>7 DEF Inv, Staged, InStaging, Unwritten
  <2> QED
    BY <1>1, <1>2, <1>3, <2>1 DEF Flushed
<1>8. Settled'
  BY <1>1, <1>2, <1>6 DEF Inv, Settled, Agrees, NoGraph
<1> QED
  BY <1>1, <1>2, <1>5, <1>7, <1>8 DEF Inv, Emptied, Staged, Flushed

\* Search rows do not matter to the hash rows.
LEMMA RebuildSearchInv == ASSUME Inv, RebuildSearch PROVE Inv'
<1>1. UNCHANGED <<disk, graph, hash, map, stamp, marker, dirty, known>>
  BY DEF RebuildSearch, metas
<1>2. /\ ini' \in Processes
      /\ ini.pc = "search" /\ ini'.pc = "stamp"
      /\ ini'.staging = ini.staging /\ ini'.staged = ini.staged
  BY DEF RebuildSearch, Inv, TypeOK, Processes, Steps
<1>3. fts' \in [Files -> Versions]
  BY DEF RebuildSearch, Inv, TypeOK
<1>4. TypeOK'
  BY <1>1, <1>2, <1>3 DEF Inv, TypeOK
<1> QED
  BY <1>1, <1>2, <1>4 DEF Inv, Settled, Emptied, Staged, Flushed, Agrees, NoGraph

\* The stamp becomes current only after the flush, where every file agrees.
LEMMA StampFormatInv == ASSUME Inv, Unforced, StampFormat PROVE Inv'
<1>1. UNCHANGED <<disk, graph, hash, map, fts, marker, dirty, known>> /\ stamp' = "current"
  BY DEF StampFormat, tables
<1>2. /\ ini' \in Processes
      /\ ini.pc = "stamp" /\ ini'.pc = "trace"
      /\ ini'.staging = ini.staging /\ ini'.staged = ini.staged
  BY DEF StampFormat, Inv, TypeOK, Processes, Steps
<1>3. TypeOK'
  BY <1>1, <1>2 DEF Inv, TypeOK, Formats
<1>4. ASSUME stamp # "current" PROVE (\A f \in Files : Agrees(f)') /\ ~NoGraph'
  <2>1. \A f \in Files : hash[f] # 0 /\ graph[f] = Current(hash[f])
    BY <1>2, <1>4 DEF Inv, Flushed
  <2>2. \A f \in Files : Agrees(f)'
    BY <1>1, <2>1 DEF Agrees
  <2>3. \A f \in Files : hash[f] \in 1..MaxVersion
    BY <2>1, InitRebuildAssumption DEF Inv, TypeOK, Versions
  <2>4. \A f \in Files : graph[f].ver # 0
    BY <2>1, <2>3, CurrentEntry
  <2> QED
    BY <1>1, <2>2, <2>4, InitRebuildAssumption DEF NoGraph
<1>5. stamp = "current" => (\A f \in Files : Agrees(f)') /\ ~NoGraph'
  BY <1>1 DEF Inv, Settled, Agrees, NoGraph
<1>6. ~ini.staging /\ ini.staged = NoRows
  BY <1>2 DEF Inv, Settled, Flushed
<1> QED
  BY <1>1, <1>2, <1>3, <1>4, <1>5, <1>6 DEF Inv, Settled, Emptied, Staged, Flushed

\* Phase B and the closing stamps: only under a current stamp.
LEMMA TraceInv == ASSUME Inv, Trace PROVE Inv'
<1>1. UNCHANGED <<disk, graph, hash, map, fts, stamp>> /\ ini' = Off
  BY DEF Trace, tables
<1>2. marker' \in BOOLEAN /\ dirty' \in BOOLEAN /\ known' \in BOOLEAN
  BY DEF Trace
<1>3. TypeOK' /\ ini'.pc = "off" /\ ~ini'.staging /\ ini'.staged = NoRows
  BY <1>1, <1>2, OffType DEF Inv, TypeOK
<1> QED
  BY <1>1, <1>3 DEF Inv, Settled, Emptied, Staged, Flushed, Agrees, NoGraph

\* The inductive invariant, for every set of files, any number of edits, inits,
\* kills and daemon reindexes.
THEOREM Invariance == Unforced => (Spec => []Inv)
<1> SUFFICES ASSUME Unforced PROVE Spec => []Inv
  OBVIOUS
<1>1. Init => Inv
  BY InitInv
<1>2. Inv /\ [Next]_vars => Inv'
  <2> SUFFICES ASSUME Inv, [Next]_vars PROVE Inv'
    OBVIOUS
  <2>1. CASE InitStep
    BY <2>1, InitStartInv, PurgeInv, BeginIndexInv, MarkDroppedInv, WriteBatchInv, EndIndexInv,
       FlushInv, RebuildSearchInv, StampFormatInv, TraceInv DEF InitStep
  <2>2. CASE Kill
    BY <2>2, KillInv
  <2>3. CASE BackgroundPhaseB
    BY <2>3, BackgroundInv
  <2>4. ASSUME NEW f \in Files, Edit(f) \/ Reindex(f) PROVE Inv'
    BY <2>4, EditInv, ReindexInv
  <2>5. CASE UNCHANGED vars
    BY <2>5, StutterInv
  <2> QED
    BY <2>1, <2>2, <2>3, <2>4, <2>5 DEF Next
<1> QED
  BY <1>1, <1>2, PTL DEF Spec

\* Under a current format stamp a hash row always vouches for the nodes of its
\* file, however often an unforced init was killed and at whichever step: the
\* hash delta of init and of reindex_files never skips a file that is missing.
THEOREM HashVouchesHolds == Unforced => (Spec => []HashVouches)
<1> SUFFICES ASSUME Unforced PROVE Spec => []HashVouches
  OBVIOUS
<1>1. Inv => HashVouches
  BY DEF Inv, Settled, Agrees, HashVouches
<1>2. Spec => []Inv
  BY Invariance
<1> QED
  BY <1>1, <1>2, PTL

\* An unforced init that reaches its closing stamps has healed what earlier
\* kills left behind.
THEOREM InitHealsHolds == Unforced => (Spec => []InitHeals)
<1> SUFFICES ASSUME Unforced PROVE Spec => []InitHeals
  OBVIOUS
<1>1. Inv => InitHeals
  BY DEF Inv, Settled, Emptied, Agrees, InitHeals
<1>2. Spec => []Inv
  BY Invariance
<1> QED
  BY <1>1, <1>2, PTL

-----------------------------------------------------------------------------
(* The types need neither condition.                                       *)

LEMMA TypeInit == Init => TypeOK
<1> SUFFICES ASSUME Init PROVE TypeOK
  OBVIOUS
<1>1. PICK start \in Starts :
        LET old == start = "old"
        IN  /\ disk = [f \in Files |-> 1]
            /\ graph = [f \in Files |-> IF old THEN [ver |-> 1, fmt |-> "old"] ELSE NoNodes]
            /\ hash = [f \in Files |-> IF old THEN 1 ELSE 0]
            /\ map = hash
            /\ fts = hash
            /\ stamp = FirstStamp[start]
            /\ marker = (start # "fresh")
            /\ known = (start # "fresh")
  BY DEF Init
<1>2. start \in {"fresh", "old", "empty"}
  BY InitRebuildAssumption
<1>3. stamp \in Formats
  BY <1>1, <1>2 DEF FirstStamp, Formats
<1>4. /\ disk \in [Files -> 1..MaxVersion]
      /\ hash \in [Files -> Versions] /\ map \in [Files -> Versions] /\ fts \in [Files -> Versions]
  BY <1>1, InitRebuildAssumption DEF Versions
<1>5. graph \in [Files -> Entries]
  BY <1>1, InitRebuildAssumption DEF Entries, NoNodes
<1>6. marker \in BOOLEAN /\ dirty \in BOOLEAN /\ known \in BOOLEAN /\ ini = Off
  BY <1>1 DEF Init
<1> QED
  BY <1>3, <1>4, <1>5, <1>6, OffType DEF TypeOK

LEMMA TypeStart ==
    ASSUME TypeOK, NEW forced \in Forces, NEW sample \in Files, InitStart(forced, sample)
    PROVE  TypeOK'
<1> DEFINE skew == IndexedBefore /\ (stamp # "current" \/ ~IdsCurrent(sample))
<1>1. forced \in BOOLEAN /\ skew \in BOOLEAN
  BY InitRebuildAssumption DEF IndexedBefore, IdsCurrent, NoGraph
<1>2. ini' = [Off EXCEPT !.pc = IF forced \/ skew THEN "purge" ELSE "walk",
                         !.purges = forced \/ skew]
  BY DEF InitStart
<1>3. ini' \in Processes
  <2> HIDE DEF skew
  <2>1. (forced \/ skew) \in BOOLEAN
    BY <1>1
  <2>2. (IF forced \/ skew THEN "purge" ELSE "walk") \in Steps
    BY DEF Steps
  <2> QED
    BY <1>2, <2>1, <2>2, OffType DEF Processes
<1>4. \A rows \in [Files -> Versions] : Backfill(rows) \in [Files -> Versions]
  <2>1. \A g \in Files : graph[g].ver \in Versions
    BY EntryKinds, InitRebuildAssumption DEF TypeOK, Versions
  <2> QED
    BY <2>1 DEF Backfill
<1>5. map' \in [Files -> Versions] /\ fts' \in [Files -> Versions]
  BY <1>4 DEF InitStart, TypeOK
<1> QED
  BY <1>3, <1>5 DEF InitStart, TypeOK, metas

LEMMA TypeBatch ==
    ASSUME TypeOK, NEW batch \in SUBSET Files, WriteBatch(batch)
    PROVE  TypeOK'
<1>1. /\ ini \in Processes /\ ini.parsed \in [Files -> Versions]
      /\ ini.staged \in [Files -> Versions]
  BY DEF TypeOK, Processes
<1>2. \A f \in batch : ini.parsed[f] \in 1..MaxVersion
  BY <1>1, InitRebuildAssumption DEF WriteBatch, Unwritten, Versions
<1>3. \A rows \in [Files -> Versions] : Written(rows, batch) \in [Files -> Versions]
  BY <1>1 DEF Written
<1> DEFINE rest == [f \in Files |-> IF f \in batch THEN 0 ELSE ini.parsed[f]]
           held == IF ini.staging THEN Written(ini.staged, batch) ELSE ini.staged
<1>4. rest \in [Files -> Versions] /\ held \in [Files -> Versions]
  BY <1>1, <1>3, InitRebuildAssumption DEF Versions
<1>5. ini' \in Processes
  <2>1. ini' = [ini EXCEPT !.parsed = rest, !.staged = held, !.owed = ini.owed \cup batch]
    BY <1>1 DEF WriteBatch, Processes
  <2> HIDE DEF rest, held
  <2>2. ini.owed \cup batch \in SUBSET Files
    BY <1>1 DEF Processes
  <2> QED
    BY <1>1, <1>4, <2>1, <2>2 DEF Processes
<1>6. hash' \in [Files -> Versions] /\ map' \in [Files -> Versions]
  BY <1>3 DEF WriteBatch, TypeOK
<1>7. graph' \in [Files -> Entries]
  BY <1>2, CurrentEntry DEF WriteBatch, TypeOK
<1>8. fts' \in [Files -> Versions]
  BY InitRebuildAssumption DEF WriteBatch, TypeOK, Versions
<1> QED
  BY <1>5, <1>6, <1>7, <1>8 DEF WriteBatch, TypeOK, metas

LEMMA TypeNext == TypeOK /\ [Next]_vars => TypeOK'
<1> SUFFICES ASSUME TypeOK, [Next]_vars PROVE TypeOK'
  OBVIOUS
<1>1. ASSUME PurgeGraph \/ ClearHashes \/ DeleteMarker PROVE TypeOK'
  BY <1>1, NoRowsType, NoNodesEntry DEF TypeOK, PurgeGraph, ClearHashes, DeleteMarker,
     tables, metas, Processes, Steps
<1>2. CASE BeginIndex
  <2> DEFINE read == [f \in Files |-> IF hash[f] = disk[f] THEN 0 ELSE disk[f]]
  <2>1. read \in [Files -> Versions] /\ NoGraph \in BOOLEAN
    BY InitRebuildAssumption DEF TypeOK, Versions, NoGraph
  <2>2. ini' = [ini EXCEPT !.pc = "index", !.parsed = read, !.staging = NoGraph]
    BY <1>2 DEF BeginIndex
  <2>3. ini' \in Processes
    <3> HIDE DEF read, NoGraph
    <3> QED
      BY <2>1, <2>2 DEF TypeOK, Processes, Steps
  <2> QED
    BY <1>2, <2>3 DEF BeginIndex, TypeOK, tables, metas
<1>3. CASE MarkDropped
  BY <1>3 DEF MarkDropped, TypeOK, Processes, tables
<1>4. CASE EndIndex
  BY <1>4 DEF EndIndex, TypeOK, Processes, Steps, tables, metas
<1>5. CASE Flush
  <2>1. ini' \in Processes /\ ini.staged \in [Files -> Versions]
    <3> HIDE DEF NoRows
    <3> QED
      BY <1>5, NoRowsType DEF Flush, TypeOK, Processes, Steps
  <2>2. graph' \in [Files -> Entries]
    BY <1>5, <2>1, CurrentEntry, InitRebuildAssumption DEF Flush, TypeOK, Versions
  <2> QED
    BY <1>5, <2>1, <2>2 DEF Flush, TypeOK, metas
<1>6. CASE RebuildSearch
  BY <1>6 DEF RebuildSearch, TypeOK, Processes, Steps, metas
<1>7. CASE StampFormat
  BY <1>7 DEF StampFormat, TypeOK, Processes, Steps, Formats, tables
<1>8. CASE Trace \/ Kill \/ BackgroundPhaseB
  BY <1>8, OffType DEF Trace, Kill, BackgroundPhaseB, TypeOK, tables, metas
<1>9. ASSUME NEW f \in Files, Edit(f) PROVE TypeOK'
  BY <1>9, InitRebuildAssumption DEF Edit, TypeOK, tables, metas
<1>10. ASSUME NEW f \in Files, Reindex(f) PROVE TypeOK'
  <2>1. disk[f] \in 1..MaxVersion /\ disk[f] \in Versions
    BY InitRebuildAssumption DEF TypeOK, Versions
  <2> QED
    BY <1>10, <2>1, CurrentEntry DEF Reindex, TypeOK
<1>11. CASE UNCHANGED vars
  BY <1>11 DEF vars, TypeOK
<1> QED
  BY <1>1, <1>2, <1>3, <1>4, <1>5, <1>6, <1>7, <1>8, <1>9, <1>10, <1>11, TypeStart, TypeBatch
     DEF Next, InitStep

\* Every table row, meta key and the init process keep to their types, forced
\* inits and every starting database included.
THEOREM TypeCorrect == Spec => []TypeOK
BY TypeInit, TypeNext, PTL DEF Spec

-----------------------------------------------------------------------------
(* What a rebuild leaves at its stamp.                                     *)

\* An init that purges is the one that makes the stamp current.
Purging == ini.purges /\ ini.pc \notin {"off", "trace"} => stamp # "current"

\* Before the stamp is current every hash row was written by this init, which
\* therefore owes its search row and has mapped its tokens.
Searchable ==
    stamp # "current" =>
        /\ ini.pc \in {"index", "flush", "search"} =>
              \A f \in Files : hash[f] # 0 => f \in ini.owed /\ map[f] = hash[f]
        /\ ini.pc = "stamp" => \A f \in Files : fts[f] = hash[f]

Search == Purging /\ Searchable

LEMMA SearchNext ==
    ASSUME Unforced, Inv, Search, [Next]_vars PROVE Search'
<1> USE DEF Search
<1>t. TypeOK /\ ini \in Processes
  BY DEF Inv, TypeOK
<1>1. ASSUME UNCHANGED <<hash, map, fts, stamp>>, ini'.pc = ini.pc, ini'.purges = ini.purges,
             ini'.owed = ini.owed
      PROVE  Search'
  BY <1>1 DEF Purging, Searchable
<1>2. ASSUME NEW forced \in Forces, NEW sample \in Files, InitStart(forced, sample)
      PROVE  Search'
  <2> DEFINE skew == IndexedBefore /\ (stamp # "current" \/ ~IdsCurrent(sample))
  <2>1. stamp = "current" => ~skew
    BY <1>t, CurrentEntry, NoNodesEntry, EntryKinds
       DEF Inv, Settled, Agrees, IdsCurrent, TypeOK, Versions, Current
  <2>2. ini' = [Off EXCEPT !.pc = IF forced \/ skew THEN "purge" ELSE "walk",
                           !.purges = forced \/ skew]
    BY <1>2 DEF InitStart
  <2>3. ~forced /\ stamp' = stamp
    BY <1>2 DEF Unforced, InitStart, metas
  <2> HIDE DEF skew
  <2>4. (ini'.pc = "purge" \/ ini'.pc = "walk") /\ ini'.purges = (forced \/ skew)
    BY <2>2 DEF Off
  <2> QED
    BY <2>1, <2>3, <2>4 DEF Purging, Searchable
<1>3. CASE PurgeGraph \/ ClearHashes \/ DeleteMarker
  <2>1. stamp' = stamp /\ ini'.purges = ini.purges /\ ini.pc \notin {"off", "trace"}
    BY <1>3, <1>t DEF PurgeGraph, ClearHashes, DeleteMarker, metas, Processes
  <2>2. ini'.pc \in {"clear", "unmark", "walk"}
    BY <1>3, <1>t DEF PurgeGraph, ClearHashes, DeleteMarker, Processes
  <2> QED
    BY <2>1, <2>2 DEF Purging, Searchable
<1>4. CASE BeginIndex
  <2>1. /\ UNCHANGED <<hash, map, fts, stamp>>
        /\ ini.pc = "walk" /\ ini'.pc = "index" /\ ini'.purges = ini.purges
    BY <1>4, <1>t DEF BeginIndex, tables, metas, Processes
  <2>2. stamp # "current" => \A f \in Files : hash[f] = 0
    BY <2>1, NoRowsType DEF Inv, Emptied
  <2> QED
    BY <2>1, <2>2 DEF Purging, Searchable
<1>5. CASE MarkDropped
  <2>1. /\ ini'.pc = ini.pc /\ ini'.purges = ini.purges /\ ini'.owed = ini.owed
    BY <1>5, <1>t DEF MarkDropped, Processes
  <2> QED
    BY <1>1, <1>5, <2>1 DEF MarkDropped, tables
<1>6. ASSUME NEW batch \in SUBSET Files, WriteBatch(batch) PROVE Search'
  <2>1. /\ ini.pc = "index" /\ ini'.pc = "index" /\ ini'.purges = ini.purges
        /\ ini'.owed = ini.owed \cup batch /\ stamp' = stamp
    BY <1>6, <1>t DEF WriteBatch, metas, Processes
  <2>2. \A f \in Files : /\ hash'[f] = IF f \in batch THEN ini.parsed[f] ELSE hash[f]
                         /\ map'[f] = IF f \in batch THEN ini.parsed[f] ELSE map[f]
    BY <1>6 DEF WriteBatch, Written
  <2> QED
    BY <2>1, <2>2 DEF Purging, Searchable
<1>7. CASE EndIndex \/ Flush
  <2>1. /\ UNCHANGED <<hash, map, fts, stamp>> /\ ini.pc \in {"index", "flush"}
        /\ ini'.pc \in {"flush", "search"} /\ ini'.purges = ini.purges
        /\ ini'.owed = ini.owed
    BY <1>7, <1>t DEF EndIndex, Flush, tables, metas, Processes
  <2> QED
    BY <2>1 DEF Purging, Searchable
<1>8. CASE RebuildSearch
  <2>1. /\ UNCHANGED <<hash, map, stamp>> /\ ini.pc = "search"
        /\ ini'.pc = "stamp" /\ ini'.purges = ini.purges
    BY <1>8, <1>t DEF RebuildSearch, metas, Processes
  <2>2. \A f \in Files : f \in ini.owed => fts'[f] = map[f]
    BY <1>8 DEF RebuildSearch
  <2>3. stamp # "current" => \A f \in Files : hash[f] # 0
    BY <2>1 DEF Inv, Flushed
  <2> QED
    BY <2>1, <2>2, <2>3 DEF Purging, Searchable
<1>9. CASE StampFormat
  <2>1. stamp' = "current" /\ ini'.pc = "trace"
    BY <1>9, <1>t DEF StampFormat, Processes
  <2> QED
    BY <2>1 DEF Purging, Searchable
<1>10. CASE Trace \/ Kill
  <2>1. ini'.pc = "off"
    BY <1>10, OffType DEF Trace, Kill
  <2> QED
    BY <2>1 DEF Purging, Searchable
<1>11. CASE BackgroundPhaseB
  BY <1>1, <1>11 DEF BackgroundPhaseB, tables
<1>12. ASSUME NEW f \in Files, Edit(f) PROVE Search'
  BY <1>1, <1>12 DEF Edit, tables, metas
<1>13. ASSUME NEW f \in Files, Reindex(f) PROVE Search'
  BY <1>13 DEF Reindex, Purging, Searchable
<1>14. CASE UNCHANGED vars
  BY <1>1, <1>14 DEF vars
<1> QED
  BY <1>2, <1>3, <1>4, <1>5, <1>6, <1>7, <1>8, <1>9, <1>10, <1>11, <1>12, <1>13, <1>14
     DEF Next, InitStep

\* A rebuild that reaches its stamp, after however many killed attempts, has
\* re-created every file: nodes in the current format, hash row and search rows
\* agree.
THEOREM RebuildCompleteHolds == Unforced => (Spec => []RebuildComplete)
<1> SUFFICES ASSUME Unforced PROVE Spec => []RebuildComplete
  OBVIOUS
<1>1. Inv /\ Search => RebuildComplete
  BY DEF Inv, Flushed, Search, Purging, Searchable, RebuildComplete
<1>2. Spec => []Inv
  BY Invariance
<1>3. Init => Search
  BY OffType DEF Init, Search, Purging, Searchable
<1>4. Inv /\ Search /\ [Next]_vars => Search'
  BY SearchNext
<1> QED
  BY <1>1, <1>2, <1>3, <1>4, PTL DEF Spec

=============================================================================
