--------------------------- MODULE EmbedReindexProofs ---------------------------
(***************************************************************************)
(* For every number of nodes, edits and faults, every shape of the graph   *)
(* and every command line: two processes never write embed.db at once, an  *)
(* acknowledged stop-embed stops, and the sentinel of one run does not     *)
(* cancel another.                                                         *)
(***************************************************************************)
EXTENDS EmbedReindex, FiniteSetTheorems, TLAPS

-----------------------------------------------------------------------------
(* The inductive invariant. *)

\* What each run holds while it is where it is: the in-flight flag, the flock on
\* embed.lock, its sidecar.  A sidecar without a parent is remembered as a gap.
Locked ==
    /\ inFlight <=> run.at # "idle"
    /\ lock = "daemon" <=> run.at \in {"spawn", "register", "wait", "unregister", "end"}
    /\ lock = "cli" <=> cli.at \in {"wait", "delete"}
    /\ side["daemon"].at # "none" <=> run.at \in {"register", "wait"}
    /\ side["cli"].at # "none" <=> cli.at = "wait"
    /\ side["orphan"].at # "none" => "orphan" \in gaps

\* No pass of the daemon is on its way, and none has a sidecar that writes.
Quiet == ~Unregistered /\ (run.at = "wait" => side["daemon"].at = "exited")

\* A stop pauses before it looks for the PID; from there on only the one sidecar it
\* has found is left, and none when it is acknowledged.
Stopping ==
    /\ stop.at = "idle" <=> stop.kind = "none"
    /\ stop.kind = "shutdown" <=> up = "leaving"
    /\ stop.kind \in {"stop", "reconfigure"} => paused
    /\ stopped => paused
    /\ stop.alive => run.at = "wait"
    /\ up = "no" =>
        run.at = "idle" /\ stop.at = "idle" /\ \A c \in Callers : caller[c].at = "idle"
    /\ "unregistered" \notin gaps =>
        /\ up = "yes" /\ run.at = "wait" /\ ~pid => side["daemon"].at = "exited"
        /\ stop.at \in {"path", "poll", "kill"} /\ stop.kind # "shutdown" =>
             ~Unregistered /\ (run.at = "wait" => stop.alive)
        /\ stop.at = "reply" /\ stop.kind # "shutdown" => Quiet
        /\ stopped => Quiet

\* A run of the command line takes the sentinel away before it begins, and only
\* the gaps put one there while it waits.
Cancels == cli.at = "wait" /\ gaps \cap {"late", "nudge"} = {} => ~sentinel

\* TypeOK in parts.
WorkTyped ==
    /\ shell \in [Nodes -> Shells] /\ pending \subseteq Nodes
    /\ stale \in 0..MaxEdits /\ stale <= edits
    /\ edits \in 0..MaxEdits /\ troubles \in 0..MaxTroubles

FlagsTyped ==
    {phaseB, paused, inFlight, pid, path, latched, sentinel, stopped} \subseteq BOOLEAN

TickTyped ==
    /\ last \in Nat \cup {Never}
    /\ caller \in [Callers -> [at : {"idle", "claim"}, phase : Phases \cup {Never},
                               count : 0..MaxEdits]]

RunTyped ==
    /\ run \in [at : {"idle", "lock", "spawn", "register", "wait", "unregister", "end"},
                phase : Phases \cup {Never}]
    /\ side \in [Sides -> [at : {"none", "starting", "running", "hung", "exited"},
                           phase : Phases \cup {Never}]]

StopTyped ==
    /\ stop \in [at : {"idle", "pid", "path", "poll", "kill", "reply"},
                 kind : {"none", "stop", "shutdown", "reconfigure"}, alive : BOOLEAN]
    /\ up \in {"yes", "leaving", "no"} /\ lock \in Parents \cup {"none"}
    /\ gaps \subseteq Gaps

CliTyped ==
    cli \in [at : {"asked", "stopping", "nudge", "lock", "wait", "delete", "end", "done"},
             cmd : Commands, resume : BOOLEAN]

Typed == WorkTyped /\ FlagsTyped /\ TickTyped /\ RunTyped /\ StopTyped /\ CliTyped

Inv == Typed /\ Locked /\ Stopping /\ Cancels

-----------------------------------------------------------------------------

-----------------------------------------------------------------------------
(* The tick and the trigger. *)

LEMMA StepTick ==
    ASSUME Inv, Tick
    PROVE  Inv'
<1> USE DEF Tick, Call, Forget, ShouldSpawn, NoCall, work, flags, tick, files, control
<1>1. Typed'
  <2>1. WorkTyped'
      BY EmbedAssumption DEF Inv, Typed, WorkTyped, Callers, Sides, Parents, Phases
  <2>2. FlagsTyped'
      BY DEF Inv, Typed, FlagsTyped, Callers, Sides, Parents, Phases
  <2>3. TickTyped'
      BY EmbedAssumption DEF Inv, Typed, TickTyped, WorkTyped, Callers, Sides, Parents, Phases
  <2>4. RunTyped'
      BY DEF Inv, Typed, RunTyped, TickTyped, Callers, Sides, Parents, Phases
  <2>5. StopTyped'
    <3>1. UNCHANGED <<stop, up, lock>> /\ gaps' \subseteq gaps \cup {"uncounted"}
        BY DEF Inv
    <3> QED
        BY <3>1 DEF Inv, Typed, StopTyped, Gaps
  <2>6. CliTyped'
      BY DEF Inv, Typed, CliTyped, Callers, Sides, Parents, Phases
  <2> QED
      BY <2>1, <2>2, <2>3, <2>4, <2>5, <2>6 DEF Typed
<1>2. Locked'
    BY DEF Inv, Typed, FlagsTyped, TickTyped, RunTyped, StopTyped, CliTyped, Locked, Stopping,
           Sides, Parents
<1>3. Stopping'
    BY DEF Inv, Typed, FlagsTyped, TickTyped, RunTyped, StopTyped, CliTyped, Locked, Stopping, Quiet,
           Unregistered, Sides, Parents, Callers
<1>4. Cancels'
    BY DEF Inv, Typed, FlagsTyped, RunTyped, StopTyped, CliTyped, Locked, Stopping, Cancels
<1> QED
    BY <1>1, <1>2, <1>3, <1>4 DEF Inv

LEMMA StepClaim ==
    ASSUME Inv, NEW c \in Callers, Claim(c)
    PROVE  Inv'
<1> USE DEF Claim, NoCall, work, flags, tick, files, control
<1>1. Typed'
  <2>1. WorkTyped'
      BY EmbedAssumption DEF Inv, Typed, WorkTyped, Callers, Sides, Parents, Phases
  <2>2. FlagsTyped'
      BY DEF Inv, Typed, FlagsTyped, Callers, Sides, Parents, Phases
  <2>3. TickTyped'
      BY EmbedAssumption DEF Inv, Typed, TickTyped, WorkTyped, Callers, Sides, Parents, Phases
  <2>4. RunTyped'
      BY DEF Inv, Typed, RunTyped, TickTyped, Callers, Sides, Parents, Phases
  <2>5. StopTyped'
      BY DEF Inv, Typed, StopTyped, Callers, Sides, Parents, Phases
  <2>6. CliTyped'
      BY DEF Inv, Typed, CliTyped, Callers, Sides, Parents, Phases
  <2> QED
      BY <2>1, <2>2, <2>3, <2>4, <2>5, <2>6 DEF Typed
<1>2. Locked'
    BY DEF Inv, Typed, FlagsTyped, TickTyped, RunTyped, StopTyped, CliTyped, Locked, Stopping,
           Sides, Parents
<1>3. Stopping'
    BY DEF Inv, Typed, FlagsTyped, TickTyped, RunTyped, StopTyped, CliTyped, Locked, Stopping, Quiet,
           Unregistered, Sides, Parents, Callers
<1>4. Cancels'
    BY DEF Inv, Typed, FlagsTyped, RunTyped, StopTyped, CliTyped, Locked, Stopping, Cancels
<1> QED
    BY <1>1, <1>2, <1>3, <1>4 DEF Inv

LEMMA StepPhaseBDone ==
    ASSUME Inv, PhaseBDone
    PROVE  Inv'
<1> USE DEF PhaseBDone, Call, NoCall, work, flags, tick, files, control
<1>1. Typed'
  <2>1. WorkTyped'
      BY EmbedAssumption DEF Inv, Typed, WorkTyped, Callers, Sides, Parents, Phases
  <2>2. FlagsTyped'
      BY DEF Inv, Typed, FlagsTyped, Callers, Sides, Parents, Phases
  <2>3. TickTyped'
      BY EmbedAssumption DEF Inv, Typed, TickTyped, WorkTyped, Callers, Sides, Parents, Phases
  <2>4. RunTyped'
      BY DEF Inv, Typed, RunTyped, TickTyped, Callers, Sides, Parents, Phases
  <2>5. StopTyped'
      BY DEF Inv, Typed, StopTyped, Callers, Sides, Parents, Phases
  <2>6. CliTyped'
      BY DEF Inv, Typed, CliTyped, Callers, Sides, Parents, Phases
  <2> QED
      BY <2>1, <2>2, <2>3, <2>4, <2>5, <2>6 DEF Typed
<1>2. Locked'
    BY DEF Inv, Typed, FlagsTyped, TickTyped, RunTyped, StopTyped, CliTyped, Locked, Stopping,
           Sides, Parents
<1>3. Stopping'
    BY DEF Inv, Typed, FlagsTyped, TickTyped, RunTyped, StopTyped, CliTyped, Locked, Stopping, Quiet,
           Unregistered, Sides, Parents, Callers
<1>4. Cancels'
    BY DEF Inv, Typed, FlagsTyped, RunTyped, StopTyped, CliTyped, Locked, Stopping, Cancels
<1> QED
    BY <1>1, <1>2, <1>3, <1>4 DEF Inv

-----------------------------------------------------------------------------
(* The reindex thread. *)

LEMMA StepRunLock ==
    ASSUME Inv, RunLock
    PROVE  Inv'
<1> USE DEF RunLock, TakeLock, ClearSentinel, Step, Idle, work, flags, tick, files, control
<1>0. /\ run.at = "lock" /\ UNCHANGED <<cli, side, gaps, pid, control, caller>>
      /\ \/ /\ lock = "none" /\ lock' = "daemon" /\ run'.at = "spawn" /\ inFlight' = inFlight
         \/ /\ lock # "none" /\ lock' = lock /\ run'.at = "idle" /\ inFlight' = FALSE
    BY DEF Inv, Typed, RunTyped
<1>1. Typed'
  <2>1. WorkTyped'
      BY EmbedAssumption DEF Inv, Typed, WorkTyped, Callers, Sides, Parents, Phases
  <2>2. FlagsTyped'
      BY DEF Inv, Typed, FlagsTyped, Callers, Sides, Parents, Phases
  <2>3. TickTyped'
      BY EmbedAssumption DEF Inv, Typed, TickTyped, WorkTyped, Callers, Sides, Parents, Phases
  <2>4. RunTyped'
      BY DEF Inv, Typed, RunTyped, TickTyped, Callers, Sides, Parents, Phases
  <2>5. StopTyped'
      BY DEF Inv, Typed, StopTyped, Callers, Sides, Parents, Phases
  <2>6. CliTyped'
      BY DEF Inv, Typed, CliTyped, Callers, Sides, Parents, Phases
  <2> QED
      BY <2>1, <2>2, <2>3, <2>4, <2>5, <2>6 DEF Typed
<1>2. Locked'
  <2>1. CASE lock' = "daemon" /\ run'.at = "spawn" /\ inFlight' = inFlight
      BY <1>0, <2>1 DEF Inv, Locked
  <2>2. CASE lock' = lock /\ run'.at = "idle" /\ inFlight' = FALSE
      BY <1>0, <2>2 DEF Inv, Locked
  <2> QED
      BY <1>0, <2>1, <2>2
<1>3. Stopping'
    BY <1>0 DEF Inv, Stopping, Quiet, Unregistered
<1>4. Cancels'
    BY DEF Inv, Typed, FlagsTyped, RunTyped, StopTyped, CliTyped, Locked, Stopping, Cancels
<1> QED
    BY <1>1, <1>2, <1>3, <1>4 DEF Inv

LEMMA StepRunSpawn ==
    ASSUME Inv, RunSpawn
    PROVE  Inv'
<1> USE DEF RunSpawn, Step, work, flags, tick, files, control
<1>1. Typed'
  <2>1. WorkTyped'
      BY EmbedAssumption DEF Inv, Typed, WorkTyped, Callers, Sides, Parents, Phases
  <2>2. FlagsTyped'
      BY DEF Inv, Typed, FlagsTyped, Callers, Sides, Parents, Phases
  <2>3. TickTyped'
      BY EmbedAssumption DEF Inv, Typed, TickTyped, WorkTyped, Callers, Sides, Parents, Phases
  <2>4. RunTyped'
      BY DEF Inv, Typed, RunTyped, TickTyped, Callers, Sides, Parents, Phases
  <2>5. StopTyped'
      BY DEF Inv, Typed, StopTyped, Callers, Sides, Parents, Phases
  <2>6. CliTyped'
      BY DEF Inv, Typed, CliTyped, Callers, Sides, Parents, Phases
  <2> QED
      BY <2>1, <2>2, <2>3, <2>4, <2>5, <2>6 DEF Typed
<1>2. Locked'
    BY DEF Inv, Typed, FlagsTyped, TickTyped, RunTyped, StopTyped, CliTyped, Locked, Stopping,
           Sides, Parents
<1>3. Stopping'
    BY DEF Inv, Typed, FlagsTyped, TickTyped, RunTyped, StopTyped, CliTyped, Locked, Stopping, Quiet,
           Unregistered, Sides, Parents, Callers
<1>4. Cancels'
    BY DEF Inv, Typed, FlagsTyped, RunTyped, StopTyped, CliTyped, Locked, Stopping, Cancels
<1> QED
    BY <1>1, <1>2, <1>3, <1>4 DEF Inv

LEMMA StepRunRegister ==
    ASSUME Inv, RunRegister
    PROVE  Inv'
<1> USE DEF RunRegister, Step, work, flags, tick, files, control
<1>1. Typed'
  <2>1. WorkTyped'
      BY EmbedAssumption DEF Inv, Typed, WorkTyped, Callers, Sides, Parents, Phases
  <2>2. FlagsTyped'
      BY DEF Inv, Typed, FlagsTyped, Callers, Sides, Parents, Phases
  <2>3. TickTyped'
      BY EmbedAssumption DEF Inv, Typed, TickTyped, WorkTyped, Callers, Sides, Parents, Phases
  <2>4. RunTyped'
      BY DEF Inv, Typed, RunTyped, TickTyped, Callers, Sides, Parents, Phases
  <2>5. StopTyped'
      BY DEF Inv, Typed, StopTyped, Callers, Sides, Parents, Phases
  <2>6. CliTyped'
      BY DEF Inv, Typed, CliTyped, Callers, Sides, Parents, Phases
  <2> QED
      BY <2>1, <2>2, <2>3, <2>4, <2>5, <2>6 DEF Typed
<1>2. Locked'
    BY DEF Inv, Typed, FlagsTyped, TickTyped, RunTyped, StopTyped, CliTyped, Locked, Stopping,
           Sides, Parents
<1>3. Stopping'
    BY DEF Inv, Typed, FlagsTyped, TickTyped, RunTyped, StopTyped, CliTyped, Locked, Stopping, Quiet,
           Unregistered, Sides, Parents, Callers
<1>4. Cancels'
    BY DEF Inv, Typed, FlagsTyped, RunTyped, StopTyped, CliTyped, Locked, Stopping, Cancels
<1> QED
    BY <1>1, <1>2, <1>3, <1>4 DEF Inv

LEMMA StepRunWait ==
    ASSUME Inv, RunWait
    PROVE  Inv'
<1> USE DEF RunWait, Step, NoSide, work, flags, tick, files, control
<1>1. Typed'
  <2>1. WorkTyped'
      BY EmbedAssumption DEF Inv, Typed, WorkTyped, Callers, Sides, Parents, Phases
  <2>2. FlagsTyped'
      BY DEF Inv, Typed, FlagsTyped, Callers, Sides, Parents, Phases
  <2>3. TickTyped'
      BY EmbedAssumption DEF Inv, Typed, TickTyped, WorkTyped, Callers, Sides, Parents, Phases
  <2>4. RunTyped'
      BY DEF Inv, Typed, RunTyped, TickTyped, Callers, Sides, Parents, Phases
  <2>5. StopTyped'
      BY DEF Inv, Typed, StopTyped, Callers, Sides, Parents, Phases
  <2>6. CliTyped'
      BY DEF Inv, Typed, CliTyped, Callers, Sides, Parents, Phases
  <2> QED
      BY <2>1, <2>2, <2>3, <2>4, <2>5, <2>6 DEF Typed
<1>2. Locked'
    BY DEF Inv, Typed, FlagsTyped, TickTyped, RunTyped, StopTyped, CliTyped, Locked, Stopping,
           Sides, Parents
<1>3. Stopping'
    BY DEF Inv, Typed, FlagsTyped, TickTyped, RunTyped, StopTyped, CliTyped, Locked, Stopping, Quiet,
           Unregistered, Sides, Parents, Callers
<1>4. Cancels'
    BY DEF Inv, Typed, FlagsTyped, RunTyped, StopTyped, CliTyped, Locked, Stopping, Cancels
<1> QED
    BY <1>1, <1>2, <1>3, <1>4 DEF Inv

LEMMA StepRunUnregister ==
    ASSUME Inv, RunUnregister
    PROVE  Inv'
<1> USE DEF RunUnregister, Step, work, flags, tick, files, control
<1>1. Typed'
  <2>1. WorkTyped'
      BY EmbedAssumption DEF Inv, Typed, WorkTyped, Callers, Sides, Parents, Phases
  <2>2. FlagsTyped'
      BY DEF Inv, Typed, FlagsTyped, Callers, Sides, Parents, Phases
  <2>3. TickTyped'
      BY EmbedAssumption DEF Inv, Typed, TickTyped, WorkTyped, Callers, Sides, Parents, Phases
  <2>4. RunTyped'
      BY DEF Inv, Typed, RunTyped, TickTyped, Callers, Sides, Parents, Phases
  <2>5. StopTyped'
      BY DEF Inv, Typed, StopTyped, Callers, Sides, Parents, Phases
  <2>6. CliTyped'
      BY DEF Inv, Typed, CliTyped, Callers, Sides, Parents, Phases
  <2> QED
      BY <2>1, <2>2, <2>3, <2>4, <2>5, <2>6 DEF Typed
<1>2. Locked'
    BY DEF Inv, Typed, FlagsTyped, TickTyped, RunTyped, StopTyped, CliTyped, Locked, Stopping,
           Sides, Parents
<1>3. Stopping'
    BY DEF Inv, Typed, FlagsTyped, TickTyped, RunTyped, StopTyped, CliTyped, Locked, Stopping, Quiet,
           Unregistered, Sides, Parents, Callers
<1>4. Cancels'
    BY DEF Inv, Typed, FlagsTyped, RunTyped, StopTyped, CliTyped, Locked, Stopping, Cancels
<1> QED
    BY <1>1, <1>2, <1>3, <1>4 DEF Inv

LEMMA StepRunEnd ==
    ASSUME Inv, RunEnd
    PROVE  Inv'
<1> USE DEF RunEnd, Idle, work, flags, tick, files, control
<1>1. Typed'
  <2>1. WorkTyped'
      BY EmbedAssumption DEF Inv, Typed, WorkTyped, Callers, Sides, Parents, Phases
  <2>2. FlagsTyped'
      BY DEF Inv, Typed, FlagsTyped, Callers, Sides, Parents, Phases
  <2>3. TickTyped'
      BY EmbedAssumption DEF Inv, Typed, TickTyped, WorkTyped, Callers, Sides, Parents, Phases
  <2>4. RunTyped'
      BY DEF Inv, Typed, RunTyped, TickTyped, Callers, Sides, Parents, Phases
  <2>5. StopTyped'
      BY DEF Inv, Typed, StopTyped, Callers, Sides, Parents, Phases
  <2>6. CliTyped'
      BY DEF Inv, Typed, CliTyped, Callers, Sides, Parents, Phases
  <2> QED
      BY <2>1, <2>2, <2>3, <2>4, <2>5, <2>6 DEF Typed
<1>2. Locked'
    BY DEF Inv, Typed, FlagsTyped, TickTyped, RunTyped, StopTyped, CliTyped, Locked, Stopping,
           Sides, Parents
<1>3. Stopping'
    BY DEF Inv, Typed, FlagsTyped, TickTyped, RunTyped, StopTyped, CliTyped, Locked, Stopping, Quiet,
           Unregistered, Sides, Parents, Callers
<1>4. Cancels'
    BY DEF Inv, Typed, FlagsTyped, RunTyped, StopTyped, CliTyped, Locked, Stopping, Cancels
<1> QED
    BY <1>1, <1>2, <1>3, <1>4 DEF Inv

-----------------------------------------------------------------------------
(* The sidecar. *)

LEMMA StepSideStart ==
    ASSUME Inv, NEW s \in Sides, SideStart(s)
    PROVE  Inv'
<1> USE DEF SideStart, Becomes, KeepAllButWork, NoSide, work, flags, tick, files, control
<1>1. Typed'
  <2>1. WorkTyped'
      BY EmbedAssumption DEF Inv, Typed, WorkTyped, Callers, Sides, Parents, Phases
  <2>2. FlagsTyped'
      BY DEF Inv, Typed, FlagsTyped, Callers, Sides, Parents, Phases
  <2>3. TickTyped'
      BY EmbedAssumption DEF Inv, Typed, TickTyped, WorkTyped, Callers, Sides, Parents, Phases
  <2>4. RunTyped'
      BY DEF Inv, Typed, RunTyped, TickTyped, Callers, Sides, Parents, Phases
  <2>5. StopTyped'
      BY DEF Inv, Typed, StopTyped, Callers, Sides, Parents, Phases
  <2>6. CliTyped'
      BY DEF Inv, Typed, CliTyped, Callers, Sides, Parents, Phases
  <2> QED
      BY <2>1, <2>2, <2>3, <2>4, <2>5, <2>6 DEF Typed
<1>2. Locked'
    BY DEF Inv, Typed, FlagsTyped, TickTyped, RunTyped, StopTyped, CliTyped, Locked, Stopping,
           Sides, Parents
<1>3. Stopping'
    BY DEF Inv, Typed, FlagsTyped, TickTyped, RunTyped, StopTyped, CliTyped, Locked, Stopping, Quiet,
           Unregistered, Sides, Parents, Callers
<1>4. Cancels'
    BY DEF Inv, Typed, FlagsTyped, RunTyped, StopTyped, CliTyped, Locked, Stopping, Cancels
<1> QED
    BY <1>1, <1>2, <1>3, <1>4 DEF Inv

LEMMA StepSideEmbed ==
    ASSUME Inv, NEW s \in Sides, SideEmbed(s)
    PROVE  Inv'
<1> USE DEF SideEmbed, Becomes, KeepAllButWork, NoSide, work, flags, tick, files, control
<1>1. Typed'
  <2>1. WorkTyped'
      BY EmbedAssumption DEF Inv, Typed, WorkTyped, Callers, Sides, Parents, Phases
  <2>2. FlagsTyped'
      BY DEF Inv, Typed, FlagsTyped, Callers, Sides, Parents, Phases
  <2>3. TickTyped'
      BY EmbedAssumption DEF Inv, Typed, TickTyped, WorkTyped, Callers, Sides, Parents, Phases
  <2>4. RunTyped'
      BY DEF Inv, Typed, RunTyped, TickTyped, Callers, Sides, Parents, Phases
  <2>5. StopTyped'
      BY DEF Inv, Typed, StopTyped, Callers, Sides, Parents, Phases
  <2>6. CliTyped'
      BY DEF Inv, Typed, CliTyped, Callers, Sides, Parents, Phases
  <2> QED
      BY <2>1, <2>2, <2>3, <2>4, <2>5, <2>6 DEF Typed
<1>2. Locked'
    BY DEF Inv, Typed, FlagsTyped, TickTyped, RunTyped, StopTyped, CliTyped, Locked, Stopping,
           Sides, Parents
<1>3. Stopping'
    BY DEF Inv, Typed, FlagsTyped, TickTyped, RunTyped, StopTyped, CliTyped, Locked, Stopping, Quiet,
           Unregistered, Sides, Parents, Callers
<1>4. Cancels'
    BY DEF Inv, Typed, FlagsTyped, RunTyped, StopTyped, CliTyped, Locked, Stopping, Cancels
<1> QED
    BY <1>1, <1>2, <1>3, <1>4 DEF Inv

LEMMA StepSideDone ==
    ASSUME Inv, NEW s \in Sides, SideDone(s)
    PROVE  Inv'
<1> USE DEF SideDone, Becomes, KeepAllButWork, NoSide, work, flags, tick, files, control
<1>1. Typed'
  <2>1. WorkTyped'
      BY EmbedAssumption DEF Inv, Typed, WorkTyped, Callers, Sides, Parents, Phases
  <2>2. FlagsTyped'
      BY DEF Inv, Typed, FlagsTyped, Callers, Sides, Parents, Phases
  <2>3. TickTyped'
      BY EmbedAssumption DEF Inv, Typed, TickTyped, WorkTyped, Callers, Sides, Parents, Phases
  <2>4. RunTyped'
      BY DEF Inv, Typed, RunTyped, TickTyped, Callers, Sides, Parents, Phases
  <2>5. StopTyped'
      BY DEF Inv, Typed, StopTyped, Callers, Sides, Parents, Phases
  <2>6. CliTyped'
      BY DEF Inv, Typed, CliTyped, Callers, Sides, Parents, Phases
  <2> QED
      BY <2>1, <2>2, <2>3, <2>4, <2>5, <2>6 DEF Typed
<1>2. Locked'
    BY DEF Inv, Typed, FlagsTyped, TickTyped, RunTyped, StopTyped, CliTyped, Locked, Stopping,
           Sides, Parents
<1>3. Stopping'
    BY DEF Inv, Typed, FlagsTyped, TickTyped, RunTyped, StopTyped, CliTyped, Locked, Stopping, Quiet,
           Unregistered, Sides, Parents, Callers
<1>4. Cancels'
    BY DEF Inv, Typed, FlagsTyped, RunTyped, StopTyped, CliTyped, Locked, Stopping, Cancels
<1> QED
    BY <1>1, <1>2, <1>3, <1>4 DEF Inv

LEMMA StepSideCancel ==
    ASSUME Inv, NEW s \in Sides, SideCancel(s)
    PROVE  Inv'
<1> USE DEF SideCancel, Becomes, KeepAllButWork, NoSide, work, flags, tick, files, control
<1>1. Typed'
  <2>1. WorkTyped'
      BY EmbedAssumption DEF Inv, Typed, WorkTyped, Callers, Sides, Parents, Phases
  <2>2. FlagsTyped'
      BY DEF Inv, Typed, FlagsTyped, Callers, Sides, Parents, Phases
  <2>3. TickTyped'
      BY EmbedAssumption DEF Inv, Typed, TickTyped, WorkTyped, Callers, Sides, Parents, Phases
  <2>4. RunTyped'
      BY DEF Inv, Typed, RunTyped, TickTyped, Callers, Sides, Parents, Phases
  <2>5. StopTyped'
      BY DEF Inv, Typed, StopTyped, Callers, Sides, Parents, Phases
  <2>6. CliTyped'
      BY DEF Inv, Typed, CliTyped, Callers, Sides, Parents, Phases
  <2> QED
      BY <2>1, <2>2, <2>3, <2>4, <2>5, <2>6 DEF Typed
<1>2. Locked'
    BY DEF Inv, Typed, FlagsTyped, TickTyped, RunTyped, StopTyped, CliTyped, Locked, Stopping,
           Sides, Parents
<1>3. Stopping'
    BY DEF Inv, Typed, FlagsTyped, TickTyped, RunTyped, StopTyped, CliTyped, Locked, Stopping, Quiet,
           Unregistered, Sides, Parents, Callers
<1>4. Cancels'
    BY DEF Inv, Typed, FlagsTyped, RunTyped, StopTyped, CliTyped, Locked, Stopping, Cancels
<1> QED
    BY <1>1, <1>2, <1>3, <1>4 DEF Inv

LEMMA StepSideFault ==
    ASSUME Inv, NEW s \in Sides, SideFault(s)
    PROVE  Inv'
<1> USE DEF SideFault, Becomes, Trouble, NoSide, work, flags, tick, files, control
<1>1. Typed'
  <2>1. WorkTyped'
      BY EmbedAssumption DEF Inv, Typed, WorkTyped, Callers, Sides, Parents, Phases
  <2>2. FlagsTyped'
      BY DEF Inv, Typed, FlagsTyped, Callers, Sides, Parents, Phases
  <2>3. TickTyped'
      BY EmbedAssumption DEF Inv, Typed, TickTyped, WorkTyped, Callers, Sides, Parents, Phases
  <2>4. RunTyped'
      BY DEF Inv, Typed, RunTyped, TickTyped, Callers, Sides, Parents, Phases
  <2>5. StopTyped'
      BY DEF Inv, Typed, StopTyped, Callers, Sides, Parents, Phases
  <2>6. CliTyped'
      BY DEF Inv, Typed, CliTyped, Callers, Sides, Parents, Phases
  <2> QED
      BY <2>1, <2>2, <2>3, <2>4, <2>5, <2>6 DEF Typed
<1>2. Locked'
    BY DEF Inv, Typed, FlagsTyped, TickTyped, RunTyped, StopTyped, CliTyped, Locked, Stopping,
           Sides, Parents
<1>3. Stopping'
    BY DEF Inv, Typed, FlagsTyped, TickTyped, RunTyped, StopTyped, CliTyped, Locked, Stopping, Quiet,
           Unregistered, Sides, Parents, Callers
<1>4. Cancels'
    BY DEF Inv, Typed, FlagsTyped, RunTyped, StopTyped, CliTyped, Locked, Stopping, Cancels
<1> QED
    BY <1>1, <1>2, <1>3, <1>4 DEF Inv

-----------------------------------------------------------------------------
(* stop-embed, resume-embed, the shutdown, and the end of the daemon. *)

LEMMA StepStopEmbed ==
    ASSUME Inv, StopEmbed
    PROVE  Inv'
<1> USE DEF StopEmbed, Request, Trouble, work, flags, tick, files, control
<1>1. Typed'
  <2>1. WorkTyped'
      BY EmbedAssumption DEF Inv, Typed, WorkTyped, Callers, Sides, Parents, Phases
  <2>2. FlagsTyped'
      BY DEF Inv, Typed, FlagsTyped, Callers, Sides, Parents, Phases
  <2>3. TickTyped'
      BY EmbedAssumption DEF Inv, Typed, TickTyped, WorkTyped, Callers, Sides, Parents, Phases
  <2>4. RunTyped'
      BY DEF Inv, Typed, RunTyped, TickTyped, Callers, Sides, Parents, Phases
  <2>5. StopTyped'
      BY DEF Inv, Typed, StopTyped, Callers, Sides, Parents, Phases
  <2>6. CliTyped'
      BY DEF Inv, Typed, CliTyped, Callers, Sides, Parents, Phases
  <2> QED
      BY <2>1, <2>2, <2>3, <2>4, <2>5, <2>6 DEF Typed
<1>2. Locked'
    BY DEF Inv, Typed, FlagsTyped, TickTyped, RunTyped, StopTyped, CliTyped, Locked, Stopping,
           Sides, Parents
<1>3. Stopping'
  <2>1. /\ up = "yes" /\ stop.at = "idle" /\ stop'.at = "pid" /\ stop'.alive = FALSE
        /\ UNCHANGED <<run, caller, side, gaps, pid, stopped>>
        /\ \/ stop'.kind = "stop" /\ up' = "yes" /\ paused'
           \/ stop'.kind = "shutdown" /\ up' = "leaving" /\ (paused => paused')
    <3>1. PICK kind \in {"stop", "shutdown"} : Request(kind)
        OBVIOUS
    <3>2. paused' = (paused \/ kind # "shutdown")
        BY <3>1
    <3> QED
        BY <3>1, <3>2
  <2> QED
      BY <2>1 DEF Inv, Stopping, Quiet, Unregistered
<1>4. Cancels'
    BY DEF Inv, Typed, FlagsTyped, RunTyped, StopTyped, CliTyped, Locked, Stopping, Cancels
<1> QED
    BY <1>1, <1>2, <1>3, <1>4 DEF Inv

LEMMA StepResumeEmbed ==
    ASSUME Inv, ResumeEmbed
    PROVE  Inv'
<1> USE DEF ResumeEmbed, Resume, work, flags, tick, files, control
<1>1. Typed'
  <2>1. WorkTyped'
      BY EmbedAssumption DEF Inv, Typed, WorkTyped, Callers, Sides, Parents, Phases
  <2>2. FlagsTyped'
      BY DEF Inv, Typed, FlagsTyped, Callers, Sides, Parents, Phases
  <2>3. TickTyped'
      BY EmbedAssumption DEF Inv, Typed, TickTyped, WorkTyped, Callers, Sides, Parents, Phases
  <2>4. RunTyped'
      BY DEF Inv, Typed, RunTyped, TickTyped, Callers, Sides, Parents, Phases
  <2>5. StopTyped'
      BY DEF Inv, Typed, StopTyped, Callers, Sides, Parents, Phases
  <2>6. CliTyped'
      BY DEF Inv, Typed, CliTyped, Callers, Sides, Parents, Phases
  <2> QED
      BY <2>1, <2>2, <2>3, <2>4, <2>5, <2>6 DEF Typed
<1>2. Locked'
    BY DEF Inv, Typed, FlagsTyped, TickTyped, RunTyped, StopTyped, CliTyped, Locked, Stopping,
           Sides, Parents
<1>3. Stopping'
    BY DEF Inv, Typed, FlagsTyped, TickTyped, RunTyped, StopTyped, CliTyped, Locked, Stopping, Quiet,
           Unregistered, Sides, Parents, Callers
<1>4. Cancels'
    BY DEF Inv, Typed, FlagsTyped, RunTyped, StopTyped, CliTyped, Locked, Stopping, Cancels
<1> QED
    BY <1>1, <1>2, <1>3, <1>4 DEF Inv

LEMMA StepStopReadPid ==
    ASSUME Inv, StopReadPid
    PROVE  Inv'
<1> USE DEF StopReadPid, Gaps, work, flags, tick, files, control
<1>1. Typed'
  <2>1. WorkTyped'
      BY EmbedAssumption DEF Inv, Typed, WorkTyped, Callers, Sides, Parents, Phases
  <2>2. FlagsTyped'
      BY DEF Inv, Typed, FlagsTyped, Callers, Sides, Parents, Phases
  <2>3. TickTyped'
      BY EmbedAssumption DEF Inv, Typed, TickTyped, WorkTyped, Callers, Sides, Parents, Phases
  <2>4. RunTyped'
      BY DEF Inv, Typed, RunTyped, TickTyped, Callers, Sides, Parents, Phases
  <2>5. StopTyped'
      BY DEF Inv, Typed, StopTyped, Callers, Sides, Parents, Phases
  <2>6. CliTyped'
      BY DEF Inv, Typed, CliTyped, Callers, Sides, Parents, Phases
  <2> QED
      BY <2>1, <2>2, <2>3, <2>4, <2>5, <2>6 DEF Typed
<1>2. Locked'
    BY DEF Inv, Typed, FlagsTyped, TickTyped, RunTyped, StopTyped, CliTyped, Locked, Stopping,
           Sides, Parents
<1>3. Stopping'
    BY DEF Inv, Typed, FlagsTyped, TickTyped, RunTyped, StopTyped, CliTyped, Locked, Stopping, Quiet,
           Unregistered, Sides, Parents, Callers
<1>4. Cancels'
    BY DEF Inv, Typed, FlagsTyped, RunTyped, StopTyped, CliTyped, Locked, Stopping, Cancels
<1> QED
    BY <1>1, <1>2, <1>3, <1>4 DEF Inv

LEMMA StepStopWrite ==
    ASSUME Inv, StopWrite
    PROVE  Inv'
<1> USE DEF StopWrite, Gaps, work, flags, tick, files, control
<1>1. Typed'
  <2>1. WorkTyped'
      BY EmbedAssumption DEF Inv, Typed, WorkTyped, Callers, Sides, Parents, Phases
  <2>2. FlagsTyped'
      BY DEF Inv, Typed, FlagsTyped, Callers, Sides, Parents, Phases
  <2>3. TickTyped'
      BY EmbedAssumption DEF Inv, Typed, TickTyped, WorkTyped, Callers, Sides, Parents, Phases
  <2>4. RunTyped'
      BY DEF Inv, Typed, RunTyped, TickTyped, Callers, Sides, Parents, Phases
  <2>5. StopTyped'
      BY DEF Inv, Typed, StopTyped, Callers, Sides, Parents, Phases
  <2>6. CliTyped'
      BY DEF Inv, Typed, CliTyped, Callers, Sides, Parents, Phases
  <2> QED
      BY <2>1, <2>2, <2>3, <2>4, <2>5, <2>6 DEF Typed
<1>2. Locked'
    BY DEF Inv, Typed, FlagsTyped, TickTyped, RunTyped, StopTyped, CliTyped, Locked, Stopping,
           Sides, Parents
<1>3. Stopping'
    BY DEF Inv, Typed, FlagsTyped, TickTyped, RunTyped, StopTyped, CliTyped, Locked, Stopping, Quiet,
           Unregistered, Sides, Parents, Callers
<1>4. Cancels'
    BY DEF Inv, Typed, FlagsTyped, RunTyped, StopTyped, CliTyped, Locked, Stopping, Cancels
<1> QED
    BY <1>1, <1>2, <1>3, <1>4 DEF Inv

LEMMA StepStopPoll ==
    ASSUME Inv, StopPoll
    PROVE  Inv'
<1> USE DEF StopPoll, work, flags, tick, files, control
<1>1. Typed'
  <2>1. WorkTyped'
      BY EmbedAssumption DEF Inv, Typed, WorkTyped, Callers, Sides, Parents, Phases
  <2>2. FlagsTyped'
      BY DEF Inv, Typed, FlagsTyped, Callers, Sides, Parents, Phases
  <2>3. TickTyped'
      BY EmbedAssumption DEF Inv, Typed, TickTyped, WorkTyped, Callers, Sides, Parents, Phases
  <2>4. RunTyped'
      BY DEF Inv, Typed, RunTyped, TickTyped, Callers, Sides, Parents, Phases
  <2>5. StopTyped'
      BY DEF Inv, Typed, StopTyped, Callers, Sides, Parents, Phases
  <2>6. CliTyped'
      BY DEF Inv, Typed, CliTyped, Callers, Sides, Parents, Phases
  <2> QED
      BY <2>1, <2>2, <2>3, <2>4, <2>5, <2>6 DEF Typed
<1>2. Locked'
    BY DEF Inv, Typed, FlagsTyped, TickTyped, RunTyped, StopTyped, CliTyped, Locked, Stopping,
           Sides, Parents
<1>3. Stopping'
    BY DEF Inv, Typed, FlagsTyped, TickTyped, RunTyped, StopTyped, CliTyped, Locked, Stopping, Quiet,
           Unregistered, Sides, Parents, Callers
<1>4. Cancels'
    BY DEF Inv, Typed, FlagsTyped, RunTyped, StopTyped, CliTyped, Locked, Stopping, Cancels
<1> QED
    BY <1>1, <1>2, <1>3, <1>4 DEF Inv

LEMMA StepStopKill ==
    ASSUME Inv, StopKill
    PROVE  Inv'
<1> USE DEF StopKill, Kill, work, flags, tick, files, control
<1>1. Typed'
  <2>1. WorkTyped'
      BY EmbedAssumption DEF Inv, Typed, WorkTyped, Callers, Sides, Parents, Phases
  <2>2. FlagsTyped'
      BY DEF Inv, Typed, FlagsTyped, Callers, Sides, Parents, Phases
  <2>3. TickTyped'
      BY EmbedAssumption DEF Inv, Typed, TickTyped, WorkTyped, Callers, Sides, Parents, Phases
  <2>4. RunTyped'
      BY DEF Inv, Typed, RunTyped, TickTyped, Callers, Sides, Parents, Phases
  <2>5. StopTyped'
      BY DEF Inv, Typed, StopTyped, Callers, Sides, Parents, Phases
  <2>6. CliTyped'
      BY DEF Inv, Typed, CliTyped, Callers, Sides, Parents, Phases
  <2> QED
      BY <2>1, <2>2, <2>3, <2>4, <2>5, <2>6 DEF Typed
<1>2. Locked'
    BY DEF Inv, Typed, FlagsTyped, TickTyped, RunTyped, StopTyped, CliTyped, Locked, Stopping,
           Sides, Parents
<1>3. Stopping'
    BY DEF Inv, Typed, FlagsTyped, TickTyped, RunTyped, StopTyped, CliTyped, Locked, Stopping, Quiet,
           Unregistered, Sides, Parents, Callers
<1>4. Cancels'
    BY DEF Inv, Typed, FlagsTyped, RunTyped, StopTyped, CliTyped, Locked, Stopping, Cancels
<1> QED
    BY <1>1, <1>2, <1>3, <1>4 DEF Inv

LEMMA StepStopReply ==
    ASSUME Inv, StopReply
    PROVE  Inv'
<1> USE DEF StopReply, DaemonEnds, NoStop, NoCall, NoSide, Idle, Gaps, Alive, work, flags, tick, files, control
<1>0. \/ /\ stop.kind # "shutdown" /\ stop' = NoStop
         /\ UNCHANGED <<inFlight, pid, run, caller, lock, up, side, gaps, paused>>
         /\ stopped' = paused
         /\ \/ UNCHANGED cli
            \/ /\ cli.at = "stopping" /\ cli'.at = "lock"
               /\ cli' = [cli EXCEPT !.at = "lock", !.resume = TRUE]
      \/ stop.kind = "shutdown" /\ DaemonEnds
    BY DEF Inv, Typed, CliTyped
<1>1. Typed'
  <2>1. WorkTyped'
      BY EmbedAssumption DEF Inv, Typed, WorkTyped, Callers, Sides, Parents, Phases
  <2>2. FlagsTyped'
      BY DEF Inv, Typed, FlagsTyped, Callers, Sides, Parents, Phases
  <2>3. TickTyped'
      BY EmbedAssumption DEF Inv, Typed, TickTyped, WorkTyped, Callers, Sides, Parents, Phases
  <2>4. RunTyped'
      BY DEF Inv, Typed, RunTyped, TickTyped, Callers, Sides, Parents, Phases
  <2>5. StopTyped'
    <3>1. /\ stop' = NoStop /\ lock' \in {lock, "none"} /\ up' \in {up, "no"}
          /\ gaps' \subseteq gaps \cup {"orphan"}
        BY <1>0
    <3> QED
        BY <3>1 DEF Inv, Typed, StopTyped, Gaps
  <2>6. CliTyped'
      BY DEF Inv, Typed, CliTyped, Callers, Sides, Parents, Phases
  <2> QED
      BY <2>1, <2>2, <2>3, <2>4, <2>5, <2>6 DEF Typed
<1>2. Locked'
  <2>1. CASE stop.kind = "shutdown" /\ DaemonEnds
    <3>1. /\ run'.at = "idle" /\ inFlight' = FALSE /\ UNCHANGED cli
          /\ lock' = IF lock = "daemon" THEN "none" ELSE lock
        BY <2>1
    <3>2. /\ side'["daemon"].at = "none" /\ side'["cli"] = side["cli"]
          /\ side'["orphan"].at # "none" => "orphan" \in gaps'
        BY <2>1 DEF Inv, Typed, RunTyped, Locked, Sides, Parents
    <3> QED
        BY <3>1, <3>2 DEF Inv, Locked
  <2>2. CASE stop.kind # "shutdown"
      BY <1>0, <2>2 DEF Inv, Locked, Typed, CliTyped
  <2> QED
      BY <1>0, <2>1, <2>2
<1>3. Stopping'
    BY DEF Inv, Typed, FlagsTyped, TickTyped, RunTyped, StopTyped, CliTyped, Locked, Stopping, Quiet,
           Unregistered, Sides, Parents, Callers
<1>4. Cancels'
    BY DEF Inv, Typed, FlagsTyped, RunTyped, StopTyped, CliTyped, Locked, Stopping, Cancels
<1> QED
    BY <1>1, <1>2, <1>3, <1>4 DEF Inv

LEMMA StepKillDaemon ==
    ASSUME Inv, KillDaemon
    PROVE  Inv'
<1> USE DEF KillDaemon, Trouble, DaemonEnds, NoStop, NoCall, NoSide, Idle, Gaps, Alive, work, flags, tick, files, control
<1>1. Typed'
  <2>1. WorkTyped'
      BY EmbedAssumption DEF Inv, Typed, WorkTyped, Callers, Sides, Parents, Phases
  <2>2. FlagsTyped'
      BY DEF Inv, Typed, FlagsTyped, Callers, Sides, Parents, Phases
  <2>3. TickTyped'
      BY EmbedAssumption DEF Inv, Typed, TickTyped, WorkTyped, Callers, Sides, Parents, Phases
  <2>4. RunTyped'
      BY DEF Inv, Typed, RunTyped, TickTyped, Callers, Sides, Parents, Phases
  <2>5. StopTyped'
      BY DEF Inv, Typed, StopTyped, Callers, Sides, Parents, Phases
  <2>6. CliTyped'
      BY DEF Inv, Typed, CliTyped, Callers, Sides, Parents, Phases
  <2> QED
      BY <2>1, <2>2, <2>3, <2>4, <2>5, <2>6 DEF Typed
<1>2. Locked'
    BY DEF Inv, Typed, FlagsTyped, TickTyped, RunTyped, StopTyped, CliTyped, Locked, Stopping,
           Sides, Parents
<1>3. Stopping'
    BY DEF Inv, Typed, FlagsTyped, TickTyped, RunTyped, StopTyped, CliTyped, Locked, Stopping, Quiet,
           Unregistered, Sides, Parents, Callers
<1>4. Cancels'
    BY DEF Inv, Typed, FlagsTyped, RunTyped, StopTyped, CliTyped, Locked, Stopping, Cancels
<1> QED
    BY <1>1, <1>2, <1>3, <1>4 DEF Inv

LEMMA StepRestartDaemon ==
    ASSUME Inv, RestartDaemon
    PROVE  Inv'
<1> USE DEF RestartDaemon, work, flags, tick, files, control
<1>1. Typed'
  <2>1. WorkTyped'
      BY EmbedAssumption DEF Inv, Typed, WorkTyped, Callers, Sides, Parents, Phases
  <2>2. FlagsTyped'
      BY DEF Inv, Typed, FlagsTyped, Callers, Sides, Parents, Phases
  <2>3. TickTyped'
      BY EmbedAssumption DEF Inv, Typed, TickTyped, WorkTyped, Callers, Sides, Parents, Phases
  <2>4. RunTyped'
      BY DEF Inv, Typed, RunTyped, TickTyped, Callers, Sides, Parents, Phases
  <2>5. StopTyped'
      BY DEF Inv, Typed, StopTyped, Callers, Sides, Parents, Phases
  <2>6. CliTyped'
      BY DEF Inv, Typed, CliTyped, Callers, Sides, Parents, Phases
  <2> QED
      BY <2>1, <2>2, <2>3, <2>4, <2>5, <2>6 DEF Typed
<1>2. Locked'
    BY DEF Inv, Typed, FlagsTyped, TickTyped, RunTyped, StopTyped, CliTyped, Locked, Stopping,
           Sides, Parents
<1>3. Stopping'
    BY DEF Inv, Typed, FlagsTyped, TickTyped, RunTyped, StopTyped, CliTyped, Locked, Stopping, Quiet,
           Unregistered, Sides, Parents, Callers
<1>4. Cancels'
    BY DEF Inv, Typed, FlagsTyped, RunTyped, StopTyped, CliTyped, Locked, Stopping, Cancels
<1> QED
    BY <1>1, <1>2, <1>3, <1>4 DEF Inv

-----------------------------------------------------------------------------
(* The command line. *)

LEMMA StepCliBegin ==
    ASSUME Inv, CliBegin
    PROVE  Inv'
<1> USE DEF CliBegin, CliStep, Request, work, flags, tick, files, control
<1>0. /\ UNCHANGED <<run, caller, side, gaps, pid, lock, stopped>>
      /\ \/ UNCHANGED <<up, paused, stop>>
         \/ /\ up = "yes" /\ up' = "yes" /\ stop.at = "idle" /\ paused'
            /\ stop' = [at |-> "pid", kind |-> "reconfigure", alive |-> FALSE]
    OBVIOUS
<1>1. Typed'
  <2>1. WorkTyped'
      BY EmbedAssumption DEF Inv, Typed, WorkTyped, Callers, Sides, Parents, Phases
  <2>2. FlagsTyped'
      BY DEF Inv, Typed, FlagsTyped, Callers, Sides, Parents, Phases
  <2>3. TickTyped'
      BY EmbedAssumption DEF Inv, Typed, TickTyped, WorkTyped, Callers, Sides, Parents, Phases
  <2>4. RunTyped'
      BY DEF Inv, Typed, RunTyped, TickTyped, Callers, Sides, Parents, Phases
  <2>5. StopTyped'
    <3>1. UNCHANGED <<lock, gaps>> /\ up' \in {"yes", up}
        BY <1>0
    <3>2. stop' = stop \/ stop' = [at |-> "pid", kind |-> "reconfigure", alive |-> FALSE]
        BY <1>0
    <3> HIDE DEF CliBegin, Request, CliStep
    <3>3. StopTyped
        BY DEF Inv, Typed
    <3>4. stop' \in [at : {"idle", "pid", "path", "poll", "kill", "reply"},
                    kind : {"none", "stop", "shutdown", "reconfigure"}, alive : BOOLEAN]
      <4>1. CASE stop' = stop
          BY <3>3, <4>1 DEF StopTyped
      <4>2. CASE stop' = [at |-> "pid", kind |-> "reconfigure", alive |-> FALSE]
          BY <4>2
      <4> QED
          BY <3>2, <4>1, <4>2
    <3> QED
        BY <3>1, <3>3, <3>4 DEF StopTyped
  <2>6. CliTyped'
      BY DEF Inv, Typed, CliTyped, Callers, Sides, Parents, Phases
  <2> QED
      BY <2>1, <2>2, <2>3, <2>4, <2>5, <2>6 DEF Typed
<1>2. Locked'
    BY DEF Inv, Typed, FlagsTyped, TickTyped, RunTyped, StopTyped, CliTyped, Locked, Stopping,
           Sides, Parents
<1>3. Stopping'
    BY <1>0 DEF Inv, Stopping, Quiet, Unregistered
<1>4. Cancels'
    BY DEF Inv, Typed, FlagsTyped, RunTyped, StopTyped, CliTyped, Locked, Stopping, Cancels
<1> QED
    BY <1>1, <1>2, <1>3, <1>4 DEF Inv

LEMMA StepCliNudge ==
    ASSUME Inv, CliNudge
    PROVE  Inv'
<1> USE DEF CliNudge, CliStep, Gaps, work, flags, tick, files, control
<1>1. Typed'
  <2>1. WorkTyped'
      BY EmbedAssumption DEF Inv, Typed, WorkTyped, Callers, Sides, Parents, Phases
  <2>2. FlagsTyped'
      BY DEF Inv, Typed, FlagsTyped, Callers, Sides, Parents, Phases
  <2>3. TickTyped'
      BY EmbedAssumption DEF Inv, Typed, TickTyped, WorkTyped, Callers, Sides, Parents, Phases
  <2>4. RunTyped'
      BY DEF Inv, Typed, RunTyped, TickTyped, Callers, Sides, Parents, Phases
  <2>5. StopTyped'
      BY DEF Inv, Typed, StopTyped, Callers, Sides, Parents, Phases
  <2>6. CliTyped'
      BY DEF Inv, Typed, CliTyped, Callers, Sides, Parents, Phases
  <2> QED
      BY <2>1, <2>2, <2>3, <2>4, <2>5, <2>6 DEF Typed
<1>2. Locked'
    BY DEF Inv, Typed, FlagsTyped, TickTyped, RunTyped, StopTyped, CliTyped, Locked, Stopping,
           Sides, Parents
<1>3. Stopping'
    BY DEF Inv, Typed, FlagsTyped, TickTyped, RunTyped, StopTyped, CliTyped, Locked, Stopping, Quiet,
           Unregistered, Sides, Parents, Callers
<1>4. Cancels'
    BY DEF Inv, Typed, FlagsTyped, RunTyped, StopTyped, CliTyped, Locked, Stopping, Cancels
<1> QED
    BY <1>1, <1>2, <1>3, <1>4 DEF Inv

LEMMA StepCliUnanswered ==
    ASSUME Inv, CliUnanswered
    PROVE  Inv'
<1> USE DEF CliUnanswered, CliStep, work, flags, tick, files, control
<1>1. Typed'
  <2>1. WorkTyped'
      BY EmbedAssumption DEF Inv, Typed, WorkTyped, Callers, Sides, Parents, Phases
  <2>2. FlagsTyped'
      BY DEF Inv, Typed, FlagsTyped, Callers, Sides, Parents, Phases
  <2>3. TickTyped'
      BY EmbedAssumption DEF Inv, Typed, TickTyped, WorkTyped, Callers, Sides, Parents, Phases
  <2>4. RunTyped'
      BY DEF Inv, Typed, RunTyped, TickTyped, Callers, Sides, Parents, Phases
  <2>5. StopTyped'
      BY DEF Inv, Typed, StopTyped, Callers, Sides, Parents, Phases
  <2>6. CliTyped'
      BY DEF Inv, Typed, CliTyped, Callers, Sides, Parents, Phases
  <2> QED
      BY <2>1, <2>2, <2>3, <2>4, <2>5, <2>6 DEF Typed
<1>2. Locked'
    BY DEF Inv, Typed, FlagsTyped, TickTyped, RunTyped, StopTyped, CliTyped, Locked, Stopping,
           Sides, Parents
<1>3. Stopping'
    BY DEF Inv, Typed, FlagsTyped, TickTyped, RunTyped, StopTyped, CliTyped, Locked, Stopping, Quiet,
           Unregistered, Sides, Parents, Callers
<1>4. Cancels'
    BY DEF Inv, Typed, FlagsTyped, RunTyped, StopTyped, CliTyped, Locked, Stopping, Cancels
<1> QED
    BY <1>1, <1>2, <1>3, <1>4 DEF Inv

LEMMA StepCliLock ==
    ASSUME Inv, CliLock
    PROVE  Inv'
<1> USE DEF CliLock, CliStep, TakeLock, ClearSentinel, work, flags, tick, files, control
<1>1. Typed'
  <2>1. WorkTyped'
      BY EmbedAssumption DEF Inv, Typed, WorkTyped, Callers, Sides, Parents, Phases
  <2>2. FlagsTyped'
      BY DEF Inv, Typed, FlagsTyped, Callers, Sides, Parents, Phases
  <2>3. TickTyped'
      BY EmbedAssumption DEF Inv, Typed, TickTyped, WorkTyped, Callers, Sides, Parents, Phases
  <2>4. RunTyped'
      BY DEF Inv, Typed, RunTyped, TickTyped, Callers, Sides, Parents, Phases
  <2>5. StopTyped'
      BY DEF Inv, Typed, StopTyped, Callers, Sides, Parents, Phases
  <2>6. CliTyped'
      BY DEF Inv, Typed, CliTyped, Callers, Sides, Parents, Phases
  <2> QED
      BY <2>1, <2>2, <2>3, <2>4, <2>5, <2>6 DEF Typed
<1>2. Locked'
    BY DEF Inv, Typed, FlagsTyped, TickTyped, RunTyped, StopTyped, CliTyped, Locked, Stopping,
           Sides, Parents
<1>3. Stopping'
    BY DEF Inv, Typed, FlagsTyped, TickTyped, RunTyped, StopTyped, CliTyped, Locked, Stopping, Quiet,
           Unregistered, Sides, Parents, Callers
<1>4. Cancels'
    BY DEF Inv, Typed, FlagsTyped, RunTyped, StopTyped, CliTyped, Locked, Stopping, Cancels
<1> QED
    BY <1>1, <1>2, <1>3, <1>4 DEF Inv

LEMMA StepCliWait ==
    ASSUME Inv, CliWait
    PROVE  Inv'
<1> USE DEF CliWait, CliStep, NoSide, work, flags, tick, files, control
<1>1. Typed'
  <2>1. WorkTyped'
      BY EmbedAssumption DEF Inv, Typed, WorkTyped, Callers, Sides, Parents, Phases
  <2>2. FlagsTyped'
      BY DEF Inv, Typed, FlagsTyped, Callers, Sides, Parents, Phases
  <2>3. TickTyped'
      BY EmbedAssumption DEF Inv, Typed, TickTyped, WorkTyped, Callers, Sides, Parents, Phases
  <2>4. RunTyped'
      BY DEF Inv, Typed, RunTyped, TickTyped, Callers, Sides, Parents, Phases
  <2>5. StopTyped'
      BY DEF Inv, Typed, StopTyped, Callers, Sides, Parents, Phases
  <2>6. CliTyped'
      BY DEF Inv, Typed, CliTyped, Callers, Sides, Parents, Phases
  <2> QED
      BY <2>1, <2>2, <2>3, <2>4, <2>5, <2>6 DEF Typed
<1>2. Locked'
    BY DEF Inv, Typed, FlagsTyped, TickTyped, RunTyped, StopTyped, CliTyped, Locked, Stopping,
           Sides, Parents
<1>3. Stopping'
    BY DEF Inv, Typed, FlagsTyped, TickTyped, RunTyped, StopTyped, CliTyped, Locked, Stopping, Quiet,
           Unregistered, Sides, Parents, Callers
<1>4. Cancels'
    BY DEF Inv, Typed, FlagsTyped, RunTyped, StopTyped, CliTyped, Locked, Stopping, Cancels
<1> QED
    BY <1>1, <1>2, <1>3, <1>4 DEF Inv

LEMMA StepCliDelete ==
    ASSUME Inv, CliDelete
    PROVE  Inv'
<1> USE DEF CliDelete, CliStep, work, flags, tick, files, control
<1>1. Typed'
  <2>1. WorkTyped'
      BY EmbedAssumption DEF Inv, Typed, WorkTyped, Callers, Sides, Parents, Phases
  <2>2. FlagsTyped'
      BY DEF Inv, Typed, FlagsTyped, Callers, Sides, Parents, Phases
  <2>3. TickTyped'
      BY EmbedAssumption DEF Inv, Typed, TickTyped, WorkTyped, Callers, Sides, Parents, Phases
  <2>4. RunTyped'
      BY DEF Inv, Typed, RunTyped, TickTyped, Callers, Sides, Parents, Phases
  <2>5. StopTyped'
      BY DEF Inv, Typed, StopTyped, Callers, Sides, Parents, Phases
  <2>6. CliTyped'
      BY DEF Inv, Typed, CliTyped, Callers, Sides, Parents, Phases
  <2> QED
      BY <2>1, <2>2, <2>3, <2>4, <2>5, <2>6 DEF Typed
<1>2. Locked'
    BY DEF Inv, Typed, FlagsTyped, TickTyped, RunTyped, StopTyped, CliTyped, Locked, Stopping,
           Sides, Parents
<1>3. Stopping'
    BY DEF Inv, Typed, FlagsTyped, TickTyped, RunTyped, StopTyped, CliTyped, Locked, Stopping, Quiet,
           Unregistered, Sides, Parents, Callers
<1>4. Cancels'
    BY DEF Inv, Typed, FlagsTyped, RunTyped, StopTyped, CliTyped, Locked, Stopping, Cancels
<1> QED
    BY <1>1, <1>2, <1>3, <1>4 DEF Inv

LEMMA StepCliEnd ==
    ASSUME Inv, CliEnd
    PROVE  Inv'
<1> USE DEF CliEnd, CliStep, Resume, work, flags, tick, files, control
<1>1. Typed'
  <2>1. WorkTyped'
      BY EmbedAssumption DEF Inv, Typed, WorkTyped, Callers, Sides, Parents, Phases
  <2>2. FlagsTyped'
      BY DEF Inv, Typed, FlagsTyped, Callers, Sides, Parents, Phases
  <2>3. TickTyped'
      BY EmbedAssumption DEF Inv, Typed, TickTyped, WorkTyped, Callers, Sides, Parents, Phases
  <2>4. RunTyped'
      BY DEF Inv, Typed, RunTyped, TickTyped, Callers, Sides, Parents, Phases
  <2>5. StopTyped'
      BY DEF Inv, Typed, StopTyped, Callers, Sides, Parents, Phases
  <2>6. CliTyped'
      BY DEF Inv, Typed, CliTyped, Callers, Sides, Parents, Phases
  <2> QED
      BY <2>1, <2>2, <2>3, <2>4, <2>5, <2>6 DEF Typed
<1>2. Locked'
    BY DEF Inv, Typed, FlagsTyped, TickTyped, RunTyped, StopTyped, CliTyped, Locked, Stopping,
           Sides, Parents
<1>3. Stopping'
    BY DEF Inv, Typed, FlagsTyped, TickTyped, RunTyped, StopTyped, CliTyped, Locked, Stopping, Quiet,
           Unregistered, Sides, Parents, Callers
<1>4. Cancels'
    BY DEF Inv, Typed, FlagsTyped, RunTyped, StopTyped, CliTyped, Locked, Stopping, Cancels
<1> QED
    BY <1>1, <1>2, <1>3, <1>4 DEF Inv

LEMMA StepCliInterrupt ==
    ASSUME Inv, CliInterrupt
    PROVE  Inv'
<1> USE DEF CliInterrupt, Trouble, Gaps, work, flags, tick, files, control
<1>1. Typed'
  <2>1. WorkTyped'
      BY EmbedAssumption DEF Inv, Typed, WorkTyped, Callers, Sides, Parents, Phases
  <2>2. FlagsTyped'
      BY DEF Inv, Typed, FlagsTyped, Callers, Sides, Parents, Phases
  <2>3. TickTyped'
      BY EmbedAssumption DEF Inv, Typed, TickTyped, WorkTyped, Callers, Sides, Parents, Phases
  <2>4. RunTyped'
      BY DEF Inv, Typed, RunTyped, TickTyped, Callers, Sides, Parents, Phases
  <2>5. StopTyped'
      BY DEF Inv, Typed, StopTyped, Callers, Sides, Parents, Phases
  <2>6. CliTyped'
      BY DEF Inv, Typed, CliTyped, Callers, Sides, Parents, Phases
  <2> QED
      BY <2>1, <2>2, <2>3, <2>4, <2>5, <2>6 DEF Typed
<1>2. Locked'
    BY DEF Inv, Typed, FlagsTyped, TickTyped, RunTyped, StopTyped, CliTyped, Locked, Stopping,
           Sides, Parents
<1>3. Stopping'
    BY DEF Inv, Typed, FlagsTyped, TickTyped, RunTyped, StopTyped, CliTyped, Locked, Stopping, Quiet,
           Unregistered, Sides, Parents, Callers
<1>4. Cancels'
    BY DEF Inv, Typed, FlagsTyped, RunTyped, StopTyped, CliTyped, Locked, Stopping, Cancels
<1> QED
    BY <1>1, <1>2, <1>3, <1>4 DEF Inv

LEMMA StepCliKilled ==
    ASSUME Inv, CliKilled
    PROVE  Inv'
<1> USE DEF CliKilled, CliStep, Trouble, NoSide, Gaps, Alive, work, flags, tick, files, control
<1>1. Typed'
  <2>1. WorkTyped'
      BY EmbedAssumption DEF Inv, Typed, WorkTyped, Callers, Sides, Parents, Phases
  <2>2. FlagsTyped'
      BY DEF Inv, Typed, FlagsTyped, Callers, Sides, Parents, Phases
  <2>3. TickTyped'
      BY EmbedAssumption DEF Inv, Typed, TickTyped, WorkTyped, Callers, Sides, Parents, Phases
  <2>4. RunTyped'
      BY DEF Inv, Typed, RunTyped, TickTyped, Callers, Sides, Parents, Phases
  <2>5. StopTyped'
      BY DEF Inv, Typed, StopTyped, Callers, Sides, Parents, Phases
  <2>6. CliTyped'
      BY DEF Inv, Typed, CliTyped, Callers, Sides, Parents, Phases
  <2> QED
      BY <2>1, <2>2, <2>3, <2>4, <2>5, <2>6 DEF Typed
<1>2. Locked'
    BY DEF Inv, Typed, FlagsTyped, TickTyped, RunTyped, StopTyped, CliTyped, Locked, Stopping,
           Sides, Parents
<1>3. Stopping'
    BY DEF Inv, Typed, FlagsTyped, TickTyped, RunTyped, StopTyped, CliTyped, Locked, Stopping, Quiet,
           Unregistered, Sides, Parents, Callers
<1>4. Cancels'
    BY DEF Inv, Typed, FlagsTyped, RunTyped, StopTyped, CliTyped, Locked, Stopping, Cancels
<1> QED
    BY <1>1, <1>2, <1>3, <1>4 DEF Inv

-----------------------------------------------------------------------------
(* What the passes work on. *)

LEMMA StepEdit ==
    ASSUME Inv, Edit
    PROVE  Inv'
<1> USE DEF Edit, work, flags, tick, files, control
<1>1. Typed'
  <2>1. WorkTyped'
      BY EmbedAssumption DEF Inv, Typed, WorkTyped, Callers, Sides, Parents, Phases
  <2>2. FlagsTyped'
      BY DEF Inv, Typed, FlagsTyped, Callers, Sides, Parents, Phases
  <2>3. TickTyped'
      BY EmbedAssumption DEF Inv, Typed, TickTyped, WorkTyped, Callers, Sides, Parents, Phases
  <2>4. RunTyped'
      BY DEF Inv, Typed, RunTyped, TickTyped, Callers, Sides, Parents, Phases
  <2>5. StopTyped'
      BY DEF Inv, Typed, StopTyped, Callers, Sides, Parents, Phases
  <2>6. CliTyped'
      BY DEF Inv, Typed, CliTyped, Callers, Sides, Parents, Phases
  <2> QED
      BY <2>1, <2>2, <2>3, <2>4, <2>5, <2>6 DEF Typed
<1>2. Locked'
    BY DEF Inv, Typed, FlagsTyped, TickTyped, RunTyped, StopTyped, CliTyped, Locked, Stopping,
           Sides, Parents
<1>3. Stopping'
    BY DEF Inv, Typed, FlagsTyped, TickTyped, RunTyped, StopTyped, CliTyped, Locked, Stopping, Quiet,
           Unregistered, Sides, Parents, Callers
<1>4. Cancels'
    BY DEF Inv, Typed, FlagsTyped, RunTyped, StopTyped, CliTyped, Locked, Stopping, Cancels
<1> QED
    BY <1>1, <1>2, <1>3, <1>4 DEF Inv

-----------------------------------------------------------------------------
(* The theorems. *)

LEMMA InitInv == Init => Inv
<1> SUFFICES ASSUME Init PROVE Inv
    OBVIOUS
<1> USE DEF Init, Idle, NoCall, NoStop, NoSide
<1>1. Typed
  <2>0. 0 \in 0..MaxEdits /\ 0 \in 0..MaxTroubles
      BY EmbedAssumption
  <2>1. WorkTyped /\ TickTyped
      BY <2>0 DEF WorkTyped, TickTyped
  <2>4. FlagsTyped
      BY DEF FlagsTyped
  <2>2. RunTyped /\ StopTyped
      BY DEF RunTyped, StopTyped, Gaps
  <2>3. CliTyped
    <3>1. PICK command \in Commands : cli = [at |-> "asked", cmd |-> command, resume |-> FALSE]
        OBVIOUS
    <3> QED
        BY <3>1 DEF CliTyped
  <2> QED
      BY <2>1, <2>2, <2>3, <2>4 DEF Typed
<1>2. Locked /\ Stopping /\ Cancels
    BY DEF Locked, Stopping, Quiet, Unregistered, Cancels, Sides, Parents
<1> QED
    BY <1>1, <1>2 DEF Inv

LEMMA StepInv == Inv /\ [Next]_vars => Inv'
<1> SUFFICES ASSUME Inv, [Next]_vars PROVE Inv'
    OBVIOUS
<1>1. CASE DaemonStep
    BY <1>1, StepTick, StepPhaseBDone, StepClaim, StepRunLock, StepRunSpawn, StepRunRegister,
       StepRunWait, StepRunUnregister, StepRunEnd DEF DaemonStep
<1>2. CASE StopEmbed \/ ResumeEmbed \/ StopStep
    BY <1>2, StepStopEmbed, StepResumeEmbed, StepStopReadPid, StepStopWrite, StepStopPoll,
       StepStopKill, StepStopReply DEF StopStep
<1>3. CASE KillDaemon \/ RestartDaemon \/ Edit
    BY <1>3, StepKillDaemon, StepRestartDaemon, StepEdit
<1>4. ASSUME NEW s \in Sides, SideStep(s) \/ SideCancel(s) \/ SideFault(s) PROVE Inv'
    BY <1>4, StepSideStart, StepSideEmbed, StepSideDone, StepSideCancel, StepSideFault
       DEF SideStep
<1>5. CASE CliWork \/ CliInterrupt \/ CliKilled
    BY <1>5, StepCliBegin, StepCliNudge, StepCliUnanswered, StepCliLock, StepCliWait,
       StepCliDelete, StepCliEnd, StepCliInterrupt, StepCliKilled DEF CliWork
<1>6. CASE UNCHANGED vars
  <2> USE <1>6 DEF vars, work, flags, tick, files, control
  <2>1. Typed'
      BY DEF Inv, Typed, WorkTyped, FlagsTyped, TickTyped, RunTyped, StopTyped, CliTyped
  <2>2. Locked' /\ Stopping' /\ Cancels'
      BY DEF Inv, Locked, Stopping, Quiet, Unregistered, Cancels
  <2> QED
      BY <2>1, <2>2 DEF Inv
<1> QED
    BY <1>1, <1>2, <1>3, <1>4, <1>5, <1>6 DEF Next

LEMMA Invariance == Spec => []Inv
BY InitInv, StepInv, PTL DEF Spec

\* Every variable keeps its type: no more tombstones than edits, no place that the
\* reindex, a stop or the command line does not have.
THEOREM TypeCorrect == Spec => []TypeOK
<1>1. Inv => TypeOK
    BY DEF Inv, Typed, WorkTyped, FlagsTyped, TickTyped, RunTyped, StopTyped, CliTyped, TypeOK
<1> QED
    BY <1>1, Invariance, PTL

\* embed.lock: as long as no sidecar has outlived its parent, at most one process
\* writes embed.db, whatever else crashes, hangs, is cancelled or killed.
THEOREM AtMostOneWriter == Spec => []OneWriter
<1>1. Inv => OneWriter
  <2> SUFFICES ASSUME Inv, "orphan" \notin gaps PROVE Cardinality(Writers) <= 1
      BY DEF OneWriter
  <2>1. /\ "daemon" \in Writers => lock = "daemon"
        /\ "cli" \in Writers => lock = "cli" /\ cli.at = "wait"
        /\ "gc" \in Writers => lock = "cli" /\ cli.at = "delete"
        /\ "orphan" \notin Writers
      BY DEF Inv, Locked, Writers, Alive, Sides, Parents
  <2>2. Writers \subseteq {"daemon", "cli", "gc"}
      BY <2>1 DEF Writers, Sides, Parents
  <2>3. PICK w : Writers \subseteq {w}
      BY <2>1, <2>2
  <2>4. IsFiniteSet({w}) /\ Cardinality({w}) = 1
      BY FS_Singleton
  <2> QED
      BY <2>3, <2>4, FS_Subset
<1> QED
    BY <1>1, Invariance, PTL

\* Once stop-embed is acknowledged no sidecar of the daemon writes vectors, however
\* the request met the reindex thread, unless the pass was not registered yet.
THEOREM StopEmbedStops == Spec => []StopStops
<1>1. Inv => StopStops
    BY DEF Inv, Stopping, Quiet, Unregistered, Locked, StopStops, Alive, Typed, RunTyped
<1> QED
    BY <1>1, Invariance, PTL

\* A sidecar of the command line is cancelled only by a cancel that came late or that
\* the command line wrote: the sentinel of the daemon's run never reaches it.
THEOREM CancelsReachTheirRun == Spec => CancelReachesItsRun
<1>1. Inv /\ [Next]_vars => [SideCancel("cli") => gaps \cap {"late", "nudge"} # {}]_vars
    BY DEF Inv, Locked, Cancels, SideCancel
<1> QED
    BY <1>1, Invariance, PTL DEF Spec, CancelReachesItsRun

=============================================================================
