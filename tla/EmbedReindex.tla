----------------------------- MODULE EmbedReindex ------------------------------
(***************************************************************************)
(* How vectors get into embed.db: the daemon's embed tick and the trigger  *)
(* after Phase B (crates/travsr-daemon/src/lib.rs), the reindex thread     *)
(* they start, the sidecar process it waits for, the cancellation of       *)
(* `stop-embed' and of the shutdown, and the same reindex run by the CLI   *)
(* (crates/travsr-plugin-host/src/embed_catalog.rs, crates/travsr-cli/src/ *)
(* embed.rs).                                                              *)
(*                                                                         *)
(* The atomics of the daemon process (in-flight flag, child PID, sentinel  *)
(* path, pause) and the files it shares with the CLI (embed.lock,          *)
(* embed.cancel) are read and written one at a time.  The sidecar is       *)
(* another program: it does what its protocol comment says, in any order   *)
(* and at any speed.                                                       *)
(***************************************************************************)
EXTENDS Integers, FiniteSets, FiniteSetsExt

CONSTANTS
    N,              \* how many nodes may be embedded
    Shells,         \* the shell numbers that k-core gives them
    Part,           \* PHASE1_COVERAGE_FRACTION is 1 / Part
    Fallback,       \* the tick's threshold when none can be derived (3)
    Commands,       \* what the CLI may be asked to do, once
    MaxEdits,       \* bound on edits
    MaxTroubles,    \* bound on crashes, hangs, kills, stop-embed and shutdown requests
    Never           \* no threshold; u64::MAX; no phase

ASSUME EmbedAssumption ==
    /\ N \in Nat \ {0}
    /\ Shells \subseteq Nat
    /\ Part \in Nat \ {0}
    /\ {Fallback, MaxEdits, MaxTroubles} \subseteq Nat
    /\ Commands \subseteq {"reindex", "reconfigure", "gc"}
    /\ Never \notin Nat

VARIABLES
    shell,          \* nodes.shell_number
    pending,        \* nodes without a vector
    stale,          \* tombstones of vectors that are still there
    phaseB,         \* phase_b_commit = last_commit
    up,             \* the daemon runs: yes, leaving, no
    paused,         \* EMBED_PAUSED
    inFlight,       \* REINDEX_IN_FLIGHT
    pid,            \* REINDEX_CHILD_PID is not 0
    path,           \* REINDEX_SENTINEL_PATH is set
    latched,        \* embed_phase2_spawned
    last,           \* LAST_INVALIDATION_PENDING
    caller,         \* the tick and the trigger after Phase B: where, which phase
    run,            \* the daemon's reindex thread: where, which phase
    stop,           \* the request being handled: where, what for, its victim
    cli,            \* the CLI process: where, which command
    side,           \* the sidecar of each parent, and the orphaned one
    lock,           \* the holder of the flock on embed.lock
    sentinel,       \* embed.cancel exists
    edits,          \* edits so far
    troubles,       \* faults and requests so far
    stopped,        \* history: a stop-embed was acknowledged and not resumed
    gaps            \* history: which weak points were met

work == <<shell, pending, stale, phaseB, edits>>
flags == <<inFlight, pid, path>>
tick == <<latched, last, caller>>
files == <<lock, sentinel>>
control == <<up, paused, stop, stopped>>
vars == <<work, flags, tick, run, files, control, cli, side, troubles, gaps>>

\* The nodes, in the order of their shells.
Nodes == 1..N

Phases == {"phase1", "phase2", "all"}
Callers == {"tick", "trigger"}
Parents == {"daemon", "cli"}
Sides == Parents \cup {"orphan"}

Idle == [at |-> "idle", phase |-> Never]
NoCall == [at |-> "idle", phase |-> Never, count |-> 0]
NoStop == [at |-> "idle", kind |-> "none", alive |-> FALSE]
NoSide == [at |-> "none", phase |-> Never]

\* A request found no PID although a pass was on its way; a cancel was written
\* for a run that was over; the command line wrote one, which nobody takes back;
\* a tombstone hidden by an unchanged count; a sidecar outlived its parent.
Gaps == {"unregistered", "late", "nudge", "uncounted", "orphan"}

Alive(s) == side[s].at \in {"starting", "running", "hung"}

-----------------------------------------------------------------------------
Init ==
    /\ shell \in [Nodes -> Shells]
    /\ \A v, w \in Nodes : v < w => shell[v] <= shell[w]
    /\ pending = Nodes
    /\ stale = 0
    /\ phaseB = TRUE
    /\ up = "yes" /\ paused = FALSE
    /\ inFlight = FALSE /\ pid = FALSE /\ path = FALSE
    /\ latched = FALSE /\ last = Never
    /\ caller = [c \in Callers |-> NoCall]
    /\ run = Idle
    /\ stop = NoStop
    /\ cli \in {[at |-> "asked", cmd |-> command, resume |-> FALSE] :
                    command \in Commands}
    /\ side = [s \in Sides |-> NoSide]
    /\ lock = "none" /\ sentinel = FALSE
    /\ edits = 0 /\ troubles = 0
    /\ stopped = FALSE
    /\ gaps = {}

-----------------------------------------------------------------------------
\* Mutated forms of definitions below: slips the properties must catch.

\* The reindex is not serialized across processes.
LockIgnored(who) == lock' = who

\* A sidecar that does not drain is left alone.
KillSkipped == UNCHANGED side

\* A new run leaves the sentinel of an earlier one where it is.
SentinelKept == UNCHANGED sentinel

\* The tick does not ask which threshold the sidecar has.
CoreByFallback == {v \in Nodes : shell[v] >= Fallback}

\* A sidecar acknowledges one tombstone, whether there is one or not.
SideAcknowledgesOne(s) ==
    /\ side[s].at = "starting"
    /\ stale' = stale - 1
    /\ side' = [side EXCEPT ![s].at = "running"]
    /\ UNCHANGED <<shell, pending, phaseB, edits, flags, tick, run, files, control,
                   cli, troubles, gaps>>

-----------------------------------------------------------------------------
(* The two phases. *)

\* The share of nodes in a shell or above it.
Above(n) == {v \in Nodes : shell[v] >= n}

\* derive_phase1_threshold: the lowest shell that, with those above it, holds
\* at most the fraction of the nodes.
Threshold ==
    LET low == {n \in {shell[v] : v \in Nodes} :
                    Cardinality(Above(n)) * Part <= Cardinality(Nodes)}
    IN  IF low = {} THEN Never ELSE Min(low)

\* The nodes a pass embeds.
Of(phase) ==
    CASE phase = "all" -> Nodes
      [] phase = "phase1" -> Above(Threshold)
      [] phase = "phase2" -> IF Threshold = Never THEN Nodes
                             ELSE Nodes \ Above(Threshold)

\* What the tick takes for phase 1.
Core == Above(IF Threshold = Never THEN Fallback ELSE Threshold)

-----------------------------------------------------------------------------
(* The tick and the trigger. *)

\* should_spawn_invalidation: once for a count, until the log was empty.
ShouldSpawn(count) == count > 0 /\ ~inFlight /\ last # count

\* The second phase is left alone only while a run goes on.
SecondPhaseUnderWay == latched /\ inFlight

\* maybe_spawn_invalidation_pass: an empty log resets the count.
Forget == last' = Never

\* A spawn function looks at the pause first.
Call(c, phase) ==
    caller' = IF paused THEN caller
              ELSE [caller EXCEPT ![c] = [at |-> "claim", phase |-> phase,
                                          count |-> IF phase = "all" THEN stale ELSE 0]]

\* maybe_spawn_embed, and the look at the pause.
Tick ==
    /\ up = "yes"
    /\ caller["tick"] = NoCall
    /\ \/ /\ pending \cap Core # {}
          /\ ~inFlight /\ phaseB
          /\ Call("tick", "phase1")
          /\ UNCHANGED <<latched, last, gaps>>
       \/ /\ pending \cap Core = {} /\ pending # {}
          /\ ~SecondPhaseUnderWay
          /\ Call("tick", "phase2")
          /\ UNCHANGED <<latched, last, gaps>>
       \/ /\ pending = {}
          /\ ~SecondPhaseUnderWay
          /\ latched' = TRUE
          /\ \/ stale = 0 /\ Forget /\ UNCHANGED <<caller, gaps>>
             \/ /\ ShouldSpawn(stale)
                /\ Call("tick", "all")
                /\ UNCHANGED <<last, gaps>>
             \/ /\ stale > 0 /\ ~ShouldSpawn(stale)
                /\ gaps' = IF last = stale /\ ~inFlight THEN gaps \cup {"uncounted"}
                           ELSE gaps
                /\ UNCHANGED <<last, caller>>
    /\ UNCHANGED <<work, flags, run, files, control, cli, side, troubles>>

\* spawn_background_reindex_* claims the in-flight flag; phase 1 wants a threshold,
\* and gives the flag back without one.  The count that the tick has read is noted.
Claim(c) ==
    /\ caller[c].at = "claim"
    /\ caller' = [caller EXCEPT ![c] = NoCall]
    /\ LET phase == caller[c].phase IN
       \/ /\ inFlight \/ (phase = "phase1" /\ Threshold = Never)
          /\ UNCHANGED <<inFlight, run, latched, last>>
       \/ /\ ~inFlight
          /\ phase = "phase1" => Threshold # Never
          /\ inFlight' = TRUE
          /\ run' = [at |-> "lock", phase |-> phase]
          /\ latched' = (latched \/ phase = "phase2")
          /\ last' = IF phase = "all" THEN caller[c].count ELSE last
    /\ UNCHANGED <<work, pid, path, files, control, cli, side, troubles, gaps>>

\* A background Phase B ends well: the markers agree, and it calls for phase 1.
PhaseBDone ==
    /\ up = "yes"
    /\ ~phaseB
    /\ caller["trigger"] = NoCall
    /\ phaseB' = TRUE
    /\ Call("trigger", "phase1")
    /\ UNCHANGED <<shell, pending, stale, edits, flags, latched, last, run,
                   files, control, cli, side, troubles, gaps>>

-----------------------------------------------------------------------------
(* run_parallel_reindex, in the daemon's thread. *)

\* try_acquire of the flock.
TakeLock(who) == lock = "none" /\ lock' = who

\* The sentinel of an earlier run must not cancel this one.
ClearSentinel == sentinel' = FALSE

Step(at) == run' = [run EXCEPT !.at = at]

RunLock ==
    /\ run.at = "lock"
    /\ \/ /\ TakeLock("daemon")
          /\ ClearSentinel
          /\ path' = TRUE
          /\ Step("spawn")
          /\ UNCHANGED inFlight
       \/ /\ lock # "none"                          \* 10 s are over
          /\ inFlight' = FALSE
          /\ run' = Idle
          /\ UNCHANGED <<files, path>>
    /\ UNCHANGED <<work, pid, tick, control, cli, side, troubles, gaps>>

RunSpawn ==
    /\ run.at = "spawn"
    /\ side' = [side EXCEPT !["daemon"] = [at |-> "starting", phase |-> run.phase]]
    /\ Step("register")
    /\ UNCHANGED <<work, flags, tick, files, control, cli, troubles, gaps>>

RunRegister ==
    /\ run.at = "register"
    /\ pid' = TRUE
    /\ Step("wait")
    /\ UNCHANGED <<work, inFlight, path, tick, files, control, cli, side, troubles, gaps>>

\* try_wait reports the exit, or the watchdog kills a sidecar without progress;
\* a sentinel counts as progress.
RunWait ==
    /\ run.at = "wait"
    /\ \/ side["daemon"].at = "exited"
       \/ side["daemon"].at = "hung" /\ ~sentinel
    /\ side' = [side EXCEPT !["daemon"] = NoSide]
    /\ stop' = [stop EXCEPT !.alive = FALSE]
    /\ Step("unregister")
    /\ UNCHANGED <<work, flags, tick, files, up, paused, stopped, cli, troubles,
                   gaps>>

\* The guards drop in reverse order: PID, then sentinel, embed.lock and flag.
RunUnregister ==
    /\ run.at = "unregister"
    /\ pid' = FALSE
    /\ Step("end")
    /\ UNCHANGED <<work, inFlight, path, tick, files, control, cli, side, troubles, gaps>>

RunEnd ==
    /\ run.at = "end"
    /\ path' = FALSE
    /\ sentinel' = FALSE
    /\ lock' = "none"
    /\ inFlight' = FALSE
    /\ run' = Idle
    /\ UNCHANGED <<work, pid, tick, control, cli, side, troubles, gaps>>

-----------------------------------------------------------------------------
(* The sidecar. *)

Trouble == troubles < MaxTroubles /\ troubles' = troubles + 1

Becomes(s, at) ==
    side' = IF s = "orphan" /\ at = "exited" THEN [side EXCEPT ![s] = NoSide]
            ELSE [side EXCEPT ![s].at = at]

KeepAllButWork == UNCHANGED <<shell, phaseB, edits, flags, tick, run, lock,
                              control, cli, troubles, gaps>>

\* It applies and acknowledges the tombstones first.
SideStart(s) ==
    /\ side[s].at = "starting"
    /\ stale' = 0
    /\ Becomes(s, "running")
    /\ UNCHANGED <<pending, sentinel>>
    /\ KeepAllButWork

SideEmbed(s) ==
    /\ side[s].at = "running"
    /\ \E v \in pending \cap Of(side[s].phase) : pending' = pending \ {v}
    /\ UNCHANGED <<stale, side, sentinel>>
    /\ KeepAllButWork

SideDone(s) ==
    /\ side[s].at = "running"
    /\ pending \cap Of(side[s].phase) = {}
    /\ Becomes(s, "exited")
    /\ UNCHANGED <<pending, stale, sentinel>>
    /\ KeepAllButWork

\* It polls for the sentinel, if it is new enough, and takes it away.
SideCancel(s) ==
    /\ side[s].at \in {"starting", "running"}
    /\ sentinel
    /\ sentinel' = FALSE
    /\ Becomes(s, "exited")
    /\ UNCHANGED <<pending, stale>>
    /\ KeepAllButWork

SideFault(s) ==
    /\ side[s].at \in {"starting", "running"}
    /\ Trouble
    /\ \E at \in {"hung", "exited"} : Becomes(s, at)
    /\ UNCHANGED <<work, flags, tick, run, files, control, cli, gaps>>

-----------------------------------------------------------------------------
(* stop-embed, resume-embed and the shutdown. *)

\* A pass of the daemon is past its look at the pause and not registered.
Unregistered ==
    \/ run.at \in {"lock", "spawn", "register"}
    \/ \E c \in Callers : caller[c].at = "claim"


\* Both call terminate_inflight_reindex; stop-embed pauses first.
Request(kind) ==
    /\ up = "yes"
    /\ stop.at = "idle"
    /\ stop' = [at |-> "pid", kind |-> kind, alive |-> FALSE]
    /\ paused' = (paused \/ kind # "shutdown")
    /\ up' = IF kind = "shutdown" THEN "leaving" ELSE "yes"

StopEmbed ==
    /\ Trouble
    /\ \E kind \in {"stop", "shutdown"} :
          /\ kind = "shutdown" => side["orphan"] = NoSide
          /\ Request(kind)
    /\ UNCHANGED <<work, flags, tick, run, files, stopped, cli, side, gaps>>

\* One request is handled at a time.
Resume ==
    /\ paused
    /\ up = "yes" /\ stop.at = "idle"
    /\ paused' = FALSE
    /\ stopped' = FALSE

ResumeEmbed ==
    /\ Resume
    /\ UNCHANGED <<work, flags, tick, run, files, up, stop, cli, side, troubles,
                   gaps>>

\* No PID: nothing is running.
StopReadPid ==
    /\ stop.at = "pid"
    /\ stop' = IF pid THEN [stop EXCEPT !.at = "path", !.alive = (run.at = "wait")]
               ELSE [stop EXCEPT !.at = "reply"]
    /\ gaps' = IF Unregistered THEN gaps \cup {"unregistered"} ELSE gaps
    /\ UNCHANGED <<work, flags, tick, run, files, up, paused, stopped, cli, side,
                   troubles>>

\* The cancel may come when the run it is for is over: the `late' gap.
StopWrite ==
    /\ stop.at = "path"
    /\ \/ ~path /\ stop' = [stop EXCEPT !.at = "kill"] /\ UNCHANGED <<sentinel, gaps>>
       \/ /\ path
          /\ sentinel' = TRUE
          /\ stop' = [stop EXCEPT !.at = "poll"]
          /\ gaps' = IF stop.alive THEN gaps ELSE gaps \cup {"late"}
    /\ UNCHANGED <<work, flags, tick, run, lock, up, paused, stopped, cli, side,
                   troubles>>

\* The sidecar is gone, or 10 s are over.
StopPoll ==
    /\ stop.at = "poll"
    /\ \/ /\ ~pid \/ ~stop.alive
          /\ sentinel' = FALSE
          /\ stop' = [stop EXCEPT !.at = "reply"]
       \/ /\ pid /\ stop.alive
          /\ stop' = [stop EXCEPT !.at = "kill"]
          /\ UNCHANGED sentinel
    /\ UNCHANGED <<work, flags, tick, run, lock, up, paused, stopped, cli, side,
                   troubles, gaps>>

\* kill_pid, of the process whose PID was read.  The PID and the sentinel are reset,
\* whoever's they are by now.
Kill == side' = IF stop.alive THEN [side EXCEPT !["daemon"].at = "exited"] ELSE side

StopKill ==
    /\ stop.at = "kill"
    /\ Kill
    /\ pid' = FALSE
    /\ sentinel' = FALSE
    /\ stop' = [stop EXCEPT !.at = "reply"]
    /\ UNCHANGED <<work, inFlight, path, tick, run, lock, up, paused, stopped,
                   cli, troubles, gaps>>

\* What the daemon process leaves behind when it ends: its threads go, its
\* flock is free, its sidecar stays.
DaemonEnds ==
    /\ up' = "no"
    /\ paused' = FALSE /\ stopped' = FALSE
    /\ inFlight' = FALSE /\ pid' = FALSE /\ path' = FALSE
    /\ latched' = FALSE /\ last' = Never
    /\ caller' = [c \in Callers |-> NoCall]
    /\ run' = Idle
    /\ stop' = NoStop
    /\ lock' = IF lock = "daemon" THEN "none" ELSE lock
    /\ side' = IF Alive("daemon")
               THEN [side EXCEPT !["orphan"] = side["daemon"], !["daemon"] = NoSide]
               ELSE [side EXCEPT !["daemon"] = NoSide]
    /\ UNCHANGED <<work, sentinel, cli>>

\* The reply; a reconfigure's client goes on with it.
StopReply ==
    /\ stop.at = "reply"
    /\ \/ /\ stop.kind # "shutdown"
          /\ stop' = NoStop
          /\ stopped' = paused
          /\ cli' = IF stop.kind = "reconfigure" /\ cli.at = "stopping"
                    THEN [cli EXCEPT !.at = "lock", !.resume = TRUE] ELSE cli
          /\ UNCHANGED <<work, flags, tick, run, files, up, paused, side>>
       \/ stop.kind = "shutdown" /\ DaemonEnds
    /\ gaps' = IF stop.kind = "shutdown" /\ Alive("daemon")
               THEN gaps \cup {"orphan"} ELSE gaps
    /\ UNCHANGED troubles

KillDaemon ==
    /\ up = "yes"
    /\ Trouble
    /\ side["orphan"] = NoSide
    /\ DaemonEnds
    /\ gaps' = IF Alive("daemon") THEN gaps \cup {"orphan"} ELSE gaps

RestartDaemon ==
    /\ up = "no"
    /\ up' = "yes"
    /\ UNCHANGED <<work, flags, tick, run, files, paused, stop, stopped, cli,
                   side, troubles, gaps>>

-----------------------------------------------------------------------------
(* The command line: embed reindex, embed reconfigure, embed gc. *)

CliStep(at) == cli' = [cli EXCEPT !.at = at]

\* trigger_reindex_now first stops the daemon's run; without a daemon it leaves a
\* sentinel for a run in another terminal.
CliBegin ==
    /\ cli.at = "asked"
    /\ \/ /\ cli.cmd # "reconfigure" \/ up = "leaving"      \* the request fails
          /\ CliStep("lock")
          /\ UNCHANGED <<up, paused, stop>>
       \/ /\ cli.cmd = "reconfigure" /\ up = "yes"
          /\ Request("reconfigure")
          /\ CliStep("stopping")
       \/ /\ cli.cmd = "reconfigure" /\ up = "no"
          /\ CliStep("nudge")
          /\ UNCHANGED <<up, paused, stop>>
    /\ UNCHANGED <<work, flags, tick, run, files, stopped, side, troubles, gaps>>

CliNudge ==
    /\ cli.at = "nudge"
    /\ sentinel' = TRUE
    /\ gaps' = gaps \cup {"nudge"}
    /\ CliStep("lock")
    /\ UNCHANGED <<work, flags, tick, run, lock, control, side, troubles>>

\* The daemon went away with the request.
CliUnanswered ==
    /\ cli.at = "stopping"
    /\ stop.kind # "reconfigure"
    /\ CliStep("lock")
    /\ UNCHANGED <<work, flags, tick, run, files, control, side, troubles, gaps>>

\* `gc' tries once, a reindex for 10 s and then starts its sidecar.
CliLock ==
    /\ cli.at = "lock"
    /\ \/ /\ TakeLock("cli")
          /\ \/ cli.cmd = "gc" /\ CliStep("delete") /\ UNCHANGED <<sentinel, side>>
             \/ /\ cli.cmd # "gc"
                /\ ClearSentinel
                /\ side' = [side EXCEPT !["cli"] = [at |-> "starting", phase |-> "all"]]
                /\ CliStep("wait")
       \/ /\ lock # "none"
          /\ CliStep("end")
          /\ UNCHANGED <<files, side>>
    /\ UNCHANGED <<work, flags, tick, run, control, troubles, gaps>>

CliWait ==
    /\ cli.at = "wait"
    /\ \/ side["cli"].at = "exited"
       \/ side["cli"].at = "hung" /\ ~sentinel
    /\ side' = [side EXCEPT !["cli"] = NoSide]
    /\ sentinel' = FALSE
    /\ lock' = "none"
    /\ CliStep("end")
    /\ UNCHANGED <<work, flags, tick, run, control, troubles, gaps>>

\* The vectors of other models are deleted; the embed.lock goes back.
CliDelete ==
    /\ cli.at = "delete"
    /\ lock' = "none"
    /\ CliStep("end")
    /\ UNCHANGED <<work, flags, tick, run, sentinel, control, side, troubles, gaps>>

\* A reconfigure undoes its pause, if a daemon answers.
CliEnd ==
    /\ cli.at = "end"
    /\ CliStep("done")
    /\ \/ cli.resume /\ Resume
       \/ ~(cli.resume /\ paused) /\ UNCHANGED <<paused, stopped>>
       \/ up # "yes" /\ UNCHANGED <<paused, stopped>>      \* nobody answers
    /\ UNCHANGED <<work, flags, tick, run, files, up, stop, side, troubles, gaps>>

\* Ctrl-C: the handler leaves a sentinel, whoever runs, and the command goes on.
CliInterrupt ==
    /\ cli.at \in {"lock", "wait"} /\ cli.cmd # "gc"
    /\ Trouble
    /\ sentinel' = TRUE
    /\ gaps' = gaps \cup {"nudge"}
    /\ UNCHANGED <<work, flags, tick, run, lock, up, paused, stop, stopped, cli, side>>

CliKilled ==
    /\ cli.at \notin {"asked", "done"}
    /\ Trouble
    /\ side["orphan"] = NoSide /\ stop.kind # "shutdown"
    /\ CliStep("done")
    /\ lock' = IF lock = "cli" THEN "none" ELSE lock
    /\ side' = IF Alive("cli")
               THEN [side EXCEPT !["orphan"] = side["cli"], !["cli"] = NoSide]
               ELSE [side EXCEPT !["cli"] = NoSide]
    /\ gaps' = IF Alive("cli") THEN gaps \cup {"orphan"} ELSE gaps
    /\ UNCHANGED <<work, flags, tick, run, sentinel, control>>

-----------------------------------------------------------------------------
(* What the passes work on. *)

\* A saved file: a node to embed anew, or a tombstone for a vector.
Edit ==
    /\ edits < MaxEdits
    /\ edits' = edits + 1
    /\ \/ \E v \in Nodes : pending' = pending \cup {v} /\ UNCHANGED stale
       \/ stale' = stale + 1 /\ UNCHANGED pending
    /\ phaseB' \in {phaseB, FALSE}                          \* committed, too
    /\ UNCHANGED <<shell, flags, tick, run, files, control, cli, side, troubles,
                   gaps>>

-----------------------------------------------------------------------------
DaemonStep ==
    \/ Tick \/ PhaseBDone
    \/ \E c \in Callers : Claim(c)
    \/ RunLock \/ RunSpawn \/ RunRegister \/ RunWait
    \/ RunUnregister \/ RunEnd

StopStep ==
    StopReadPid \/ StopWrite \/ StopPoll \/ StopKill \/ StopReply

SideStep(s) == SideStart(s) \/ SideEmbed(s) \/ SideDone(s)

CliWork ==
    CliBegin \/ CliNudge \/ CliUnanswered \/ CliLock \/ CliWait
    \/ CliDelete \/ CliEnd

Next ==
    \/ DaemonStep
    \/ StopEmbed \/ ResumeEmbed \/ StopStep
    \/ KillDaemon \/ RestartDaemon
    \/ \E s \in Sides : SideStep(s) \/ SideCancel(s) \/ SideFault(s)
    \/ CliWork \/ CliInterrupt \/ CliKilled
    \/ Edit

\* Threads are scheduled, a sidecar that does not hang gets on with its work, the
\* supervisor of the daemon starts it again, a background Phase B ends.
Fairness ==
    /\ WF_vars(Tick) /\ WF_vars(PhaseBDone)
    /\ \A c \in Callers : WF_vars(Claim(c))
    /\ WF_vars(RunLock \/ RunSpawn \/ RunRegister \/ RunWait \/ RunUnregister
               \/ RunEnd)
    /\ WF_vars(StopStep)
    /\ \A s \in Sides : WF_vars(SideStep(s))
    /\ WF_vars(CliWork)
    /\ WF_vars(RestartDaemon)

Spec == Init /\ [][Next]_vars /\ Fairness

-----------------------------------------------------------------------------
(* Properties. *)

\* Every variable has its type.
TypeOK ==
    /\ shell \in [Nodes -> Shells]
    /\ pending \subseteq Nodes
    /\ stale \in 0..MaxEdits
    /\ {phaseB, paused, inFlight, pid, path, latched, sentinel, stopped}
            \subseteq BOOLEAN
    /\ up \in {"yes", "leaving", "no"}
    /\ last \in Nat \cup {Never}
    /\ caller \in [Callers -> [at : {"idle", "claim"}, phase : Phases \cup {Never},
                            count : 0..MaxEdits]]
    /\ run \in [at : {"idle", "lock", "spawn", "register", "wait", "unregister",
                      "end"}, phase : Phases \cup {Never}]
    /\ stop \in [at : {"idle", "pid", "path", "poll", "kill", "reply"},
                 kind : {"none", "stop", "shutdown", "reconfigure"}, alive : BOOLEAN]
    /\ cli \in [at : {"asked", "stopping", "nudge", "lock", "wait", "delete",
                      "end", "done"}, cmd : Commands, resume : BOOLEAN]
    /\ side \in [Sides -> [at : {"none", "starting", "running", "hung", "exited"},
                           phase : Phases \cup {Never}]]
    /\ lock \in Parents \cup {"none"}
    /\ edits \in 0..MaxEdits /\ troubles \in 0..MaxTroubles
    /\ gaps \subseteq Gaps

\* Who may write embed.db now.
Writers == {s \in Sides : Alive(s)} \cup {s \in {"gc"} : cli.at = "delete"}

\* embed.lock: two passes, or a pass and a gc, never write embed.db at the same
\* time, unless a sidecar has outlived the process that held the lock for it.
OneWriter == "orphan" \notin gaps => Cardinality(Writers) <= 1

\* stop-embed: once it is acknowledged, and until somebody resumes, no sidecar of
\* the daemon writes vectors.  The exception is a pass that was on its way and not
\* registered when the request looked for it.
StopStops == stopped => ~Alive("daemon") \/ "unregistered" \in gaps

\* The sentinel of one run does not cancel another one: a sidecar of the CLI,
\* which nobody asked to stop, is cancelled only by a cancel that came late, or by
\* one that the command line itself wrote.
CancelReachesItsRun ==
    [][SideCancel("cli") => gaps \cap {"late", "nudge"} # {}]_vars

\* The daemon is up and not paused from some point on, and no sentinel lies around
\* that only the command line could take away.
LeftToWork == <>[](up = "yes" /\ ~paused /\ "nudge" \notin gaps)

\* The tick and the sidecar agree on phase 1: a threshold is found, or no node is in
\* the shells that the tick takes for phase 1 without one.
Agree == Threshold # Never \/ Above(Fallback) = {}

\* Every node gets its vector and every tombstone is applied, whatever crashed, hung
\* or was cancelled before; unless the tick took an unchanged count of tombstones for
\* an unchanged log.
AllEmbedded ==
    LeftToWork /\ Agree
        => <>[](pending = {} /\ (stale = 0 \/ "uncounted" \in gaps))

\* Every node gets its vector, whatever the shells of the graph are.
AlwaysEmbedded == LeftToWork => <>[](pending = {})

=============================================================================
