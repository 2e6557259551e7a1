---------------------------- MODULE DaemonLifecycle ----------------------------
(***************************************************************************)
(* The processes that start, replace and stop the daemon of a repository:  *)
(* Daemon::run (crates/travsr-daemon/src/lib.rs) and the commands that     *)
(* bring a daemon up or take it down (crates/travsr-cli/src/               *)
(* daemon_client.rs, main.rs, init.rs), on Unix.                           *)
(*                                                                         *)
(* They share four things on disk: the flock on daemon.lock, the control   *)
(* socket, the flock on daemon-restart.lock and the breadcrumb             *)
(* daemon-start.err.  Every call that touches one of them is a step, so    *)
(* the processes interleave between any two.  daemon_lock_held is two      *)
(* steps, since it finds out whether the lock is held by taking it.        *)
(* A request to the daemon is one step: the daemon answers while it        *)
(* serves, and nobody answers before it binds or once its loop has ended.  *)
(***************************************************************************)
EXTENDS Naturals, FiniteSets

CONSTANTS
    Clients,        \* the CLI processes, each running one command
    Daemons,        \* slots for daemon processes, reused once one is gone
    Commands,       \* the commands that clients run
    MaxPolls,       \* iterations of spawn_background_daemon's loop (50)
    MaxFaults,      \* bound on crashes, failed starts and lost answers
    NoOne           \* nobody holds the lock; no socket file

ASSUME LifecycleAssumption ==
    /\ NoOne \notin Clients \cup Daemons
    /\ Clients \cap Daemons = {}
    /\ Daemons # {}
    /\ Commands \subseteq {"query", "mcp", "init", "start", "restart", "stop"}
    /\ MaxPolls \in Nat \ {0}
    /\ MaxFaults \in Nat

VARIABLES
    st,             \* where each daemon is in Daemon::run
    image,          \* the build and the path each daemon runs
    stopAsked,      \* daemons that acknowledged Shutdown (sock_shutdown)
    lock,           \* the holder of the flock on daemon.lock
    sock,           \* the daemon whose listener is at the socket path
    startErr,       \* daemon-start.err exists
    swap,           \* the holder of the flock on daemon-restart.lock
    pc,             \* where each client is
    cmd,            \* the command each client runs
    own,            \* each client's local variables
    faults,         \* faults so far
    everUp,         \* history: a daemon has held daemon.lock
    gaps            \* history: which weak points of the protocol were met

daemonVars == <<st, image, stopAsked>>
diskVars == <<lock, sock, startErr, swap>>
clientVars == <<pc, cmd, own>>
vars == <<daemonVars, diskVars, clientVars, faults, everUp, gaps>>

\* Daemon::run: forked, holding the lock, past remove_file, serving, past the
\* select loop, past the removal of the socket.
DaemonSteps == {"none", "forked", "locked", "cleaned", "serving", "stopping",
                "unlinked"}

\* Iterations of the confirmation loop and its saw_lock; whether `init' has its
\* own spawn still to do.
Own == [polls : 0..MaxPolls, sawLock : BOOLEAN, spawnDue : BOOLEAN]
Fresh == [polls |-> 0, sawLock |-> FALSE, spawnDue |-> FALSE]

ProbeSites == {"lazy", "ensure", "wait", "spawn", "poll_lock", "stop_lock"}

ClientSteps == ProbeSites \cup
    {"status", "swap", "recheck", "shutdown", "fork", "poll", "stop_send", "done"}

\* A probe was taken for a daemon; a wait for the old daemon ran out; the look
\* under the restart lock got no answer; `daemon stop' was delivered.
Gaps == {"probe", "expired", "unanswered", "stopped"}

\* The build the clients are of, and an older one at their path or another.
NewImage == [build |-> "new", exe |-> "usual"]
OldImages == [build : {"old"}, exe : {"usual", "other"}]
NoImage == [build |-> "none", exe |-> "none"]

Live(d) == st[d] \notin {"none", "forked"}
Serving(d) == st[d] = "serving"

\* Where a command first touches the daemon.
Entry(command) ==
    CASE command = "mcp" -> "lazy"
      [] command \in {"query", "init"} -> "ensure"
      [] command = "start" -> "spawn"
      [] command \in {"restart", "stop"} -> "stop_send"

-----------------------------------------------------------------------------
\* A daemon of an older build is serving, or none has run.
Init ==
    /\ \E up \in BOOLEAN, old \in OldImages : LET d == CHOOSE e \in Daemons : TRUE IN
        /\ st = [e \in Daemons |-> IF up /\ e = d THEN "serving" ELSE "none"]
        /\ image = [e \in Daemons |-> IF up /\ e = d THEN old ELSE NoImage]
        /\ lock = IF up THEN d ELSE NoOne
        /\ everUp = up
        /\ sock = lock
    /\ stopAsked = {}
    /\ startErr = FALSE
    /\ swap = NoOne
    /\ cmd \in [Clients -> Commands]
    /\ pc = [c \in Clients |-> Entry(cmd[c])]
    /\ own = [c \in Clients |-> [Fresh EXCEPT !.spawnDue = (cmd[c] = "init")]]
    /\ faults = 0
    /\ gaps = {}

-----------------------------------------------------------------------------
\* Mutated forms of definitions below: slips the properties must catch.

\* The daemon gives the lock back before it removes the socket file.
UnlockThenUnlink(d) ==
    \/ /\ st[d] = "stopping"
       /\ lock' = NoOne
       /\ st' = [st EXCEPT ![d] = "unlinked"]
       /\ UNCHANGED <<image, stopAsked, everUp, sock, startErr, swap>>
    \/ /\ st[d] = "unlinked"
       /\ sock' = NoOne
       /\ st' = [st EXCEPT ![d] = "none"]
       /\ image' = [image EXCEPT ![d] = NoImage]
       /\ stopAsked' = stopAsked \ {d}
       /\ UNCHANGED <<lock, everUp, startErr, swap>>

\* restart_if_version_skewed without the second look under the restart lock.
RecheckSkipped(c, d) ==
    /\ pc' = [pc EXCEPT ![c] = "shutdown"]
    /\ UNCHANGED <<own, swap>>

\* The restart goes on to spawn without waiting for the lock to be free.
WaitSkipped(site) ==
    CASE site = "lazy" -> "ensure"
      [] site = "ensure" -> "status"
      [] site = "wait" -> "spawn"
      [] site = "poll_lock" -> "poll"
      [] site = "stop_lock" -> "stop_send"

\* The wait for the old daemon has no budget.
WaitForever(c) == FALSE /\ UNCHANGED vars

\* The confirmation loop runs once too often.
OneMorePoll(c) == own[c].polls <= MaxPolls

-----------------------------------------------------------------------------
(* The daemon. *)

\* version_is_skewed and daemon_replaceable_from: another build, at the path
\* the client runs from.
Stale(d) ==
    /\ image[d].build # NewImage.build
    /\ image[d].exe = NewImage.exe

\* Exiting releases the flock and closes the listener; the socket file stays
\* unless the daemon removed it, and connecting to it is refused.
Exit(d) ==
    /\ st' = [st EXCEPT ![d] = "none"]
    /\ image' = [image EXCEPT ![d] = NoImage]
    /\ stopAsked' = stopAsked \ {d}
    /\ lock' = IF lock = d THEN NoOne ELSE lock
    /\ sock' = IF sock = d THEN NoOne ELSE sock

\* try_lock_exclusive on daemon.lock; the loser exits.  That the holder is a
\* client's probe rather than a daemon is the `probe' gap.
TakeLock(d) ==
    /\ st[d] = "forked"
    /\ \/ /\ lock = NoOne
          /\ lock' = d
          /\ everUp' = TRUE
          /\ st' = [st EXCEPT ![d] = "locked"]
          /\ UNCHANGED <<image, stopAsked, sock, gaps>>
       \/ /\ lock # NoOne
          /\ Exit(d)
          /\ gaps' = IF lock \in Clients THEN gaps \cup {"probe"} ELSE gaps
          /\ UNCHANGED everUp
    /\ UNCHANGED <<startErr, swap, clientVars, faults>>

\* The stores are open; remove_file takes away a socket left by another run.
RemoveStaleSocket(d) ==
    /\ st[d] = "locked"
    /\ sock' = NoOne
    /\ st' = [st EXCEPT ![d] = "cleaned"]
    /\ UNCHANGED <<image, stopAsked, lock, everUp, startErr, swap, clientVars,
                   faults, gaps>>

\* UnixListener::bind after the watcher's scan, then clear_startup_error.
Bind(d) ==
    /\ st[d] = "cleaned"
    /\ sock = NoOne
    /\ sock' = d
    /\ startErr' = FALSE
    /\ st' = [st EXCEPT ![d] = "serving"]
    /\ UNCHANGED <<image, stopAsked, lock, everUp, swap, clientVars, faults, gaps>>

\* A start that fails once the lock is held: the socket directory and the bind
\* leave a breadcrumb, the store and the watcher do not.
StartFails(d) ==
    /\ st[d] \in {"locked", "cleaned"}
    /\ faults < MaxFaults
    /\ faults' = faults + 1
    /\ \E crumb \in BOOLEAN : startErr' = (startErr \/ crumb)
    /\ Exit(d)
    /\ UNCHANGED <<everUp, swap, clientVars, gaps>>

\* A kill, a panic (the hook of main exits), SIGINT's default, or graph.db gone.
Crash(d) ==
    /\ Live(d)
    /\ faults < MaxFaults
    /\ faults' = faults + 1
    /\ Exit(d)
    /\ UNCHANGED <<everUp, startErr, swap, clientVars, gaps>>

\* Something outside deletes the socket file.
LoseSocket(d) ==
    /\ Serving(d) /\ sock = d
    /\ faults < MaxFaults
    /\ faults' = faults + 1
    /\ sock' = NoOne
    /\ UNCHANGED <<daemonVars, lock, everUp, startErr, swap, clientVars, gaps>>

\* phase_b_tick finds it gone and binds it again.
Rebind(d) ==
    /\ Serving(d)
    /\ sock = NoOne
    /\ sock' = d
    /\ UNCHANGED <<daemonVars, lock, everUp, startErr, swap, clientVars, faults, gaps>>

\* The select loop sees sock_shutdown and ends: nobody accepts any more.
LeaveLoop(d) ==
    /\ Serving(d)
    /\ d \in stopAsked
    /\ st' = [st EXCEPT ![d] = "stopping"]
    /\ UNCHANGED <<image, stopAsked, diskVars, clientVars, faults, everUp, gaps>>

\* After the drain (30 s at most) and the end of the embed reindex (10 s): the
\* socket file goes first, the lock after it, and the process exits.
WindDown(d) ==
    \/ /\ st[d] = "stopping"
       /\ sock' = NoOne
       /\ st' = [st EXCEPT ![d] = "unlinked"]
       /\ UNCHANGED <<image, stopAsked, lock, everUp, startErr, swap>>
    \/ /\ st[d] = "unlinked"
       /\ Exit(d)
       /\ UNCHANGED <<everUp, startErr, swap>>

StopStep(d) == WindDown(d) /\ UNCHANGED <<clientVars, faults, gaps>>

-----------------------------------------------------------------------------
(* The clients. *)

Goto(c, step) == pc' = [pc EXCEPT ![c] = step]
Move(c, step) == Goto(c, step) /\ UNCHANGED <<own, swap>>

\* A way out of restart_if_version_skewed or of the command.  `init' then spawns
\* on its own account; the restart lock is dropped if this client holds it.
Leave(c) ==
    /\ own' = [own EXCEPT ![c] = Fresh]
    /\ swap' = IF swap = c THEN NoOne ELSE swap
    /\ Goto(c, IF own[c].spawnDue THEN "spawn" ELSE "done")

\* What the clients' steps leave alone unless they say otherwise.
KeepDaemons == UNCHANGED <<daemonVars, everUp, sock, cmd>>

\* Where a client goes when daemon_lock_held is true.
HeldNext(site) ==
    CASE site = "lazy" -> "ensure"
      [] site = "ensure" -> "status"
      [] site = "wait" -> "wait"
      [] site = "poll_lock" -> "poll"
      [] site = "stop_lock" -> "stop_send"

\* And where it goes when it is false; `daemon stop' has nothing to stop, and
\* restart becomes a start.
FreeNext(site) ==
    CASE site \in {"lazy", "wait"} -> "spawn"
      [] site = "spawn" -> "fork"
      [] site = "poll_lock" -> "poll"
      [] site = "stop_lock" -> "wait"

\* daemon_lock_held finds the flock taken, by a daemon or by another probe.
ProbeHeld(c) ==
    /\ pc[c] \in ProbeSites
    /\ lock \notin {NoOne, c}
    /\ gaps' = IF lock \in Clients THEN gaps \cup {"probe"} ELSE gaps
    /\ \/ pc[c] = "spawn" /\ Leave(c)
       \/ /\ pc[c] # "spawn"
          /\ Goto(c, HeldNext(pc[c]))
          /\ own' = [own EXCEPT ![c].sawLock = @ \/ pc[c] = "poll_lock"]
          /\ UNCHANGED swap
    /\ UNCHANGED <<lock, startErr, faults>>
    /\ KeepDaemons

\* It gets the flock, and for the moment it holds it the others see it held.
ProbeTake(c) ==
    /\ pc[c] \in ProbeSites
    /\ lock = NoOne
    /\ lock' = c
    /\ UNCHANGED <<pc, own, swap, startErr, faults, gaps>>
    /\ KeepDaemons

\* It unlocks and answers false.  In the confirmation loop, a lock seen before
\* means that the child died.
ProbeFree(c) ==
    /\ lock = c
    /\ lock' = NoOne
    /\ \/ pc[c] = "ensure" /\ Leave(c)
       \/ pc[c] = "poll_lock" /\ own[c].sawLock /\ Leave(c)
       \/ pc[c] = "stop_lock" /\ cmd[c] = "stop" /\ Leave(c)
       \/ /\ pc[c] # "ensure"
          /\ ~(pc[c] = "poll_lock" /\ own[c].sawLock)
          /\ ~(pc[c] = "stop_lock" /\ cmd[c] = "stop")
          /\ Move(c, FreeNext(pc[c]))
    /\ UNCHANGED <<startErr, faults, gaps>>
    /\ KeepDaemons

\* The wait for the old daemon ends with its budget (10 s) while the daemon
\* still holds the lock: it may take longer than that to stop.
WaitExpires(c) ==
    /\ pc[c] = "wait"
    /\ lock \in Daemons
    /\ gaps' = gaps \cup {"expired"}
    /\ Move(c, "spawn")
    /\ UNCHANGED <<lock, startErr, faults>>
    /\ KeepDaemons

\* A request is answered: by the daemon behind the socket, while it serves.
Answers(d) == sock = d /\ Serving(d)

\* Nobody is there to answer, or the answer does not come within the deadline.
NoAnswer ==
    \/ (\A d \in Daemons : ~Answers(d)) /\ UNCHANGED faults
    \/ /\ \E d \in Daemons : Answers(d)
       /\ faults < MaxFaults
       /\ faults' = faults + 1

\* restart_if_version_skewed: the first Status.
FirstStatus(c) ==
    /\ pc[c] = "status"
    /\ \/ /\ \E d \in Daemons :
               /\ Answers(d)
               /\ \/ Stale(d) /\ Move(c, "swap")
                  \/ ~Stale(d) /\ Leave(c)
          /\ UNCHANGED faults
       \/ NoAnswer /\ Leave(c)
    /\ UNCHANGED <<lock, startErr, gaps>>
    /\ KeepDaemons

\* try_lock_restart: this client does the replacement, or another one does.
TryLockRestart(c) ==
    /\ pc[c] = "swap"
    /\ \/ swap = NoOne /\ swap' = c /\ Goto(c, "recheck") /\ UNCHANGED own
       \/ swap # NoOne /\ Leave(c)
    /\ UNCHANGED <<lock, startErr, faults, gaps>>
    /\ KeepDaemons

\* What the second Status tells: leave a daemon that is no longer stale alone.
RecheckAnswer(c, d) ==
    \/ Stale(d) /\ Move(c, "shutdown")
    \/ ~Stale(d) /\ Leave(c)

\* The second Status, under the restart lock.  Without an answer the client
\* goes on: the `unanswered' gap.
Recheck(c) ==
    /\ pc[c] = "recheck"
    /\ \/ /\ \E d \in Daemons : Answers(d) /\ RecheckAnswer(c, d)
          /\ UNCHANGED <<faults, gaps>>
       \/ /\ NoAnswer
          /\ Move(c, "shutdown")
          /\ gaps' = gaps \cup {"unanswered"}
    /\ UNCHANGED <<lock, startErr>>
    /\ KeepDaemons

\* Shutdown, its result ignored; then the wait for the lock.
SendShutdown(c) ==
    /\ pc[c] = "shutdown"
    /\ stopAsked' = stopAsked \cup {d \in Daemons : Answers(d)}
    /\ Move(c, "wait")
    /\ UNCHANGED <<st, image, lock, everUp, sock, startErr, cmd, faults, gaps>>

\* spawn_background_daemon: forget the last failure, start the worker.
Fork(c) ==
    /\ pc[c] = "fork"
    /\ \E d \in Daemons : st[d] = "none"
    /\ LET d == CHOOSE e \in Daemons : st[e] = "none"
       IN  /\ st' = [st EXCEPT ![d] = "forked"]
           /\ image' = [image EXCEPT ![d] = NewImage]
    /\ startErr' = FALSE
    /\ Move(c, "poll")
    /\ UNCHANGED <<stopAsked, lock, everUp, sock, cmd, faults, gaps>>

PollsLeft(c) == own[c].polls < MaxPolls

\* One iteration of the confirmation loop: Status, the breadcrumb, the lock.
Poll(c) ==
    /\ pc[c] = "poll"
    /\ \/ /\ ~PollsLeft(c)
          /\ Leave(c)
          /\ UNCHANGED faults
       \/ /\ PollsLeft(c)
          /\ \/ /\ \E d \in Daemons : Answers(d)
                /\ Leave(c)
                /\ UNCHANGED faults
             \/ NoAnswer /\ startErr /\ Leave(c)
             \/ /\ NoAnswer /\ ~startErr
                /\ own' = [own EXCEPT ![c].polls = @ + 1]
                /\ Goto(c, "poll_lock")
                /\ UNCHANGED swap
    /\ UNCHANGED <<lock, startErr, gaps>>
    /\ KeepDaemons

\* send_shutdown_waiting_for_startup: delivered (`daemon stop' then only watches
\* the old PID go); nobody there yet, so look at
\* the lock; or a daemon that no longer answers, which is an error.
StopSend(c) ==
    /\ pc[c] = "stop_send"
    /\ \/ /\ \E d \in Daemons : Answers(d) /\ stopAsked' = stopAsked \cup {d}
          /\ IF cmd[c] = "restart" THEN Move(c, "wait") ELSE Leave(c)
          /\ gaps' = IF cmd[c] = "stop" THEN gaps \cup {"stopped"} ELSE gaps
       \/ /\ sock = NoOne
          /\ Move(c, "stop_lock")
          /\ UNCHANGED <<stopAsked, gaps>>
       \/ /\ \E d \in Daemons : sock = d /\ ~Serving(d)
          /\ Leave(c)
          /\ UNCHANGED <<stopAsked, gaps>>
    /\ UNCHANGED <<st, image, lock, everUp, sock, startErr, cmd, faults>>

\* It gives up (120 s) on a daemon that is still starting.
StopUndelivered(c) ==
    /\ pc[c] = "stop_lock"
    /\ lock \in Daemons
    /\ Leave(c)
    /\ gaps' = gaps \cup {"expired"}
    /\ UNCHANGED <<lock, startErr, faults>>
    /\ KeepDaemons

-----------------------------------------------------------------------------
\* Every command has ended and every daemon serves or is gone.
Settled ==
    /\ \A c \in Clients : pc[c] = "done"
    /\ \A d \in Daemons :
        \/ st[d] = "none"
        \/ Serving(d) /\ d \notin stopAsked /\ sock = d

DaemonStep(d) ==
    \/ TakeLock(d) \/ RemoveStaleSocket(d) \/ Bind(d) \/ LeaveLoop(d)
    \/ StopStep(d) \/ Rebind(d)

ClientStep(c) ==
    \/ ProbeHeld(c) \/ ProbeTake(c) \/ ProbeFree(c) \/ WaitExpires(c)
    \/ FirstStatus(c) \/ TryLockRestart(c) \/ Recheck(c) \/ SendShutdown(c)
    \/ Fork(c) \/ Poll(c)
    \/ StopSend(c) \/ StopUndelivered(c)

Fault(d) == StartFails(d) \/ Crash(d) \/ LoseSocket(d)

\* Settled is no deadlock.
Rest == Settled /\ UNCHANGED vars

Next ==
    \/ \E d \in Daemons : DaemonStep(d) \/ Fault(d)
    \/ \E c \in Clients : ClientStep(c)
    \/ Rest

\* The processes keep running; nothing makes a fault happen.
Fairness ==
    /\ WF_vars(\E d \in Daemons : DaemonStep(d))
    /\ \A c \in Clients : WF_vars(ClientStep(c))

Spec == Init /\ [][Next]_vars /\ Fairness

-----------------------------------------------------------------------------
TypeOK ==
    /\ st \in [Daemons -> DaemonSteps]
    /\ image \in [Daemons -> OldImages \cup {NewImage, NoImage}]
    /\ stopAsked \subseteq Daemons
    /\ lock \in Clients \cup Daemons \cup {NoOne}
    /\ sock \in Daemons \cup {NoOne}
    /\ everUp \in BOOLEAN
    /\ startErr \in BOOLEAN
    /\ swap \in Clients \cup {NoOne}
    /\ pc \in [Clients -> ClientSteps]
    /\ cmd \in [Clients -> Commands]
    /\ own \in [Clients -> Own]
    /\ faults \in 0..MaxFaults
    /\ gaps \subseteq Gaps

\* A daemon that serves holds daemon.lock and is the one behind the socket
\* path: no start, replacement or shutdown of another daemon takes either away
\* from it (Daemon::run removes the socket while it still holds the lock).
ServingReachable ==
    \A d \in Daemons : Serving(d) =>
        /\ lock = d
        /\ sock = d \/ (sock = NoOne /\ faults > 0)

Starters == {"mcp", "init", "start", "restart"}

\* However the commands interleave, once they have ended a repository that had
\* a daemon, or whose owner asked for one, has one, and no command that checks
\* versions has left it one that it should have replaced
\* (restart_if_version_skewed: `a stale-but-live daemon beats none').  Exempt
\* are a daemon.lock probe taken for a daemon, a budget that ran out, a look
\* under the restart lock that got no answer, and `daemon stop'.
DaemonLeftRunning ==
    Settled /\ faults = 0 /\ gaps = {}
        /\ (everUp \/ \E c \in Clients : cmd[c] \in Starters)
    => \E d \in Daemons :
        /\ Serving(d)
        /\ \A c \in Clients : cmd[c] \in {"query", "mcp", "init"} => ~Stale(d)

\* The version check stops no daemon but a stale one: of two clients that both
\* saw the old daemon, the second does not stop the replacement
\* (restart_if_version_skewed, the restart lock and the second Status).  The
\* restart lock does not bind `daemon restart' and `daemon stop', and does not
\* help when the second Status gets no answer or the first restart gave up.
SwapStopsStale ==
    [][\A c \in Clients : SendShutdown(c) =>
        \/ {"unanswered", "expired"} \cap gaps # {} \/ faults > 0
        \/ \E e \in Clients : cmd[e] \in {"restart", "stop"}
        \/ \A d \in stopAsked' \ stopAsked : Stale(d)]_vars

\* Every command ends and every daemon comes to serve or to be gone: no probe,
\* wait or confirmation loop goes on for ever, and a daemon whose socket file
\* was deleted does not stay unreachable with the lock in its hands.
ComesToRest == <>Settled

=============================================================================
