------------------------- MODULE DaemonLifecycleProofs --------------------------
(***************************************************************************)
(* For any number of clients and daemons: a serving daemon is reachable,   *)
(* the version check stops none but a stale one, and a repository keeps a  *)
(* daemon of the build its clients want.  All three rest on one fact: a    *)
(* daemon that lives holds daemon.lock.                                    *)
(***************************************************************************)
EXTENDS DaemonLifecycle, TLAPS

-----------------------------------------------------------------------------
(* The inductive invariants. *)

\* A live daemon has the lock, and nobody else but a client that probes for it;
\* a socket file is that of a daemon that has not removed it yet; only a fault
\* parts a serving daemon from its socket.
Lock ==
    /\ \A d \in Daemons : Live(d) <=> lock = d
    /\ \A c \in Clients : lock = c => pc[c] \in ProbeSites
    /\ \A d \in Daemons : sock = d => st[d] \in {"serving", "stopping"}
    /\ \A d \in Daemons : Serving(d) => sock = d \/ (sock = NoOne /\ faults > 0)

\* Who is asked to stop serves or has served; who leaves its loop was asked; an
\* older build was there from the start.
Asked ==
    /\ \A d \in stopAsked : st[d] \in {"serving", "stopping", "unlinked"}
    /\ \A d \in Daemons : st[d] \in {"stopping", "unlinked"} => d \in stopAsked
    /\ \A d \in Daemons : image[d].build = "old" => st[d] \in {"serving", "stopping", "unlinked"}

BaseInv == TypeOK /\ Lock /\ Asked

\* No weak point of the restart lock was met, and only version checks stop
\* daemons.
OnlySwaps ==
    /\ {"unanswered", "expired"} \cap gaps = {} /\ faults = 0
    /\ \A e \in Clients : cmd[e] \notin {"restart", "stop"}

\* The holder of the restart lock is the only one to stop a daemon and to wait
\* for it, and the stale daemon it looked at is still there when it stops it.
OneSwap ==
    /\ \A c \in Clients : pc[c] \in {"recheck", "shutdown", "wait"} => swap = c
    /\ \A c \in Clients : pc[c] \notin {"stop_send", "stop_lock"}
    /\ \A d \in stopAsked : \E c \in Clients : pc[c] = "wait"
    /\ \A c \in Clients : pc[c] = "shutdown" => \E d \in Daemons : Serving(d) /\ Stale(d)

SwapInv == OnlySwaps => OneSwap

\* The client has a daemon still to spawn.
WillSpawn(c) ==
    \/ pc[c] \in {"lazy", "wait", "spawn", "fork"}
    \/ own[c].spawnDue
    \/ cmd[c] = "restart" /\ pc[c] \in {"stop_send", "stop_lock"}

Checkers == {c \in Clients : cmd[c] \in {"query", "mcp", "init"}}

\* Up to the decision to replace the daemon.
Checking == {"lazy", "ensure", "status", "swap"}

\* Whoever asked a daemon to stop waits to spawn its successor.
StopHasHeir ==
    \A d \in stopAsked : \E c \in Clients : pc[c] = "wait"

\* There is a daemon or a client about to spawn one.
DaemonAhead ==
    everUp \/ (\E c \in Clients : cmd[c] \in Starters) =>
        \/ \E c \in Clients : WillSpawn(c)
        \/ \E d \in Daemons : st[d] # "none"

\* While a stale daemon is left alone, every client that checks versions has
\* its check ahead, or another client is in the middle of the replacement.
StaleSeen ==
    \A d \in Daemons : Live(d) /\ Stale(d) /\ d \notin stopAsked =>
        \/ swap = NoOne /\ \A c \in Checkers : pc[c] \in Checking
        \/ \E c \in Clients : swap = c /\ pc[c] \in {"recheck", "shutdown"}

\* `init' has its own spawn ahead until it has left for it.
DueNotDone == \A c \in Clients : pc[c] = "done" => ~own[c].spawnDue

\* Only these two commands send a Shutdown that no version check asks for.
OnlyStops ==
    \A c \in Clients : pc[c] \in {"stop_send", "stop_lock"} => cmd[c] \in {"restart", "stop"}

Succession == StopHasHeir /\ DaemonAhead /\ StaleSeen

HeirInv == DueNotDone /\ OnlyStops /\ (faults = 0 /\ gaps = {} => Succession)

-----------------------------------------------------------------------------
(* The lock: type correctness and ServingReachable. *)

\* The invariant holds initially.
LEMMA InitBase == Init => BaseInv
<1> SUFFICES ASSUME Init PROVE BaseInv
    OBVIOUS
<1> USE LifecycleAssumption
<1>1. PICK up \in BOOLEAN, old \in OldImages : LET d == CHOOSE e \in Daemons : TRUE IN
        /\ st = [e \in Daemons |-> IF up /\ e = d THEN "serving" ELSE "none"]
        /\ image = [e \in Daemons |-> IF up /\ e = d THEN old ELSE NoImage]
        /\ lock = IF up THEN d ELSE NoOne
        /\ everUp = up
        /\ sock = lock
    BY DEF Init
<1> DEFINE d == CHOOSE e \in Daemons : TRUE
<1>2. d \in Daemons
    OBVIOUS
<1> HIDE DEF d
<1>3. /\ st = [e \in Daemons |-> IF up /\ e = d THEN "serving" ELSE "none"]
      /\ image = [e \in Daemons |-> IF up /\ e = d THEN old ELSE NoImage]
      /\ lock = IF up THEN d ELSE NoOne
      /\ everUp = up
      /\ sock = lock
    BY <1>1 DEF d
<1>4. /\ stopAsked = {} /\ startErr = FALSE /\ swap = NoOne /\ faults = 0 /\ gaps = {}
      /\ cmd \in [Clients -> Commands]
      /\ pc = [c \in Clients |-> Entry(cmd[c])]
      /\ own = [c \in Clients |-> [Fresh EXCEPT !.spawnDue = (cmd[c] = "init")]]
    BY DEF Init
<1>5. TypeOK
  <2>1. st \in [Daemons -> DaemonSteps] /\ image \in [Daemons -> OldImages \cup {NoImage}]
      BY <1>3 DEF DaemonSteps
  <2>2. lock \in Clients \cup Daemons \cup {NoOne} /\ sock \in Daemons \cup {NoOne}
      BY <1>2, <1>3
  <2>3. pc \in [Clients -> ClientSteps]
      BY <1>4 DEF Entry, ClientSteps, ProbeSites
  <2>4. own \in [Clients -> Own]
    <3>1. ASSUME NEW b \in BOOLEAN PROVE [Fresh EXCEPT !.spawnDue = b] \in Own
      <4>1. Fresh \in Own
          BY DEF Fresh, Own
      <4>2. \A f \in Own : [f EXCEPT !.spawnDue = b] \in Own
          BY DEF Own
      <4> QED
          BY <4>1, <4>2
    <3> QED
        BY <1>4, <3>1
  <2>5. everUp \in BOOLEAN /\ startErr \in BOOLEAN
      BY <1>3, <1>4
  <2>6. swap \in Clients \cup {NoOne} /\ faults \in 0..MaxFaults /\ gaps \subseteq Gaps
      BY <1>4
  <2> QED
      BY <1>4, <2>1, <2>2, <2>3, <2>4, <2>5, <2>6 DEF TypeOK
<1>6. Lock
    BY <1>2, <1>3 DEF Lock, Live, Serving
<1>7. Asked
  <2>1. ASSUME NEW e \in Daemons, image[e].build = "old"
        PROVE  st[e] = "serving"
      BY <1>3, <2>1 DEF NoImage
  <2> QED
      BY <1>3, <1>4, <2>1 DEF Asked
<1> QED
    BY <1>5, <1>6, <1>7 DEF BaseInv

\* The steps and the faults of a daemon preserve it: the lock goes with the
\* daemon, and the socket file before the lock.
LEMMA DaemonBase ==
    ASSUME NEW d \in Daemons, BaseInv, DaemonStep(d) \/ Fault(d) PROVE BaseInv'
<1> USE LifecycleAssumption DEF BaseInv
<1>1. ASSUME Exit(d), UNCHANGED <<swap, clientVars>>, startErr' \in BOOLEAN,
             everUp' \in BOOLEAN, faults' \in 0..MaxFaults, faults' >= faults,
             gaps' \subseteq Gaps
      PROVE  BaseInv'
  <2>1. TypeOK'
      BY <1>1 DEF TypeOK, Exit, DaemonSteps, clientVars
  <2>2. Lock'
      BY <1>1 DEF TypeOK, Lock, Exit, Live, Serving, DaemonSteps, clientVars
  <2>3. Asked'
      BY <1>1 DEF TypeOK, Asked, Exit, NoImage
  <2> QED
      BY <2>1, <2>2, <2>3
<1>2. CASE TakeLock(d)
  <2>1. CASE lock = NoOne
    <3>1. TypeOK'
        BY <1>2, <2>1 DEF TakeLock, TypeOK, DaemonSteps, clientVars
    <3>2. Lock'
        BY <1>2, <2>1 DEF TakeLock, TypeOK, Lock, Live, Serving, DaemonSteps, clientVars
    <3>3. Asked'
        BY <1>2, <2>1 DEF TakeLock, TypeOK, Asked
    <3> QED
        BY <3>1, <3>2, <3>3
  <2>2. CASE lock # NoOne
    <3>1. gaps' \subseteq Gaps
        BY <1>2, <2>2 DEF TakeLock, TypeOK, Gaps
    <3> QED
        BY <1>1, <1>2, <2>2, <3>1 DEF TakeLock, TypeOK
  <2> QED
      BY <2>1, <2>2
<1>3. CASE RemoveStaleSocket(d)
  <2>1. TypeOK'
      BY <1>3 DEF RemoveStaleSocket, TypeOK, DaemonSteps, clientVars
  <2>2. Lock'
      BY <1>3 DEF RemoveStaleSocket, TypeOK, Lock, Live, Serving, DaemonSteps, clientVars
  <2>3. Asked'
      BY <1>3 DEF RemoveStaleSocket, TypeOK, Asked
  <2> QED
      BY <2>1, <2>2, <2>3
<1>4. CASE Bind(d)
  <2>1. TypeOK'
      BY <1>4 DEF Bind, TypeOK, DaemonSteps, clientVars
  <2>2. Lock'
      BY <1>4 DEF Bind, TypeOK, Lock, Live, Serving, DaemonSteps, clientVars
  <2>3. Asked'
      BY <1>4 DEF Bind, TypeOK, Asked
  <2> QED
      BY <2>1, <2>2, <2>3
<1>5. CASE LeaveLoop(d)
  <2>1. TypeOK'
      BY <1>5 DEF LeaveLoop, TypeOK, DaemonSteps, clientVars, diskVars
  <2>2. Lock'
      BY <1>5 DEF LeaveLoop, TypeOK, Lock, Live, Serving, DaemonSteps, clientVars, diskVars
  <2>3. Asked'
      BY <1>5 DEF LeaveLoop, TypeOK, Asked
  <2> QED
      BY <2>1, <2>2, <2>3
<1>6. CASE StopStep(d)
  <2>1. CASE st[d] = "stopping"
    <3>1. /\ sock' = NoOne /\ st' = [st EXCEPT ![d] = "unlinked"]
          /\ UNCHANGED <<image, stopAsked, lock, everUp, startErr, swap, clientVars, faults, gaps>>
        BY <1>6, <2>1 DEF StopStep, WindDown
    <3>2. TypeOK'
        BY <3>1 DEF TypeOK, DaemonSteps, clientVars
    <3>3. Lock'
        BY <2>1, <3>1 DEF TypeOK, Lock, Live, Serving, DaemonSteps, clientVars
    <3>4. Asked'
        BY <2>1, <3>1 DEF TypeOK, Asked
    <3> QED
        BY <3>2, <3>3, <3>4
  <2>2. CASE st[d] = "unlinked"
      BY <1>1, <1>6, <2>2 DEF StopStep, WindDown, TypeOK
  <2> QED
      BY <1>6, <2>1, <2>2 DEF StopStep, WindDown
<1>7. CASE Rebind(d)
  <2>1. TypeOK'
      BY <1>7 DEF Rebind, TypeOK, DaemonSteps, clientVars, daemonVars
  <2>2. Lock'
      BY <1>7 DEF Rebind, TypeOK, Lock, Live, Serving, DaemonSteps, clientVars, daemonVars
  <2>3. Asked'
      BY <1>7 DEF Rebind, TypeOK, Asked, daemonVars
  <2> QED
      BY <2>1, <2>2, <2>3
<1>8. CASE StartFails(d) \/ Crash(d)
  <2>1. Exit(d) /\ UNCHANGED <<swap, clientVars>> /\ UNCHANGED gaps /\ UNCHANGED everUp
      BY <1>8 DEF StartFails, Crash
  <2>2. startErr' \in BOOLEAN /\ faults' \in 0..MaxFaults /\ faults' >= faults
      BY <1>8 DEF StartFails, Crash, TypeOK
  <2> QED
      BY <1>1, <2>1, <2>2 DEF TypeOK
<1>9. CASE LoseSocket(d)
  <2>1. TypeOK'
      BY <1>9 DEF LoseSocket, TypeOK, DaemonSteps, clientVars, daemonVars
  <2>2. Lock'
      BY <1>9 DEF LoseSocket, TypeOK, Lock, Live, Serving, DaemonSteps, clientVars, daemonVars
  <2>3. Asked'
      BY <1>9 DEF LoseSocket, TypeOK, Asked, daemonVars
  <2> QED
      BY <2>1, <2>2, <2>3
<1> QED
    BY <1>2, <1>3, <1>4, <1>5, <1>6, <1>7, <1>8, <1>9 DEF DaemonStep, Fault

\* What a client's step may change without disturbing the invariant: its own
\* place, a lock that it gives back, and a request to stop a daemon that serves.
LEMMA ClientMoves ==
    ASSUME BaseInv, NEW c \in Clients, NEW step \in ClientSteps,
           pc' = [pc EXCEPT ![c] = step],
           own' \in [Clients -> Own], swap' \in Clients \cup {NoOne},
           UNCHANGED <<st, image, everUp, sock, cmd>>,
           stopAsked \subseteq stopAsked',
           \A d \in stopAsked' : d \in stopAsked \/ (d \in Daemons /\ Serving(d)),
           startErr' \in BOOLEAN,
           faults' \in 0..MaxFaults, faults' >= faults,
           gaps' \subseteq Gaps,
           \/ lock # c /\ lock' = lock
           \/ lock = c /\ lock' = NoOne
    PROVE  BaseInv'
<1> USE LifecycleAssumption DEF BaseInv
<1>1. TypeOK'
    BY DEF TypeOK
<1>2. Lock'
    BY DEF TypeOK, Lock, Live, Serving
<1>3. Asked'
    BY DEF TypeOK, Asked, Serving
<1> QED
    BY <1>1, <1>2, <1>3

\* Leaving and moving on keep the clients' variables in their types.
LEMMA LeaveTyped ==
    ASSUME TypeOK, NEW c \in Clients, Leave(c)
    PROVE  /\ \E step \in ClientSteps : pc' = [pc EXCEPT ![c] = step]
           /\ own' \in [Clients -> Own]
           /\ swap' \in Clients \cup {NoOne}
<1>1. Fresh \in Own
    BY LifecycleAssumption DEF Fresh, Own
<1>2. \E step \in {"spawn", "done"} : pc' = [pc EXCEPT ![c] = step]
    BY DEF Leave, Goto
<1>3. own' \in [Clients -> Own] /\ swap' \in Clients \cup {NoOne}
    BY <1>1 DEF Leave, TypeOK
<1> QED
    BY <1>2, <1>3 DEF ClientSteps, ProbeSites

\* The steps of a client preserve the invariant.
LEMMA ClientBase ==
    ASSUME NEW c \in Clients, BaseInv, ClientStep(c) PROVE BaseInv'
<1> USE LifecycleAssumption DEF BaseInv
<1>1. ASSUME Leave(c) \/ (\E step \in ClientSteps : Move(c, step)),
             UNCHANGED <<st, image, everUp, sock, cmd>>,
             stopAsked \subseteq stopAsked',
             \A d \in stopAsked' : d \in stopAsked \/ (d \in Daemons /\ Serving(d)),
             UNCHANGED startErr,
             faults' \in 0..MaxFaults, faults' >= faults,
             gaps' \subseteq Gaps,
             \/ lock # c /\ lock' = lock
             \/ lock = c /\ lock' = NoOne
      PROVE  BaseInv'
  <2>1. /\ \E step \in ClientSteps : pc' = [pc EXCEPT ![c] = step]
        /\ own' \in [Clients -> Own]
        /\ swap' \in Clients \cup {NoOne}
      BY <1>1, LeaveTyped DEF Move, Goto, TypeOK
  <2>2. startErr' \in BOOLEAN
      BY <1>1 DEF TypeOK
  <2> QED
      BY <1>1, <2>1, <2>2, ClientMoves
<1>2. pc[c] \notin ProbeSites => lock # c
    BY DEF Lock
<1>3. KeepDaemons => /\ UNCHANGED <<st, image, everUp, sock, cmd>>
                     /\ stopAsked \subseteq stopAsked'
                     /\ \A d \in stopAsked' : d \in stopAsked \/ (d \in Daemons /\ Serving(d))
    BY DEF KeepDaemons, daemonVars
<1>4. faults \in 0..MaxFaults /\ gaps \subseteq Gaps
    BY DEF TypeOK
<1>5. NoAnswer => faults' \in 0..MaxFaults /\ faults' >= faults
    BY <1>4 DEF NoAnswer
<1>6. CASE ProbeHeld(c)
  <2>1. gaps' \subseteq Gaps /\ lock # c /\ lock' = lock /\ UNCHANGED <<startErr, faults>> /\ KeepDaemons
      BY <1>4, <1>6 DEF ProbeHeld, Gaps
  <2>2. CASE Leave(c)
      BY <1>1, <1>3, <1>4, <2>1, <2>2
  <2>3. CASE /\ pc[c] # "spawn"
             /\ Goto(c, HeldNext(pc[c]))
             /\ own' = [own EXCEPT ![c].sawLock = @ \/ pc[c] = "poll_lock"]
             /\ UNCHANGED swap
    <3>1. HeldNext(pc[c]) \in ClientSteps
        BY <1>6, <2>3 DEF ProbeHeld, HeldNext, ProbeSites, ClientSteps
    <3>2. own' \in [Clients -> Own]
      <4>1. own \in [Clients -> Own] /\ own[c] \in Own
          BY DEF TypeOK
      <4>2. [own[c] EXCEPT !.sawLock = @ \/ pc[c] = "poll_lock"] \in Own
          BY <4>1 DEF Own
      <4> HIDE DEF BaseInv
      <4> QED
          BY <2>3, <4>1, <4>2
    <3>3. /\ pc' = [pc EXCEPT ![c] = HeldNext(pc[c])]
          /\ swap' \in Clients \cup {NoOne} /\ startErr' \in BOOLEAN
          /\ faults' \in 0..MaxFaults /\ faults' >= faults
        BY <2>1, <2>3 DEF Goto, TypeOK
    <3> HIDE DEF BaseInv
    <3> QED
        BY <1>3, <2>1, <3>1, <3>2, <3>3, ClientMoves
  <2> QED
      BY <1>6, <2>2, <2>3 DEF ProbeHeld
<1>7. CASE ProbeTake(c)
  <2>1. TypeOK'
      BY <1>7 DEF ProbeTake, KeepDaemons, daemonVars, TypeOK
  <2>2. Lock'
      BY <1>7 DEF ProbeTake, KeepDaemons, daemonVars, TypeOK, Lock, Live, Serving
  <2>3. Asked'
      BY <1>7 DEF ProbeTake, KeepDaemons, daemonVars, TypeOK, Asked
  <2> QED
      BY <2>1, <2>2, <2>3
<1>8. CASE ProbeFree(c)
  <2>1. lock = c /\ lock' = NoOne /\ UNCHANGED <<startErr, faults, gaps>> /\ KeepDaemons
      BY <1>8 DEF ProbeFree
  <2>2. pc[c] \in ProbeSites
      BY <2>1 DEF Lock
  <2>3. pc[c] # "ensure" => FreeNext(pc[c]) \in ClientSteps
      BY <2>2 DEF FreeNext, ProbeSites, ClientSteps
  <2>4. Leave(c) \/ (\E step \in ClientSteps : Move(c, step))
      BY <1>8, <2>3 DEF ProbeFree
  <2> QED
      BY <1>1, <1>3, <1>4, <2>1, <2>4
<1>9. CASE WaitExpires(c)
  <2>1. lock # c /\ lock' = lock /\ UNCHANGED <<startErr, faults>> /\ KeepDaemons
      BY <1>9 DEF WaitExpires
  <2>2. gaps' \subseteq Gaps
      BY <1>4, <1>9 DEF WaitExpires, Gaps
  <2>3. \E step \in ClientSteps : Move(c, step)
      BY <1>9 DEF WaitExpires, ClientSteps, ProbeSites
  <2> QED
      BY <1>1, <1>3, <1>4, <2>1, <2>2, <2>3
<1>10. CASE FirstStatus(c)
  <2>1. lock # c /\ lock' = lock /\ UNCHANGED <<startErr, gaps>> /\ KeepDaemons
      BY <1>2, <1>10 DEF FirstStatus, ProbeSites
  <2>2. Leave(c) \/ (\E step \in ClientSteps : Move(c, step))
      BY <1>10 DEF FirstStatus, ClientSteps, ProbeSites
  <2>3. faults' \in 0..MaxFaults /\ faults' >= faults
      BY <1>4, <1>5, <1>10 DEF FirstStatus
  <2> QED
      BY <1>1, <1>3, <1>4, <2>1, <2>2, <2>3
<1>11. CASE TryLockRestart(c)
  <2>1. lock # c /\ lock' = lock /\ UNCHANGED <<startErr, faults, gaps>> /\ KeepDaemons
      BY <1>2, <1>11 DEF TryLockRestart, ProbeSites
  <2>2. CASE swap = NoOne /\ swap' = c /\ Goto(c, "recheck") /\ UNCHANGED own
    <3>1. "recheck" \in ClientSteps
        BY DEF ClientSteps
    <3>2. /\ pc' = [pc EXCEPT ![c] = "recheck"]
          /\ swap' \in Clients \cup {NoOne} /\ own' \in [Clients -> Own]
          /\ startErr' \in BOOLEAN /\ faults' \in 0..MaxFaults /\ faults' >= faults
          /\ gaps' \subseteq Gaps
        BY <2>1, <2>2 DEF Goto, TypeOK
    <3> HIDE DEF BaseInv
    <3> QED
        BY <1>3, <2>1, <3>1, <3>2, ClientMoves
  <2>3. CASE Leave(c)
      BY <1>1, <1>3, <1>4, <2>1, <2>3
  <2> QED
      BY <1>11, <2>2, <2>3 DEF TryLockRestart
<1>12. CASE Recheck(c)
  <2>1. lock # c /\ lock' = lock /\ UNCHANGED startErr /\ KeepDaemons
      BY <1>2, <1>12 DEF Recheck, ProbeSites
  <2>2. Leave(c) \/ (\E step \in ClientSteps : Move(c, step))
      BY <1>12 DEF Recheck, RecheckAnswer, ClientSteps
  <2>3. faults' \in 0..MaxFaults /\ faults' >= faults /\ gaps' \subseteq Gaps
    <3>1. CASE UNCHANGED <<faults, gaps>>
        BY <1>4, <3>1
    <3>2. CASE NoAnswer /\ gaps' = gaps \cup {"unanswered"}
        BY <1>4, <1>5, <3>2 DEF Gaps
    <3> QED
        BY <1>12, <3>1, <3>2 DEF Recheck
  <2> QED
      BY <1>1, <1>3, <2>1, <2>2, <2>3
<1>13. CASE SendShutdown(c)
  <2>1. lock # c /\ lock' = lock /\ UNCHANGED <<startErr, faults, gaps>>
        /\ UNCHANGED <<st, image, everUp, sock, cmd>>
      BY <1>2, <1>13 DEF SendShutdown, ProbeSites
  <2>2. stopAsked \subseteq stopAsked'
        /\ \A d \in stopAsked' : d \in stopAsked \/ (d \in Daemons /\ Serving(d))
      BY <1>13 DEF SendShutdown, Answers
  <2>3. \E step \in ClientSteps : Move(c, step)
      BY <1>13 DEF SendShutdown, ClientSteps, ProbeSites
  <2> QED
      BY <1>1, <1>4, <2>1, <2>2, <2>3
<1>14. CASE Fork(c)
  <2>1. PICK d \in Daemons : /\ st[d] = "none"
                             /\ st' = [st EXCEPT ![d] = "forked"]
                             /\ image' = [image EXCEPT ![d] = NewImage]
      BY <1>14 DEF Fork
  <2>2. /\ pc[c] = "fork" /\ pc' = [pc EXCEPT ![c] = "poll"] /\ startErr' = FALSE
        /\ UNCHANGED <<own, swap, stopAsked, lock, everUp, sock, cmd, faults, gaps>>
      BY <1>14 DEF Fork, Move, Goto
  <2>3. TypeOK'
      BY <2>1, <2>2 DEF TypeOK, DaemonSteps, ClientSteps
  <2>4. Lock'
      BY <1>2, <2>1, <2>2 DEF TypeOK, Lock, Live, Serving, ProbeSites
  <2>5. Asked'
      BY <2>1, <2>2 DEF TypeOK, Asked, NewImage
  <2> QED
      BY <2>3, <2>4, <2>5
<1>15. CASE Poll(c)
  <2>1. lock # c /\ lock' = lock /\ UNCHANGED <<startErr, gaps>> /\ KeepDaemons
      BY <1>2, <1>15 DEF Poll, ProbeSites
  <2>2. faults' \in 0..MaxFaults /\ faults' >= faults
      BY <1>4, <1>5, <1>15 DEF Poll
  <2>3. CASE Leave(c)
      BY <1>1, <1>3, <1>4, <2>1, <2>2, <2>3
  <2>4. CASE /\ PollsLeft(c)
             /\ own' = [own EXCEPT ![c].polls = @ + 1]
             /\ Goto(c, "poll_lock")
             /\ UNCHANGED swap
    <3>1. own' \in [Clients -> Own]
        BY <2>4 DEF TypeOK, Own, PollsLeft
    <3>2. "poll_lock" \in ClientSteps
        BY DEF ClientSteps, ProbeSites
    <3> QED
        BY <1>3, <1>4, <2>1, <2>2, <2>4, <3>1, <3>2, ClientMoves DEF Goto, TypeOK
  <2> QED
      BY <1>15, <2>3, <2>4 DEF Poll
<1>16. CASE StopSend(c)
  <2>1. lock # c /\ lock' = lock /\ UNCHANGED <<startErr, faults>>
        /\ UNCHANGED <<st, image, everUp, sock, cmd>>
      BY <1>2, <1>16 DEF StopSend, ProbeSites
  <2>2. gaps' \subseteq Gaps
      BY <1>4, <1>16 DEF StopSend, Gaps
  <2>3. stopAsked \subseteq stopAsked'
        /\ \A d \in stopAsked' : d \in stopAsked \/ (d \in Daemons /\ Serving(d))
      BY <1>16 DEF StopSend, Answers
  <2>4. Leave(c) \/ (\E step \in ClientSteps : Move(c, step))
      BY <1>16 DEF StopSend, ClientSteps, ProbeSites
  <2> QED
      BY <1>1, <1>4, <2>1, <2>2, <2>3, <2>4
<1>17. CASE StopUndelivered(c)
  <2>1. lock # c /\ lock' = lock /\ UNCHANGED <<startErr, faults>> /\ KeepDaemons
      BY <1>17 DEF StopUndelivered
  <2>2. gaps' \subseteq Gaps /\ Leave(c)
      BY <1>4, <1>17 DEF StopUndelivered, Gaps
  <2> QED
      BY <1>1, <1>3, <1>4, <2>1, <2>2
<1> QED
    BY <1>6, <1>7, <1>8, <1>9, <1>10, <1>11, <1>12, <1>13, <1>14, <1>15, <1>16,
       <1>17 DEF ClientStep

\* Every step preserves the invariant.
LEMMA StepBase == BaseInv /\ [Next]_vars => BaseInv'
<1> SUFFICES ASSUME BaseInv, [Next]_vars PROVE BaseInv'
    OBVIOUS
<1>1. CASE UNCHANGED vars
    BY <1>1 DEF vars, daemonVars, diskVars, clientVars, BaseInv, TypeOK, Lock,
                Live, Serving, Asked
<1> QED
    BY <1>1, DaemonBase, ClientBase DEF Next, Rest

\* TypeOK holds in every state of every behaviour, for every number of clients
\* and daemons.
THEOREM TypeCorrect == Spec => []TypeOK
<1>1. BaseInv => TypeOK
    BY DEF BaseInv
<1> QED
    BY <1>1, InitBase, StepBase, PTL DEF Spec

\* A serving daemon holds the lock and is the one behind the socket path,
\* whatever starts, replacements and shutdowns go on around it.
THEOREM AlwaysReachable == Spec => []ServingReachable
<1>1. BaseInv => ServingReachable
    BY DEF BaseInv, Lock, ServingReachable, Live, Serving
<1> QED
    BY <1>1, InitBase, StepBase, PTL DEF Spec

-----------------------------------------------------------------------------
(* What a step leaves alone. *)

\* Leaving clears the client's own variables and drops the restart lock.
LEMMA LeavesTo ==
    ASSUME TypeOK, NEW c \in Clients, Leave(c)
    PROVE  /\ pc'[c] = IF own[c].spawnDue THEN "spawn" ELSE "done"
           /\ ~own'[c].spawnDue
           /\ \A e \in Clients \ {c} : pc'[e] = pc[e] /\ own'[e] = own[e]
           /\ swap' = IF swap = c THEN NoOne ELSE swap
    BY DEF Leave, Goto, TypeOK, Fresh

\* Moving on changes nothing but the client's place.
LEMMA MovesTo ==
    ASSUME TypeOK, NEW c \in Clients, NEW step, Move(c, step)
    PROVE  /\ pc'[c] = step /\ own' = own /\ swap' = swap
           /\ \A e \in Clients \ {c} : pc'[e] = pc[e]
    BY DEF Move, Goto, TypeOK

\* A daemon's step, with no fault, leaves the clients and the other daemons
\* alone.
LEMMA DaemonFrame ==
    ASSUME TypeOK, NEW d \in Daemons, DaemonStep(d) \/ Fault(d)
    PROVE  /\ UNCHANGED <<pc, cmd, own, swap>>
           /\ gaps \subseteq gaps'
           /\ \/ DaemonStep(d) /\ faults' = faults
              \/ faults' = faults + 1
           /\ \A e \in Daemons \ {d} : st'[e] = st[e] /\ image'[e] = image[e]
           /\ stopAsked' \subseteq stopAsked
           /\ stopAsked \ {d} \subseteq stopAsked'
<1> USE DEF TypeOK, clientVars, daemonVars, diskVars
<1>1. CASE TakeLock(d)
    BY <1>1 DEF TakeLock, Exit, DaemonStep
<1>2. CASE RemoveStaleSocket(d) \/ Bind(d) \/ LeaveLoop(d) \/ Rebind(d)
    BY <1>2 DEF RemoveStaleSocket, Bind, LeaveLoop, Rebind, DaemonStep
<1>3. CASE StopStep(d)
    BY <1>3 DEF StopStep, WindDown, Exit, DaemonStep
<1>4. CASE Fault(d)
    BY <1>4 DEF Fault, StartFails, Crash, LoseSocket, Exit
<1> QED
    BY <1>1, <1>2, <1>3, <1>4 DEF DaemonStep

\* A client's step leaves the other clients and every running daemon alone.
LEMMA ClientFrame ==
    ASSUME TypeOK, NEW c \in Clients, ClientStep(c)
    PROVE  /\ UNCHANGED <<cmd, everUp, sock>>
           /\ gaps \subseteq gaps' /\ faults' >= faults
           /\ stopAsked \subseteq stopAsked'
           /\ \A e \in Clients \ {c} : pc'[e] = pc[e] /\ own'[e] = own[e]
           /\ \A d \in Daemons : \/ st'[d] = st[d] /\ image'[d] = image[d]
                                 \/ /\ st[d] = "none" /\ st'[d] = "forked"
                                    /\ image'[d] = NewImage
           /\ \/ swap' = IF swap = c THEN NoOne ELSE swap
              \/ swap' = swap
              \/ swap = NoOne /\ swap' = c /\ pc[c] = "swap" /\ pc'[c] = "recheck"
<1> USE DEF TypeOK
<1>1. Leave(c) => /\ \A e \in Clients \ {c} : pc'[e] = pc[e] /\ own'[e] = own[e]
                  /\ swap' = IF swap = c THEN NoOne ELSE swap
    BY LeavesTo
<1>2. \A step : Move(c, step) => /\ \A e \in Clients \ {c} : pc'[e] = pc[e] /\ own'[e] = own[e]
                                 /\ swap' = swap
    BY MovesTo
<1>3. \A step : Goto(c, step) => /\ \A e \in Clients \ {c} : pc'[e] = pc[e]
                                 /\ pc'[c] = step
    BY DEF Goto
<1>4. KeepDaemons => UNCHANGED <<st, image, stopAsked, everUp, sock, cmd>>
    BY DEF KeepDaemons, daemonVars
<1>5. NoAnswer => faults' >= faults
    BY DEF NoAnswer
<1> HIDE DEF TypeOK
<1>6. TypeOK => faults \in Nat /\ own \in [Clients -> Own]
    BY LifecycleAssumption DEF TypeOK
<1>7. CASE ProbeHeld(c)
    BY <1>1, <1>3, <1>4, <1>6, <1>7 DEF ProbeHeld
<1>8. CASE ProbeTake(c) \/ ProbeFree(c) \/ WaitExpires(c)
    BY <1>1, <1>2, <1>4, <1>6, <1>8 DEF ProbeTake, ProbeFree, WaitExpires
<1>9. CASE FirstStatus(c) \/ Recheck(c)
    BY <1>1, <1>2, <1>4, <1>5, <1>6, <1>9 DEF FirstStatus, Recheck, RecheckAnswer
<1>10. CASE TryLockRestart(c)
    BY <1>1, <1>3, <1>4, <1>6, <1>10 DEF TryLockRestart
<1>11. CASE SendShutdown(c) \/ StopSend(c) \/ StopUndelivered(c)
    BY <1>1, <1>2, <1>4, <1>6, <1>11 DEF SendShutdown, StopSend, StopUndelivered
<1>12. CASE Fork(c)
    BY <1>2, <1>6, <1>12 DEF Fork, TypeOK
<1>13. CASE Poll(c)
    BY <1>1, <1>3, <1>4, <1>5, <1>6, <1>13 DEF Poll
<1> QED
    BY <1>7, <1>8, <1>9, <1>10, <1>11, <1>12, <1>13 DEF ClientStep

-----------------------------------------------------------------------------
(* The restart lock: SwapStopsStale. *)

\* The client's own step keeps the restart lock exclusive: it waits for a daemon
\* only after it has stopped it under the lock, and it stops a daemon only after
\* it has seen under the lock that it is stale.
LEMMA ClientSwap ==
    ASSUME NEW c \in Clients, BaseInv, OnlySwaps, OneSwap, OnlySwaps', ClientStep(c)
    PROVE  OneSwap'
<1>0. TypeOK
    BY DEF BaseInv
<1> DEFINE Held == {"recheck", "shutdown", "wait"}
<1>1. /\ UNCHANGED cmd /\ faults' = 0 /\ faults = 0
      /\ {"unanswered", "expired"} \cap gaps' = {}
      /\ cmd[c] \notin {"restart", "stop"}
    BY <1>0, ClientFrame DEF OnlySwaps
<1>2. /\ pc[c] \in Held => swap = c
      /\ pc[c] \notin {"stop_send", "stop_lock"}
    BY DEF OneSwap
<1>3. \/ pc'[c] \notin Held \cup {"stop_send", "stop_lock"}
         /\ (pc[c] = "wait" => lock = c)
         /\ stopAsked' = stopAsked
      \/ pc'[c] = pc[c] /\ swap' = swap /\ stopAsked' = stopAsked /\ lock # c
         /\ (pc[c] = "shutdown" => UNCHANGED <<st, image>>)
      \/ pc'[c] = "recheck" /\ swap' = c /\ stopAsked' = stopAsked /\ pc[c] # "wait"
      \/ pc'[c] = "wait" /\ swap' = swap /\ pc[c] = "shutdown"
      \/ pc'[c] = "shutdown" /\ swap' = swap /\ stopAsked' = stopAsked /\ pc[c] = "recheck"
         /\ \E d \in Daemons : Serving(d) /\ Stale(d)
  <2> USE DEF KeepDaemons, daemonVars
  <2>1. Leave(c) => pc'[c] \notin Held \cup {"stop_send", "stop_lock"}
      BY <1>0, LeavesTo
  <2>2. \A step : Move(c, step) => pc'[c] = step /\ swap' = swap
      BY <1>0, MovesTo
  <2>3. \A step : Goto(c, step) => pc'[c] = step
      BY <1>0 DEF Goto, TypeOK
  <2>4. CASE ProbeHeld(c)
    <3>1. pc[c] # "spawn" => \/ pc[c] = "wait" /\ HeldNext(pc[c]) = "wait"
                             \/ pc[c] # "wait" /\ HeldNext(pc[c]) \in {"ensure", "status", "poll"}
        BY <1>2, <2>4 DEF ProbeHeld, ProbeSites, HeldNext
    <3> QED
        BY <2>1, <2>3, <2>4, <3>1 DEF ProbeHeld, ProbeSites
  <2>5. CASE ProbeTake(c)
      BY <2>5, LifecycleAssumption DEF ProbeTake, ProbeSites
  <2>6. CASE ProbeFree(c)
    <3>1. pc[c] \in ProbeSites \ {"stop_lock"}
        BY <1>2, <2>6 DEF ProbeFree, BaseInv, Lock
    <3>2. pc[c] # "ensure" => FreeNext(pc[c]) \in {"spawn", "fork", "poll"}
        BY <3>1 DEF ProbeSites, FreeNext
    <3> QED
        BY <2>1, <2>2, <2>6, <3>2 DEF ProbeFree
  <2>7. CASE WaitExpires(c)
      BY <1>1, <2>7 DEF WaitExpires
  <2>8. CASE FirstStatus(c)
      BY <2>1, <2>2, <2>8 DEF FirstStatus
  <2>9. CASE TryLockRestart(c)
      BY <2>1, <2>3, <2>9 DEF TryLockRestart
  <2>10. CASE Recheck(c)
      BY <1>1, <2>1, <2>2, <2>10 DEF Recheck, RecheckAnswer, Answers
  <2>11. CASE SendShutdown(c)
      BY <2>2, <2>11 DEF SendShutdown
  <2>12. CASE Fork(c)
      BY <2>2, <2>12 DEF Fork
  <2>13. CASE Poll(c)
      BY <2>1, <2>3, <2>13 DEF Poll
  <2>14. CASE StopSend(c) \/ StopUndelivered(c)
      BY <1>2, <2>14 DEF StopSend, StopUndelivered
  <2> QED
      BY <2>4, <2>5, <2>6, <2>7, <2>8, <2>9, <2>10, <2>11, <2>12, <2>13, <2>14
         DEF ClientStep
<1>4. /\ \A e \in Clients \ {c} : pc'[e] = pc[e]
      /\ \A d \in Daemons : Serving(d) => st'[d] = st[d] /\ image'[d] = image[d]
      /\ \/ swap' = IF swap = c THEN NoOne ELSE swap
         \/ swap' = swap
         \/ swap = NoOne /\ swap' = c
    BY <1>0, ClientFrame DEF Serving
<1>5. \A e \in Clients : pc'[e] \in Held => swap' = e
  <2>1. ASSUME NEW e \in Clients \ {c}, pc'[e] \in Held PROVE swap' = e
      BY <1>4, <2>1, LifecycleAssumption DEF OneSwap
  <2>2. pc'[c] \in Held => swap' = c
      BY <1>2, <1>3
  <2> QED
      BY <2>1, <2>2
<1>6. \A e \in Clients : pc'[e] \notin {"stop_send", "stop_lock"}
    BY <1>2, <1>3, <1>4 DEF OneSwap
<1>7. \A d \in stopAsked' : \E e \in Clients : pc'[e] = "wait"
  <2>1. CASE pc'[c] = "wait"
      BY <2>1
  <2>2. CASE pc'[c] # "wait" /\ pc[c] = "wait"
    <3>1. lock = c
        BY <1>3, <2>2
    <3>2. stopAsked' = {}
        BY <1>3, <2>2, <3>1, LifecycleAssumption DEF BaseInv, TypeOK, Lock, Asked, Live
    <3> QED
        BY <3>2
  <2>3. CASE pc'[c] # "wait" /\ pc[c] # "wait"
      BY <1>3, <1>4, <2>3 DEF OneSwap
  <2> QED
      BY <2>1, <2>2, <2>3
<1>8. ASSUME NEW e \in Clients, pc'[e] = "shutdown"
      PROVE  \E d \in Daemons : Serving(d)' /\ Stale(d)'
  <2>1. \E d \in Daemons : Serving(d) /\ Stale(d)
      BY <1>3, <1>4, <1>8 DEF OneSwap
  <2> QED
      BY <1>4, <2>1 DEF Serving, Stale
<1> QED
    BY <1>5, <1>6, <1>7, <1>8 DEF OneSwap

\* A daemon that was not asked to stop goes on serving.
LEMMA DaemonSwap ==
    ASSUME NEW d \in Daemons, BaseInv, OnlySwaps, OneSwap, OnlySwaps', DaemonStep(d) \/ Fault(d)
    PROVE  OneSwap'
<1>0. TypeOK
    BY DEF BaseInv
<1>1. /\ DaemonStep(d) /\ UNCHANGED <<pc, swap>>
      /\ stopAsked' \subseteq stopAsked
      /\ \A e \in Daemons \ {d} : st'[e] = st[e] /\ image'[e] = image[e]
    BY <1>0, DaemonFrame DEF OnlySwaps
<1>2. ASSUME NEW c \in Clients, pc[c] = "shutdown", Serving(d), Stale(d)
      PROVE  Serving(d)' /\ Stale(d)'
  <2>1. d \notin stopAsked
      BY <1>2, LifecycleAssumption DEF OneSwap
  <2> QED
      BY <1>0, <1>1, <1>2, <2>1 DEF DaemonStep, TakeLock, RemoveStaleSocket, Bind, LeaveLoop,
              StopStep, WindDown, Rebind, Serving, Stale, TypeOK, daemonVars
<1>3. ASSUME NEW c \in Clients, pc[c] = "shutdown"
      PROVE  \E e \in Daemons : Serving(e)' /\ Stale(e)'
  <2>1. PICK e \in Daemons : Serving(e) /\ Stale(e)
      BY <1>3 DEF OneSwap
  <2>2. CASE e = d
      BY <1>2, <1>3, <2>1, <2>2
  <2>3. CASE e # d
      BY <1>1, <2>1, <2>3 DEF Serving, Stale
  <2> QED
      BY <2>2, <2>3
<1> QED
    BY <1>1, <1>3 DEF OneSwap

\* The gaps a run has met and its faults are never forgotten.
LEMMA OnlySwapsBackwards ==
    ASSUME BaseInv, [Next]_vars, OnlySwaps' PROVE OnlySwaps
<1>0. TypeOK /\ faults \in Nat
    BY LifecycleAssumption DEF BaseInv, TypeOK
<1>1. UNCHANGED cmd /\ gaps \subseteq gaps' /\ faults' >= faults
  <2>1. CASE UNCHANGED vars
      BY <1>0, <2>1 DEF vars, clientVars
  <2>2. ASSUME NEW d \in Daemons, DaemonStep(d) \/ Fault(d)
        PROVE  UNCHANGED cmd /\ gaps \subseteq gaps' /\ faults' >= faults
      BY <1>0, <2>2, DaemonFrame
  <2>3. ASSUME NEW c \in Clients, ClientStep(c)
        PROVE  UNCHANGED cmd /\ gaps \subseteq gaps' /\ faults' >= faults
      BY <1>0, <2>3, ClientFrame
  <2> QED
      BY <2>1, <2>2, <2>3 DEF Next, Rest
<1> QED
    BY <1>0, <1>1 DEF OnlySwaps

LEMMA InitSwap == Init => SwapInv
<1> SUFFICES ASSUME Init, OnlySwaps PROVE OneSwap
    BY DEF SwapInv
<1>1. \A c \in Clients : pc[c] \in {"lazy", "ensure", "spawn"}
    BY LifecycleAssumption DEF Init, Entry, OnlySwaps
<1> QED
    BY <1>1 DEF Init, OneSwap

LEMMA StepSwap == BaseInv /\ SwapInv /\ [Next]_vars => SwapInv'
<1> SUFFICES ASSUME BaseInv, SwapInv, [Next]_vars, OnlySwaps' PROVE OneSwap'
    BY DEF SwapInv
<1>1. OnlySwaps /\ OneSwap
    BY OnlySwapsBackwards DEF SwapInv
<1>2. CASE UNCHANGED vars
    BY <1>1, <1>2 DEF vars, clientVars, daemonVars, diskVars, OneSwap, Serving, Stale
<1> QED
    BY <1>1, <1>2, DaemonSwap, ClientSwap DEF Next, Rest

\* For every number of clients and daemons, the version check stops no daemon
\* but a stale one: the daemon that gets the Shutdown is the one the client saw
\* to be stale under the restart lock (restart_if_version_skewed).
THEOREM SwapSafe == Spec => SwapStopsStale
<1> DEFINE Only(c) == SendShutdown(c) =>
        \/ {"unanswered", "expired"} \cap gaps # {} \/ faults > 0
        \/ \E e \in Clients : cmd[e] \in {"restart", "stop"}
        \/ \A d \in stopAsked' \ stopAsked : Stale(d)
<1>1. ASSUME BaseInv, SwapInv, NEW c \in Clients PROVE Only(c)
  <2>1. SUFFICES ASSUME SendShutdown(c), OnlySwaps, NEW d \in stopAsked' \ stopAsked
                 PROVE  Stale(d)
    <3>1. ~(faults > 0) => faults = 0
        BY <1>1, LifecycleAssumption DEF BaseInv, TypeOK
    <3> QED
        BY <2>1, <3>1 DEF OnlySwaps
  <2>2. d \in Daemons /\ Serving(d) /\ pc[c] = "shutdown"
      BY <2>1 DEF SendShutdown, Answers
  <2>3. PICK e \in Daemons : Serving(e) /\ Stale(e)
      BY <1>1, <2>1, <2>2 DEF SwapInv, OneSwap
  <2>4. e = d
      BY <1>1, <2>2, <2>3 DEF BaseInv, Lock, Live, Serving
  <2> QED
      BY <2>3, <2>4
<1>2. BaseInv /\ SwapInv /\ [Next]_vars => [\A c \in Clients : Only(c)]_vars
    BY <1>1
<1> QED
    BY <1>2, InitBase, StepBase, InitSwap, StepSwap, PTL DEF Spec, SwapStopsStale

-----------------------------------------------------------------------------
(* The succession: DaemonLeftRunning. *)

\* Without a fault, a stale daemon that nobody has asked to stop answers.
LEMMA StaleAnswers ==
    ASSUME BaseInv, faults = 0, NEW d \in Daemons, Live(d), Stale(d), d \notin stopAsked
    PROVE  /\ Serving(d) /\ lock = d
           /\ \A e \in Daemons : Answers(e) <=> e = d
<1>1. image[d].build = "old"
  <2>1. image[d] \in OldImages \cup {NewImage, NoImage}
      BY DEF BaseInv, TypeOK
  <2> QED
      BY <2>1 DEF Stale, OldImages, NewImage, NoImage
<1>2. Serving(d) /\ lock = d
    BY <1>1 DEF BaseInv, Asked, Lock, Serving
<1>3. sock = d
    BY <1>2 DEF BaseInv, Lock, Serving
<1> QED
    BY <1>2, <1>3 DEF Answers

\* A client that has a spawn due, or that is on its way to one, loses it only to
\* a daemon that is there.
LEMMA ClientAhead ==
    ASSUME NEW c \in Clients, BaseInv, ClientStep(c), WillSpawn(c), gaps' = {},
           \A d \in Daemons : st[d] = "none"
    PROVE  WillSpawn(c)' \/ \E d \in Daemons : st'[d] # "none"
<1> USE DEF KeepDaemons, WillSpawn
<1>0. TypeOK /\ own \in [Clients -> Own] /\ pc \in [Clients -> ClientSteps]
    BY DEF BaseInv, TypeOK
<1>1. lock \notin Daemons /\ sock \notin Daemons
    BY DEF BaseInv, Lock, Live
<1>2. lock # NoOne => lock \in Clients
    BY <1>1 DEF BaseInv, TypeOK
<1>3. Leave(c) /\ own[c].spawnDue => pc'[c] = "spawn"
    BY <1>0, LeavesTo
<1>4. \A step : Move(c, step) => pc'[c] = step /\ own'[c] = own[c]
    BY <1>0, MovesTo
<1>5. \A step : Goto(c, step) => pc'[c] = step
    BY <1>0 DEF Goto
<1>6. UNCHANGED cmd
    BY <1>0, ClientFrame
<1>7. \A d \in Daemons : ~Answers(d)
    BY DEF Answers, Serving
<1>8. CASE ProbeHeld(c)
    BY <1>2, <1>8 DEF ProbeHeld
<1>9. CASE ProbeTake(c)
    BY <1>6, <1>9 DEF ProbeTake
<1>10. CASE ProbeFree(c)
  <2>1. pc[c] \in ProbeSites
      BY <1>10 DEF ProbeFree, BaseInv, Lock
  <2>2. CASE /\ pc[c] \in {"ensure", "poll_lock"} \/ (pc[c] = "stop_lock" /\ cmd[c] = "stop")
             /\ Leave(c)
      BY <1>3, <2>2
  <2>3. CASE /\ pc[c] # "ensure"
             /\ ~(pc[c] = "stop_lock" /\ cmd[c] = "stop")
             /\ Move(c, FreeNext(pc[c]))
    <3>1. pc[c] \in {"lazy", "wait", "spawn", "stop_lock"} =>
            FreeNext(pc[c]) \in {"wait", "spawn", "fork"}
        BY DEF FreeNext
    <3> QED
        BY <1>4, <2>1, <2>3, <3>1 DEF ProbeSites
  <2> QED
      BY <1>10, <2>2, <2>3 DEF ProbeFree
<1>11. CASE WaitExpires(c)
    BY <1>1, <1>11 DEF WaitExpires
<1>12. CASE FirstStatus(c)
    BY <1>3, <1>4, <1>6, <1>12 DEF FirstStatus
<1>13. CASE TryLockRestart(c)
    BY <1>3, <1>6, <1>13 DEF TryLockRestart
<1>14. CASE Recheck(c)
    BY <1>7, <1>14 DEF Recheck
<1>15. CASE SendShutdown(c)
    BY <1>4, <1>15 DEF SendShutdown
<1>16. CASE Fork(c)
    BY <1>0, <1>16 DEF Fork, BaseInv, TypeOK
<1>17. CASE Poll(c)
  <2>1. own'[c].spawnDue = own[c].spawnDue \/ Leave(c)
      BY <1>0, <1>17 DEF Poll, Own
  <2> QED
      BY <1>3, <1>6, <1>17, <2>1 DEF Poll
<1>18. CASE StopSend(c)
    BY <1>1, <1>4, <1>6, <1>7, <1>18 DEF StopSend
<1>19. CASE StopUndelivered(c)
    BY <1>1, <1>19 DEF StopUndelivered
<1> QED
    BY <1>8, <1>9, <1>10, <1>11, <1>12, <1>13, <1>14, <1>15, <1>16, <1>17, <1>18,
       <1>19 DEF ClientStep

\* A version check that a stale daemon is still to answer does not end before
\* it has asked that daemon to stop, unless another client is replacing it.
LEMMA ClientCheck ==
    ASSUME NEW c \in Clients, BaseInv, ClientStep(c), gaps' = {}, faults' = 0, faults = 0,
           NEW d \in Daemons, Live(d), Stale(d), d \notin stopAsked'
    PROVE  /\ swap = NoOne /\ pc[c] \in Checking =>
                \/ swap' = NoOne /\ pc'[c] \in Checking
                \/ swap' = c /\ pc'[c] = "recheck"
           /\ swap = NoOne /\ pc[c] \notin Checking => swap' = NoOne
           /\ swap = c /\ pc[c] \in {"recheck", "shutdown"} =>
                swap' = c /\ pc'[c] \in {"recheck", "shutdown"}
<1>0. TypeOK /\ own \in [Clients -> Own] /\ pc \in [Clients -> ClientSteps]
    BY DEF BaseInv, TypeOK
<1>1. stopAsked \subseteq stopAsked'
    BY <1>0, ClientFrame
<1>2. /\ Serving(d) /\ lock = d
      /\ \A e \in Daemons : Answers(e) <=> e = d
    BY <1>1, StaleAnswers
<1>3. ~NoAnswer
    BY <1>2 DEF NoAnswer
<1>4. c # NoOne /\ d # NoOne /\ c # d
    BY LifecycleAssumption
<1>5. swap = NoOne /\ pc[c] \notin Checking => swap' = NoOne
    BY <1>0, <1>4, ClientFrame DEF Checking
<1>6. \A step : Move(c, step) => pc'[c] = step /\ swap' = swap
    BY <1>0, MovesTo
<1>7. \A step : Goto(c, step) => pc'[c] = step
    BY <1>0 DEF Goto
<1>8. ASSUME swap = NoOne, pc[c] \in Checking
      PROVE  \/ swap' = NoOne /\ pc'[c] \in Checking
             \/ swap' = c /\ pc'[c] = "recheck"
  <2>1. CASE pc[c] \in {"lazy", "ensure"}
    <3>1. HeldNext(pc[c]) \in {"ensure", "status"}
        BY <2>1 DEF HeldNext
    <3>2. ProbeHeld(c)
        BY <1>2, <1>4, <2>1 DEF ClientStep, ProbeTake, ProbeFree, WaitExpires, FirstStatus,
             TryLockRestart, Recheck, SendShutdown, Fork, Poll, StopSend, StopUndelivered
    <3>3. pc'[c] \in {"ensure", "status"} /\ swap' = swap
        BY <1>7, <2>1, <3>1, <3>2 DEF ProbeHeld
    <3> QED
        BY <1>8, <3>3 DEF Checking
  <2>2. CASE pc[c] = "status"
    <3>1. FirstStatus(c)
        BY <1>2, <1>4, <2>2 DEF ClientStep, ProbeHeld, ProbeTake, ProbeFree, ProbeSites, WaitExpires,
             TryLockRestart, Recheck, SendShutdown, Fork, Poll, StopSend, StopUndelivered
    <3>2. pc'[c] = "swap" /\ swap' = swap
        BY <1>2, <1>3, <1>6, <3>1 DEF FirstStatus
    <3> QED
        BY <1>8, <3>2 DEF Checking
  <2>3. CASE pc[c] = "swap"
    <3>1. TryLockRestart(c)
        BY <1>2, <1>4, <2>3 DEF ClientStep, ProbeHeld, ProbeTake, ProbeFree, ProbeSites, WaitExpires,
             FirstStatus, Recheck, SendShutdown, Fork, Poll, StopSend, StopUndelivered
    <3> QED
        BY <1>7, <1>8, <3>1 DEF TryLockRestart
  <2> QED
      BY <1>8, <2>1, <2>2, <2>3 DEF Checking
<1>9. ASSUME swap = c, pc[c] \in {"recheck", "shutdown"}
      PROVE  swap' = c /\ pc'[c] \in {"recheck", "shutdown"}
  <2>1. CASE pc[c] = "recheck"
    <3>1. Recheck(c)
        BY <1>2, <1>4, <2>1 DEF ClientStep, ProbeHeld, ProbeTake, ProbeFree, ProbeSites, WaitExpires,
             FirstStatus, TryLockRestart, SendShutdown, Fork, Poll, StopSend, StopUndelivered
    <3>2. pc'[c] = "shutdown" /\ swap' = swap
        BY <1>2, <1>3, <1>6, <3>1 DEF Recheck, RecheckAnswer
    <3> QED
        BY <1>9, <3>2
  <2>2. CASE pc[c] = "shutdown"
    <3>1. SendShutdown(c)
        BY <1>2, <1>4, <2>2 DEF ClientStep, ProbeHeld, ProbeTake, ProbeFree, ProbeSites, WaitExpires,
             FirstStatus, TryLockRestart, Recheck, Fork, Poll, StopSend, StopUndelivered
    <3> QED
        BY <1>2, <3>1 DEF SendShutdown
  <2> QED
      BY <1>9, <2>1, <2>2
<1> QED
    BY <1>5, <1>8, <1>9

LEMMA InitHeir == Init => HeirInv
<1> SUFFICES ASSUME Init PROVE HeirInv
    OBVIOUS
<1>0. BaseInv /\ stopAsked = {} /\ swap = NoOne
    BY InitBase DEF Init
<1>1. \A c \in Clients : pc[c] = Entry(cmd[c]) /\ cmd[c] \in Commands
    BY DEF Init
<1>2. \A c \in Clients : own[c].spawnDue = (cmd[c] = "init")
    BY DEF Init, Fresh
<1>3. DueNotDone
    BY <1>1, LifecycleAssumption DEF DueNotDone, Entry
<1>4. StopHasHeir
    BY <1>0 DEF StopHasHeir
<1>5. DaemonAhead
  <2>1. CASE everUp
    <3>1. PICK d \in Daemons : st[d] # "none"
      <4>1. lock = sock /\ lock # NoOne
          BY <2>1, LifecycleAssumption DEF Init
      <4> QED
          BY <1>0, <4>1 DEF BaseInv, TypeOK, Lock
    <3> QED
        BY <3>1 DEF DaemonAhead
  <2>2. ASSUME NEW c \in Clients, cmd[c] \in Starters PROVE WillSpawn(c)
    <3>1. pc[c] = Entry(cmd[c])
        BY <1>1
    <3>2. CASE cmd[c] = "init"
        BY <1>2, <3>2 DEF WillSpawn
    <3>3. CASE cmd[c] # "init"
        BY <2>2, <3>1, <3>3 DEF WillSpawn, Starters, Entry
    <3> QED
        BY <3>2, <3>3
  <2> QED
      BY <2>1, <2>2 DEF DaemonAhead
<1>6. StaleSeen
    BY <1>0, <1>1 DEF StaleSeen, Checkers, Checking, Entry
<1>7. OnlyStops
    BY <1>1, LifecycleAssumption DEF OnlyStops, Entry
<1> QED
    BY <1>3, <1>4, <1>5, <1>6, <1>7 DEF HeirInv, Succession

\* `init' leaves for its own spawn before it is done, and no command but restart
\* and stop comes to send a Shutdown of its own.
LEMMA ClientDue ==
    ASSUME NEW c \in Clients, BaseInv, DueNotDone, OnlyStops, ClientStep(c)
    PROVE  DueNotDone' /\ OnlyStops'
<1> USE DEF KeepDaemons
<1>0. TypeOK /\ own \in [Clients -> Own] /\ pc \in [Clients -> ClientSteps]
    BY DEF BaseInv, TypeOK
<1>1. \A e \in Clients \ {c} : pc'[e] = pc[e] /\ own'[e] = own[e]
    BY <1>0, ClientFrame
<1> DEFINE Stops == {"stop_send", "stop_lock"}
<1>2. Leave(c) => ~own'[c].spawnDue /\ pc'[c] \notin Stops
    BY <1>0, LeavesTo
<1>3. \A step : Move(c, step) => pc'[c] = step
    BY <1>0, MovesTo
<1>4. \A step : Goto(c, step) => pc'[c] = step
    BY <1>0 DEF Goto
<1>5. /\ ~own'[c].spawnDue \/ pc'[c] # "done"
      /\ pc'[c] \in Stops => pc[c] \in Stops
  <2>1. CASE ProbeHeld(c)
    <3>1. pc[c] # "spawn" => /\ HeldNext(pc[c]) # "done"
                             /\ HeldNext(pc[c]) \in Stops => pc[c] \in Stops
        BY <2>1 DEF ProbeHeld, HeldNext, ProbeSites
    <3> QED
        BY <1>2, <1>4, <2>1, <3>1 DEF ProbeHeld
  <2>2. CASE ProbeTake(c)
      BY <2>2 DEF ProbeTake, ProbeSites
  <2>3. CASE ProbeFree(c)
    <3>1. pc[c] \in ProbeSites
        BY <2>3 DEF ProbeFree, BaseInv, Lock
    <3>2. pc[c] # "ensure" => FreeNext(pc[c]) \notin Stops \cup {"done"}
        BY <3>1 DEF FreeNext, ProbeSites
    <3> QED
        BY <1>2, <1>3, <2>3, <3>2 DEF ProbeFree
  <2>4. CASE WaitExpires(c) \/ FirstStatus(c) \/ TryLockRestart(c)
      BY <1>2, <1>3, <1>4, <2>4 DEF WaitExpires, FirstStatus, TryLockRestart
  <2>5. CASE Recheck(c) \/ SendShutdown(c) \/ Fork(c) \/ Poll(c)
      BY <1>2, <1>3, <1>4, <2>5 DEF Recheck, RecheckAnswer, SendShutdown, Fork, Poll
  <2>6. CASE StopSend(c) \/ StopUndelivered(c)
      BY <1>2, <1>3, <2>6 DEF StopSend, StopUndelivered
  <2> QED
      BY <2>1, <2>2, <2>3, <2>4, <2>5, <2>6 DEF ClientStep
<1>6. UNCHANGED cmd
    BY <1>0, ClientFrame
<1> QED
    BY <1>1, <1>5, <1>6 DEF DueNotDone, OnlyStops

\* A client's step keeps the succession.
LEMMA ClientHeir ==
    ASSUME NEW c \in Clients, BaseInv, OnlyStops, Succession, ClientStep(c),
           gaps = {}, gaps' = {}, faults = 0, faults' = 0
    PROVE  Succession'
<1>0. TypeOK
    BY DEF BaseInv
<1>1. /\ UNCHANGED <<cmd, everUp>> /\ stopAsked \subseteq stopAsked'
      /\ \A e \in Clients \ {c} : pc'[e] = pc[e] /\ own'[e] = own[e]
      /\ \A d \in Daemons : \/ st'[d] = st[d] /\ image'[d] = image[d]
                            \/ /\ st[d] = "none" /\ st'[d] = "forked"
                               /\ image'[d] = NewImage
      /\ \/ swap' = IF swap = c THEN NoOne ELSE swap
         \/ swap' = swap
         \/ swap = NoOne /\ swap' = c /\ pc'[c] = "recheck"
    BY <1>0, ClientFrame
<1>2. StopHasHeir'
  <2>1. CASE stopAsked' = {}
      BY <2>1 DEF StopHasHeir
  <2>2. CASE pc'[c] = "wait"
      BY <2>2 DEF StopHasHeir
  <2>3. CASE stopAsked' # {} /\ pc'[c] # "wait"
    <3>1. stopAsked' = stopAsked
      <4>1. \A step : Move(c, step) => pc'[c] = step
          BY <1>0, MovesTo
      <4>2. StopSend(c) => stopAsked' = stopAsked
          BY <2>3, <4>1 DEF StopSend, OnlyStops
      <4> QED
          BY <2>3, <4>1, <4>2 DEF ClientStep, ProbeHeld, ProbeTake, ProbeFree, WaitExpires,
             FirstStatus, TryLockRestart, Recheck, SendShutdown, Fork, Poll, StopUndelivered,
             KeepDaemons, daemonVars
    <3>2. PICK e \in Clients : pc[e] = "wait"
        BY <2>3, <3>1 DEF Succession, StopHasHeir
    <3>3. lock \in Daemons
        BY <2>3, <3>1 DEF BaseInv, TypeOK, Asked, Lock, Live
    <3>4. c # e
      <4>1. SUFFICES ASSUME pc[c] = "wait" PROVE FALSE
          BY <3>2
      <4>2. HeldNext("wait") = "wait"
          BY DEF HeldNext
      <4>3. ProbeHeld(c) => pc'[c] = "wait"
          BY <1>0, <4>1, <4>2 DEF ProbeHeld, Goto, TypeOK
      <4> QED
          BY <2>3, <3>3, <4>1, <4>3, LifecycleAssumption DEF ClientStep, ProbeTake, ProbeFree, WaitExpires,
             FirstStatus, TryLockRestart, Recheck, SendShutdown, Fork, Poll, StopSend,
             StopUndelivered
    <3> QED
        BY <1>1, <3>2, <3>4 DEF StopHasHeir
  <2> QED
      BY <2>1, <2>2, <2>3
<1>3. DaemonAhead'
  <2>1. SUFFICES ASSUME everUp \/ \E e \in Clients : cmd[e] \in Starters,
                        \A d \in Daemons : st'[d] = "none"
                 PROVE  \E e \in Clients : WillSpawn(e)'
      BY <1>1 DEF DaemonAhead
  <2>2. \A d \in Daemons : st[d] = "none"
      BY <1>1, <2>1
  <2>3. PICK e \in Clients : WillSpawn(e)
      BY <2>1, <2>2 DEF Succession, DaemonAhead
  <2>4. CASE e = c
      BY <2>1, <2>2, <2>3, <2>4, ClientAhead
  <2>5. CASE e # c
      BY <1>1, <2>3, <2>5 DEF WillSpawn
  <2> QED
      BY <2>4, <2>5
<1>4. StaleSeen'
  <2>1. SUFFICES ASSUME NEW d \in Daemons, Live(d)', Stale(d)', d \notin stopAsked'
                 PROVE  \/ swap' = NoOne /\ \A e \in Checkers' : pc'[e] \in Checking
                        \/ \E e \in Clients : swap' = e /\ pc'[e] \in {"recheck", "shutdown"}
      BY DEF StaleSeen
  <2>2. Live(d) /\ Stale(d) /\ d \notin stopAsked
      BY <1>1, <2>1 DEF Live, Stale, NewImage
  <2>3. Checkers' = Checkers /\ Checkers \subseteq Clients
      BY <1>1 DEF Checkers
  <2>4. /\ swap = NoOne /\ pc[c] \in Checking =>
             \/ swap' = NoOne /\ pc'[c] \in Checking
             \/ swap' = c /\ pc'[c] = "recheck"
        /\ swap = NoOne /\ pc[c] \notin Checking => swap' = NoOne
        /\ swap = c /\ pc[c] \in {"recheck", "shutdown"} =>
             swap' = c /\ pc'[c] \in {"recheck", "shutdown"}
      BY <2>1, <2>2, ClientCheck
  <2>5. CASE swap = NoOne /\ \A e \in Checkers : pc[e] \in Checking
      BY <1>1, <2>3, <2>4, <2>5
  <2>6. CASE \E e \in Clients : swap = e /\ pc[e] \in {"recheck", "shutdown"}
    <3>1. PICK e \in Clients : swap = e /\ pc[e] \in {"recheck", "shutdown"}
        BY <2>6
    <3>2. e # NoOne
        BY LifecycleAssumption
    <3> QED
        BY <1>1, <2>4, <3>1, <3>2
  <2> QED
      BY <2>2, <2>5, <2>6 DEF Succession, StaleSeen
<1> QED
    BY <1>2, <1>3, <1>4 DEF Succession

\* So does a daemon's: it ends without a fault only when it was asked to, and
\* whoever asked it waits to spawn the next, or when another daemon lives.
LEMMA DaemonHeir ==
    ASSUME NEW d \in Daemons, BaseInv, Succession, DaemonStep(d), gaps = {}, gaps' = {}
    PROVE  Succession'
<1>0. TypeOK
    BY DEF BaseInv
<1>1. /\ UNCHANGED <<pc, cmd, own, swap>>
      /\ \A e \in Daemons \ {d} : st'[e] = st[e] /\ image'[e] = image[e]
      /\ stopAsked' \subseteq stopAsked /\ stopAsked \ {d} \subseteq stopAsked'
    BY <1>0, DaemonFrame
<1>2. StopHasHeir'
    BY <1>1 DEF Succession, StopHasHeir
<1>3. \/ st'[d] # "none" /\ image'[d] = image[d] /\ stopAsked' = stopAsked
         /\ (Live(d) \/ st[d] = "forked")
      \/ /\ st'[d] = "none"
         /\ \/ TakeLock(d) /\ lock \notin Clients /\ lock # NoOne
            \/ st[d] = "unlinked"
  <2>1. CASE TakeLock(d)
      BY <1>0, <2>1 DEF TakeLock, Exit, TypeOK
  <2>2. CASE RemoveStaleSocket(d) \/ Bind(d) \/ LeaveLoop(d) \/ Rebind(d)
      BY <1>0, <2>2 DEF RemoveStaleSocket, Bind, LeaveLoop, Rebind, Serving, Live, TypeOK, daemonVars
  <2>3. CASE StopStep(d)
      BY <1>0, <2>3 DEF StopStep, WindDown, Exit, Live, TypeOK
  <2> QED
      BY <2>1, <2>2, <2>3 DEF DaemonStep
<1>4. DaemonAhead'
  <2>1. SUFFICES ASSUME st'[d] = "none" PROVE DaemonAhead'
    <3>1. CASE st'[d] # "none"
        BY <3>1 DEF DaemonAhead
    <3> QED
        BY <2>1, <3>1
  <2>3. CASE TakeLock(d) /\ lock \notin Clients /\ lock # NoOne
    <3>1. lock \in Daemons /\ Live(lock) /\ lock # d
        BY <2>3 DEF BaseInv, TypeOK, Lock, Live, TakeLock
    <3> QED
        BY <1>1, <3>1 DEF DaemonAhead, Live
  <2>4. CASE st[d] = "unlinked"
    <3>1. d \in stopAsked
        BY <2>4 DEF BaseInv, Asked
    <3> QED
        BY <1>1, <3>1 DEF Succession, StopHasHeir, DaemonAhead, WillSpawn
  <2> QED
      BY <1>3, <2>1, <2>3, <2>4
<1>5. StaleSeen'
  <2>1. SUFFICES ASSUME NEW e \in Daemons, Live(e)', Stale(e)', e \notin stopAsked'
                 PROVE  Live(e) /\ Stale(e) /\ e \notin stopAsked
      BY <1>1 DEF Succession, StaleSeen, Checkers
  <2>2. CASE e # d
      BY <1>1, <2>1, <2>2 DEF Live, Stale
  <2>3. CASE e = d
    <3>1. Stale(d) /\ d \notin stopAsked /\ (Live(d) \/ st[d] = "forked")
        BY <1>3, <2>1, <2>3 DEF Live, Stale
    <3>2. image[d].build = "old"
      <4>1. image[d] \in OldImages \cup {NewImage, NoImage}
          BY <1>0 DEF TypeOK
      <4> QED
          BY <3>1, <4>1 DEF Stale, OldImages, NewImage, NoImage
    <3> QED
        BY <2>3, <3>1, <3>2 DEF BaseInv, Asked
  <2> QED
      BY <2>2, <2>3
<1> QED
    BY <1>2, <1>4, <1>5 DEF Succession

LEMMA StepHeir == BaseInv /\ HeirInv /\ [Next]_vars => HeirInv'
<1> SUFFICES ASSUME BaseInv, HeirInv, [Next]_vars PROVE HeirInv'
    OBVIOUS
<1>0. TypeOK /\ faults \in Nat
    BY LifecycleAssumption DEF BaseInv, TypeOK
<1>1. CASE UNCHANGED vars
    BY <1>1 DEF vars, clientVars, daemonVars, diskVars, HeirInv, DueNotDone, OnlyStops, Succession,
       StopHasHeir, DaemonAhead, WillSpawn, StaleSeen, Checkers, Live, Stale
<1>2. ASSUME NEW d \in Daemons, DaemonStep(d) \/ Fault(d) PROVE HeirInv'
  <2>1. /\ UNCHANGED <<pc, cmd, own>> /\ gaps \subseteq gaps'
        /\ \/ DaemonStep(d) /\ faults' = faults
           \/ faults' = faults + 1
      BY <1>0, <1>2, DaemonFrame
  <2>2. DueNotDone' /\ OnlyStops'
      BY <2>1 DEF HeirInv, DueNotDone, OnlyStops
  <2>3. ASSUME faults' = 0, gaps' = {} PROVE Succession'
      BY <1>0, <2>1, <2>3, DaemonHeir DEF HeirInv
  <2> QED
      BY <2>2, <2>3 DEF HeirInv
<1>3. ASSUME NEW c \in Clients, ClientStep(c) PROVE HeirInv'
  <2>1. gaps \subseteq gaps' /\ faults' >= faults
      BY <1>0, <1>3, ClientFrame
  <2>2. DueNotDone' /\ OnlyStops'
      BY <1>3, ClientDue DEF HeirInv
  <2>3. ASSUME faults' = 0, gaps' = {} PROVE Succession'
    <3>1. faults = 0 /\ gaps = {}
        BY <1>0, <2>1, <2>3
    <3> QED
        BY <1>3, <2>3, <3>1, ClientHeir DEF HeirInv
  <2> QED
      BY <2>2, <2>3 DEF HeirInv
<1> QED
    BY <1>1, <1>2, <1>3 DEF Next, Rest

\* For every number of clients and daemons: once every command has ended, a
\* repository that had a daemon or was to have one has one, of the build its
\* clients want, unless one of the protocol's weak points was met.
THEOREM KeepsDaemon == Spec => []DaemonLeftRunning
<1>1. BaseInv /\ HeirInv => DaemonLeftRunning
  <2>1. SUFFICES ASSUME BaseInv, HeirInv, Settled, faults = 0, gaps = {},
                        everUp \/ \E c \in Clients : cmd[c] \in Starters
                 PROVE  \E d \in Daemons :
                          /\ Serving(d)
                          /\ \A c \in Clients : cmd[c] \in {"query", "mcp", "init"} => ~Stale(d)
      BY DEF DaemonLeftRunning
  <2>2. \A c \in Clients : pc[c] = "done" /\ ~WillSpawn(c)
      BY <2>1 DEF Settled, HeirInv, DueNotDone, WillSpawn
  <2>3. PICK d \in Daemons : st[d] # "none"
      BY <2>1, <2>2 DEF HeirInv, Succession, DaemonAhead
  <2>4. Serving(d) /\ d \notin stopAsked
      BY <2>1, <2>3 DEF Settled
  <2>5. ASSUME NEW c \in Clients, cmd[c] \in {"query", "mcp", "init"}, Stale(d)
        PROVE  FALSE
    <3>1. c \in Checkers /\ Live(d)
        BY <2>4, <2>5 DEF Checkers, Live, Serving
    <3> QED
        BY <2>1, <2>2, <2>4, <2>5, <3>1 DEF HeirInv, Succession, StaleSeen, Checking
  <2> QED
      BY <2>4, <2>5
<1> QED
    BY <1>1, InitBase, StepBase, InitHeir, StepHeir, PTL DEF Spec

=============================================================================
