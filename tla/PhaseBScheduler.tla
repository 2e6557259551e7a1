---------------------------- MODULE PhaseBScheduler ----------------------------
(***************************************************************************)
(* The debounced, single-flight scheduler of background Phase B runs       *)
(* (crates/travsr-daemon/src/phase_b_sched.rs).                            *)
(*                                                                         *)
(* The scheduler's fields are shared by the daemon's select loop, which    *)
(* polls try_claim on phase_b_tick, by the tasks that arm it (the          *)
(* ReindexCommit handler and the head reconcile call mark_dirty, the tick  *)
(* itself arm_immediate), and by the spawn_blocking task of the run in     *)
(* flight, which reports its outcome.  Each field has its own lock or      *)
(* atomic, so try_claim_at and finish_with_outcome_at are sequences of     *)
(* steps and the other thread may act between any two of them.             *)
(*                                                                         *)
(* Instants are kept relative to the present, since the code only ever     *)
(* compares them with it: `left' is how long until `deadline', `age' how   *)
(* long ago `first_arm' was, `backoff' how long until `backoff_until'.     *)
(* Values past the point where the comparison can still change are         *)
(* identified, which keeps the state finite without bounding the run.      *)
(***************************************************************************)
EXTENDS Integers, FiniteSets

CONSTANTS
    Debounce,       \* `debounce', in units of the clock
    MaxDefer,       \* `max_defer', the staleness ceiling (FT-M6)
    BackoffBase,    \* PARTIAL_BACKOFF_BASE
    BackoffCap,     \* PARTIAL_BACKOFF_CAP
    MaxShift,       \* the bound on the doubling exponent (31 in the code)
    MaxFailures,    \* MAX_FAILURES
    Runs            \* identities of the run tasks spawned by the tick

ASSUME SchedulerAssumption ==
    /\ Debounce \in Nat
    /\ MaxDefer \in Nat
    /\ BackoffBase \in Nat \ {0}
    /\ BackoffCap \in Nat \ {0}
    /\ MaxShift \in Nat
    /\ \A n \in 0..MaxShift : BackoffBase * 2^n \in Nat
    /\ MaxFailures \in Nat \ {0}

\* RunOutcome.
Outcomes == {"Success", "Partial", "AllCrashed"}

\* The pending mark when `dirty' is None.
Unset == [some |-> FALSE, left |-> 0, age |-> 0]

VARIABLES
    dirty,          \* Option<DirtyState>: the pending mark
    running,        \* the single-flight flag
    failures,       \* consecutive_failures
    partials,       \* consecutive_partials
    backoff,        \* time left until backoff_until, or 0 when None or past
    tick,           \* where the select loop is inside try_claim_at
    run,            \* where each run task is
    outcome         \* the RunOutcome each run task reports

vars == <<dirty, running, failures, partials, backoff, tick, run, outcome>>

\* A pending mark: `left' until the deadline, `age' since first_arm.
Marks == [some : BOOLEAN, left : 0..Debounce, age : 0..MaxDefer]

\* Positions of the select loop inside one phase_b_tick.
TickSteps == {"select", "armed", "failures_read", "backoff_read"}

\* Positions of one run task.  The steps after `working' are the writes of
\* finish_with_outcome_at, in the order the code makes them.
RunSteps == {"none", "working", "failures_write", "partials_write",
             "backoff_write", "release"}

Init ==
    /\ dirty = Unset
    /\ running = FALSE
    /\ failures = 0
    /\ partials = 0
    /\ backoff = 0
    /\ tick = "select"
    /\ run = [r \in Runs |-> "none"]
    /\ outcome = [r \in Runs |-> "AllCrashed"]

-----------------------------------------------------------------------------
\* Mutated forms of definitions below: slips the properties must catch.

\* mark_dirty opens a new window on every commit.
MarkDirtyMovesFirstArm ==
    /\ dirty' = [some |-> TRUE, left |-> Debounce, age |-> 0]
    /\ UNCHANGED <<running, failures, partials, backoff, tick, run, outcome>>

\* The claim stores `running' instead of comparing and exchanging it.
ClaimWithoutCas(r) ==
    /\ tick = "backoff_read"
    /\ dirty.some /\ (dirty.left = 0 \/ dirty.age >= MaxDefer)
    /\ run[r] = "none"
    /\ running' = TRUE
    /\ dirty' = Unset
    /\ run' = [run EXCEPT ![r] = "working"]
    /\ tick' = "select"
    /\ UNCHANGED <<failures, partials, backoff, outcome>>

\* try_claim_at without the all-crash cap.
ReadFailuresUncapped ==
    /\ tick = "armed"
    /\ tick' = "failures_read"
    /\ UNCHANGED <<dirty, running, failures, partials, backoff, run, outcome>>

\* The mark is consumed when the run ends instead of when it is claimed.
ReleaseConsumesMark(r) ==
    /\ run[r] = "release"
    /\ running' = FALSE
    /\ dirty' = Unset
    /\ run' = [run EXCEPT ![r] = "none"]
    /\ outcome' = [outcome EXCEPT ![r] = "AllCrashed"]
    /\ UNCHANGED <<failures, partials, backoff, tick>>

\* The doubling without the 15 minute ceiling.
DelayUncapped(n) == BackoffBase * 2^(IF n < MaxShift THEN n ELSE MaxShift)

-----------------------------------------------------------------------------
\* One unit of time passes: every relative instant moves.  A call reads the
\* clock once, and a unit is far longer than a call, so none passes inside one.
Elapse ==
    /\ tick = "select"
    /\ \A r \in Runs : run[r] \in {"none", "working"}
    /\ dirty' = IF dirty.some
                THEN [dirty EXCEPT !.left = IF @ > 0 THEN @ - 1 ELSE 0,
                                   !.age = IF @ < MaxDefer THEN @ + 1 ELSE @]
                ELSE dirty
    /\ backoff' = IF backoff > 0 THEN backoff - 1 ELSE 0
    /\ UNCHANGED <<running, failures, partials, tick, run, outcome>>

\* mark_dirty: a commit-triggered reindex or a repaired HEAD drift.  The
\* deadline moves, first_arm stays.
MarkDirty ==
    /\ dirty' = IF dirty.some
                THEN [dirty EXCEPT !.left = Debounce]
                ELSE [some |-> TRUE, left |-> Debounce, age |-> 0]
    /\ UNCHANGED <<running, failures, partials, backoff, tick, run, outcome>>

\* arm_immediate, which phase_b_tick calls when last_commit and
\* phase_b_commit differ; `pending' is that comparison.
ArmImmediate(pending) ==
    /\ tick = "select"
    /\ dirty' = IF pending /\ ~dirty.some
                THEN [some |-> TRUE, left |-> 0, age |-> 0]
                ELSE dirty
    /\ tick' = "armed"
    /\ UNCHANGED <<running, failures, partials, backoff, run, outcome>>

\* try_claim_at, first read: the all-crash retry cap.
ReadFailures ==
    /\ tick = "armed"
    /\ tick' = IF failures >= MaxFailures THEN "select" ELSE "failures_read"
    /\ UNCHANGED <<dirty, running, failures, partials, backoff, run, outcome>>

\* try_claim_at, second read: the partial-crash back-off gate.
ReadBackoff ==
    /\ tick = "failures_read"
    /\ tick' = IF backoff > 0 THEN "select" ELSE "backoff_read"
    /\ UNCHANGED <<dirty, running, failures, partials, backoff, run, outcome>>

\* now >= deadline, or the window has been open for max_defer.
Due == dirty.some /\ (dirty.left = 0 \/ dirty.age >= MaxDefer)

\* try_claim_at, under the `dirty' lock: claim the slot, consume the mark and
\* start the run task.
Claim(r) ==
    /\ tick = "backoff_read"
    /\ Due /\ ~running
    /\ run[r] = "none"
    /\ running' = TRUE
    /\ dirty' = Unset
    /\ run' = [run EXCEPT ![r] = "working"]
    /\ tick' = "select"
    /\ UNCHANGED <<failures, partials, backoff, outcome>>

\* try_claim_at, under the `dirty' lock: nothing due, or the slot is taken.
NoClaim ==
    /\ tick = "backoff_read"
    /\ ~Due \/ running
    /\ tick' = "select"
    /\ UNCHANGED <<dirty, running, failures, partials, backoff, run, outcome>>

-----------------------------------------------------------------------------
\* The run ends, or unwinds: the finish guard then reports AllCrashed (#404).
Work(r, o) ==
    /\ run[r] = "working"
    /\ outcome' = [outcome EXCEPT ![r] = o]
    /\ run' = [run EXCEPT ![r] = "failures_write"]
    /\ UNCHANGED <<dirty, running, failures, partials, backoff, tick>>

\* finish_with_outcome_at, first write: consecutive_failures.
FinishFailures(r) ==
    /\ run[r] = "failures_write"
    /\ failures' = IF outcome[r] = "AllCrashed" THEN failures + 1 ELSE 0
    /\ run' = [run EXCEPT ![r] = IF outcome[r] = "AllCrashed"
                                 THEN "release" ELSE "partials_write"]
    /\ UNCHANGED <<dirty, running, partials, backoff, tick, outcome>>

\* Delay after n earlier partial runs in a row: doubled each time, capped.
Delay(n) ==
    LET doubled == BackoffBase * 2^(IF n < MaxShift THEN n ELSE MaxShift)
    IN  IF doubled < BackoffCap THEN doubled ELSE BackoffCap

\* finish_with_outcome_at, second write: consecutive_partials.  Counts above
\* MaxShift give the same delay and are identified.
FinishPartials(r) ==
    /\ run[r] = "partials_write"
    /\ partials' = IF outcome[r] = "Success" THEN 0
                   ELSE IF partials <= MaxShift THEN partials + 1 ELSE partials
    /\ run' = [run EXCEPT ![r] = "backoff_write"]
    /\ UNCHANGED <<dirty, running, failures, backoff, tick, outcome>>

\* finish_with_outcome_at, third write: backoff_until, from the count that
\* fetch_add returned.
FinishBackoff(r) ==
    /\ run[r] = "backoff_write"
    /\ backoff' = IF outcome[r] = "Success" THEN 0 ELSE Delay(partials - 1)
    /\ run' = [run EXCEPT ![r] = "release"]
    /\ UNCHANGED <<dirty, running, failures, partials, tick, outcome>>

\* finish_with_outcome_at, last write: the slot is free.
Release(r) ==
    /\ run[r] = "release"
    /\ running' = FALSE
    /\ run' = [run EXCEPT ![r] = "none"]
    /\ outcome' = [outcome EXCEPT ![r] = "AllCrashed"]
    /\ UNCHANGED <<dirty, failures, partials, backoff, tick>>

-----------------------------------------------------------------------------
TickStep ==
    \/ \E pending \in BOOLEAN : ArmImmediate(pending)
    \/ ReadFailures
    \/ ReadBackoff
    \/ \E r \in Runs : Claim(r)
    \/ NoClaim

RunStep(r) ==
    \/ \E o \in Outcomes : Work(r, o)
    \/ FinishFailures(r)
    \/ FinishPartials(r)
    \/ FinishBackoff(r)
    \/ Release(r)

Next ==
    \/ Elapse
    \/ MarkDirty
    \/ TickStep
    \/ \E r \in Runs : RunStep(r)

Spec == Init /\ [][Next]_vars

\* The select loop keeps polling, a run that was started ends (its sidecars
\* have a watchdog and a panic is caught by the guard), and time passes.
Fairness ==
    /\ SF_vars(Elapse)
    /\ WF_vars(TickStep)
    /\ \A r \in Runs : WF_vars(RunStep(r))

FairSpec == Spec /\ Fairness

-----------------------------------------------------------------------------
\* Every field keeps its type; the relative instants stay in range.
TypeOK ==
    /\ dirty \in Marks
    /\ running \in BOOLEAN
    /\ failures \in Nat
    /\ partials \in 0..(MaxShift + 1)
    /\ backoff \in 0..BackoffCap
    /\ tick \in TickSteps
    /\ run \in [Runs -> RunSteps]
    /\ outcome \in [Runs -> Outcomes]

\* At most one background Phase B run is in flight, whatever the order of the
\* tick's reads and the run's writes (`running', phase_b_sched.rs).
SingleFlight ==
    \A r, s \in Runs : run[r] # "none" /\ run[s] # "none" => r = s

\* The all-crash retry cap is read before the slot is claimed, so a run that
\* crashes in between lets one more run through, and never a second: broken
\* sidecars are started at most one time over MAX_FAILURES.
CrashBudget == failures <= MaxFailures + 1

\* The inductive strengthening of SingleFlight and CrashBudget.  The flag
\* covers every task that has not yet released the slot; a partial run about
\* to set the back-off was counted and nobody reset the count since; and the
\* crash count leaves room for what is still under way: a run that may yet
\* crash, and a tick that has already passed the cap.
SlotHeld == \A r \in Runs : run[r] # "none" => running

PartialCounted ==
    \A r \in Runs :
        run[r] = "backoff_write" /\ outcome[r] # "Success" => partials > 0

PassedCap == tick \in {"failures_read", "backoff_read"}

MayCrash(r) == run[r] \in {"working", "failures_write"}

CrashRoom ==
    /\ PassedCap => failures <= MaxFailures
    /\ \A r \in Runs : MayCrash(r) => failures <= MaxFailures
    /\ \A r \in Runs : MayCrash(r) /\ PassedCap => failures < MaxFailures

Inv == TypeOK /\ SingleFlight /\ CrashBudget /\ SlotHeld /\ PartialCounted /\ CrashRoom

\* A pending mark disappears only into a run that starts after it, so a commit
\* that arms the scheduler while a run is in flight is not swallowed by that
\* run's completion.
MarkConsumedByRun ==
    [][dirty.some /\ ~dirty'.some =>
         \E r \in Runs : run[r] = "none" /\ run'[r] = "working"]_vars

\* FT-M6 and #511: a pending mark leads to a run under any stream of commits
\* and any sequence of partial runs, unless the all-crash cap is reached.
NoStarvation == dirty.some ~> (~dirty.some \/ failures >= MaxFailures)

=============================================================================
