------------------------- MODULE PhaseBSchedulerProofs -------------------------
(***************************************************************************)
(* Proofs about PhaseBScheduler, for every debounce, ceiling, back-off,    *)
(* retry cap and set of run tasks.                                         *)
(***************************************************************************)
EXTENDS PhaseBScheduler, TLAPS

\* The delay after a partial run is within the back-off ceiling.
LEMMA DelayBounded == \A n \in Nat : Delay(n) \in 0..BackoffCap
<1> SUFFICES ASSUME NEW n \in Nat PROVE Delay(n) \in 0..BackoffCap
    OBVIOUS
<1> DEFINE shift == IF n < MaxShift THEN n ELSE MaxShift
           doubled == BackoffBase * 2^shift
<1>1. shift \in 0..MaxShift
    BY SchedulerAssumption
<1>2. doubled \in Nat
    BY <1>1, SchedulerAssumption
<1> QED
    BY <1>2, SchedulerAssumption DEF Delay

\* The inductive invariant holds initially.
LEMMA InitInv == Init => Inv
<1> SUFFICES ASSUME Init PROVE Inv
    OBVIOUS
<1> USE SchedulerAssumption DEF Init
<1>1. TypeOK
  <2>1. dirty \in Marks
      BY DEF Unset, Marks
  <2>2. failures \in Nat /\ partials \in 0..(MaxShift + 1) /\ backoff \in 0..BackoffCap
      OBVIOUS
  <2>3. tick \in TickSteps /\ running \in BOOLEAN
      BY DEF TickSteps
  <2>4. run \in [Runs -> RunSteps] /\ outcome \in [Runs -> Outcomes]
      BY DEF RunSteps, Outcomes
  <2> QED
      BY <2>1, <2>2, <2>3, <2>4 DEF TypeOK
<1>2. SingleFlight /\ CrashBudget /\ SlotHeld /\ PartialCounted
    BY DEF SingleFlight, CrashBudget, SlotHeld, PartialCounted
<1>3. CrashRoom
    BY DEF CrashRoom, PassedCap, MayCrash
<1> QED
    BY <1>1, <1>2, <1>3 DEF Inv

\* The passing of time preserves the inductive invariant.
LEMMA ElapseInv == Inv /\ Elapse => Inv'
<1> SUFFICES ASSUME Inv, Elapse PROVE Inv'
    OBVIOUS
<1> USE SchedulerAssumption DEF Inv, Elapse
<1>1. TypeOK'
  <2>1. dirty' \in Marks
    <3> DEFINE l == IF dirty.left > 0 THEN dirty.left - 1 ELSE 0
               a == IF dirty.age < MaxDefer THEN dirty.age + 1 ELSE dirty.age
    <3>1. l \in 0..Debounce /\ a \in 0..MaxDefer
        BY DEF TypeOK, Marks
    <3>2. dirty.some => dirty' = [dirty EXCEPT !.left = l, !.age = a]
        OBVIOUS
    <3>3. ~dirty.some => dirty' = dirty
        OBVIOUS
    <3> HIDE DEF l, a, Elapse
    <3>4. [dirty EXCEPT !.left = l, !.age = a] \in Marks
        BY <3>1 DEF TypeOK, Marks
    <3> QED
        BY <3>2, <3>3, <3>4 DEF TypeOK
  <2>2. backoff' \in 0..BackoffCap
      BY DEF TypeOK
  <2> QED
      BY <2>1, <2>2 DEF TypeOK
<1> QED
    BY <1>1 DEF SingleFlight, CrashBudget, SlotHeld, PartialCounted,
                CrashRoom, PassedCap, MayCrash

\* Arming the scheduler preserves the inductive invariant.
LEMMA MarkDirtyInv == Inv /\ MarkDirty => Inv'
<1> SUFFICES ASSUME Inv, MarkDirty PROVE Inv'
    OBVIOUS
<1> USE SchedulerAssumption DEF Inv, MarkDirty
<1>1. TypeOK'
    BY DEF TypeOK, Marks
<1> QED
    BY <1>1 DEF SingleFlight, CrashBudget, SlotHeld, PartialCounted,
                CrashRoom, PassedCap, MayCrash

\* Every step of phase_b_tick preserves the inductive invariant.
LEMMA TickInv == Inv /\ TickStep => Inv'
<1> SUFFICES ASSUME Inv, TickStep PROVE Inv'
    OBVIOUS
<1> USE SchedulerAssumption DEF Inv
<1>1. ASSUME NEW p \in BOOLEAN, ArmImmediate(p) PROVE Inv'
  <2>1. TypeOK'
      BY <1>1 DEF ArmImmediate, TypeOK, Marks, TickSteps
  <2> QED
      BY <1>1, <2>1 DEF ArmImmediate, SingleFlight, CrashBudget, SlotHeld,
                        PartialCounted, CrashRoom, PassedCap, MayCrash
<1>2. CASE ReadFailures
  <2>1. TypeOK'
      BY <1>2 DEF ReadFailures, TypeOK, TickSteps
  <2>2. CrashRoom'
      BY <1>2 DEF ReadFailures, TypeOK, CrashRoom, PassedCap, MayCrash
  <2> QED
      BY <1>2, <2>1, <2>2 DEF ReadFailures, SingleFlight, CrashBudget,
                              SlotHeld, PartialCounted
<1>3. CASE ReadBackoff
  <2>1. TypeOK'
      BY <1>3 DEF ReadBackoff, TypeOK, TickSteps
  <2>2. CrashRoom'
      BY <1>3 DEF ReadBackoff, CrashRoom, PassedCap, MayCrash
  <2> QED
      BY <1>3, <2>1, <2>2 DEF ReadBackoff, SingleFlight, CrashBudget,
                              SlotHeld, PartialCounted
<1>4. ASSUME NEW r \in Runs, Claim(r) PROVE Inv'
  <2>1. TypeOK'
      BY <1>4 DEF Claim, TypeOK, Unset, Marks, TickSteps, RunSteps
  <2>2. \A s \in Runs : run[s] = "none"
      BY <1>4 DEF Claim, SlotHeld
  <2>3. SingleFlight' /\ SlotHeld' /\ PartialCounted'
      BY <1>4, <2>2 DEF Claim, TypeOK, SingleFlight, SlotHeld, PartialCounted
  <2>4. CrashRoom' /\ CrashBudget'
      BY <1>4, <2>2 DEF Claim, TypeOK, CrashRoom, CrashBudget, PassedCap, MayCrash
  <2> QED
      BY <2>1, <2>3, <2>4
<1>5. CASE NoClaim
  <2>1. TypeOK'
      BY <1>5 DEF NoClaim, TypeOK, TickSteps
  <2> QED
      BY <1>5, <2>1 DEF NoClaim, SingleFlight, CrashBudget, SlotHeld,
                        PartialCounted, CrashRoom, PassedCap, MayCrash
<1> QED
    BY <1>1, <1>2, <1>3, <1>4, <1>5 DEF TickStep

\* Every step of a run task preserves the inductive invariant: the task that
\* moves is the only one in flight, so it finds its own writes undisturbed.
LEMMA RunInv == ASSUME NEW r \in Runs PROVE Inv /\ RunStep(r) => Inv'
<1> SUFFICES ASSUME Inv, RunStep(r) PROVE Inv'
    OBVIOUS
<1> USE SchedulerAssumption DEF Inv
<1>0. \A s \in Runs : s # r => run[s] = "none"
  <2>1. run[r] # "none"
      BY DEF RunStep, Work, FinishFailures, FinishPartials, FinishBackoff, Release
  <2> QED
      BY <2>1 DEF SingleFlight
<1>1. ASSUME NEW o \in Outcomes, Work(r, o) PROVE Inv'
  <2>1. TypeOK'
      BY <1>1 DEF Work, TypeOK, RunSteps
  <2>2. SingleFlight' /\ SlotHeld' /\ PartialCounted' /\ CrashBudget'
      BY <1>0, <1>1 DEF Work, TypeOK, SingleFlight, SlotHeld, PartialCounted,
                        CrashBudget
  <2>3. CrashRoom'
      BY <1>0, <1>1 DEF Work, TypeOK, CrashRoom, PassedCap, MayCrash
  <2> QED
      BY <2>1, <2>2, <2>3
<1>2. CASE FinishFailures(r)
  <2>1. TypeOK'
      BY <1>2 DEF FinishFailures, TypeOK, RunSteps
  <2>2. SingleFlight' /\ SlotHeld' /\ PartialCounted'
      BY <1>0, <1>2 DEF FinishFailures, TypeOK, SingleFlight, SlotHeld,
                        PartialCounted
  <2>3. CrashRoom' /\ CrashBudget'
      BY <1>0, <1>2 DEF FinishFailures, TypeOK, CrashRoom, CrashBudget,
                        PassedCap, MayCrash
  <2> QED
      BY <2>1, <2>2, <2>3
<1>3. CASE FinishPartials(r)
  <2>1. TypeOK'
      BY <1>3 DEF FinishPartials, TypeOK, RunSteps
  <2>2. SingleFlight' /\ SlotHeld' /\ PartialCounted'
      BY <1>0, <1>3 DEF FinishPartials, TypeOK, SingleFlight, SlotHeld,
                        PartialCounted
  <2>3. CrashRoom' /\ CrashBudget'
      BY <1>0, <1>3 DEF FinishPartials, TypeOK, CrashRoom, CrashBudget,
                        PassedCap, MayCrash
  <2> QED
      BY <2>1, <2>2, <2>3
<1>4. CASE FinishBackoff(r)
  <2>1. outcome[r] # "Success" => partials - 1 \in Nat
      BY <1>4 DEF FinishBackoff, TypeOK, PartialCounted
  <2>2. backoff' \in 0..BackoffCap
      BY <1>4, <2>1, DelayBounded DEF FinishBackoff, TypeOK
  <2>3. TypeOK'
      BY <1>4, <2>2 DEF FinishBackoff, TypeOK, RunSteps
  <2>4. SingleFlight' /\ SlotHeld' /\ PartialCounted'
      BY <1>0, <1>4 DEF FinishBackoff, TypeOK, SingleFlight, SlotHeld,
                        PartialCounted
  <2>5. CrashRoom' /\ CrashBudget'
      BY <1>0, <1>4 DEF FinishBackoff, TypeOK, CrashRoom, CrashBudget,
                        PassedCap, MayCrash
  <2> QED
      BY <2>3, <2>4, <2>5
<1>5. CASE Release(r)
  <2>1. TypeOK'
      BY <1>5 DEF Release, TypeOK, RunSteps, Outcomes
  <2>2. SingleFlight' /\ SlotHeld' /\ PartialCounted'
      BY <1>0, <1>5 DEF Release, TypeOK, SingleFlight, SlotHeld, PartialCounted
  <2>3. CrashRoom' /\ CrashBudget'
      BY <1>0, <1>5 DEF Release, TypeOK, CrashRoom, CrashBudget, PassedCap,
                        MayCrash
  <2> QED
      BY <2>1, <2>2, <2>3
<1> QED
    BY <1>1, <1>2, <1>3, <1>4, <1>5 DEF RunStep

\* The strengthened invariant is an invariant of the scheduler.
THEOREM Invariance == Spec => []Inv
<1>1. Inv /\ [Next]_vars => Inv'
  <2> SUFFICES ASSUME Inv, [Next]_vars PROVE Inv'
      OBVIOUS
  <2>1. CASE UNCHANGED vars
      BY <2>1 DEF vars, Inv, TypeOK, SingleFlight, CrashBudget, SlotHeld,
                  PartialCounted, CrashRoom, PassedCap, MayCrash
  <2> QED
      BY <2>1, ElapseInv, MarkDirtyInv, TickInv, RunInv DEF Next
<1> QED
    BY <1>1, InitInv, PTL DEF Spec

\* Every field of the scheduler keeps its type across the steps of the tick
\* and of the run tasks; the back-off never exceeds PARTIAL_BACKOFF_CAP
\* (phase_b_sched.rs).
THEOREM TypeCorrect == Spec => []TypeOK
BY Invariance, PTL DEF Inv

\* At most one background Phase B run is in flight (`running',
\* phase_b_sched.rs), for any number of run tasks.
THEOREM SingleFlightHolds == Spec => []SingleFlight
BY Invariance, PTL DEF Inv

\* A repository whose sidecars all crash sees at most one run beyond
\* MAX_FAILURES in a row, whatever the tick has read when a run crashes.
THEOREM CrashBudgetHolds == Spec => []CrashBudget
BY Invariance, PTL DEF Inv

\* A pending mark is only ever consumed by the claim that starts a run.
THEOREM MarksReachARun == Spec => MarkConsumedByRun
<1>1. Inv /\ [Next]_vars =>
        [dirty.some /\ ~dirty'.some =>
           \E r \in Runs : run[r] = "none" /\ run'[r] = "working"]_vars
  <2> SUFFICES ASSUME Inv, Next, dirty.some, ~dirty'.some
               PROVE  \E r \in Runs : run[r] = "none" /\ run'[r] = "working"
      BY DEF vars
  <2>1. ASSUME NEW r \in Runs, Claim(r)
        PROVE  run[r] = "none" /\ run'[r] = "working"
      BY <2>1 DEF Claim, Inv, TypeOK
  <2>2. \E r \in Runs : Claim(r)
      BY DEF Inv, TypeOK, Marks, Next, Elapse, MarkDirty, TickStep, ArmImmediate,
             ReadFailures, ReadBackoff, NoClaim, RunStep, Work, FinishFailures,
             FinishPartials, FinishBackoff, Release
  <2> QED
      BY <2>1, <2>2
<1> QED
    BY <1>1, Invariance, PTL DEF Spec, MarkConsumedByRun
=============================================================================
