CONSTANTS
    Debounce = 2
    MaxDefer = 3
    BackoffBase = 1
    BackoffCap = 3
    MaxShift = 2
    MaxFailures = 2
    Runs = {r1, r2}
SPECIFICATION FairSpec
INVARIANTS
    TypeOK
    SingleFlight
    CrashBudget
PROPERTIES
    MarkConsumedByRun
    NoStarvation
