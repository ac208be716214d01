SPECIFICATION FairSpec
CONSTANTS
    Tasks <- FlowTasks
    Deps <- FlowDeps
    Level <- FlowLevel
    When <- FlowWhen
    MaxAttempts <- FlowAttempts
    Keyed = {}
    Timed = {"orders", "load"}
    MaxWorkers = 2
    CarriedSets = {{}}
    StoreFails = FALSE
    MayInterrupt = TRUE
INVARIANT BlockedExact
INVARIANT EndIsConsistent
PROPERTY ImplementsContract
PROPERTY RunEnds
