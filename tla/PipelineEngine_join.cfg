SPECIFICATION Spec
CONSTANTS
    Tasks <- JoinTasks
    Deps <- JoinDeps
    Level <- JoinLevel
    When <- JoinWhen
    MaxAttempts <- JoinAttempts
    Keyed = {"join"}
    Timed = {"left", "join"}
    MaxWorkers = 1
    CarriedSets <- JoinCarried
    StoreFails = TRUE
    MayInterrupt = FALSE
INVARIANT FlightInv
INVARIANT StartsAreJustified
PROPERTY EndOfTaskToldOnce
