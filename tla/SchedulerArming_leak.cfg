SPECIFICATION ArmSpec
CONSTANTS
    Nothing = Nothing
    JobNames = {"backup"}
    Armings = {a1, a2, a3}
    Threads = {k1, k2}
    Triggers = 1
    ArmsMayFail = TRUE
CHECK_DEADLOCK FALSE
INVARIANT ShutdownStopsAll
