SPECIFICATION EditorSpec
CONSTANTS
    RunIds = {r1, r2}
    NoRun = NoRun
    MaxTracked = 1
    MaxCalls = 3
    MaxBad = 1
    Impatient = TRUE
CHECK_DEADLOCK FALSE
INVARIANT OneExecutorPerRun
