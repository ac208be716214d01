SPECIFICATION MCSpec
CONSTANTS
    r1 = r1
    r2 = r2
    r3 = r3
    k1 = k1
    k2 = k2
    None = None
    Runs = {r1, r2, r3}
    Names = {"backup", "load", "report"}
    Objects = {"backup#1", "backup#2", "load#1", "report#1"}
    NameOf <- AgainNameOf
    AllowOverlap = {"backup#2"}
    Timed = {"backup#1"}
    Listeners = {"load#1", "report#1"}
    MaxChain = 2
    ThreadsRunOut = FALSE
    JobNames = {"backup", "report"}
    Armings = {r1, r2, r3}
    Threads = {k1, k2}
    Triggers = 2
    ArmsMayFail = TRUE
    Nothing = Nothing
    Wall <- FallBack
    Local = "utc"
    Length = 3
    Tickers = {k1, k2}
    Jobs = {"nightly", "hourly"}
    Definition <- Definitions
    Severities = {"info", "warning"}
    MaxTimeout = 365
    Questions <- SomeQuestions
    MaxEdits = 2
    MaxBack = 1
    Flights = {"run1", "run2"}
    ListLength <- ThreeAndNone
SYMMETRY SchedulerSymmetry
CHECK_DEADLOCK FALSE
INVARIANT AccountingExact
INVARIANT OverlapProtected
INVARIANT ChainsCounted
INVARIANT ArmingSound
INVARIANT ClockSound
INVARIANT TargetsAreTold
