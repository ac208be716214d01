SPECIFICATION MCSpec
CONSTANTS
    Runs = {"r1", "r2"}
    Tasks <- ReportTasks
    Deps <- ReportDeps
    Keyed = {"publish"}
    KeyOf <- SameKey
    NoRun = NoRun
    MaxRuns = 1
    MaxLost = 1
    MaxCrashes = 2
    MaxFailures = 2
CHECK_DEADLOCK FALSE
INVARIANT RunsSound
INVARIANT AuthoringSound
INVARIANT ScreensAreTrue
PROPERTY RunsSucceed
PROPERTY StepsAreExact
PROPERTY ListEditsExact
