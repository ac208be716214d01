SPECIFICATION MCSpec
CONSTANTS
    Workers = {w1, w2}
    MaxRows = 3
    MaxPriority = 1
    MaxAttempts = 2
    MaxTime = 1
    Mortal = {w1}
    Batches <- SomeBatches
    MaxWorkers = 2
    FailureThreshold = 2
    MaxTries = 2
    Capacity = 1
    MaxTicks = 3
    ConfigFiles <- SomeConfigFiles
    SinkTypes <- SomeSinkTypes
    MaxRewrites = 3
    Paths <- SomePaths
    RealPath <- SomeRealPath
    Policies <- SomePolicies
    Requests <- SomeRequests
    Documents <- Plans
    Foreign = {"new", "absent"}
    MaxCalls = 2
    MaxEdits = 1
    Texts <- SomeTexts
    Limits <- SomeLimits
    Searches <- SomeSearches
    Known = {"read", "write", "batch"}
    Carriers = {"batch"}
    Access <- SomeAccess
    Posts <- SomePosts
    Clients = {"client"}
    LabelValues = {"copy", "move", "read", "delete"}
    Lengths = {0, 125, 126, 127, 255, 256, 65535, 65536}
    MaxLabelValues = 2
    MaxFrames = 1
CHECK_DEADLOCK FALSE
INVARIANT QueueInv
INVARIANT ExecutorSound
INVARIANT ConfigCatchesUp
INVARIANT ToolsTellTheTruth
INVARIANT ServersAnswer
INVARIANT EditsAgree
INVARIANT ReportingSound
PROPERTY NoResurrection
PROPERTY PolicyObeyed
