SPECIFICATION MCSpec
CONSTANTS
    Owners = {"a", "b", "c"}
    NoOne = NoOne
    Ttl <- MixedTtl
    Impatient = {"b"}
    Skew <- AheadB
    MaxSkew = 1
    MaxTime = 2
    Nodes <- DiamondNodes
    Deps <- DiamondDeps
    Actionless = {"audit"}
    MaxWorkers = 2
    Loops = {"l1", "l2"}
    Paths = {"a", "b", "tmp"}
    Ignored = {"tmp"}
    FsEvents <- SomeEvents
    Delay = 1
    LongestWait = 2
    Clients = {"x", "y"}
    Watched = {"in", "out"}
    Observers = {"o1", "o2", "o3"}
    Nobody = Nobody
CHECK_DEADLOCK FALSE
INVARIANT LeaseInv
INVARIANT DagSound
INVARIANT WatchersSound
PROPERTY OrphansAreFreed
PROPERTY ChangesAreDelivered
