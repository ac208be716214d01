SPECIFICATION MCSpec
CONSTANTS
    None = None
    Paths <- SomePaths
    Contents <- SomeContents
    Size <- SomeSize
    Under <- SomeUnder
    MirrorOf <- SomeMirror
    Setups <- SomeSetups
    Instants <- SomeInstants
    MaxTime = 8
    Versions <- SomeVersions
    Chunks <- SomeChunks
    MaxBytes = 3
    MaxTries = 3
    MaxCalls = 2
    MaxFaults = 3
    Clients <- SomeClients
    Callers = {"x", "y"}
    Homes = {"here"}
    MaxMade = 2
    MaxSaves = 3
    Blobs = {"c1", "c2"}
    Inodes = {"i1", "i2"}
    Instance <- SomeInstances
CHECK_DEADLOCK FALSE
INVARIANT BackendSound
INVARIANT MonitorSound
INVARIANT FilesSound
INVARIANT DownloadSound
INVARIANT StoresKeep
