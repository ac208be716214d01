------------------------------ MODULE MCStorage ------------------------------
(* Small instances of the parts that work on files: the storage backends, the *)
(* integrity monitor, the operations on whole trees, downloads over HTTP, the *)
(* vendors' remote operations, the small stores kept in a directory, the      *)
(* names of files and the work on a local tree.  A behaviour exercises one    *)
(* component; the variables of the others are Off.                            *)
EXTENDS IntegrityMonitor, HttpDownload, LocalStores

VARIABLES
    component,
    backend, machine, kept, twins, hidden, op, failures,
    origin, copied, result, rounds,
    vendor, session, local, remote, call, left,
    half, mounts, factories, changes, lookup, disk, job, peek,
    task, present, turns, always, ever, hunt, folder, queue, gone, unpacked, answer

Off == "off"

-----------------------------------------------------------------------------
(* Storage backends: a folder d with a file f, and a file g *)

BPaths == {"d", "f", "g"}

BParent == ("d" :> "") @@ ("f" :> "d") @@ ("g" :> "")

BCore == INSTANCE StorageBackend
         WITH Paths <- BPaths, Parent <- BParent, Root <- "", Setups <- {},
              server <- machine, store <- kept, faults <- failures

Server(strict, far) == [strict |-> strict, far |-> far]

Plain == Server(FALSE, FALSE)

Systems ==
    ({BCore!LocalStorage, BCore!MemoryStorage, BCore!FsspecStorage, BCore!WebDAVStorage,
      BCore!OneDriveStorage, BCore!GoogleDriveStorage, BCore!S3Storage, BCore!AzureStorage} \X {Plain})
    \union ({BCore!SFTPStorage, BCore!FTPStorage, BCore!SMBStorage} \X {Plain, Server(TRUE, FALSE)})
    \union {<<BCore!LocalStorage, Server(FALSE, TRUE)>>, <<BCore!WebDAVStorage, Server(FALSE, TRUE)>>,
            <<BCore!DropboxStorage, Server(TRUE, FALSE)>>}

Stores(k) ==
    {t \in [BPaths -> {"none", "dir", "v", "w"}] :
        /\ t["f"] # "dir" /\ t["g"] # "dir" /\ t["d"] \in {"none", "dir", "w"}
        /\ t["f"] # "none" => t["d"] = IF ~k[1].directories THEN "none" ELSE "dir"
        /\ t["f"] # "w" /\ t["g"] # "v"}

Calls ==
    {BCore!Call(n, p, p, "n", o, FALSE) : n \in {"upload", "open_write"}, p \in {"f", "g", "d"}, o \in BOOLEAN}
    \union {BCore!Call(n, p, q, "none", o, FALSE) : n \in {"copy", "move"}, p \in {"f", "g"}, q \in {"f", "g"},
                                                      o \in BOOLEAN}
    \union {BCore!Call("mkdir", p, p, "none", o, FALSE) : p \in {"d", "g"}, o \in BOOLEAN}
    \union {BCore!Call("delete", p, p, "none", o, r) : p \in {"d", "f"}, o \in BOOLEAN, r \in BOOLEAN}
    \union {BCore!Call(n, "f", "f", "none", FALSE, FALSE) : n \in {"download", "stat"}}

Setup(k, t, calls, n) == [backend |-> k[1], server |-> k[2], store |-> t, calls |-> calls, faults |-> n]

\* One client and two requests that fail
Alone == UNION {{Setup(k, t, <<a>>, 2) : t \in Stores(k), a \in Calls} : k \in Systems}

\* Two clients on one path or its folder
Racing ==
    UNION {{Setup(k, t, <<a, b>>, 0) : t \in {u \in Stores(k) : u["g"] = "w"},
             a \in {BCore!Call("delete", "f", "f", "none", o, FALSE) : o \in BOOLEAN}
                   \union {BCore!Call("upload", "f", "f", "v", FALSE, FALSE)}
                   \union {BCore!Call("mkdir", "d", "d", "none", TRUE, FALSE)},
             b \in {BCore!Call("upload", "f", "f", "n", TRUE, FALSE),
                    BCore!Call("open_write", "f", "f", "n", FALSE, FALSE),
                    BCore!Call("move", "f", "g", "none", TRUE, FALSE)}}
           : k \in Systems}

B == INSTANCE StorageBackend
     WITH Paths <- BPaths, Parent <- BParent, Root <- "", Setups <- Alone \union Racing,
          server <- machine, store <- kept, faults <- failures

BackendOff ==
    /\ backend = Off /\ machine = Off /\ kept = Off /\ twins = Off /\ hidden = Off /\ op = Off /\ failures = Off

-----------------------------------------------------------------------------
(* Integrity: two files, two contents of the same size *)

SomePaths == 1..2

SomeContents == {"x", "y"}

SomeSize == [c \in SomeContents |-> 1]

SomeUnder == ("file" :> {1}) @@ ("directory" :> {1, 2})

SomeMirror == <<"x", "x">>

SomeInstants == {1}

File(c) == [sum |-> c, size |-> 1, stamp |-> 1, mode |-> 0]

Policy(created, modified, deleted, keeps, renames) ==
    [created |-> created, modified |-> modified, deleted |-> deleted, keeps |-> keeps, renames |-> renames]

Watch == Policy("none", "none", "none", FALSE, FALSE)

One == <<File("x"), Absent>>

Two == <<File("x"), File("y")>>

Repairs ==
    ({One, Two} \X {Policy("quarantine", "restore", "restore", TRUE, FALSE)})
    \union {<<Two, Policy("none", "restore", "restore", FALSE, FALSE)>>,
            <<One, Policy("quarantine", "quarantine", "none", TRUE, TRUE)>>}

Budget(passes, edits, bad) == [pass |-> passes, edit |-> edits, fault |-> bad]

SomeSetups ==
    {[tree |-> One, stored |-> s, policy |-> Watch, budget |-> Budget(3, 2, 0)] : s \in {"none", "legacy", "present"}}
    \union {[tree |-> Two, stored |-> "present", policy |-> Watch, budget |-> Budget(4, 1, 2)]}
    \union {[tree |-> r[1], stored |-> "present", policy |-> r[2], budget |-> Budget(2, 2, 0)] : r \in Repairs}

IntegrityOff == baseline = NoBaseline

-----------------------------------------------------------------------------
(* Trees: of storages, of a local disk with links, and of backups on two days *)
(* of one week and one of the next; contents 1 and 2 have the same size and   *)
(* begin alike                                                                *)

Version(content, time) == [content |-> content, time |-> time]

Weekdays == ("day" :> <<1, 2, 3>>) @@ ("week" :> <<1, 1, 2>>)

T == INSTANCE TreeOperations
     WITH Paths <- 1..4, Parent <- <<0, 1, 2, 1>>, Root <- 0,
          Versions <- {Version(1, 1), Version(2, 2), Version(3, 1)}, Links <- {},
          Size <- <<1, 1, 2>>, Start <- <<1, 1, 3>>, Bucket <- Weekdays, Matching <- {}, MaxTime <- 2,
          source <- origin, target <- copied

TL == INSTANCE TreeOperations
      WITH Paths <- 1..3, Parent <- <<0, 1, 0>>, Root <- 0,
           Versions <- {Version(1, 1), Version(2, 2), Version(3, 1)}, Links <- {1, 3},
           Size <- <<1, 1, 2>>, Start <- <<1, 1, 3>>, Bucket <- Weekdays, Matching <- {}, MaxTime <- 2,
           source <- origin, target <- copied

TB == INSTANCE TreeOperations
      WITH Paths <- 1..4, Parent <- <<0, 0, 0, 3>>, Root <- 0,
           Versions <- {Version(1, 1), Version(1, 3), Version(2, 2), Version(3, 2)}, Links <- {},
           Size <- <<1, 1, 2>>, Start <- <<1, 1, 3>>, Bucket <- Weekdays, Matching <- {1, 2, 3}, MaxTime <- 3,
           source <- origin, target <- copied

TreeOff == origin = Off /\ copied = Off /\ result = Off /\ rounds = Off

-----------------------------------------------------------------------------
(* Downloads: a resource of two chunks that may be replaced by one of three *)

SomeVersions == <<<<"a1", "a2">>, <<"b1", "b2", "b3">>>>

SomeChunks == {"a1", "a2", "b1", "b2", "b3"}

HttpOff == server = [honours |-> TRUE, sized |-> TRUE]

-----------------------------------------------------------------------------
(* Remote operations: two files, the second one large, and two servers *)

RFiles == {1, 2}

RCore == INSTANCE RemoteOperations
         WITH Files <- RFiles, Large <- {2}, Servers <- {"s", "t"}, Setups <- {}, NoServer <- "none"

RSetups(vs, ops) ==
    {[vendor |-> v, op |-> o, stored |-> t, left |-> [fault |-> 1, edit |-> 1, session |-> 1]] :
        v \in vs, o \in ops, t \in {<<"none", "none">>, <<"o", "none">>, <<"o", "p">>}}

R == INSTANCE RemoteOperations
     WITH Files <- RFiles, Large <- {2}, Servers <- {"s", "t"}, NoServer <- "none",
          Setups <- RSetups(RCore!Vendors, {"upload", "download", "delete", "list", "copy_between"})
                    \union RSetups(RCore!Walkers, {"upload_dir"})
                    \union RSetups({v \in RCore!Vendors : v.name = "gdrive"}, {"folder"})

RemoteOff == vendor = Off /\ session = Off /\ local = Off /\ remote = Off /\ call = Off /\ left = Off

-----------------------------------------------------------------------------
(* Stores in a directory: two processes, the second with two threads *)

SomeClients == {"x", "y", "z"}

SomeInstances == [x |-> "p", y |-> "q", z |-> "q"]

StoresOff == store = "lock"

-----------------------------------------------------------------------------
(* Names: two schemes, mounts up to two levels deep, files of up to six bytes *)

Spelled(schemes, pieces) == [scheme : schemes, pieces : pieces]

N == INSTANCE StorageNames
     WITH Texts <- Spelled({"local", "file", "s3", "odd"},
                           [1..3 -> {"", ".", "..", "a", "b"}] \union {<<a>> : a \in {"", "a", "A"}}
                           \union {<<a, b, c>> : a \in {"A", "a", ""}, b \in {"a", "b"}, c \in {"a", "b"}})
                   \union Spelled({"memory", "s3:"}, {<<"">>, <<"a", "b">>})
                   \union Spelled({"none"}, [1..3 -> {"", "..", "a"}] \union {<<"">>, <<"a">>})
                   \union Spelled({"s3"}, {<<"me@a", "b">>}),
          Schemes <- {"local", "memory", "s3"}, Alias <- [file |-> "local"],
          Ambiguous <- {"s3:"}, Cwd <- <<"b">>, Credentials <- {"me@a"},
          Folded <- [a \in {"", ".", "..", "a", "b", "A"} |-> IF a = "A" THEN "a" ELSE a],
          MountPoints <- Spelled({"s3"}, {<<"a">>, <<"A", "a">>, <<"a", "a", "b">>, <<"b", "a">>}),
          Backends <- {"B1", "B2"}, Files <- [size : 0..6, kind : {"text", "binary"}],
          FetchLimit <- 3, HexBytes <- 2, MaxChanges <- 2, part <- half

NamesOff ==
    /\ half = Off /\ mounts = Off /\ factories = Off /\ changes = Off /\ lookup = Off /\ disk = Off /\ job = Off
    /\ peek = Off

-----------------------------------------------------------------------------
(* A local tree: two directories, one that cannot be read, two files, a link *)

F == INSTANCE LocalFiles
     WITH Nodes <- 1..5, Parent <- <<0, 1, 1, 0, 4>>, Kind <- <<"dir", "file", "link", "dir", "file">>,
          Matching <- {1, 2, 3, 5}, Unreadable <- {4}, Hits <- <<0, 2, 0, 0, 1>>, MaxChanges <- 2,
          Searches <- [tool : {"find"}, limit : {1, 9}, filesOnly : BOOLEAN, index : BOOLEAN]
                      \union [tool : {"grep"}, limit : {2, 9}, filesOnly : {TRUE}, index : {FALSE}],
          Names <- {"a", "b", "c", "t0", "t1", "t2"}, NewNames <- <<"t0", "t1", "t2">>,
          Archives <- [tool : {"zip", "tar", "tar_ops", "7z"},
                       members : UNION {[1..n -> {"file", "beyond", "link"}] : n \in 0..3}],
          changes <- turns, lost <- gone

FilesOff ==
    /\ task = Off /\ present = Off /\ turns = Off /\ always = Off /\ ever = Off /\ hunt = Off /\ folder = Off
    /\ queue = Off /\ gone = Off /\ unpacked = Off /\ answer = Off

-----------------------------------------------------------------------------
backendVars == <<backend, machine, kept, twins, hidden, op, failures>>

treeVars == <<origin, copied, result, rounds>>

remoteVars == <<vendor, session, local, remote, call, left>>

namesVars == <<half, mounts, factories, changes, lookup, disk, job, peek>>

filesVars == <<task, present, turns, always, ever, hunt, folder, queue, gone, unpacked, answer>>

MCvars == <<component, backendVars, vars, treeVars, httpVars, remoteVars, storeVars, namesVars, filesVars>>

\* What a behaviour does not exercise starts in one state only.
MCInit ==
    /\ component \in {"backend", "integrity", "trees", "disks", "backups", "http", "remote", "stores", "names", "files"}
    /\ Init /\ (component # "integrity" => IntegrityOff)
    /\ HttpInit /\ (component # "http" => HttpOff)
    /\ StoreInit /\ (component # "stores" => StoresOff)
    /\ IF component = "backend" THEN B!Init ELSE BackendOff
    /\ CASE component = "trees" -> T!TreeInit
         [] component = "disks" -> TL!TreeInit
         [] component = "backups" -> TB!BackupInit
         [] OTHER -> TreeOff
    /\ IF component = "remote" THEN R!RemoteInit ELSE RemoteOff
    /\ IF component = "names" THEN N!NameInit ELSE NamesOff
    /\ IF component = "files" THEN F!LocalInit ELSE FilesOff

BackendMoves ==
    /\ component = "backend" /\ B!Next
    /\ UNCHANGED <<component, vars, treeVars, httpVars, remoteVars, storeVars, namesVars, filesVars>>

IntegrityMoves ==
    /\ component = "integrity" /\ Next
    /\ UNCHANGED <<component, backendVars, treeVars, httpVars, remoteVars, storeVars, namesVars, filesVars>>

TreeMoves ==
    /\ \/ component = "trees" /\ T!StorageNext
       \/ component = "disks" /\ TL!LocalNext
       \/ component = "backups" /\ TB!BackupNext
    /\ UNCHANGED <<component, backendVars, vars, httpVars, remoteVars, storeVars, namesVars, filesVars>>

HttpMoves ==
    /\ component = "http" /\ HttpNext
    /\ UNCHANGED <<component, backendVars, vars, treeVars, remoteVars, storeVars, namesVars, filesVars>>

RemoteMoves ==
    /\ component = "remote" /\ R!RemoteNext
    /\ UNCHANGED <<component, backendVars, vars, treeVars, httpVars, storeVars, namesVars, filesVars>>

StoresMove ==
    /\ component = "stores" /\ StoreNext
    /\ UNCHANGED <<component, backendVars, vars, treeVars, httpVars, remoteVars, namesVars, filesVars>>

NamesMove ==
    /\ component = "names" /\ N!NameNext
    /\ UNCHANGED <<component, backendVars, vars, treeVars, httpVars, remoteVars, storeVars, filesVars>>

FilesMove ==
    /\ component = "files" /\ F!LocalNext
    /\ UNCHANGED <<component, backendVars, vars, treeVars, httpVars, remoteVars, storeVars, namesVars>>

MCNext ==
    \/ BackendMoves \/ IntegrityMoves \/ TreeMoves \/ HttpMoves \/ RemoteMoves \/ StoresMove \/ NamesMove
    \/ FilesMove

MCSpec == MCInit /\ [][MCNext]_MCvars

\* StorageBackend, on every backend: an undisturbed call that finished has left what its contract says;
\* while requests fail a transfer loses no content (an upload that is written in its place aside); and
\* of two calls that race for one path the file is what one that succeeded made of it.
BackendSound == component = "backend" => B!ContractHolds /\ B!ContentSurvives /\ B!RaceEndsWell

\* What an operation on files says it did is what it did.  TreeOperations: a mirror run without failures
\* makes the target equal to the source; a local one reports what it did; dry runs, manifests, duplicates
\* and rotation agree with their definitions.  IntegrityMonitor: repairs that all succeeded have restored
\* the baseline.  RemoteOperations: what an operation answers is what it did.  StorageNames: a URI, a
\* mount and the Files service lead where they say.  LocalFiles: searches, renames and unpacking do what
\* they say while the tree changes.
FilesSound ==
    /\ component = "trees" => T!SyncConverges /\ T!ManifestsAgree
    /\ component = "disks" => TL!LocalAgrees
    /\ component = "backups" => TB!BackupsAgree
    /\ component = "integrity" => RepairIsComplete
    /\ component = "remote" => R!AnswersAreTrue
    /\ component = "names" => N!NamesLead
    /\ component = "files" => F!LocalWork
=============================================================================
