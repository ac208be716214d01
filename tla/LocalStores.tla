----------------------------- MODULE LocalStores -----------------------------
(* Small stores kept in a directory, used by several clients that share        *)
(* nothing but the files: the trash (local/trash.py), the numbered versions of *)
(* a file (local/versioning.py), the content store (core/content_store.py) and *)
(* the lock file (core/file_lock.py).  A call is several steps on the file     *)
(* system; other clients run, and the process may die, between them.           *)
(* "store" says which of the four a behaviour uses.                            *)
EXTENDS Integers, FiniteSets

CONSTANTS
    Clients,     \* threads that use the lock
    Callers,     \* the ones that use the other stores
    Homes,       \* paths a file can be trashed from
    MaxMade,     \* files made
    MaxSaves,    \* versions saved
    Blobs,       \* contents, each named by its digest
    Inodes,      \* temporary files of the content store: bounds the writes
    Instance,    \* Instance[c]: the FileLock object thread c uses
    None

ASSUME StoreAssumption ==
    /\ Callers \subseteq Clients /\ DOMAIN Instance = Clients
    /\ Blobs # {} /\ "torn" \notin Blobs /\ None \notin Blobs \union Inodes \union {"torn"}

VARIABLES
    store,
    at,          \* where each client is; "dead" after a crash
    \* the trash: a content is the number of its making
    here,        \* here[p]: what is at place p
    bin,         \* the contents in the trash directory, with the place they came from
    metas,       \* the contents that have a sidecar
    hand,        \* what each client is restoring or has moved
    made, lost,  \* ghosts: contents made; contents a restore wrote over
    surprised,   \* ghost: clients whose target was filled after they looked
    \* the versions
    versions,    \* the bucket: [number, saved]
    number,      \* the number each client has chosen
    saves,       \* ghost: saves so far
    overlapped,  \* ghost: two savers chose a number at the same time
    \* the content store
    source,      \* the content of the file that is put
    blob, temp,  \* the inode under the digest's name, and under its .tmp name
    data,        \* data[i]: what inode i holds; "torn" while it is written
    digest, fd,  \* what each client hashed, and the inode it writes
    disturbed,   \* ghost: digests whose puts overlapped, or whose source changed
    \* the lock
    busy,        \* busy[x]: the thread inside FileLock x
    owned,       \* the instances that believe they hold the lock
    locked       \* the open files that hold the operating system's lock

trashVars == <<here, bin, metas, hand, made, lost, surprised>>

versionVars == <<versions, number, saves, overlapped>>

blobVars == <<source, blob, temp, data, digest, fd, disturbed>>

lockVars == <<busy, owned, locked>>

storeVars == <<store, at, trashVars, versionVars, blobVars, lockVars>>

Objects == {Instance[c] : c \in Clients}

StoreInit ==
    /\ store \in {"trash", "versions", "blobs", "lock"}
    /\ at = [c \in Clients |-> "idle"]
    /\ here = [p \in Homes |-> 0] /\ bin = {} /\ metas = {}
    /\ hand = [c \in Clients |-> 0] /\ made = 0 /\ lost = {} /\ surprised = {}
    /\ versions = {} /\ number = [c \in Clients |-> 0] /\ saves = 0 /\ overlapped = FALSE
    /\ source = CHOOSE b \in Blobs : TRUE
    /\ blob = [b \in Blobs |-> None] /\ temp = [b \in Blobs |-> None]
    /\ data = [i \in Inodes |-> None]
    /\ digest = [c \in Clients |-> None] /\ fd = [c \in Clients |-> None] /\ disturbed = {}
    /\ busy = [x \in Objects |-> None] /\ owned = {} /\ locked = {}

Goes(c, where) == at' = [at EXCEPT ![c] = where]

Dies(c) == at[c] \notin {"idle", "dead"} /\ Goes(c, "dead")

-----------------------------------------------------------------------------
(* The trash.                                                                  *)

PlaceOf(n) == (CHOOSE e \in bin : e.content = n).place

InBin(n) == \E e \in bin : e.content = n

\* The clients that have looked at p and are about to restore to it
Aiming(p) == {c \in Clients : at[c] = "restore" /\ InBin(hand[c]) /\ PlaceOf(hand[c]) = p}

Make(p) ==
    /\ here[p] = 0 /\ made < MaxMade
    /\ made' = made + 1 /\ here' = [here EXCEPT ![p] = made + 1]
    /\ surprised' = surprised \union Aiming(p)
    /\ UNCHANGED <<at, bin, metas, hand, lost>>

\* send_to_trash moves first, and writes the sidecar that finds it again after.
Send(c, p) ==
    /\ at[c] = "idle" /\ here[p] # 0
    /\ bin' = bin \union {[content |-> here[p], place |-> p]}
    /\ hand' = [hand EXCEPT ![c] = here[p]]
    /\ here' = [here EXCEPT ![p] = 0]
    /\ Goes(c, "sidecar")
    /\ UNCHANGED <<metas, made, lost, surprised>>

Sidecar(c) ==
    /\ at[c] = "sidecar" /\ Goes(c, "idle")
    /\ metas' = metas \union {hand[c]}
    /\ UNCHANGED <<here, bin, hand, made, lost, surprised>>

TargetFree(p) == here[p] = 0

Look(c, n) ==
    /\ at[c] = "idle" /\ n \in metas /\ InBin(n) /\ TargetFree(PlaceOf(n))
    /\ hand' = [hand EXCEPT ![c] = n]
    /\ surprised' = surprised \ {c}
    /\ Goes(c, "restore")
    /\ UNCHANGED <<here, bin, metas, made, lost>>

\* shutil.move: raises when the entry is gone, and replaces what is there.
PutBack(c) ==
    /\ at[c] = "restore"
    /\ IF InBin(hand[c])
       THEN /\ here' = [here EXCEPT ![PlaceOf(hand[c])] = hand[c]]
            /\ lost' = IF here[PlaceOf(hand[c])] # 0 /\ c \notin surprised
                       THEN lost \union {here[PlaceOf(hand[c])]} ELSE lost
            /\ bin' = {e \in bin : e.content # hand[c]}
            /\ surprised' = surprised \union Aiming(PlaceOf(hand[c]))
            /\ Goes(c, "unlink")
       ELSE Goes(c, "idle") /\ UNCHANGED <<here, bin, lost, surprised>>
    /\ UNCHANGED <<metas, hand, made>>

Unlink(c) ==
    /\ at[c] = "unlink" /\ Goes(c, "idle")
    /\ metas' = metas \ {hand[c]}
    /\ UNCHANGED <<here, bin, hand, made, lost, surprised>>

\* empty_trash deletes the children of the directory one by one.
Empty(c) ==
    /\ at[c] = "idle"
    /\ \/ \E e \in bin : bin' = bin \ {e} /\ UNCHANGED metas
       \/ \E n \in metas : metas' = metas \ {n} /\ UNCHANGED bin
    /\ UNCHANGED <<at, here, hand, made, lost, surprised>>

Trash ==
    \/ \E p \in Homes : Make(p)
    \/ \E c \in Callers :
          \/ \E p \in Homes : Send(c, p)
          \/ \E n \in 1..MaxMade : Look(c, n)
          \/ Sidecar(c) \/ PutBack(c) \/ Unlink(c) \/ Empty(c)
          \/ Dies(c) /\ UNCHANGED trashVars

(* A restore never writes over a file that was there when it looked: what it   *)
(* replaces, if anything, came in between (restore_from_trash).                *)
TrashKeeps == lost = {}

-----------------------------------------------------------------------------
(* Numbered versions of one file.  A content is the number of its save.        *)

Numbers == {v.number : v \in versions}

\* Bug: the versions that are left are counted.
NextVersionByCount == 1 + Cardinality(versions)

\* _next_version: one more than the highest in the bucket
NextVersion == IF versions = {} THEN 1 ELSE 1 + CHOOSE n \in Numbers : \A m \in Numbers : n >= m

ChooseNumber(c) ==
    /\ at[c] = "idle" /\ saves < MaxSaves
    /\ number' = [number EXCEPT ![c] = NextVersion]
    /\ saves' = saves + 1
    /\ overlapped' = (overlapped \/ \E d \in Clients : at[d] = "copy")
    /\ Goes(c, "copy")
    /\ UNCHANGED versions

Copy(c) ==
    /\ at[c] = "copy" /\ Goes(c, "idle")
    /\ versions' = versions \union {[number |-> number[c], saved |-> saves]}
    /\ UNCHANGED <<number, saves, overlapped>>

\* prune: what goes when the "keep" highest numbers stay; of equal numbers any may go first
Victims(keep) ==
    {vs \in SUBSET versions :
        /\ Cardinality(vs) = Cardinality(versions) - keep
        /\ \A v \in vs, w \in versions \ vs : v.number <= w.number}

Prune(c, keep) ==
    /\ at[c] = "idle" /\ Cardinality(versions) > keep
    /\ \E vs \in Victims(keep) : versions' = versions \ vs
    /\ UNCHANGED <<at, number, saves, overlapped>>

Numbered ==
    \E c \in Callers :
        \/ ChooseNumber(c) \/ Copy(c)
        \/ \E keep \in 0..2 : Prune(c, keep)
        \/ Dies(c) /\ UNCHANGED versionVars

(* Unless two saves chose their numbers at the same time, a number names one   *)
(* version, and the higher number is the later save, also after a prune        *)
(* (save_version, restore, prune).  Two that did carry one number in file      *)
(* names that only the time stamps tell apart (versioning.py:64-66).           *)
VersionsDistinct ==
    ~ overlapped => \A v, w \in versions : (v.saved < w.saved) <=> (v.number < w.number)

-----------------------------------------------------------------------------
(* The content store.                                                          *)

Putting(c) == at[c] \in {"hashed", "write", "replace"}

EditSource ==
    /\ \E b \in Blobs \ {source} : source' = b
    /\ disturbed' = disturbed \union {digest[c] : c \in {d \in Clients : Putting(d)}}
    /\ UNCHANGED <<at, blob, temp, data, digest, fd>>

\* put hashes the file, and is done when the blob is there.
Hash(c) ==
    /\ at[c] = "idle" /\ Goes(c, "hashed")
    /\ digest' = [digest EXCEPT ![c] = source]
    /\ disturbed' = IF \E d \in Clients : Putting(d) /\ digest[d] = source
                    THEN disturbed \union {source} ELSE disturbed
    /\ UNCHANGED <<source, blob, temp, data, fd>>

Present(c) ==
    /\ at[c] = "hashed" /\ blob[digest[c]] # None
    /\ Goes(c, "idle")
    /\ UNCHANGED blobVars

\* All puts of one digest share the name of the temporary file.
OpenTemp(c, i) == temp' = [temp EXCEPT ![digest[c]] = i] /\ blob' = blob

OpenBlob(c) ==
    /\ at[c] = "hashed" /\ blob[digest[c]] = None
    /\ \E i \in Inodes :
          /\ IF temp[digest[c]] # None THEN i = temp[digest[c]] ELSE data[i] = None
          /\ OpenTemp(c, i)
          /\ data' = [data EXCEPT ![i] = "torn"]
          /\ fd' = [fd EXCEPT ![c] = i]
    /\ Goes(c, "write")
    /\ UNCHANGED <<source, digest, disturbed>>

Write(c) ==
    /\ at[c] = "write" /\ Goes(c, "replace")
    /\ data' = [data EXCEPT ![fd[c]] = source]
    /\ UNCHANGED <<source, blob, temp, digest, fd, disturbed>>

\* The copy fails: whoever else was writing it, the temporary file is removed.
WriteFails(c) ==
    /\ at[c] = "write" /\ Goes(c, "idle")
    /\ temp' = [temp EXCEPT ![digest[c]] = None]
    /\ UNCHANGED <<source, blob, data, digest, fd, disturbed>>

\* os.replace; it raises when another put has taken the temporary file.
ReplaceBlob(c) ==
    /\ at[c] = "replace" /\ Goes(c, "idle")
    /\ IF temp[digest[c]] = None
       THEN UNCHANGED <<blob, temp>>
       ELSE /\ blob' = [blob EXCEPT ![digest[c]] = temp[digest[c]]]
            /\ temp' = [temp EXCEPT ![digest[c]] = None]
    /\ UNCHANGED <<source, data, digest, fd, disturbed>>

Delete(c, b) ==
    /\ at[c] = "idle" /\ blob[b] # None
    /\ blob' = [blob EXCEPT ![b] = None]
    /\ UNCHANGED <<at, source, temp, data, digest, fd, disturbed>>

Content ==
    \/ EditSource
    \/ \E c \in Callers :
          \/ Hash(c) \/ Present(c) \/ OpenBlob(c) \/ Write(c) \/ WriteFails(c) \/ ReplaceBlob(c)
          \/ \E b \in Blobs : Delete(c, b)
          \/ Dies(c) /\ UNCHANGED blobVars

(* A blob holds the content its digest names, whatever put died on the way,    *)
(* unless two puts of that content overlapped or the source changed under one  *)
(* (put, _write_atomic).                                                       *)
BlobsMatch == \A b \in Blobs \ disturbed : blob[b] # None => data[blob[b]] = b

-----------------------------------------------------------------------------
(* The lock file: threads, the FileLock each uses, and flock.                  *)

\* acquire and release run under the instance's own lock.
Enter(c, what) ==
    /\ at[c] = "idle" /\ busy[Instance[c]] = None
    /\ busy' = [busy EXCEPT ![Instance[c]] = c]
    /\ Goes(c, what)
    /\ UNCHANGED <<owned, locked>>

Leave(c) == Goes(c, "idle") /\ busy' = [busy EXCEPT ![Instance[c]] = None]

AlreadyHeld(c) ==
    /\ at[c] = "acquire" /\ Instance[c] \in owned
    /\ Leave(c)
    /\ UNCHANGED <<owned, locked>>

TryLock == locked = {}

Poll(c) ==
    /\ at[c] = "acquire" /\ Instance[c] \notin owned /\ TryLock
    /\ owned' = owned \union {Instance[c]} /\ locked' = locked \union {Instance[c]}
    /\ Leave(c)

TimeOut(c) ==
    /\ at[c] = "acquire" /\ Instance[c] \notin owned /\ ~ TryLock
    /\ Leave(c)
    /\ UNCHANGED <<owned, locked>>

Release(c) ==
    /\ at[c] = "release"
    /\ owned' = owned \ {Instance[c]} /\ locked' = locked \ {Instance[c]}
    /\ Leave(c)

\* A process that dies gives the lock up: the system closes its files.
LockCrash(c) ==
    /\ at[c] # "dead"
    /\ at' = [d \in Clients |-> IF Instance[d] = Instance[c] THEN "dead" ELSE at[d]]
    /\ owned' = owned \ {Instance[c]} /\ locked' = locked \ {Instance[c]}
    /\ UNCHANGED busy

Lock ==
    \E c \in Clients :
        \/ Enter(c, "acquire") \/ Enter(c, "release")
        \/ AlreadyHeld(c) \/ Poll(c) \/ TimeOut(c) \/ Release(c) \/ LockCrash(c)

(* One instance at most believes it holds the lock, and it does                *)
(* (FileLock.acquire, release).                                                *)
LockExclusive == Cardinality(owned) <= 1 /\ owned = locked

-----------------------------------------------------------------------------
StoreNext ==
    \/ store = "trash" /\ Trash /\ UNCHANGED <<store, versionVars, blobVars, lockVars>>
    \/ store = "versions" /\ Numbered /\ UNCHANGED <<store, trashVars, blobVars, lockVars>>
    \/ store = "blobs" /\ Content /\ UNCHANGED <<store, trashVars, versionVars, lockVars>>
    \/ store = "lock" /\ Lock /\ UNCHANGED <<store, trashVars, versionVars, blobVars>>

(* Each store keeps what it promises. *)
StoresKeep == TrashKeeps /\ VersionsDistinct /\ BlobsMatch /\ LockExclusive
=============================================================================
