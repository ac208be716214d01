---------------------------- MODULE TreeOperations ----------------------------
(* Operations on whole trees: copying and mirroring one tree into another     *)
(* through the storage backends (storage/tree.py), mirroring local            *)
(* directories (local/sync_ops.py), manifests, duplicates and the rotation    *)
(* of backups.  The algorithms are operators on trees; a step applies one of  *)
(* them to the two trees of this module, with any set of failing files.       *)
EXTENDS Naturals, FiniteSets, Functions, SequencesExt

CONSTANTS
    Paths, Parent, Root,  \* the paths of a tree
    Versions,             \* [content, time]: the files there may be; time 0 is not known
    Links,                \* the paths of its tree to which a symbolic link may lead
    Size, Start,          \* the size of each content, and its first bytes
    Bucket,               \* Bucket[name][t]: the day, week, ... of the time stamp t
    Matching,             \* the paths whose name has the pattern of the backups
    MaxTime               \* a bound on the modification times

VARIABLES
    source, target,       \* two trees
    result,               \* what the latest operation reported
    rounds                \* complete mirror runs since a tree was last edited; runs of sync_dir

treeVars == <<source, target, result, rounds>>

Nothing == [is |-> "none", content |-> 0, time |-> 0]

\* The content of a directory is that of a file copied into it by mistake (CopyOne), and that of a link
\* is the path it leads to.
Folder == [is |-> "dir", content |-> 0, time |-> 0]

File(content, time) == [is |-> "file", content |-> content, time |-> time]

Link(to) == [is |-> "link", content |-> to, time |-> 0]

Entries == {Nothing, Folder} \union {File(v.content, v.time) : v \in Versions} \union {Link(k) : k \in Links}

Files(tree) == {p \in Paths : tree[p].is \in {"file", "link"}}

Folders(tree) == {p \in Paths : tree[p].is = "dir"}

Ancestors[p \in Paths] == IF Parent[p] = Root THEN {} ELSE {Parent[p]} \union Ancestors[Parent[p]]

\* A link stands where no path goes on.
Trees ==
    {tree \in [Paths -> Entries] :
        \A p \in Paths :
            /\ tree[p] # Nothing => \A a \in Ancestors[p] : tree[a].is = "dir"
            /\ tree[p].is = "link" => \A q \in Paths : Parent[q] # p}

Empty == [p \in Paths |-> Nothing]

Report(copied, skipped, deleted, errors, dry) ==
    [copied |-> copied, skipped |-> skipped, deleted |-> deleted, errors |-> errors, dry |-> dry]

\* Something that is no directory is where a directory of the path has to be.
BelowFile(tree, p) == Ancestors[p] \intersect Files(tree) # {}

-----------------------------------------------------------------------------
(* copy_tree and sync_tree *)

\* mkdir of the source's directories, with their parents: refused where a file is in the way
MakeDirectories(src, dst) ==
    [p \in Paths |->
        IF p \in Folders(src) /\ dst[p].is # "file" /\ ~ BelowFile(dst, p) THEN Folder ELSE dst[p]]

\* copy_to: refused onto a directory and below a file
CopyBlocked(dst, p) == dst[p].is = "dir" \/ BelowFile(dst, p)

\* A copy is as new as the moment it is made.
CopyFiles(src, dst, files, now) ==
    [p \in Paths |-> IF p \in files THEN File(src[p].content, now) ELSE dst[p]]

Newer(ours, theirs) == ours.time # 0 /\ theirs.time # 0 /\ ours.time > theirs.time

\* The contents are compared by their checksums, which may raise.
Compared(ours, theirs, checksum) ==
    checksum /\ theirs.is = "file" /\ Size[ours.content] = Size[theirs.content]

\* Bug: only the times are compared, not the sizes.
SyncFileByTime(ours, theirs, checksum) == theirs.is # "file" \/ Newer(ours, theirs)

\* _sync_file: whether the target lacks the file or holds another version
SyncFile(ours, theirs, checksum) ==
    \/ theirs.is # "file"
    \/ Size[ours.content] # Size[theirs.content]
    \/ IF checksum THEN ours.content # theirs.content ELSE Newer(ours, theirs)

\* Files first, then the directories that are empty by then, the deepest first.
DeleteExtras(dst, files, folders, bad) ==
    LET left == [p \in Paths |-> IF p \in files \ bad THEN Nothing ELSE dst[p]]
        full(d) == \E q \in Paths \ (folders \ bad) : d \in Ancestors[q] /\ left[q] # Nothing
        gone == {d \in folders \ bad : ~full(d)}
    IN  [tree |-> [p \in Paths |-> IF p \in gone THEN Nothing ELSE left[p]],
         deleted |-> (files \ bad) \union gone,
         errors |-> (files \intersect bad) \union (folders \ gone)]

CopyTree(src, dst, overwrite, bad, now) ==
    LET made == MakeDirectories(src, dst)
        skipped == IF overwrite THEN {} ELSE Files(src) \intersect Files(dst)
        failed == {p \in Files(src) \ skipped : p \in bad \/ CopyBlocked(made, p)}
        copied == Files(src) \ (skipped \union failed)
        refused == {d \in Folders(src) : made[d].is # "dir"}
    IN  [tree |-> CopyFiles(src, made, copied, now),
         report |-> Report(copied, skipped, {}, failed \union refused, FALSE)]

\* A file whose checksums cannot be compared is neither copied nor skipped.
SyncTree(src, dst, delete, checksum, dry, bad, now) ==
    LET made == IF dry THEN dst ELSE MakeDirectories(src, dst)
        unread == {p \in Files(src) \intersect bad : Compared(src[p], dst[p], checksum)}
        changed == {p \in Files(src) \ unread : SyncFile(src[p], dst[p], checksum)}
        failed == IF dry THEN {} ELSE {p \in changed : p \in bad \/ CopyBlocked(made, p)}
        copied == changed \ failed
        skipped == Files(src) \ (changed \union unread)
        extraFiles == IF delete THEN Files(dst) \ Files(src) ELSE {}
        extraFolders == IF delete THEN Folders(dst) \ Folders(src) ELSE {}
        pruned == DeleteExtras(CopyFiles(src, made, copied, now), extraFiles, extraFolders, bad)
        refused == {d \in Folders(src) : made[d].is # "dir"}
    IN  IF dry
        THEN [tree |-> dst, report |-> Report(copied, skipped, extraFiles \union extraFolders, unread, TRUE)]
        ELSE [tree |-> pruned.tree,
              report |-> Report(copied, skipped, pruned.deleted,
                                unread \union failed \union refused \union pruned.errors, FALSE)]

-----------------------------------------------------------------------------
(* sync_dir: local trees; empty directories are not mirrored *)

IsLink(entry) == entry.is = "link"

\* _needs_copy; a directory has the size of no file, and times within the tolerance are equal
NeedsCopy(ours, theirs, checksum) ==
    CASE theirs.is = "none" -> TRUE
      [] IsLink(ours) # IsLink(theirs) -> TRUE
      [] IsLink(ours) -> ours.content # theirs.content
      [] OTHER -> \/ theirs.is = "dir"
                  \/ Size[ours.content] # Size[theirs.content]
                  \/ IF checksum THEN ours.content # theirs.content ELSE ours.time # theirs.time

\* Where a write to a path lands: links are followed.
Landing(tree, p) ==
    LET goes[n \in 0 .. Cardinality(Paths)] ==
            IF n = 0 THEN p
            ELSE IF IsLink(tree[goes[n - 1]]) THEN tree[goes[n - 1]].content ELSE goes[n - 1]
    IN  goes[Cardinality(Paths)]

\* os.walk lists a link that leads to a directory among the directories, and does not enter it.
Walked(tree) == {p \in Files(tree) : tree[Landing(tree, p)].is # "dir"}

\* The files of a directory come before those of its subdirectories.
WalkOrder(files) ==
    SetToSortSeq(files, LAMBDA p, q : LET up == Cardinality(Ancestors[p])
                                          uq == Cardinality(Ancestors[q])
                                      IN  up < uq \/ (up = uq /\ p < q))

\* A link replaces a file or a link.  copy2 keeps the time, puts a file into a directory of its name, and
\* follows a link: it changes or makes the file that the link leads to.
CopyOne(tree, p, ours) ==
    LET q == IF IsLink(ours) THEN p ELSE Landing(tree, p)
    IN  [tree EXCEPT ![q] = IF tree[q].is = "dir" THEN [Folder EXCEPT !.content = ours.content] ELSE ours]

\* A link fails on a directory; a file fails through a link that leads in circles, into nowhere, or to the
\* directory that the link is in.
CopyFails(tree, p, ours) ==
    LET q == Landing(tree, p) IN
    \/ BelowFile(tree, p)
    \/ IsLink(ours) /\ tree[p].is = "dir"
    \/ /\ ~IsLink(ours) /\ IsLink(tree[p])
       /\ IsLink(tree[q]) \/ q = Parent[p] \/ \E a \in Ancestors[q] : tree[a].is # "dir"

\* The walk lists a directory before it removes what is empty in it: one level goes at a time.
PruneEmptyDirs(tree) ==
    [p \in Paths |->
        IF tree[p] = Folder /\ \A q \in Paths : Parent[q] = p => tree[q] = Nothing THEN Nothing ELSE tree[p]]

\* What the source does not have, the files put into directories by mistake too
DeleteExtraFiles(tree, gone) ==
    [p \in Paths |-> IF p \in gone THEN Nothing ELSE IF tree[p].is = "dir" THEN Folder ELSE tree[p]]

Processed == [tree |-> Empty, copied |-> {}, skipped |-> {}, errors |-> {}, led |-> {}]

\* _process_source_entry.  led: the paths that were written through a link of the target
ProcessSourceEntry(acc, p, ours, checksum, dry, bad) ==
    LET theirs == acc.tree[p]
        unread == p \in bad /\ ~IsLink(ours) /\ Compared(ours, theirs, checksum)
        made == IF BelowFile(acc.tree, p) THEN acc.tree
                ELSE [q \in Paths |-> IF q \in Ancestors[p] /\ acc.tree[q] = Nothing THEN Folder ELSE acc.tree[q]]
    IN  IF unread THEN [acc EXCEPT !.errors = @ \union {p}]
        ELSE IF ~NeedsCopy(ours, theirs, checksum) THEN [acc EXCEPT !.skipped = @ \union {p}]
        ELSE IF dry THEN [acc EXCEPT !.copied = @ \union {p}]
        ELSE IF p \in bad \/ CopyFails(made, p, ours) THEN [acc EXCEPT !.errors = @ \union {p}, !.tree = made]
        ELSE [acc EXCEPT !.copied = @ \union {p}, !.tree = CopyOne(made, p, ours),
                         !.led = @ \union (IF IsLink(ours) THEN {} ELSE {Landing(made, p)} \ {p})]

\* One entry after the other, and then what the source does not have
SyncDir(src, dst, delete, checksum, dry, bad) ==
    LET entries == Walked(src)
        step(acc, p) == ProcessSourceEntry(acc, p, src[p], checksum, dry, bad)
        done == FoldLeft(step, [Processed EXCEPT !.tree = dst], WalkOrder(entries))
        extra == IF delete THEN Walked(done.tree) \ entries ELSE {}
        left == DeleteExtraFiles(done.tree, extra \ bad)
    IN  [tree |-> IF delete /\ ~dry THEN PruneEmptyDirs(left) ELSE done.tree,
         led |-> done.led,
         report |-> Report(done.copied, done.skipped, IF dry THEN extra ELSE extra \ bad,
                           done.errors \union (IF dry THEN {} ELSE extra \intersect bad), dry)]

-----------------------------------------------------------------------------
(* Manifests and duplicates *)

WriteManifest(tree) == [p \in Files(tree) |-> [size |-> Size[tree[p].content], sum |-> tree[p].content]]

VerifyManifest(tree, manifest) ==
    LET missing == DOMAIN manifest \ Files(tree)
        differs(p) == Size[tree[p].content] # manifest[p].size \/ tree[p].content # manifest[p].sum
        modified == {p \in DOMAIN manifest \ missing : differs(p)}
    IN  [missing |-> missing, modified |-> modified, extra |-> Files(tree) \ DOMAIN manifest,
         matched |-> DOMAIN manifest \ (missing \union modified), ok |-> missing \union modified = {}]

\* Groups of at least two, split again by a further key; a file whose key cannot be read is left out.
Refine(groups, key, unread) ==
    LET split(group) == {{p \in group \ unread : key[p] = k} : k \in {key[p] : p \in group}}
    IN  {g \in UNION {split(group) : group \in groups} : Cardinality(g) > 1}

\* By size, by the first bytes, by the whole content
FindDuplicates(tree, minSize, unread) ==
    LET bySize == Refine({{p \in Files(tree) : Size[tree[p].content] >= minSize}},
                         [p \in Files(tree) |-> Size[tree[p].content]], {})
        byHead == Refine(bySize, [p \in Files(tree) |-> Start[tree[p].content]], unread)
    IN  Refine(byHead, [p \in Files(tree) |-> tree[p].content], unread)

-----------------------------------------------------------------------------
(* Rotation of the backups in one directory *)

GatherCandidates(tree, dir) == {p \in Files(tree) \intersect Matching : Parent[p] = dir}

\* The newest first; files of the same time come in the order of the directory, which is any.
NewestFirst(tree, candidates) ==
    {order \in [1..Cardinality(candidates) -> candidates] :
        /\ IsInjective(order)
        /\ \A i \in DOMAIN order : i > 1 => tree[order[i - 1]].time >= tree[order[i]].time}

SlotsFull(seen, keep) == Cardinality(seen) >= keep

\* The newest file of each of the newest slots of a bucket
KeptInBucket(tree, order, keep, slot) ==
    LET step(acc, p) ==
            IF acc.full \/ slot[tree[p].time] \in acc.seen THEN acc
            ELSE LET seen == acc.seen \union {slot[tree[p].time]}
                 IN  [kept |-> acc.kept \union {p}, seen |-> seen, full |-> SlotsFull(seen, keep)]
    IN  IF keep = 0 THEN {}
        ELSE FoldLeft(step, [kept |-> {}, seen |-> {}, full |-> FALSE], order).kept

SelectKept(tree, order, keep) == UNION {KeptInBucket(tree, order, keep[b], Bucket[b]) : b \in DOMAIN Bucket}

\* A file that cannot be deleted is logged, and listed as deleted.
RotateBackups(tree, dir, order, keep, dry, bad) ==
    LET candidates == GatherCandidates(tree, dir)
        kept == SelectKept(tree, order, keep)
        gone == IF dry THEN {} ELSE (candidates \ kept) \ bad
    IN  [tree |-> [p \in Paths |-> IF p \in gone THEN Nothing ELSE tree[p]],
         kept |-> kept, deleted |-> candidates \ kept]

-----------------------------------------------------------------------------
NoReport == Report({}, {}, {}, {}, FALSE)

TreeInit == source \in Trees /\ target \in Trees /\ result = NoReport /\ rounds = 0

BackupInit == source \in Trees /\ target = Empty /\ result = NoReport /\ rounds = 0

Mirror(bad, checksum) ==
    LET run == SyncTree(source, target, TRUE, checksum, FALSE, bad, MaxTime) IN
    /\ rounds < 2
    /\ target' = run.tree
    /\ result' = run.report
    /\ rounds' = IF bad = {} /\ checksum THEN rounds + 1 ELSE rounds
    /\ UNCHANGED source

MirrorLocally(delete, checksum, bad) ==
    LET run == SyncDir(source, target, delete, checksum, FALSE, bad) IN
    /\ rounds = 0 /\ rounds' = 1
    /\ target' = run.tree
    /\ result' = run.report
    /\ UNCHANGED source

Copy(overwrite, bad) ==
    LET run == CopyTree(source, target, overwrite, bad, MaxTime) IN
    /\ rounds = 0
    /\ target' = run.tree
    /\ result' = run.report
    /\ UNCHANGED <<source, rounds>>

Rotate(dir, keep, dry, bad) ==
    \E order \in NewestFirst(source, GatherCandidates(source, dir)) :
        /\ source' = RotateBackups(source, dir, order, keep, dry, bad).tree
        /\ UNCHANGED <<target, result, rounds>>

\* What a run can fail on
Touched == {p \in Paths : source[p] # Nothing \/ target[p] # Nothing}

StorageNext ==
    \/ \E bad \in SUBSET Touched, checksum \in BOOLEAN : Mirror(bad, checksum)
    \/ \E overwrite \in BOOLEAN, bad \in SUBSET Touched : Copy(overwrite, bad)

LocalNext == \E delete, checksum \in BOOLEAN, bad \in SUBSET Touched : MirrorLocally(delete, checksum, bad)

Keeps == [DOMAIN Bucket -> 0..2]

Dirs == {Root} \union Paths

BackupNext ==
    \E dir \in Dirs, keep \in Keeps, dry \in BOOLEAN, bad \in SUBSET Matching : Rotate(dir, keep, dry, bad)

-----------------------------------------------------------------------------
SameFiles(one, other) ==
    \A p \in Paths : one[p].is = other[p].is /\ one[p].content = other[p].content

\* sync_tree with delete and checksum, run twice without a failing file, makes the target equal to
\* the source, whatever stood in the way of its files and directories; and whenever it reports no
\* error, one run was enough.  A dry run names exactly the files that a real run without errors then
\* copies and deletes.
SyncConverges ==
    LET real == SyncTree(source, target, TRUE, TRUE, FALSE, {}, MaxTime).report
        dry == SyncTree(source, target, TRUE, TRUE, TRUE, {}, MaxTime).report
    IN  /\ rounds = 2 => SameFiles(source, target)
        /\ rounds = 1 /\ result.errors = {} => SameFiles(source, target)
        /\ (rounds = 0 /\ real.errors = {}) => dry.copied = real.copied /\ dry.deleted = real.deleted

\* sync_dir accounts once for every file of the source and every link that does not lead to a directory
\* (links to directories are neither copied nor reported, although sync_ops.py:19-21 says that they are
\* made again).  With checksums, what it skipped is equal; what it copied is there, unless a directory or
\* a link stood in its place; and nothing else of the target changes without delete: all this apart from
\* the files that a link of the target led to, which copy2 overwrites.  With delete, no other file stays
\* without an error, and nothing is deleted that the run accounts for.
LocalAgrees ==
    \A delete, checksum \in BOOLEAN, bad \in SUBSET Paths :
        LET run == SyncDir(source, target, delete, checksum, FALSE, bad)
            r == run.report
            dry == SyncDir(source, target, delete, checksum, TRUE, {}).report
            kept == SyncDir(source, target, FALSE, checksum, FALSE, bad).tree
            same(p) == run.tree[p].is = source[p].is /\ run.tree[p].content = source[p].content
        IN  /\ Walked(source) \subseteq r.copied \union r.skipped \union r.errors
            /\ r.copied \intersect (r.skipped \union r.errors) = {} /\ r.skipped \intersect r.errors = {}
            /\ \A p \in r.copied \ run.led :
                  same(p) \/ (source[p].is = "file" /\ target[p].is \in {"dir", "link"})
            /\ checksum => \A p \in r.skipped \ run.led : same(p)
            /\ ~delete => \A p \in Paths \ (r.copied \union run.led) :
                  run.tree[p] = target[p] \/ (target[p] = Nothing /\ \E q \in Walked(source) : p \in Ancestors[q])
            /\ delete => \A p \in Files(run.tree) \ (Walked(source) \union r.errors) :
                  run.tree[p] = target[p] /\ kept[Landing(kept, p)].is = "dir"
            /\ r.deleted \intersect (r.copied \union r.skipped) = {}
            /\ (r.errors = {} /\ run.led = {}) => r.copied = dry.copied

\* A manifest accepts exactly the tree it was written for.
ManifestsAgree ==
    LET check == VerifyManifest(target, WriteManifest(source))
    IN  check.ok /\ check.extra = {} <=>
            /\ Files(source) = Files(target)
            /\ \A p \in Files(source) : source[p].content = target[p].content

\* Duplicates are the files of equal content that can be read, whatever their first bytes and sizes; a
\* rotation touches only the backups of its directory, names each of them as kept or deleted, never
\* both, keeps the newest of them, and, per bucket, a file of each of the newest slots, however the
\* directory lists files of the same time.
BackupsAgree ==
    /\ \A unread \in SUBSET Matching :
          LET groups == FindDuplicates(source, 1, unread)
          IN  \A p, q \in Files(source) : p # q =>
                ((source[p].content = source[q].content /\ {p, q} \intersect unread = {})
                    <=> \E g \in groups : {p, q} \subseteq g)
    /\ \A dir \in Dirs, keep \in Keeps :
          LET candidates == GatherCandidates(source, dir)
              slots(files, b) == {Bucket[b][source[p].time] : p \in files}
              newest == {p \in candidates : \A q \in candidates : source[p].time >= source[q].time}
          IN  \A order \in NewestFirst(source, candidates) :
                LET run == RotateBackups(source, dir, order, keep, FALSE, {})
                IN  /\ run.kept \intersect run.deleted = {} /\ run.kept \union run.deleted = candidates
                    /\ Files(run.tree) = Files(source) \ run.deleted
                    /\ \A b \in DOMAIN Bucket :
                          /\ keep[b] > 0 => newest \intersect run.kept # {} \/ newest = {}
                          /\ \A p \in candidates :
                                Cardinality({n \in slots(candidates, b) : n > Bucket[b][source[p].time]}) < keep[b] =>
                                    Bucket[b][source[p].time] \in slots(run.kept, b)
=============================================================================
