------------------------------ MODULE LocalFiles -----------------------------
(* Work on a local tree that others change meanwhile: searching it by name    *)
(* (utils/fast_find.py) and by content (utils/grep.py), renaming many files   *)
(* at once (local/file_ops.py) and unpacking archives (local/archive_ops.py,  *)
(* local/tar_ops.py).  "task" says which of them a behaviour is about.        *)
EXTENDS Integers, Sequences, SequencesExt, FiniteSets

CONSTANTS
    Nodes, Parent,   \* a tree below the root 0
    Kind,            \* Kind[n]: "dir", "file" or "link"
    Matching,        \* nodes whose name matches the pattern
    Unreadable,      \* nodes the process may not read
    Hits,            \* Hits[n]: the lines of file n that match
    Searches,        \* [tool, limit, filesOnly, index]: what may be asked
    MaxChanges,
    Names,           \* names in the directory whose files are renamed
    NewNames,        \* NewNames[i]: the name number i gets
    Archives         \* [tool, members]: a member is "file", "link" or "beyond" the target

VARIABLES
    task,
    present, changes,         \* the nodes there are; how often that changed
    always, ever,             \* ghosts: there since the search began; there at some time
    hunt,                     \* the search: [asked, stack, listed, found, at]
    folder, queue, lost,      \* the renaming: contents by name, the matches in order
    unpacked, answer          \* the unpacking: what was written, and what was said

searchVars == <<present, changes, always, ever, hunt>>

renameVars == <<folder, queue, lost>>

archiveVars == <<unpacked, answer>>

-----------------------------------------------------------------------------
(* Searches *)

Children(d) == {n \in present : Parent[n] = d}

Reached(h) == Cardinality(h.found) >= h.asked.limit

\* _post_filter: of an indexer's lines, the ones that match and, if asked for, are no directory now
PostFilter(asked, lines) ==
    LET good == {n \in lines \intersect Matching : ~ (asked.filesOnly /\ n \in present /\ Kind[n] = "dir")}
    IN  {S \in SUBSET good : Cardinality(S) = asked.limit \/ (S = good /\ Cardinality(S) < asked.limit)}

\* An indexer's lines are of any age.  Only when it fails is the tree walked.
IndexAnswer ==
    /\ hunt.at = "index"
    /\ \/ \E lines \in SUBSET Nodes : \E S \in PostFilter(hunt.asked, lines) :
             hunt' = [hunt EXCEPT !.at = "answered", !.found = {<<n, 0>> : n \in S}]
       \/ hunt' = [hunt EXCEPT !.at = "walk"]
    /\ UNCHANGED <<present, changes, always, ever>>

\* One directory is taken from the stack and listed; one that is gone or closed has no entries.
ListDirectory ==
    /\ hunt.at = "walk" /\ hunt.listed = {} /\ hunt.stack # <<>>
    /\ LET d == Last(hunt.stack)
       IN  hunt' = [hunt EXCEPT !.stack = Front(@),
                                !.listed = IF d \in Unreadable THEN {} ELSE Children(d)]
    /\ UNCHANGED <<present, changes, always, ever>>

Enters(n) == Kind[n] = "dir"

\* scandir_find: a name that matches, of a file, a link or, if asked for, a directory
FindEntry(h, n) ==
    IF n \in Matching /\ (Kind[n] # "dir" \/ ~ h.asked.filesOnly)
    THEN [h EXCEPT !.found = @ \union {<<n, 0>>}] ELSE h

\* grep: the lines of a regular file, as many as there is room for; one that cannot be read is skipped
ScanFile(h, n) ==
    IF Kind[n] # "file" \/ n \in Unreadable \/ n \notin present THEN h
    ELSE LET room == h.asked.limit - Cardinality(h.found)
         IN  [h EXCEPT !.found = @ \union {<<n, i>> : i \in {j \in 1..Hits[n] : j <= room}}]

VisitEntry ==
    /\ hunt.at = "walk" /\ ~ Reached(hunt)
    /\ \E n \in hunt.listed :
          LET h == [hunt EXCEPT !.listed = @ \ {n}, !.stack = IF Enters(n) THEN Append(@, n) ELSE @]
          IN  hunt' = IF h.asked.tool = "find" THEN FindEntry(h, n) ELSE ScanFile(h, n)
    /\ UNCHANGED <<present, changes, always, ever>>

Finish ==
    /\ hunt.at = "walk" /\ (Reached(hunt) \/ (hunt.listed = {} /\ hunt.stack = <<>>))
    /\ hunt' = [hunt EXCEPT !.at = "done"]
    /\ UNCHANGED <<present, changes, always, ever>>

Appear(n) ==
    /\ changes < MaxChanges /\ changes' = changes + 1 /\ n \notin present /\ Parent[n] \in present \union {0}
    /\ present' = present \union {n} /\ ever' = ever \union {n}
    /\ UNCHANGED <<always, hunt>>

Disappear(n) ==
    /\ changes < MaxChanges /\ changes' = changes + 1 /\ n \in present
    /\ present' = present \ {m \in present : m = n \/ Parent[m] = n}
    /\ always' = always \intersect present'
    /\ UNCHANGED <<ever, hunt>>

Hunting ==
    \/ IndexAnswer \/ ListDirectory \/ VisitEntry \/ Finish
    \/ \E n \in Nodes : Appear(n) \/ Disappear(n)

Readable(n) == Parent[n] = 0 \/ (Parent[n] \in always /\ Parent[n] \notin Unreadable)

Expected(n) ==
    IF hunt.asked.tool = "find"
    THEN IF n \in Matching /\ (Kind[n] # "dir" \/ ~ hunt.asked.filesOnly) THEN {<<n, 0>>} ELSE {}
    ELSE IF Kind[n] = "file" /\ n \notin Unreadable THEN {<<n, i>> : i \in 1..Hits[n]} ELSE {}

(* A walk that is not cut short finds all that was there from its beginning   *)
(* to its end, whatever else comes and goes; it reports nothing that was      *)
(* never there, and never more than its limit.  (An index may be out of date: *)
(* its answer only matches, within the limit.)                                *)
HuntExact ==
    /\ \A f \in hunt.found : hunt.at # "answered" => f[1] \in ever /\ f \in Expected(f[1])
    /\ Cardinality(hunt.found) <= hunt.asked.limit
    /\ (hunt.at = "done" /\ ~ Reached(hunt)) =>
          \A n \in always : Readable(n) => Expected(n) \subseteq hunt.found

-----------------------------------------------------------------------------
(* rename_file: the matches are listed once, then renamed one by one.         *)

Entries == {x \in Names : folder[x] # "none"}

ListMatches ==
    /\ queue.at = "list"
    /\ \E order \in SetToSeqs(Entries) : queue' = [at |-> "rename", order |-> order, index |-> 1]
    /\ UNCHANGED <<folder, lost>>

NewName(index) == NewNames[index]

\* A rename replaces what has the name already; a source that is gone is an OSError.
RenameNext ==
    /\ queue.at = "rename" /\ queue.index <= Len(queue.order)
    /\ LET old == queue.order[queue.index]
           new == NewName(queue.index)
       IN  IF folder[old] = "none" THEN queue' = [queue EXCEPT !.at = "failed"] /\ UNCHANGED <<folder, lost>>
           ELSE /\ folder' = [x \in Names |-> IF x = new THEN folder[old] ELSE IF x = old THEN "none" ELSE folder[x]]
                /\ lost' = IF new # old /\ folder[new] # "none" THEN lost \union {folder[new]} ELSE lost
                /\ queue' = [queue EXCEPT !.index = @ + 1]

RenameEnds ==
    /\ queue.at = "rename" /\ queue.index > Len(queue.order)
    /\ queue' = [queue EXCEPT !.at = "done"]
    /\ UNCHANGED <<folder, lost>>

Stranger ==
    /\ queue.at = "rename"
    /\ \E x \in Entries : folder' = [folder EXCEPT ![x] = "none"]
    /\ UNCHANGED <<queue, lost>>

(* When no file had one of the new names before, no content is written over,  *)
(* also when the renaming stops half way.                                     *)
RenameKeeps == (\A i \in DOMAIN queue.order : queue.order[i] \notin Range(NewNames)) => lost = {}

-----------------------------------------------------------------------------
(* Archives.  tar_ops, 7z and rar look at all members before they write one;  *)
(* archive_ops looks at each zip and tar member when it comes to it.          *)

LooksFirst(tool) == tool \in {"tar_ops", "7z"}

\* A link that stays inside is refused by archive_ops when it comes to one in a tar.
Allowed(tool, member) == member = "file" \/ (member = "link" /\ tool # "tar")

Verify ==
    /\ answer.at = "verify"
    /\ answer' = [answer EXCEPT !.at =
                    IF LooksFirst(answer.tool) /\ \E m \in Range(answer.members) : ~ Allowed(answer.tool, m)
                    THEN "refused" ELSE "extract"]
    /\ UNCHANGED unpacked

ExtractMember ==
    /\ answer.at = "extract" /\ Len(unpacked) < Len(answer.members)
    /\ LET m == answer.members[Len(unpacked) + 1]
       IN  IF Allowed(answer.tool, m) THEN unpacked' = Append(unpacked, m) /\ answer' = answer
           ELSE unpacked' = unpacked /\ answer' = [answer EXCEPT !.at = "refused"]

\* A full disk, or a damaged archive
ExtractFails == answer.at = "extract" /\ answer' = [answer EXCEPT !.at = "failed"] /\ UNCHANGED unpacked

ExtractEnds ==
    /\ answer.at = "extract" /\ Len(unpacked) = Len(answer.members)
    /\ answer' = [answer EXCEPT !.at = "done"]
    /\ UNCHANGED unpacked

(* Whoever looks first refuses before anything is written; what is reported   *)
(* as extracted is the whole archive.                                         *)
UnpackExact ==
    /\ (answer.at = "refused" /\ LooksFirst(answer.tool)) => unpacked = <<>>
    /\ answer.at = "done" => unpacked = answer.members

-----------------------------------------------------------------------------
LocalInit ==
    /\ task \in {"search", "rename", "archive"}
    /\ present \in IF task = "search" THEN {P \in SUBSET Nodes : \A n \in P : Parent[n] \in P \union {0}} ELSE {{}}
    /\ changes = 0 /\ always = present /\ ever = present
    /\ hunt \in {[asked |-> s, stack |-> <<0>>, listed |-> {}, found |-> {},
                  at |-> IF task # "search" THEN "off" ELSE IF s.index THEN "index" ELSE "walk"] :
                    s \in IF task = "search" THEN Searches ELSE {CHOOSE s \in Searches : TRUE}}
    /\ folder \in IF task = "rename" THEN {[x \in Names |-> IF x \in E THEN x ELSE "none"] : 
                                              E \in {F \in SUBSET Names : Cardinality(F) <= Len(NewNames)}}
                  ELSE {[x \in Names |-> "none"]}
    /\ queue = [at |-> "list", order |-> <<>>, index |-> 1] /\ lost = {}
    /\ unpacked = <<>>
    /\ answer \in {[at |-> IF task = "archive" THEN "verify" ELSE "off", tool |-> a.tool, members |-> a.members] :
                    a \in IF task = "archive" THEN Archives ELSE {CHOOSE a \in Archives : TRUE}}

LocalNext ==
    \/ task = "search" /\ Hunting /\ UNCHANGED <<task, renameVars, archiveVars>>
    \/ /\ task = "rename" /\ (ListMatches \/ RenameNext \/ RenameEnds \/ Stranger)
       /\ UNCHANGED <<task, searchVars, archiveVars>>
    \/ /\ task = "archive" /\ (Verify \/ ExtractMember \/ ExtractFails \/ ExtractEnds)
       /\ UNCHANGED <<task, searchVars, renameVars>>

(* Searching, renaming and unpacking do what they say.                        *)
LocalWork == HuntExact /\ RenameKeeps /\ UnpackExact
=============================================================================
