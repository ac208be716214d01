---------------------------- MODULE StorageBackend ----------------------------
(* One storage root, served by any of the backends, and the clients that call *)
(* the template methods of StorageBackend on it at the same time.             *)
(*                                                                            *)
(* A request to the server is one step; the lookups that open an operation    *)
(* are one step together.  A request can be refused, or its answer is lost    *)
(* before or after it took effect; a caller tries again what was transient.   *)
(* An object store has no directories: "dir" stands there for a placeholder   *)
(* key.  Google Drive can hold two entries of one name: those are twins, and  *)
(* no path leads to them or below them (the store shows the one made last).   *)
EXTENDS Naturals, FiniteSets, Functions

CONSTANTS
    Paths, Parent,   \* the tree; the parent of a top-level path is Root
    Root,
    Setups           \* backend, first store, one call for each client, and faults

VARIABLES
    backend,         \* the backend that serves the root
    server,          \* whether its server refuses renames onto a file, or is far away
    store,           \* what each path holds: "none", "dir", "torn" or a content
    twins,           \* paths that two entries share
    hidden,          \* the dot-files of uploads and replacements
    op,              \* what each client does
    faults           \* requests that may still fail

vars == <<backend, server, store, twins, hidden, op, faults>>

Nothing == "none"

Folder == "dir"

Torn == "torn"

IsFile(entry) == entry \notin {Nothing, Folder}

Entry(p) == IF p = Root THEN Folder ELSE store[p]

Below(p) == {q \in Paths : Parent[q] = p}

-----------------------------------------------------------------------------
(* What a server answers, and the exception each backend makes of it.  missing:   *)
(* nothing has that name; below: the name is below a file; denied; busy: it is    *)
(* throttling or failed itself; dropped: no answer; odd: anything else; unready:  *)
(* there is no client to ask.                                                     *)

Never == "never"

OSErrors ==
    [missing |-> "not_found", below |-> "storage", denied |-> "permission", busy |-> "storage",
     dropped |-> "transient", odd |-> "storage", unready |-> "unavailable"]

StatusErrors == [OSErrors EXCEPT !.busy = "transient"]

LocalErrors == [OSErrors EXCEPT !.unready = Never]

MemoryErrors == [r \in DOMAIN OSErrors |-> IF r = "missing" THEN "key_error" ELSE Never]

SFTPErrors == OSErrors

\* Any permanent refusal counts as denied, 550 too.
FTPErrors ==
    [OSErrors EXCEPT !.missing = "permission", !.below = "permission", !.busy = "transient"]

\* The client is given, and its library asked for at the first call.
SMBErrors == [OSErrors EXCEPT !.below = "not_found"]

WebDAVErrors == StatusErrors

FsspecErrors == [OSErrors EXCEPT !.below = "not_found"]

DropboxErrors == StatusErrors

OneDriveErrors == StatusErrors

\* A 403 with a rate limit reason is busy, not denied.
GoogleDriveErrors == StatusErrors

S3Errors == StatusErrors

AzureErrors == StatusErrors

\* The answers to a lookup that mean that nothing is there: what becomes a
\* StorageNotFoundException, and what the lookup reads that way itself.
Absences(errors) == {r \in DOMAIN errors : errors[r] = "not_found"}

LocalLookup == Absences(LocalErrors) \union {"below"}

MemoryLookup == {"missing"}

SFTPLookup == Absences(SFTPErrors)

\* In a lookup, 550 says that there is no such entry.
FTPLookup == {"missing"}

SMBLookup == Absences(SMBErrors)

\* Apache answers 400 for a path below a file.
WebDAVLookup == Absences(WebDAVErrors) \union {"below"}

FsspecLookup == Absences(FsspecErrors)

DropboxLookup == Absences(DropboxErrors)

OneDriveLookup == Absences(OneDriveErrors)

GoogleDriveLookup == Absences(GoogleDriveErrors)

ObjectLookup == {"missing"}

-----------------------------------------------------------------------------
(* What sets the backends apart.  upload: through a dot-file ("staged"), in one   *)
(* step ("whole"), block by block ("blocks"), or to the entry found ("entry").    *)
(* inTheWay: what is done with a file the server will not rename onto.  copies,   *)
(* moves: on the server never, always, or when the target is free.  rmdir: takes  *)
(* the content too ("whole"), refuses it ("empty") or leaves it ("any").          *)
(* refusals: the failures a rename takes for a file in the way.  names: whether   *)
(* the server tells a name below a file from one that is missing.                 *)

LocalStorage ==
    [upload |-> "staged", inTheWay |-> "none", copies |-> "never", moves |-> "always",
     rmdir |-> "empty", parents |-> "needed", directories |-> TRUE, forgiving |-> FALSE,
     refusals |-> {}, names |-> TRUE, errors |-> LocalErrors, lookup |-> LocalLookup]

MemoryStorage ==
    [LocalStorage EXCEPT !.upload = "whole", !.moves = "never", !.rmdir = "any", !.parents = "unneeded",
                         !.names = FALSE, !.errors = MemoryErrors, !.lookup = MemoryLookup]

SessionStorage == [LocalStorage EXCEPT !.inTheWay = "aside", !.names = FALSE]

SFTPStorage ==
    [SessionStorage EXCEPT !.refusals = {"denied", "busy", "odd"}, !.errors = SFTPErrors, !.lookup = SFTPLookup]

FTPStorage ==
    [SessionStorage EXCEPT !.refusals = {"denied"}, !.errors = FTPErrors, !.lookup = FTPLookup]

SMBStorage ==
    [LocalStorage EXCEPT !.upload = "blocks", !.inTheWay = "clear", !.refusals = {"denied"},
                         !.errors = SMBErrors, !.lookup = SMBLookup]

WebDAVStorage ==
    [LocalStorage EXCEPT !.upload = "blocks", !.copies = "always", !.rmdir = "whole",
                         !.errors = WebDAVErrors, !.lookup = WebDAVLookup]

FsspecStorage ==
    [LocalStorage EXCEPT !.upload = "blocks", !.copies = "always",
                         !.errors = FsspecErrors, !.lookup = FsspecLookup]

DropboxStorage ==
    [LocalStorage EXCEPT !.upload = "whole", !.inTheWay = "clear", !.copies = "always", !.rmdir = "whole",
                         !.parents = "made", !.names = FALSE, !.errors = DropboxErrors, !.lookup = DropboxLookup]

OneDriveStorage ==
    [LocalStorage EXCEPT !.upload = "whole", !.moves = "free", !.rmdir = "whole", !.parents = "made",
                         !.names = FALSE, !.errors = OneDriveErrors, !.lookup = OneDriveLookup]

GoogleDriveStorage ==
    [LocalStorage EXCEPT !.upload = "entry", !.copies = "free", !.moves = "free", !.rmdir = "whole",
                         !.names = FALSE, !.errors = GoogleDriveErrors, !.lookup = GoogleDriveLookup]

\* A directory is a key prefix: there is nothing to make and nothing to remove.
ObjectStorage ==
    [MemoryStorage EXCEPT !.directories = FALSE, !.lookup = ObjectLookup]

S3Storage == [ObjectStorage EXCEPT !.copies = "always", !.forgiving = TRUE, !.errors = S3Errors]

AzureStorage == [ObjectStorage EXCEPT !.errors = AzureErrors]

Directories == backend.directories

Stages == backend.upload = "staged"

InPlace == backend.upload = "blocks"

DeletesWhole == backend.rmdir = "whole"

\* The server will not rename onto a file.
Refuses(p) == server.strict /\ store[p] # Nothing

CopiesNatively(p) ==
    ~server.far /\ (backend.copies = "always" \/ (backend.copies = "free" /\ store[p] = Nothing))

\* Not across devices, or without the method
MovesNatively(p) ==
    ~server.far /\ (backend.moves = "always" \/ (backend.moves = "free" /\ store[p] = Nothing))

Stat(p) ==
    IF ~Directories /\ store[p] = Nothing /\ \E q \in Below(p) : store[q] # Nothing
    THEN Folder ELSE store[p]

View == [p \in Paths |-> Stat(p)]

\* A name that two entries share cannot be looked up, and neither can what is below it.
Twin(p) == p \in twins \/ Parent[p] \in twins

ParentStands(p) == backend.parents # "needed" \/ Entry(Parent[p]) = Folder

-----------------------------------------------------------------------------
(* An operation *)

\* overwrite is exist_ok for mkdir and missing_ok for delete.
Call(name, path, origin, content, overwrite, recursive) ==
    [name |-> name, path |-> path, origin |-> origin, content |-> content,
     overwrite |-> overwrite, recursive |-> recursive]

\* held: the content read; seen: the children listed; alone: no other client moved meanwhile;
\* clean: every request was answered; first: the view before the first try
Fresh(call) ==
    [stage |-> "new", call |-> call, held |-> call.content, seen |-> {}, ok |-> TRUE, error |-> "none",
     alone |-> TRUE, clean |-> TRUE, try |-> 0, before |-> View, first |-> View]

Init ==
    \E s \in Setups :
        /\ backend = s.backend
        /\ server = s.server
        /\ store = s.store
        /\ twins = {}
        /\ hidden = {}
        /\ op = [c \in DOMAIN s.calls |-> Fresh(s.calls[c])]
        /\ faults = s.faults

Untouched(c) == op[c].stage = "new" /\ op[c].try = 0

Running(c) == op[c].stage # "done" /\ ~Untouched(c)

\* The other clients are no longer alone.
Disturbed(c, new) ==
    [d \in DOMAIN op |-> IF d = c THEN new
                       ELSE IF Running(d) THEN [op[d] EXCEPT !.alone = FALSE] ELSE op[d]]

Set(c, new) == op' = Disturbed(c, new)

Goto(c, stage) == Set(c, [op[c] EXCEPT !.stage = stage])

Done(c, ok) == Set(c, [op[c] EXCEPT !.stage = "done", !.ok = @ /\ ok])

Raises(c, error) == Set(c, [op[c] EXCEPT !.stage = "done", !.ok = FALSE, !.error = error])

\* A step of the cleanup that follows; its outcome is decided already.
Cleanup(c, stage) == Set(c, [op[c] EXCEPT !.stage = stage, !.ok = FALSE])

-----------------------------------------------------------------------------
(* The lookups *)

Failures == {r \in DOMAIN backend.errors : backend.errors[r] # Never} \ {"missing", "below"}

Answer(p) ==
    CASE Stat(p) # Nothing -> "found"
      [] Stat(p) = Nothing /\ backend.names /\ IsFile(Entry(Parent[p])) -> "below"
      [] OTHER -> "missing"

\* _stat: the entry, or nothing; any other answer is raised
Found(p, reply) == IF reply = "found" THEN Stat(p) ELSE Nothing

LookupError(reply) == IF reply \in backend.lookup \union {"found"} THEN "none" ELSE backend.errors[reply]

Either(error, next) == IF error # "none" THEN error ELSE next

\* _writable_file
WritableError(p, reply, overwrite) ==
    Either(LookupError(reply),
           CASE p = Root \/ Found(p, reply) = Folder -> "path_type"
             [] p # Root /\ IsFile(Found(p, reply)) /\ ~overwrite -> "exists"
             [] OTHER -> "none")

\* stat, _existing_file
MissingError(p, reply) == Either(LookupError(reply), IF Found(p, reply) = Nothing THEN "not_found" ELSE "none")

FileError(p, reply) ==
    Either(MissingError(p, reply), IF Found(p, reply) = Folder THEN "path_type" ELSE "none")

\* mkdir
DirectoryError(p, reply, exist_ok) ==
    Either(LookupError(reply),
           CASE IsFile(Found(p, reply)) -> "path_type"
             [] Found(p, reply) = Folder /\ ~exist_ok -> "exists"
             [] OTHER -> "none")

\* _transfer_paths: another spelling of the origin is refused
TransferError(call, reply) ==
    Either(FileError(call.origin, reply[call.origin]),
           IF call.origin = call.path THEN "storage"
           ELSE WritableError(call.path, reply[call.path], call.overwrite))

Ambiguous(call) == \E p \in {call.path, call.origin} \ {Root} : Twin(p)

Refusal(call, reply) ==
    CASE Ambiguous(call) -> "storage"
      [] call.name \in {"upload", "open_write"} -> WritableError(call.path, reply[call.path], call.overwrite)
      [] call.name \in {"copy", "move"} -> TransferError(call, reply)
      [] call.name = "download" -> FileError(call.path, reply[call.path])
      [] call.name = "stat" -> MissingError(call.path, reply[call.path])
      [] call.name = "delete" ->
            IF call.overwrite THEN LookupError(reply[call.path]) ELSE MissingError(call.path, reply[call.path])
      [] call.name = "mkdir" -> DirectoryError(call.path, reply[call.path], call.overwrite)

\* Where a call goes once its parents stand
Onward(c) == IF op[c].call.name = "mkdir" THEN "mkdir" ELSE "transfer"

\* What follows the lookups
FirstStage(call) ==
    CASE call.name = "mkdir" -> IF Stat(call.path) = Folder \/ ~Directories THEN "done" ELSE "parents"
      [] call.name = "delete" /\ Stat(call.path) = Nothing -> "done"
      [] call.name = "delete" /\ IsFile(Stat(call.path)) -> "remove"
      [] call.name = "delete" /\ Stat(call.path) = Folder -> "list"
      [] call.name = "download" -> "read"
      [] call.name = "stat" -> "done"
      [] call.name = "open_write" -> "staged"
      [] OTHER -> IF Directories THEN "parents" ELSE "transfer"

\* The lookups, with the answers they got
Looked(c, reply, clean) ==
    LET call == op[c].call
        error == Refusal(call, reply)
    IN  Set(c, [op[c] EXCEPT !.stage = IF error = "none" THEN FirstStage(call) ELSE "done",
                             !.ok = error = "none", !.error = error, !.clean = @ /\ clean, !.before = View])

Look(c) ==
    /\ op[c].stage \in {"new", "commit"}
    /\ LET looked == {op[c].call.path, op[c].call.origin}
           answers == [q \in looked |-> Answer(q)]
       IN  \/ Looked(c, answers, TRUE) /\ UNCHANGED faults
          \/ /\ faults > 0
             /\ faults' = faults - 1
             /\ \E q \in looked, r \in Failures : Looked(c, [answers EXCEPT ![q] = r], FALSE)
    /\ UNCHANGED <<backend, server, store, twins, hidden>>

\* Closing the file that open_write returned stores what was staged: an upload, which looks again.
CloseWriter(c) ==
    /\ op[c].stage = "staged"
    /\ Set(c, [op[c] EXCEPT !.stage = "commit", !.call.name = "upload"])
    /\ UNCHANGED <<backend, server, store, twins, hidden, faults>>

\* The block was left by an exception.
DiscardWriter(c) ==
    /\ op[c].stage = "staged"
    /\ Raises(c, "discarded")
    /\ UNCHANGED <<backend, server, store, twins, hidden, faults>>

\* The description that a finished transfer returns is one more lookup.
Describe(c) ==
    /\ op[c].stage = "describe"
    /\ LET p == op[c].call.path
           error == IF Twin(p) THEN "storage" ELSE MissingError(p, Answer(p))
       IN  IF error = "none" THEN Done(c, TRUE) ELSE Raises(c, error)
    /\ UNCHANGED <<backend, server, store, twins, hidden, faults>>

\* _make_parents looks for the parent, and makes what it did not find (the tree is two levels deep).
MakeParents(c) ==
    /\ op[c].stage = "parents"
    /\ LET up == Parent[op[c].call.path] IN
       CASE up \in twins -> Raises(c, "storage")
         [] up \notin twins /\ Entry(up) = Folder -> Goto(c, Onward(c))
         [] up \notin twins /\ Entry(up) = Nothing -> Goto(c, "parent")
         [] up \notin twins /\ IsFile(Entry(up)) -> Raises(c, "path_type")
    /\ UNCHANGED <<backend, server, store, twins, hidden, faults>>

\* The directory that is made: a parent, or the one that was asked for
Made(c) == IF op[c].stage \in {"parent", "new_parent"} THEN Parent[op[c].call.path] ELSE op[c].call.path

Mkdir(c) == store' = [store EXCEPT ![Made(c)] = Folder]

\* Google Drive makes a folder whatever has its name by now.
FolderEffect(c) ==
    /\ Mkdir(c)
    /\ twins' = IF store[Made(c)] = Nothing THEN twins ELSE twins \union {Made(c)}

DirectoryMade(c) ==
    IF op[c].stage \in {"parent", "new_parent"} THEN Goto(c, Onward(c)) ELSE Done(c, TRUE)

\* _mkdir: a directory that is there after all is no error.  Google Drive looks for it first.
MakeDirectory(c) ==
    /\ op[c].stage \in {"parent", "mkdir"}
    /\ LET p == Made(c) IN
       CASE Twin(p) -> Raises(c, "storage") /\ UNCHANGED store
         [] ~Twin(p) /\ (IsFile(store[p]) \/ ~ParentStands(p)) -> Done(c, FALSE) /\ UNCHANGED store
         [] ~Twin(p) /\ store[p] = Nothing /\ ParentStands(p) /\ backend.upload = "entry" ->
                Goto(c, IF op[c].stage = "parent" THEN "new_parent" ELSE "new_folder") /\ UNCHANGED store
         [] OTHER -> Mkdir(c) /\ DirectoryMade(c)
    /\ UNCHANGED <<backend, server, twins, hidden, faults>>

CreateFolder(c) ==
    /\ op[c].stage \in {"new_parent", "new_folder"}
    /\ FolderEffect(c)
    /\ DirectoryMade(c)
    /\ UNCHANGED <<backend, server, hidden, faults>>

-----------------------------------------------------------------------------
(* Transfers *)

\* The call is handed to the server, or the file goes through a local copy.
Transfer(c) ==
    /\ op[c].stage = "transfer"
    /\ LET call == op[c].call IN
       IF call.name # "upload" /\ Ambiguous(call)
       THEN Raises(c, "storage")
       ELSE Goto(c, CASE call.name = "upload" -> "write"
                      [] call.name = "copy" -> IF CopiesNatively(call.path) THEN "copy" ELSE "read"
                      [] call.name = "move" -> IF MovesNatively(call.path) THEN "rename" ELSE "read")
    /\ UNCHANGED <<backend, server, store, twins, hidden, faults>>

\* The download to a staging file; it replaces a local target in one step.
Read(c) ==
    /\ op[c].stage = "read"
    /\ LET call == op[c].call
           p == IF call.name = "download" THEN call.path ELSE call.origin
       IN  IF ~IsFile(store[p]) \/ Twin(p)
           THEN Raises(c, IF Twin(p) THEN "storage" ELSE backend.errors["missing"])
           ELSE Set(c, [op[c] EXCEPT !.held = store[p],
                                     !.stage = IF call.name = "download" THEN "done" ELSE "write"])
    /\ UNCHANGED <<backend, server, store, twins, hidden, faults>>

\* One request carries the whole content.
WriteWhole(c) ==
    LET p == op[c].call.path IN
    store' = [q \in Paths |-> IF q = p THEN op[c].held
                             ELSE IF q = Parent[p] /\ backend.parents = "made" THEN Folder ELSE store[q]]

\* _upload: the content becomes the file at the path
Write(c) ==
    /\ op[c].stage = "write"
    /\ LET p == op[c].call.path
           part == [by |-> c, try |-> op[c].try, suffix |-> "part", content |-> op[c].held]
       IN  CASE Twin(p) ->
                    Raises(c, "storage") /\ UNCHANGED <<store, hidden>>
             [] ~Twin(p) /\ ~ParentStands(p) ->
                    Done(c, FALSE) /\ UNCHANGED <<store, hidden>>
             [] Stages ->
                    hidden' = hidden \union {part} /\ Goto(c, "replace") /\ UNCHANGED store
             [] backend.upload = "entry" ->
                    Goto(c, IF store[p] = Nothing THEN "create" ELSE "update") /\ UNCHANGED <<store, hidden>>
             [] backend.upload = "whole" ->
                    WriteWhole(c) /\ Goto(c, "after") /\ UNCHANGED hidden
             [] OTHER ->
                    store' = [store EXCEPT ![p] = Torn] /\ Goto(c, "close") /\ UNCHANGED hidden
    /\ UNCHANGED <<backend, server, twins, faults>>

\* The last block of a file that is written in place
Close(c) ==
    /\ op[c].stage = "close"
    /\ store' = [store EXCEPT ![op[c].call.path] = op[c].held]
    /\ Goto(c, "after")
    /\ UNCHANGED <<backend, server, twins, hidden, faults>>

\* Google Drive: a new entry, whatever has the name by now, or a revision of the entry found
CreateEffect(c) ==
    LET p == op[c].call.path IN
    /\ store' = [store EXCEPT ![p] = op[c].held]
    /\ twins' = IF store[p] = Nothing THEN twins ELSE twins \union {p}

CreateEntry(c) ==
    /\ op[c].stage = "create"
    /\ CreateEffect(c)
    /\ Goto(c, "after")
    /\ UNCHANGED <<backend, server, hidden, faults>>

UpdateEffect(c) == store' = [store EXCEPT ![op[c].call.path] = op[c].held]

UpdateEntry(c) ==
    /\ op[c].stage = "update"
    /\ IF IsFile(store[op[c].call.path])
       THEN UpdateEffect(c) /\ Goto(c, "after")
       ELSE Raises(c, backend.errors["missing"]) /\ UNCHANGED store
    /\ UNCHANGED <<backend, server, twins, hidden, faults>>

\* A copy on the server
CopyEffect(c) ==
    LET call == op[c].call IN
    /\ store' = [store EXCEPT ![call.path] = store[call.origin]]
    /\ twins' = IF backend.upload = "entry" /\ store[call.path] # Nothing
                THEN twins \union {call.path} ELSE twins

CopyOnServer(c) ==
    /\ op[c].stage = "copy"
    /\ \/ /\ ~IsFile(store[op[c].call.origin])
          /\ Raises(c, backend.errors["missing"])
          /\ UNCHANGED <<store, twins>>
       \/ /\ IsFile(store[op[c].call.origin]) /\ Refuses(op[c].call.path)
          /\ Goto(c, "clear")
          /\ UNCHANGED <<store, twins>>
       \/ /\ IsFile(store[op[c].call.origin]) /\ ~Refuses(op[c].call.path)
          /\ CopyEffect(c)
          /\ Goto(c, "after")
    /\ UNCHANGED <<backend, server, hidden, faults>>

\* A finished transfer: a move that went through a local copy deletes its origin.
Pulled(c) == op[c].held # op[c].call.content

After(c) ==
    /\ op[c].stage = "after"
    /\ Goto(c, IF op[c].call.name = "move" /\ Pulled(c) THEN "drop" ELSE "describe")
    /\ UNCHANGED <<backend, server, store, twins, hidden, faults>>

-----------------------------------------------------------------------------
(* Replacing by renaming *)

Own(c, suffix) == {h \in hidden : h.by = c /\ h.try = op[c].try /\ h.suffix = suffix}

\* What is renamed: the dot-file of an upload, or the origin of a move
FromPart(c) == Own(c, "part") # {}

SourceStands(c) == FromPart(c) \/ IsFile(store[op[c].call.origin])

Renames(c) == SourceStands(c) /\ ~Refuses(op[c].call.path) /\ ParentStands(op[c].call.path)

RenameEffect(c) ==
    LET call == op[c].call IN
    IF FromPart(c)
    THEN /\ store' = [store EXCEPT ![call.path] = (CHOOSE h \in Own(c, "part") : TRUE).content]
         /\ hidden' = hidden \ Own(c, "part")
         /\ UNCHANGED twins
    ELSE /\ store' = [store EXCEPT ![call.path] = store[call.origin], ![call.origin] = Nothing]
         /\ twins' = IF backend.upload = "entry" /\ store[call.path] # Nothing THEN twins \union {call.path} ELSE twins
         /\ UNCHANGED hidden

\* An upload that failed removes its dot-file.
FailedStage(c) == IF FromPart(c) THEN "discard" ELSE "done"

\* os.replace, _replace, rename, MOVE, files_move_v2, mv
Replace(c) ==
    /\ op[c].stage \in {"replace", "rename"}
    /\ \/ /\ Renames(c)
          /\ RenameEffect(c)
          /\ Goto(c, "after")
       \/ /\ ~Renames(c)
          /\ CASE backend.inTheWay = "aside" -> Goto(c, "aside")
               [] backend.inTheWay = "clear" /\ Refuses(op[c].call.path) /\ SourceStands(c) -> Goto(c, "clear")
               [] OTHER -> Cleanup(c, FailedStage(c))
          /\ UNCHANGED <<store, twins, hidden>>
    /\ UNCHANGED <<backend, server, faults>>

\* Bug: the file in the way is deleted, not renamed.
KeptAsideNot(c) == {}

\* The file in the way, under its hidden name
KeptAside(c) == {[by |-> c, try |-> op[c].try, suffix |-> "old", content |-> store[op[c].call.path]]}

AsideEffect(c) ==
    /\ hidden' = hidden \union KeptAside(c)
    /\ store' = [store EXCEPT ![op[c].call.path] = Nothing]

MoveAside(c) ==
    /\ op[c].stage = "aside"
    /\ IF store[op[c].call.path] = Nothing
       THEN Cleanup(c, FailedStage(c)) /\ UNCHANGED <<store, hidden>>
       ELSE AsideEffect(c) /\ Goto(c, "again")
    /\ UNCHANGED <<backend, server, twins, faults>>

RemoveEffect(p) == store' = [store EXCEPT ![p] = Nothing]

\* SMB and Dropbox: the file in the way is deleted.
ClearTarget(c) ==
    /\ op[c].stage = "clear"
    /\ IF store[op[c].call.path] = Nothing
       THEN Raises(c, backend.errors["missing"]) /\ UNCHANGED store
       ELSE /\ RemoveEffect(op[c].call.path)
            /\ Goto(c, IF op[c].call.name = "copy" THEN "copy" ELSE "again")
    /\ UNCHANGED <<backend, server, twins, hidden, faults>>

RenameAgain(c) ==
    /\ op[c].stage = "again"
    /\ \/ /\ Renames(c)
          /\ RenameEffect(c)
          /\ Goto(c, IF backend.inTheWay = "aside" THEN "forget" ELSE "after")
       \/ /\ ~Renames(c)
          /\ Cleanup(c, IF backend.inTheWay = "aside" THEN "put_back" ELSE "done")
          /\ UNCHANGED <<store, twins, hidden>>
    /\ UNCHANGED <<backend, server, faults>>

PutBack(c) ==
    /\ op[c].stage = "put_back"
    /\ LET p == op[c].call.path IN
       IF Refuses(p) \/ Own(c, "old") = {}
       THEN UNCHANGED <<store, hidden>>
       ELSE /\ store' = [store EXCEPT ![p] = (CHOOSE h \in Own(c, "old") : TRUE).content]
            /\ hidden' = hidden \ Own(c, "old")
    /\ Cleanup(c, FailedStage(c))
    /\ UNCHANGED <<backend, server, twins, faults>>

\* _discard of the file that was replaced, or of an upload's dot-file
Discard(c) ==
    /\ op[c].stage \in {"forget", "discard"}
    /\ hidden' = hidden \ Own(c, IF op[c].stage = "forget" THEN "old" ELSE "part")
    /\ IF op[c].stage = "forget" THEN Goto(c, "after") ELSE Done(c, FALSE)
    /\ UNCHANGED <<backend, server, store, twins, faults>>

-----------------------------------------------------------------------------
(* Deletion *)

\* What the request removes: the entry, or the origin at the end of a move
Removed(c) == IF op[c].stage = "drop" THEN op[c].call.origin ELSE op[c].call.path

\* _delete_file, and the delete at the end of a move
RemoveFile(c) ==
    /\ op[c].stage \in {"remove", "drop"}
    /\ IF Twin(Removed(c)) THEN UNCHANGED store ELSE RemoveEffect(Removed(c))
    /\ CASE Twin(Removed(c)) -> Raises(c, "storage")
         [] ~Twin(Removed(c)) /\ store[Removed(c)] = Nothing /\ ~(backend.forgiving /\ op[c].stage = "remove") ->
                Raises(c, backend.errors["missing"])
         [] ~Twin(Removed(c)) /\ op[c].stage = "drop" /\ store[Removed(c)] # Nothing -> Goto(c, "describe")
         [] OTHER -> Done(c, TRUE)
    /\ UNCHANGED <<backend, server, twins, hidden, faults>>

Children(p) == {q \in Below(p) : store[q] # Nothing}

NotEmpty(c) == ~op[c].call.recursive /\ Children(op[c].call.path) # {}

ListDirectory(c) ==
    /\ op[c].stage = "list"
    /\ IF NotEmpty(c) \/ Twin(op[c].call.path)
       THEN Raises(c, IF Twin(op[c].call.path) THEN "storage" ELSE "not_empty")
       ELSE Set(c, [op[c] EXCEPT !.seen = IF DeletesWhole THEN {} ELSE Children(op[c].call.path),
                                 !.stage = "rmdir"])
    /\ UNCHANGED <<backend, server, store, twins, hidden, faults>>

\* A recursive delete removes what it listed, one entry at a time.
RemoveListed(c) ==
    /\ op[c].stage = "rmdir"
    /\ \E q \in op[c].seen :
          /\ RemoveEffect(q)
          /\ IF store[q] = Nothing /\ ~backend.forgiving
             THEN Done(c, FALSE)
             ELSE Set(c, [op[c] EXCEPT !.seen = @ \ {q}])
    /\ UNCHANGED <<backend, server, twins, hidden, faults>>

\* What the last request of a directory's deletion takes away
Rmdir(p) == IF DeletesWhole THEN {p} \union Below(p) ELSE {p}

RmdirEffect(c) ==
    store' = [q \in Paths |-> IF q \in Rmdir(op[c].call.path) THEN Nothing ELSE store[q]]

RemoveDirectory(c) ==
    /\ op[c].stage = "rmdir"
    /\ op[c].seen = {}
    /\ LET p == op[c].call.path
           refused == backend.rmdir = "empty" /\ Children(p) # {}
       IN  IF (store[p] = Nothing /\ Directories) \/ refused
           THEN Done(c, FALSE) /\ UNCHANGED store
           ELSE RmdirEffect(c) /\ Done(c, TRUE)
    /\ UNCHANGED <<backend, server, twins, hidden, faults>>

-----------------------------------------------------------------------------
(* Requests that fail *)

\* A request took effect and its answer was lost.
EffectOnly(c) ==
    LET stage == op[c].stage IN
    \/ stage \in {"replace", "rename", "again"} /\ Renames(c) /\ RenameEffect(c)
    \/ /\ UNCHANGED twins
       /\ stage = "aside" /\ store[op[c].call.path] # Nothing /\ AsideEffect(c)
    \/ /\ UNCHANGED hidden
       /\ \/ stage = "create" /\ CreateEffect(c)
          \/ stage \in {"new_parent", "new_folder"} /\ FolderEffect(c)
          \/ stage = "copy" /\ IsFile(store[op[c].call.origin]) /\ ~Refuses(op[c].call.path) /\ CopyEffect(c)
    \/ /\ UNCHANGED <<twins, hidden>>
       /\ \/ stage \in {"parent", "mkdir"} /\ backend.upload # "entry" /\ ~IsFile(store[Made(c)]) /\ Mkdir(c)
          \/ stage = "write" /\ backend.upload = "whole" /\ ParentStands(op[c].call.path) /\ WriteWhole(c)
          \/ stage \in {"update", "close"} /\ IsFile(store[op[c].call.path]) /\ UpdateEffect(c)
          \/ stage \in {"remove", "drop", "clear"} /\ RemoveEffect(Removed(c))
          \/ stage = "rmdir" /\ op[c].seen = {} /\ backend.rmdir # "empty" /\ RmdirEffect(c)

\* Where the finally clauses lead
FaultStage(c, r) ==
    CASE op[c].stage \in {"rename", "replace"} /\ r \in backend.refusals /\ backend.inTheWay = "aside" -> "aside"
      [] op[c].stage = "rename" /\ r \in backend.refusals /\ backend.inTheWay = "clear"
            /\ store[op[c].call.path] # Nothing -> "clear"
      [] op[c].stage = "replace" /\ ~(r \in backend.refusals /\ backend.inTheWay = "aside") -> FailedStage(c)
      [] op[c].stage \in {"put_back", "aside"} -> FailedStage(c)
      [] op[c].stage = "again" /\ backend.inTheWay = "aside" -> "put_back"
      [] op[c].stage = "forget" -> "after"
      [] OTHER -> "done"

\* The cleanup only logs, and what it cleans up after was raised before.
Quiet(c) == op[c].stage \in {"put_back", "discard", "forget"}

\* A request fails: it is refused, or never arrived, or its answer was lost.
Fault(c) ==
    /\ faults > 0
    /\ op[c].stage \notin {"new", "commit", "staged", "done", "transfer", "after"}
    /\ faults' = faults - 1
    /\ \E r \in Failures :
          /\ \/ UNCHANGED <<store, twins, hidden>>
             \/ r = "dropped" /\ EffectOnly(c)
          /\ LET next == FaultStage(c, r)
                 goesOn == next \in {"aside", "clear", "after"}
             IN  Set(c, [op[c] EXCEPT !.stage = next, !.clean = FALSE, !.ok = @ /\ goesOn,
                                      !.error = IF goesOn \/ Quiet(c) THEN @ ELSE backend.errors[r]])
    /\ UNCHANGED <<backend, server>>

\* A task of a pipeline is tried again after a transient failure.
Retry(c) ==
    /\ op[c].stage = "done" /\ op[c].error = "transient"
    /\ Set(c, [op[c] EXCEPT !.stage = "new", !.held = op[c].call.content, !.seen = {}, !.ok = TRUE,
                             !.error = "none", !.try = @ + 1])
    /\ UNCHANGED <<backend, server, store, twins, hidden, faults>>

Step(c) ==
    \/ Look(c) \/ CloseWriter(c) \/ DiscardWriter(c) \/ Describe(c) \/ MakeParents(c) \/ MakeDirectory(c) \/ CreateFolder(c)
    \/ Transfer(c) \/ Read(c) \/ Write(c)
    \/ Close(c) \/ CreateEntry(c) \/ UpdateEntry(c) \/ CopyOnServer(c) \/ After(c)
    \/ Replace(c) \/ MoveAside(c) \/ ClearTarget(c) \/ RenameAgain(c) \/ PutBack(c)
    \/ Discard(c) \/ RemoveFile(c) \/ ListDirectory(c) \/ RemoveListed(c) \/ RemoveDirectory(c)
    \/ Fault(c) \/ Retry(c)

Next == \E c \in DOMAIN op : Step(c)

Spec == Init /\ [][Next]_vars

-----------------------------------------------------------------------------
(* Properties *)

\* What the contract says a call leaves behind
WithParent(view, p) ==
    [q \in Paths |-> IF q = Parent[p] /\ Directories THEN Folder ELSE view[q]]

Promised(call, view) ==
    CASE call.name = "upload" -> [WithParent(view, call.path) EXCEPT ![call.path] = call.content]
      [] call.name = "copy" -> [WithParent(view, call.path) EXCEPT ![call.path] = view[call.origin]]
      [] call.name = "move" ->
            [WithParent(view, call.path) EXCEPT ![call.path] = view[call.origin], ![call.origin] = Nothing]
      [] call.name = "mkdir" ->
            IF Directories THEN [WithParent(view, call.path) EXCEPT ![call.path] = Folder] ELSE view
      [] call.name \in {"download", "stat"} -> view
      [] call.name = "delete" ->
            [q \in Paths |-> IF q = call.path \/ Parent[q] = call.path THEN Nothing ELSE view[q]]

\* The folders of an object store come and go with the keys below them.
SameView(view, promised) ==
    \A p \in Paths : view[p] = promised[p] \/ (~Directories /\ {view[p], promised[p]} = {Nothing, Folder})

Others(c) == DOMAIN op \ {c}

\* The file that a call asks for
Asked(call) == IF call.name \in {"copy", "move"} THEN call.origin ELSE call.path

Writes(call) == call.name \in {"upload", "open_write", "copy", "move"}

\* The exception of a call is true of the store, and no failed lookup passes for an absent file.
TellsWhy(c) ==
    LET call == op[c].call
        before == op[c].before
        error == op[c].error
    IN  /\ (error = "not_found" /\ op[c].clean) => before[Asked(call)] = Nothing
        /\ error = "exists" => ~call.overwrite /\ before[call.path] # Nothing
        /\ error \in {"transient", "permission", "unavailable"} => ~op[c].clean
        /\ (Writes(call) /\ ~call.overwrite /\ IsFile(op[c].first[call.path])) =>
               View[call.path] = op[c].first[call.path]
        /\ (call.name = "upload" /\ op[c].clean /\ Directories /\ Parent[call.path] # Root) =>
               (IsFile(before[Parent[call.path]]) => error = "path_type")

\* Every backend keeps the contract of the template methods: a call that ran undisturbed and
\* succeeded, if only at a later try, left exactly what it promises; one that was refused while all
\* requests were answered changed nothing except missing parents and left no dot-file, and an
\* exception says what was the matter.
ContractHolds ==
    \A c \in DOMAIN op :
        (op[c].stage = "done" /\ op[c].alone /\ \A d \in Others(c) : op[d].stage = "new") =>
            LET call == op[c].call IN
            /\ op[c].ok => SameView(View, Promised(call, op[c].first))
            /\ ~op[c].ok /\ op[c].clean =>
                  SameView(View, op[c].before) \/ SameView(View, WithParent(op[c].before, call.path))
            /\ op[c].clean => hidden = {}
            /\ TellsWhy(c)

Held == {store[p] : p \in Paths} \union {h.content : h \in hidden}

\* The one way to lose a file that is moved: a server that can replace files refuses to, then does
\* it without an answer, and the file that was moved aside is put back over the new one.
PutBackOver(c, old) ==
    /\ backend.inTheWay = "aside" /\ ~server.strict /\ ~op[c].clean
    /\ IsFile(old) /\ store[op[c].call.path] = old

\* What a client writes
NewContent(c) ==
    IF op[c].call.name \in {"upload", "open_write"} THEN op[c].call.content ELSE op[c].first[op[c].call.origin]

\* SMB, WebDAV and fsspec write the file in its place: an upload that breaks off has lost the old file.
BrokenInPlace(c) == InPlace /\ op[c].call.name \in {"upload", "open_write"}

\* Whatever requests of a transfer fail, at every moment in between and at every later try, it loses
\* no content while no other client writes (BrokenInPlace and PutBackOver aside): the file that is
\* moved exists under some name, and the file that is replaced does too until the new content is at
\* the target (or, where the server refuses to replace, at the origin).  No reader of a backend that
\* stages its writes sees half a file.
ContentSurvives ==
    /\ \A p \in Paths : store[p] = Torn => InPlace
    /\ \A c \in DOMAIN op :
          (~Untouched(c) /\ Writes(op[c].call) /\ \A d \in Others(c) : Untouched(d)) =>
              LET call == op[c].call
                  new == NewContent(c)
                  old == op[c].first[call.path]
              IN  \/ PutBackOver(c, old)
                  \/ /\ call.name = "move" /\ IsFile(new) => new \in Held
                     /\ IsFile(old) => old \in Held \/ new \in Held \/ BrokenInPlace(c)

Succeeded == {c \in DOMAIN op : op[c].ok}

\* Two clients that write, move to, delete or make one path at the same time, and all their requests
\* answered: when both are done the file is whole and is what a call that succeeded made of it; if
\* none did, what was there and what was to be moved exist under some name, hidden perhaps.  On
\* Google Drive the two may make twins: one of two that write is told, but nobody need be of a mkdir.
RaceEndsWell ==
    (Cardinality(DOMAIN op) > 1 /\ \A c \in DOMAIN op : op[c].stage = "done" /\ op[c].clean) =>
        /\ \A c \in DOMAIN op :
              LET call == op[c].call
                  p == call.path
                  olds == {op[c].before[p]} \union (IF call.name = "move" THEN {NewContent(c)} ELSE {})
              IN  (call.name # "mkdir" /\ ~Twin(p)) =>
                      \/ \E d \in Succeeded : View[p] = Promised(op[d].call, op[d].before)[p]
                      \/ Succeeded = {} /\ \A old \in olds : IsFile(old) => old \in Held
        /\ \A p \in twins : \E c \in DOMAIN op : op[c].call.name = "mkdir" \/ op[c].error = "storage"
=============================================================================
