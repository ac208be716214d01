------------------------------ MODULE ToolServer ------------------------------
(* The MCP server: the JSON-RPC envelope, the policy that says where the      *)
(* semantic tools may work and what they may change, the tools themselves and *)
(* the guarded actions of the pipelines they run.  Every tool looks before it *)
(* acts, and other clients of the same storage act in between; what is long   *)
(* it returns in pieces.                                                      *)
EXTENDS Integers, Sequences, SequencesExt

CONSTANTS
    Paths,      \* the files, as sequences of segments
    RealPath,   \* where a path leads when links are followed
    Policies,   \* what the server may have been started with
    Requests,   \* the messages a client may send
    Documents,  \* the pipeline definitions somebody may store
    Foreign,    \* what other clients write
    MaxCalls,   \* messages per behaviour
    MaxEdits,   \* changes by other clients per behaviour
    Texts,      \* what is read page by page: where its characters, or its entries, start and the last one ends
    Limits,     \* bytes one call returns at most
    Searches    \* [candidates, limit, budget] of the searches a client may ask for

Task == [name : {"read_text", "write_text", "copy", "copy_tree", "sync", "move", "delete"},
         source : DOMAIN RealPath, target : DOMAIN RealPath, overwrite : {"yes", "no", "unsaid"}]

Definition == [valid : BOOLEAN, scheduled : BOOLEAN, tasks : Seq(Task), nested : SUBSET STRING]

\* Paths are sequences.  Below a directory files are where its real path says: the files of the model
\* have no link above them, though a request may name a link.
ASSUME ToolAssumption ==
    /\ Paths \subseteq DOMAIN RealPath
    /\ \A d \in DOMAIN RealPath : d \in Seq(STRING) /\ RealPath[d] \in Seq(STRING)
    /\ \A p \in Paths, d \in DOMAIN RealPath : IsPrefix(d, p) => IsPrefix(RealPath[d], RealPath[p])
    /\ Policies \subseteq [roots : SUBSET Seq(STRING), tools : SUBSET STRING, write : BOOLEAN, overwrite : BOOLEAN,
                           delete : BOOLEAN, actions : SUBSET STRING, exposed : SUBSET STRING, maxWrite : Nat]
    /\ Requests \subseteq [method : STRING, id : BOOLEAN, tool : STRING, good : BOOLEAN, source : DOMAIN RealPath,
                           target : DOMAIN RealPath, size : Nat, overwrite : BOOLEAN, dry : BOOLEAN,
                           verify : BOOLEAN, background : BOOLEAN, document : Definition]
    /\ Documents \subseteq Definition
    /\ <<>> \in DOMAIN RealPath
    /\ \A t \in Texts : t \subseteq Nat /\ 0 \in t /\ \E n \in t : \A m \in t : m <= n
    /\ Limits \subseteq Nat
    /\ Searches \subseteq [candidates : Seq([size : Nat \union {-1}, readable : BOOLEAN, text : BOOLEAN, hit : BOOLEAN]),
                           limit : Nat, budget : Nat]

VARIABLES
    policy,     \* MCPPolicy: immutable
    files,      \* path -> content, or Absent
    plan,       \* the stored definition, or NoPlan
    call,       \* the message in hand
    run,        \* the tasks of the pipeline run in progress
    made,       \* messages handled so far
    foreign,    \* changes by other clients so far
    reader,     \* a client that reads a file to its end
    search      \* a search and its answer

toolVars == <<policy, files, plan, call, run, made, foreign>>

readVars == <<reader, search>>

Absent == "absent"

NoPlan == [valid |-> FALSE, scheduled |-> FALSE, tasks |-> <<>>, nested |-> {}]

\* A problem is "" when there is none; of two, the first that is found.
p ?? q == IF p # "" THEN p ELSE q

Unless(holds, problem) == IF holds THEN "" ELSE problem

-----------------------------------------------------------------------------
(* The policy *)

\* Replacing and deleting need writing.
WellFormed(p) == p.overwrite \/ p.delete => p.write

PathBelow(root, path) == IsPrefix(root, path)

Candidates(path) == {root \in policy.roots : PathBelow(root, path)}

\* A local path is served by the first root that holds it with its links followed.
Resolve(path) ==
    Unless(policy.roots # {}, "no_root")
    ?? Unless(Candidates(path) # {}, "outside_root")
    ?? Unless(\E root \in Candidates(path) : PathBelow(root, RealPath[path]), "outside_root")

RequireTool(tool) == Unless(tool \in policy.tools, "tool_disabled")

RequireWrite == Unless(policy.write, "read_only")

RequireOverwrite == RequireWrite ?? Unless(policy.overwrite, "overwrite_not_allowed")

RequireDelete == RequireWrite ?? Unless(policy.delete, "delete_not_allowed")

-----------------------------------------------------------------------------
(* What is at a path *)

IsDir(path) == \E p \in Paths : files[p] # Absent /\ IsStrictPrefix(path, p)

IsFile(path) == path \in Paths /\ files[path] # Absent

FilesBelow(directory) == {p \in Paths : IsFile(p) /\ IsStrictPrefix(directory, p)}

Moved(p, source, target) == target \o SubSeq(p, Len(source) + 1, Len(p))

ExistingFile(path) ==
    Unless(~IsDir(path), "path_type")
    ?? Unless(IsFile(path), "not_found")

\* The file at the target is replaced only when the caller asks and the policy agrees.
Replaceable(path, overwrite) ==
    Unless(~IsDir(path), "path_type")
    ?? Unless(IsFile(path) => overwrite, "already_exists")
    ?? (IF IsFile(path) THEN RequireOverwrite ELSE "")

-----------------------------------------------------------------------------
(* Pipelines: the actions a definition may name, and what a run may do *)

ReadActions == {"read_text"}

WriteActions == {"write_text", "copy", "copy_tree"}

OverwriteActions == {"sync"}

DeleteActions == {"move", "delete"}

GuardedActions == ReadActions \union WriteActions \union OverwriteActions \union DeleteActions

DefaultPipelineActions ==
    ReadActions
    \union (IF policy.write THEN WriteActions ELSE {})
    \union (IF policy.write /\ policy.overwrite THEN OverwriteActions ELSE {})
    \union (IF policy.write /\ policy.delete THEN DeleteActions ELSE {})

AllowedActions == IF policy.actions = {"default"} THEN DefaultPipelineActions ELSE policy.actions

Nestable == policy.actions \ ({"default"} \union GuardedActions)

\* check_pipeline_actions: an allow list names actions that the server has.
ActionsExist(p) == p.actions \subseteq {"default"} \union GuardedActions \union p.exposed

ActionRefusals(document) ==
    Unless(/\ \A i \in DOMAIN document.tasks : document.tasks[i].name \in AllowedActions
           /\ document.nested \subseteq Nestable,
           "action_not_allowed")

CreateProblem(r) ==
    RequireWrite
    ?? Unless(r.document.valid, "invalid_definition")
    ?? Unless(~r.document.scheduled, "action_not_allowed")
    ?? ActionRefusals(r.document)
    ?? Unless(r.size <= policy.maxWrite, "limit_exceeded")
    ?? Unless(plan # NoPlan => r.overwrite, "already_exists")
    ?? (IF plan # NoPlan THEN RequireOverwrite ELSE "")

\* Bug: a stored definition is taken for the one that was checked when it was created.
RunProblemTrusting ==
    RequireWrite
    ?? Unless(plan # NoPlan, "not_found")
    ?? Unless(plan.valid, "invalid_definition")

\* The definition is read again and checked again: it may not be the one that was created.
RunProblem ==
    RequireWrite
    ?? Unless(plan # NoPlan, "not_found")
    ?? Unless(plan.valid, "invalid_definition")
    ?? ActionRefusals(plan)

\* What write() is told: the caller's wish, as far as the policy goes.
Replace(overwrite) ==
    IF overwrite = "unsaid" THEN policy.overwrite ELSE overwrite = "yes" /\ policy.overwrite

\* What stops a task before it changes anything
TaskProblem(t) ==
    (CASE t.name = "read_text" -> ""
       [] t.name \in {"write_text", "copy"} -> RequireWrite
       [] t.name = "copy_tree" -> IF t.overwrite = "yes" THEN RequireOverwrite ELSE RequireWrite
       [] t.name = "sync" -> RequireOverwrite
       [] t.name \in {"move", "delete"} -> RequireDelete)
    ?? Resolve(t.source)
    ?? Resolve(t.target)
    ?? (IF t.name = "delete" THEN Unless(t.target \notin policy.roots, "outside_root") ELSE "")
    ?? (IF t.name \in {"write_text", "delete", "copy_tree", "sync"} THEN "" ELSE ExistingFile(t.source))
    ?? (IF t.name \in {"write_text", "copy", "move"} /\ t.overwrite = "yes" /\ IsFile(t.target)
        THEN RequireOverwrite ELSE "")

\* The files a tree copy of `source` to `target` writes
TreeCopies(source, target, overwrite) ==
    {p \in FilesBelow(source) :
        Moved(p, source, target) \in Paths /\ (overwrite \/ ~IsFile(Moved(p, source, target)))}

Copied(source, target, overwrite) ==
    [q \in Paths |->
        LET from == {p \in TreeCopies(source, target, overwrite) : Moved(p, source, target) = q}
        IN  IF from = {} THEN files[q] ELSE files[CHOOSE p \in from : TRUE]]

\* The storage after a task, when its write is not refused because of what is there by now
TaskEffect(t) ==
    CASE t.name = "read_text" -> files
      [] t.name = "write_text" -> [files EXCEPT ![t.target] = "task"]
      [] t.name = "copy" -> [files EXCEPT ![t.target] = files[t.source]]
      [] t.name = "copy_tree" -> Copied(t.source, t.target, Replace(t.overwrite))
      [] t.name = "sync" -> Copied(t.source, t.target, TRUE)
      [] t.name = "move" -> [files EXCEPT ![t.target] = files[t.source], ![t.source] = Absent]
      [] t.name = "delete" -> [p \in Paths |-> IF PathBelow(t.target, p) THEN Absent ELSE files[p]]

TaskBlocked(t) ==
    \/ t.name \in {"write_text", "copy", "move"} /\ (IsDir(t.target) \/ (IsFile(t.target) /\ ~Replace(t.overwrite)))
    \/ t.name \in {"copy", "move"} /\ ~IsFile(t.source)
    \/ t.name \in {"copy_tree", "sync"} /\ ~IsDir(t.source)
    \/ t.name = "delete" /\ ~IsFile(t.target) /\ ~IsDir(t.target)

\* What somebody else changed since the message in hand was received
Touched(paths) == [call EXCEPT !.touched = @ \union paths]

RunCheck ==
    /\ run.tasks # <<>> /\ run.step = "check"
    /\ run' = IF TaskProblem(Head(run.tasks)) = "" THEN [run EXCEPT !.step = "write"]
              ELSE [run EXCEPT !.tasks = <<>>, !.status = "failed"]
    /\ UNCHANGED <<policy, files, plan, call, made, foreign>>

RunWrite ==
    /\ run.tasks # <<>> /\ run.step = "write"
    /\ LET t == Head(run.tasks)
       IN  IF TaskBlocked(t)
           THEN files' = files /\ run' = [run EXCEPT !.tasks = <<>>, !.step = "check", !.status = "failed"]
           ELSE /\ files' = TaskEffect(t)
                /\ run' = [run EXCEPT !.tasks = Tail(@), !.step = "check",
                                      !.status = IF Len(run.tasks) = 1 THEN "succeeded" ELSE @]
    /\ call' = Touched({p \in Paths : files'[p] # files[p]})
    /\ UNCHANGED <<policy, plan, made, foreign>>

-----------------------------------------------------------------------------
(* Messages *)

SemanticTools ==
    {"file_write", "file_copy", "file_move", "file_checksum", "storage_list", "storage_copy",
     "pipeline_create", "pipeline_run", "pipeline_status"}

\* storage_copy of a directory
IsTree(r) == r.tool = "storage_copy" /\ IsDir(r.source)

Answered(c, a) == [c EXCEPT !.phase = "done", !.answer = a]

NewCall(r) ==
    [request |-> r, phase |-> "acting", answer |-> "none", replaced |-> FALSE, seen |-> Absent,
     tree |-> IsTree(r), touched |-> {}, changed |-> {}]

\* A reply goes to a request; a notification gets one only for an error.
Reply(r, a) == IF a = "result" /\ ~r.id THEN "none" ELSE a

\* A move or copy needs its permission before anything is looked at.
TransferProblem(r) ==
    (IF r.tool = "file_move" THEN RequireDelete ELSE RequireWrite)
    ?? Resolve(r.source)
    ?? Resolve(r.target)
    ?? ExistingFile(r.source)
    ?? Unless(r.source # r.target, "invalid_arguments")
    ?? Replaceable(r.target, r.overwrite)

WriteProblem(r) ==
    RequireWrite
    ?? Unless(r.size <= policy.maxWrite, "limit_exceeded")
    ?? Resolve(r.target)
    ?? Replaceable(r.target, r.overwrite)

CopyTreeProblem(r) ==
    RequireWrite
    ?? Resolve(r.source)
    ?? Resolve(r.target)
    ?? Unless(~PathBelow(r.source, r.target) /\ ~PathBelow(r.target, r.source), "invalid_arguments")
    ?? (IF r.overwrite /\ \E p \in FilesBelow(r.source) : IsFile(Moved(p, r.source, r.target))
        THEN RequireOverwrite ELSE "")

ToolProblem(r) ==
    RequireTool(r.tool)
    ?? Unless(r.good, "invalid_arguments")
    ?? (CASE r.tool = "file_write" -> WriteProblem(r)
          [] r.tool \in {"file_copy", "file_move"} -> TransferProblem(r)
          [] r.tool = "storage_copy" -> IF IsTree(r) THEN CopyTreeProblem(r) ELSE TransferProblem(r)
          [] r.tool = "file_checksum" -> Resolve(r.source) ?? ExistingFile(r.source)
          [] r.tool = "storage_list" -> Resolve(r.source) ?? Unless(IsDir(r.source), "not_found")
          [] r.tool = "pipeline_create" -> CreateProblem(r)
          [] r.tool = "pipeline_run" -> RunProblem
          [] r.tool = "pipeline_status" -> "")

\* The bridge runs a registered action only when it and every action its arguments name is exposed.
BridgeProblem(r) ==
    Unless(r.tool \in policy.exposed, "unknown_tool")
    ?? Unless(r.document.nested \subseteq policy.exposed, "not_exposed")
    ?? Unless(r.good, "bad_arguments")

RpcProblem(r) ==
    Unless(r.method # "broken", "invalid_request")
    ?? Unless(r.method \in {"initialize", "initialized", "list", "call"}, "method_not_found")
    ?? (IF r.method = "call" /\ r.tool \notin SemanticTools THEN BridgeProblem(r) ELSE "")

ReadOnlyTools == {"file_checksum", "storage_list", "pipeline_status"}

Refusals ==
    {"tool_disabled", "no_root", "outside_root", "read_only", "overwrite_not_allowed", "delete_not_allowed",
     "limit_exceeded", "action_not_allowed"}

\* handle_message up to the first thing that changes anything
Receive(r) ==
    /\ call.phase = "done" /\ made < MaxCalls
    /\ made' = made + 1
    /\ LET c == NewCall(r)
           problem == ToolProblem(r)
       IN  call' =
            IF RpcProblem(r) # "" THEN Answered(c, "rpc_error")
            ELSE IF r.method # "call" \/ r.tool \notin SemanticTools THEN Answered(c, Reply(r, "result"))
            ELSE IF problem # "" THEN Answered(c, IF problem \in Refusals THEN "refused" ELSE "error")
            ELSE IF r.tool \in ReadOnlyTools \/ r.dry THEN Answered(c, Reply(r, "result"))
            ELSE [c EXCEPT !.replaced = IF r.tool = "pipeline_create" THEN plan # NoPlan ELSE IsFile(r.target),
                           !.seen = IF IsFile(r.source) THEN files[r.source] ELSE Absent]
    /\ UNCHANGED <<policy, files, plan, run, foreign>>

Acts(tools) == call.phase = "acting" /\ call.request.tool \in tools

Changed(paths) == [call EXCEPT !.changed = @ \union paths]

\* Bug: what the caller allowed is passed on, not what was found.
MayWriteOverWished(c) == c.request.overwrite

\* The file stat() did not see is not replaced, whatever the caller allowed.
MayWriteOver(c) == c.replaced

Blocked(path) == IsDir(path) \/ (IsFile(path) /\ ~MayWriteOver(call))

FileWrite ==
    /\ Acts({"file_write"})
    /\ LET q == call.request.target
       IN  IF Blocked(q) THEN files' = files /\ call' = Answered(call, "error")
           ELSE /\ files' = [files EXCEPT ![q] = "written"]
                /\ call' = Answered(Changed({q}), Reply(call.request, "result"))
    /\ UNCHANGED <<policy, plan, run, made, foreign>>

\* copy_to or move_to; a copy may arrive damaged
Transfer(arrived) ==
    /\ Acts({"file_copy", "file_move", "storage_copy"}) /\ ~call.tree
    /\ LET r == call.request
           gone == r.tool = "file_move" /\ ~r.verify
       IN  IF ~IsFile(r.source) \/ Blocked(r.target)
           THEN files' = files /\ call' = Answered(call, "error")
           ELSE /\ files' = [files EXCEPT ![r.target] = IF arrived THEN files[r.source] ELSE "damaged",
                                          ![r.source] = IF gone THEN Absent ELSE @]
                /\ call' = LET c == Changed({r.target} \union IF gone THEN {r.source} ELSE {})
                           IN  IF r.verify THEN [c EXCEPT !.phase = "compare"]
                               ELSE Answered(c, Reply(r, "result"))
    /\ UNCHANGED <<policy, plan, run, made, foreign>>

\* The digest of the target against the one the source had before the copy
Matches(c) == files[c.request.target] = c.seen

Compare ==
    /\ call.phase = "compare"
    /\ call' = IF ~Matches(call) THEN Answered(call, "error")
               ELSE IF call.request.tool = "file_move" THEN [call EXCEPT !.phase = "remove"]
               ELSE Answered(call, Reply(call.request, "result"))
    /\ UNCHANGED <<policy, files, plan, run, made, foreign>>

DeleteSource ==
    /\ call.phase = "remove"
    /\ files' = [files EXCEPT ![call.request.source] = Absent]
    /\ call' = IF IsFile(call.request.source)
               THEN Answered(Changed({call.request.source}), Reply(call.request, "result"))
               ELSE Answered(call, "error")
    /\ UNCHANGED <<policy, plan, run, made, foreign>>

\* The collisions were counted in Receive; copy_tree is told only what the caller wished.
StorageCopy ==
    /\ Acts({"storage_copy"}) /\ call.tree
    /\ LET r == call.request
       IN  IF ~IsDir(r.source) THEN files' = files /\ call' = Answered(call, "error")
           ELSE /\ files' = Copied(r.source, r.target, r.overwrite)
                /\ call' = Answered(Changed({Moved(p, r.source, r.target) :
                                               p \in TreeCopies(r.source, r.target, r.overwrite)}),
                                    Reply(r, "result"))
    /\ UNCHANGED <<policy, plan, run, made, foreign>>

PipelineCreate ==
    /\ Acts({"pipeline_create"})
    /\ IF plan # NoPlan /\ ~call.replaced
       THEN plan' = plan /\ call' = Answered(call, "error")
       ELSE plan' = call.request.document /\ call' = Answered(call, Reply(call.request, "result"))
    /\ UNCHANGED <<policy, files, run, made, foreign>>

\* run() waits for its tasks; start() answers at once.  One run at a time.
PipelineRun ==
    /\ Acts({"pipeline_run"}) /\ run.tasks = <<>> /\ plan # NoPlan
    /\ run' = [tasks |-> plan.tasks, step |-> "check", nested |-> plan.nested, status |-> "running"]
    /\ call' = IF call.request.background THEN Answered(call, Reply(call.request, "result"))
               ELSE [call EXCEPT !.phase = "waiting"]
    /\ UNCHANGED <<policy, files, plan, made, foreign>>

RunEnded ==
    /\ call.phase = "waiting" /\ run.tasks = <<>>
    /\ call' = Answered(call, IF run.status = "succeeded" THEN Reply(call.request, "result") ELSE "error")
    /\ UNCHANGED <<policy, files, plan, run, made, foreign>>

-----------------------------------------------------------------------------
(* Other clients of the same storage *)

ForeignWrite(p, c) ==
    /\ foreign < MaxEdits /\ foreign' = foreign + 1
    /\ files[p] # c
    /\ files' = [files EXCEPT ![p] = c]
    /\ call' = Touched({p})
    /\ UNCHANGED <<policy, plan, run, made>>

\* Somebody edits the stored definition; before the message in hand has read it.
ForeignPlan(d) ==
    /\ foreign < MaxEdits /\ foreign' = foreign + 1
    /\ plan # NoPlan /\ plan # d /\ ~Acts({"pipeline_run"})
    /\ plan' = d
    /\ UNCHANGED <<policy, files, call, run, made>>

-----------------------------------------------------------------------------
Silent ==
    [method |-> "list", id |-> FALSE, tool |-> "", good |-> TRUE, source |-> <<>>, target |-> <<>>, size |-> 0,
     overwrite |-> FALSE, dry |-> FALSE, verify |-> FALSE, background |-> FALSE, document |-> NoPlan]

ToolInit ==
    /\ policy \in {p \in Policies : WellFormed(p) /\ ActionsExist(p)}
    /\ files \in [Paths -> {"old", Absent}]
    /\ plan = NoPlan
    /\ call = [NewCall(Silent) EXCEPT !.phase = "done"]
    /\ run = [tasks |-> <<>>, step |-> "check", nested |-> {}, status |-> "none"]
    /\ made = 0 /\ foreign = 0

ServerStep ==
    \/ \E r \in Requests : Receive(r)
    \/ FileWrite \/ (\E a \in BOOLEAN : Transfer(a)) \/ Compare \/ DeleteSource \/ StorageCopy
    \/ PipelineCreate \/ PipelineRun \/ RunEnded \/ RunCheck \/ RunWrite

ToolNext ==
    \/ ServerStep
    \/ \E p \in Paths, c \in Foreign : ForeignWrite(p, c)
    \/ \E d \in Documents : ForeignPlan(d)

-----------------------------------------------------------------------------
(* Properties *)

ServerChanges(p) == files'[p] # files[p] /\ foreign' = foreign

\* A tree is being copied, and `p' or what it is copied from has appeared since the collisions were counted.
LateCollision(p) ==
    /\ Acts({"storage_copy"}) /\ call.tree
    /\ \E q \in call.touched : q = p \/ Moved(q, call.request.source, call.request.target) = p

Permitted(p) ==
    /\ policy.write
    /\ \E root \in policy.roots : PathBelow(root, RealPath[p])
    /\ files'[p] = Absent => policy.delete
    /\ files[p] # Absent /\ files'[p] # Absent => policy.overwrite \/ LateCollision(p)

\* The policy holds at the moment of every change, not only when it was checked: the server never
\* creates, replaces or removes a file outside its roots or without the permission for it, however the
\* storage changed since the tool looked, also by a pipeline of its own.  A tree copy may replace a file
\* that, or whose source, appeared meanwhile (_copy_tree counts collisions before
\* copy_tree(overwrite=True)).
PolicyObeyed == [][\A p \in Paths : ServerChanges(p) => Permitted(p)]_toolVars

\* A running task is one the policy lets a pipeline call, and so is every action its arguments name,
\* whoever rewrote the stored definition since it was created.
OnlyAllowedTasks ==
    run.tasks # <<>> => /\ \A i \in DOMAIN run.tasks : run.tasks[i].name \in AllowedActions
                        /\ run.nested \subseteq Nestable

\* What a call answers is what it did: a refusal, a protocol error and a dry run leave no change of the
\* call; a result means the file is there, and a verified move whose files nobody else touched ends with
\* the content of the source at the target.  A call that fails has not removed its source unless the
\* target holds what it had.
OutcomeIsTrue ==
    call.phase = "done" =>
        LET r == call.request
        IN  /\ call.answer \in {"refused", "rpc_error"} \/ r.dry => call.changed = {}
            /\ call.answer = "result" /\ r.method = "call" /\ ~r.dry /\ r.tool \in {"file_write", "file_copy", "file_move"}
                   => r.target \in call.changed
            /\ r.tool = "file_move" /\ r.verify /\ r.source \in call.changed /\ call.touched = {}
                   => files[r.target] = call.seen

-----------------------------------------------------------------------------
(* The read tools: file_read hands a file out page by page, file_search stops *)
(* at a limit or a byte budget, and audit_search and storage_list cut what    *)
(* they list.  A client goes on where the last answer says the next page      *)
(* starts.                                                                    *)

Least(a, b) == IF a < b THEN a ELSE b

Size(text) == Max(text)

-----------------------------------------------------------------------------
(* file_read *)

\* The bytes of a page: at most `limit` from `offset`
ReadWindow(text, offset, limit) == Least(limit, Size(text) - offset)

\* The bytes whole characters stand for; what is left of the last one comes with the next page.
Decoded(text, offset, bytes, complete) ==
    IF complete THEN bytes
    ELSE Max({n \in 0..bytes : offset + n \in text})

NextOffset(offset, bytes, used) == offset + used

\* A file of unknown size is complete once a page is not full; a page that starts within a character
\* is not text.
FileRead ==
    /\ reader.kind = "file" /\ reader.state = "reading"
    /\ LET bytes == ReadWindow(reader.text, reader.offset, reader.limit)
           complete == IF reader.sized THEN reader.offset + bytes >= Size(reader.text) ELSE bytes < reader.limit
           used == IF reader.base64 THEN bytes ELSE Decoded(reader.text, reader.offset, bytes, complete)
       IN  IF ~reader.base64 /\ reader.offset \notin reader.text
           THEN reader' = [reader EXCEPT !.state = "refused"]
           ELSE reader' = [reader EXCEPT
                             !.got = @ \o [i \in 1..used |-> reader.offset + i],
                             !.offset = IF complete THEN @ + used ELSE NextOffset(@, bytes, used),
                             !.state = IF complete THEN "complete" ELSE IF used = 0 THEN "stuck" ELSE @]
    /\ UNCHANGED search

-----------------------------------------------------------------------------
(* file_search: a candidate is [size (-1: unknown), readable, text, hit] *)

Fresh == [matches |-> {}, bytes |-> 0, skipped |-> {}, stopped |-> FALSE]

Fits(file, scan, budget) == file.size # -1 /\ file.size <= budget - scan.bytes

\* One file: not opened when it does not fit, skipped when it cannot be read or is binary
Searched(file, at, scan, budget) ==
    IF ~Fits(file, scan, budget) \/ ~file.readable THEN [scan EXCEPT !.skipped = @ \union {at}]
    ELSE [scan EXCEPT !.bytes = @ + file.size,
                      !.skipped = IF file.text THEN @ ELSE @ \union {at},
                      !.matches = IF file.text /\ file.hit THEN @ \union {at} ELSE @]

StopsAt(scan, limit) == Cardinality(scan.matches) >= limit

\* One candidate after the other; the search stops before a file when it has enough.
ContentMatches ==
    LET s == search.of IN
    /\ search.state = "searching"
    /\ IF search.at = Len(s.candidates) THEN search' = [search EXCEPT !.state = "answered"]
       ELSE IF StopsAt(search.scan, s.limit)
            THEN search' = [search EXCEPT !.state = "answered", !.scan.stopped = TRUE]
       ELSE search' = [search EXCEPT !.at = @ + 1,
                                     !.scan = Searched(s.candidates[search.at + 1], search.at + 1, @, s.budget)]
    /\ UNCHANGED reader

FileSearch(s) ==
    /\ search.state = "idle"
    /\ search' = [state |-> "searching", of |-> s, at |-> 0, scan |-> Fresh]
    /\ UNCHANGED reader

Complete(scan) == ~scan.stopped /\ scan.skipped = {}

-----------------------------------------------------------------------------
(* Lists: the part that is returned and whether there is more *)

ClampResults(wanted, maximum) == IF wanted = 0 THEN maximum ELSE Least(wanted, maximum)

Cut(total, offset, limit) == LET count == Least(limit, IF offset > total THEN 0 ELSE total - offset)
                             IN  [count |-> count, truncated |-> offset + count < total]

\* audit_search pages with an offset; storage_list and integrity_status only say that there is more.
ListPage(maximum) ==
    /\ reader.kind = "list" /\ reader.state = "reading"
    /\ LET page == Cut(Size(reader.text), reader.offset, ClampResults(reader.limit, maximum))
       IN  reader' = [reader EXCEPT !.got = @ \o [i \in 1..page.count |-> reader.offset + i],
                                    !.offset = @ + page.count,
                                    !.state = IF page.truncated THEN @ ELSE "complete"]
    /\ UNCHANGED search

-----------------------------------------------------------------------------
\* A client reads or it searches.
ReadInit ==
    /\ reader \in [text : Texts, limit : Limits, sized : BOOLEAN, base64 : BOOLEAN, offset : {0}, got : {<<>>},
                   kind : {"file", "list"}, state : {"reading", "searching"}]
    /\ reader.state = "searching" => reader.text = {0} /\ reader.kind = "list"
    /\ search = [state |-> IF reader.state = "searching" THEN "idle" ELSE "none",
                 of |-> [candidates |-> <<>>, limit |-> 1, budget |-> 0], at |-> 0, scan |-> Fresh]

ReadNext == FileRead \/ ListPage(2) \/ ContentMatches \/ \E s \in Searches : FileSearch(s)

-----------------------------------------------------------------------------
\* A client that follows next_offset gets every byte once and in order, however characters fall across
\* pages, and is told it has the whole file exactly when it has; a search that calls itself complete found
\* every match, and no search reads more than its budget or returns more than its limit.
PartsAddUp ==
    /\ reader.got = [i \in 1..Len(reader.got) |-> i]
    /\ reader.state = "complete" => Len(reader.got) = Size(reader.text)
    /\ reader.state # "refused"
    /\ LET hits == {i \in DOMAIN search.of.candidates :
                      LET f == search.of.candidates[i] IN f.readable /\ f.text /\ f.hit}
       IN  /\ search.state = "answered" /\ Complete(search.scan) => search.scan.matches = hits
           /\ search.scan.matches \subseteq hits
           /\ search.scan.bytes <= search.of.budget
           /\ Cardinality(search.scan.matches) <= search.of.limit

\* A running pipeline calls only what the policy allows, what a call answers is what it did, and what is
\* handed out in parts adds up.
ToolsTellTheTruth == OnlyAllowedTasks /\ OutcomeIsTrue /\ PartsAddUp
=============================================================================
