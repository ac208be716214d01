---------------------------- MODULE PipelineDraft ----------------------------
(* Pipeline definitions and the drafts the editor makes of them               *)
(* (pipeline/definition.py, graph.py, substitution.py, app/pipeline_draft.py, *)
(* load and save of app/pipeline_service.py).                                 *)
(*                                                                            *)
(* A document is a schema version, a name and its tasks.  Of a task's entry   *)
(* the model keeps whether its action and its other fields have the right     *)
(* type ("type"), the right type and a wrong value ("value", or "empty" for   *)
(* an action), or are good; its dependencies; and the tasks whose results its *)
(* arguments ask for.  A placeholder that is malformed, or a task's result    *)
(* inside a longer text, is Malformed.  A header field is one of these too.   *)
EXTENDS Naturals, SequencesExt, FiniteSetsExt

CONSTANTS
    Names,      \* the keys of the tasks mapping that satisfy NAME_RULE
    Documents,  \* documents a user may open
    MaxEdits    \* bound on the calls of a session

VARIABLES
    file, layout,      \* the definition on disk and the sidecar with the positions
    header, tasks, at, \* the draft: its name, its tasks, their columns on the canvas
    revision, saved,   \* counters behind PipelineDraft.dirty
    notes,             \* load_notes
    made               \* calls made so far, bounded by MaxEdits

draftVars == <<file, layout, header, tasks, at, revision, saved, notes, made>>

Malformed == "malformed"

Spec(action, field, deps, refs) == [action |-> action, field |-> field, deps |-> deps, refs |-> refs]

Document(version, name, entries) == [version |-> version, name |-> name, tasks |-> entries]

-----------------------------------------------------------------------------
(* graph.py: a graph maps task IDs to their lists of dependencies *)

Edges(graph, t) == (ToSet(graph[t]) \intersect DOMAIN graph) \ {t}

RECURSIVE CycleFrom(_, _, _)

\* The depth-first search from the end of path; done holds what was left for good.
CycleFrom(graph, path, done) ==
    LET follow(t, found) ==
            IF found.cycle \/ t \in found.done THEN found
            ELSE IF t \in ToSet(path) THEN [found EXCEPT !.cycle = TRUE]
            ELSE CycleFrom(graph, Append(path, t), found.done)
        below == FoldSet(follow, [cycle |-> FALSE, done |-> done], Edges(graph, Last(path)))
    IN  [below EXCEPT !.done = @ \union {Last(path)}]

FindCycle(graph) ==
    LET search(t, found) ==
            IF found.cycle \/ t \in found.done THEN found ELSE CycleFrom(graph, <<t>>, found.done)
    IN  FoldSet(search, [cycle |-> FALSE, done |-> {}], DOMAIN graph).cycle

DependencyProblems(graph) ==
    (UNION {{<<t, "depends_on", i>> : i \in
              {j \in DOMAIN graph[t] :
                 \/ graph[t][j] = t
                 \/ graph[t][j] \notin DOMAIN graph
                 \/ \E k \in 1..(j - 1) : graph[t][k] = graph[t][j]}} : t \in DOMAIN graph})
    \union (IF FindCycle(graph) THEN {<<"tasks", "cycle">>} ELSE {})

RECURSIVE Walk(_, _, _)

Walk(graph, stack, found) ==
    LET next == (UNION {Edges(graph, t) : t \in stack}) \ found
    IN  IF next = {} THEN found ELSE Walk(graph, next, found \union next)

\* Bug: only what the task names itself counts as upstream.
DirectUpstream(graph, t) == Edges(graph, t)

UpstreamTasks(graph, t) == Walk(graph, {t}, {}) \ {t}

RECURSIVE LevelsOf(_, _, _)

\* The rounds of task_levels; what is left over cannot be ordered.
LevelsOf(graph, levels, remaining) ==
    LET ready == {t \in remaining : ToSet(graph[t]) \subseteq DOMAIN levels}
        level(t) == IF graph[t] = <<>> THEN 0 ELSE 1 + Max({levels[d] : d \in ToSet(graph[t])})
    IN  IF ready = {} THEN [levels |-> levels, left |-> remaining]
        ELSE LevelsOf(graph, [t \in DOMAIN levels \union ready |-> IF t \in ready THEN level(t) ELSE levels[t]],
                      remaining \ ready)

TaskLevels(graph) == LevelsOf(graph, <<>>, DOMAIN graph)

-----------------------------------------------------------------------------
(* validate_definition *)

ListedDependencies(spec) == IF spec.action = "nospec" THEN <<>> ELSE spec.deps

Graph(document) == [t \in DOMAIN document.tasks \intersect Names |-> ListedDependencies(document.tasks[t])]

TaskProblems(t, spec) ==
    IF spec.action = "nospec" THEN {<<t>>}
    ELSE (IF spec.action # "ok" THEN {<<t, "action">>} ELSE {})
         \union (IF spec.field \in {"type", "value"} THEN {<<t, "field">>} ELSE {})

\* Only an action that is a list has its arguments read.
ReferenceProblems(document) ==
    LET graph == Graph(document)
        asks(t) == IF document.tasks[t].action \in {"ok", "empty"} THEN document.tasks[t].refs ELSE {}
    IN  UNION {{<<t, "reference", r>> : r \in asks(t) \ UpstreamTasks(graph, t)} : t \in DOMAIN graph}

TasksProblems(document) ==
    LET named == DOMAIN document.tasks \intersect Names
    IN  IF document.tasks = <<>> THEN {<<"tasks">>}
        ELSE {<<t>> : t \in DOMAIN document.tasks \ Names}
             \union (UNION {TaskProblems(t, document.tasks[t]) : t \in named})
             \union DependencyProblems(Graph(document))
             \union ReferenceProblems(document)

HeaderProblems(document) == IF document.name = "ok" THEN {} ELSE {<<"name">>}

\* Another schema version says nothing about the rest.
ValidateDefinition(document) ==
    IF ~document.version THEN {<<"schema_version">>}
    ELSE HeaderProblems(document) \union TasksProblems(document)

-----------------------------------------------------------------------------
(* Drafts to documents and back *)

ToDefinition(name, entries) ==
    Document(TRUE, name, [t \in DOMAIN entries |-> [entries[t] EXCEPT !.deps = SetToSeq(@)]])

\* What fits of an entry; an action that does not is an empty one
TaskFromSpec(spec) ==
    [action |-> IF spec.action = "ok" THEN "ok" ELSE "empty",
     field |-> IF spec.field = "type" THEN "none" ELSE spec.field,
     deps |-> ToSet(spec.deps),
     refs |-> IF spec.action \in {"ok", "empty"} THEN spec.refs ELSE {}]

ReadTasks(document) ==
    [t \in {u \in DOMAIN document.tasks \intersect Names : document.tasks[u].action # "nospec"} |->
        TaskFromSpec(document.tasks[t])]

ReadName(document) == IF document.name = "type" THEN "ok" ELSE document.name

\* _levels: relaxed in place, at most once per task
Levels(entries) ==
    LET last == IF entries = <<>> THEN 0 ELSE Cardinality(DOMAIN entries) - 1
        depth(levels, t) ==
            LET above == entries[t].deps \intersect DOMAIN entries
            IN  IF above = {} THEN 0 ELSE Min({last, 1 + Max({levels[d] : d \in above})})
        relax(levels, t) == [levels EXCEPT ![t] = depth(levels, t)]
        order == SetToSeq(DOMAIN entries)
        passes == [i \in 1..Len(order) |-> order]
    IN  FoldLeft(LAMBDA levels, pass : FoldLeft(relax, levels, pass), [t \in DOMAIN entries |-> 0], passes)

\* apply_layout: positions of tasks that exist
Placed(columns, positions) ==
    [t \in DOMAIN columns |-> IF t \in DOMAIN positions THEN positions[t] ELSE columns[t]]

-----------------------------------------------------------------------------
Dirty == revision # saved

\* _changed
Touch(n) == revision' = revision + n

Edit(entries, columns) ==
    /\ tasks' = entries /\ at' = columns
    /\ Touch(1)
    /\ UNCHANGED <<file, layout, header, saved, notes>>

SetHeader(name) ==
    /\ header' = name
    /\ Touch(1)
    /\ UNCHANGED <<file, layout, tasks, at, saved, notes>>

\* The new task has an ID of the caller or a free one made of its action.
AddTask(t, action) ==
    /\ t \in Names \ DOMAIN tasks
    /\ Edit([u \in DOMAIN tasks \union {t} |-> IF u = t THEN Spec(action, "none", {}, {}) ELSE tasks[u]],
            [u \in DOMAIN tasks \union {t} |-> IF u = t THEN 0 ELSE at[u]])

Remaining(t) == [u \in DOMAIN tasks \ {t} |-> [tasks[u] EXCEPT !.deps = @ \ {t}]]

RemoveTask(t) == t \in DOMAIN tasks /\ Edit(Remaining(t), [u \in DOMAIN tasks \ {t} |-> at[u]])

Renamed(set, old, new) == {IF u = old THEN new ELSE u : u \in set}

\* _renamed_references for the arguments
RenamedTask(spec, old, new) == [spec EXCEPT !.deps = Renamed(@, old, new), !.refs = Renamed(@, old, new)]

RenameTask(old, new) ==
    LET former(u) == IF u = new THEN old ELSE u IN
    /\ old \in DOMAIN tasks /\ new \in Names \ DOMAIN tasks
    /\ Edit([u \in Renamed(DOMAIN tasks, old, new) |-> RenamedTask(tasks[former(u)], old, new)],
            [u \in Renamed(DOMAIN tasks, old, new) |-> at[former(u)]])

SetAction(t, action) == t \in DOMAIN tasks /\ Edit([tasks EXCEPT ![t].action = action], at)

SetArguments(t, refs) == t \in DOMAIN tasks /\ Edit([tasks EXCEPT ![t].refs = refs], at)

\* set_retry, set_timeout, set_condition, set_idempotency_key: values are not checked here
SetField(t, field) == t \in DOMAIN tasks /\ Edit([tasks EXCEPT ![t].field = field], at)

RECURSIVE Above(_, _, _)

Above(entries, stack, seen) ==
    LET next == (UNION {entries[u].deps : u \in stack \intersect DOMAIN entries}) \ seen
    IN  IF next = {} THEN seen ELSE Above(entries, next, seen \union next)

Reaches(entries, start, goal) == goal \in Above(entries, {start}, {start})

\* connect raises for an unknown task, a self dependency and a cycle.
Refused(entries, up, down) ==
    \/ {up, down} \ DOMAIN entries # {}
    \/ up = down
    \/ up \notin entries[down].deps /\ Reaches(entries, up, down)

Connect(up, down) ==
    /\ ~Refused(tasks, up, down)
    /\ up \notin tasks[down].deps
    /\ Edit([tasks EXCEPT ![down].deps = @ \union {up}], at)

Disconnect(up, down) ==
    /\ down \in DOMAIN tasks /\ up \in tasks[down].deps
    /\ Edit([tasks EXCEPT ![down].deps = @ \ {up}], at)

\* The unwanted edges go first; the connect that raises leaves those made before it.
SetDependencies(t, wanted) ==
    LET kept == [tasks EXCEPT ![t].deps = @ \intersect ToSet(wanted)]
        connect(acc, up) ==
            IF acc.raised \/ Refused(acc.tasks, up, t) THEN [acc EXCEPT !.raised = TRUE]
            ELSE IF up \in acc.tasks[t].deps THEN acc
            ELSE [acc EXCEPT !.tasks[t].deps = @ \union {up}, !.made = @ + 1]
        after == FoldLeft(connect, [tasks |-> kept, raised |-> FALSE, made |-> 0], wanted)
    IN  /\ t \in DOMAIN tasks
        /\ tasks' = after.tasks
        /\ Touch(Cardinality(tasks[t].deps \ ToSet(wanted)) + after.made)
        /\ UNCHANGED <<file, layout, header, at, saved, notes>>

SetPosition(t, column) == t \in DOMAIN tasks /\ at[t] # column /\ Edit(tasks, [at EXCEPT ![t] = column])

AutoLayout == Edit(tasks, Levels(tasks))

-----------------------------------------------------------------------------
(* Files *)

\* load: from_definition lays the tasks out, the sidecar then places those it knows.
Load(document) ==
    LET entries == ReadTasks(document) IN
    /\ header' = ReadName(document)
    /\ tasks' = entries
    /\ at' = Placed(Levels(entries), layout)
    /\ notes' = ValidateDefinition(document)
    /\ revision' = 0
    /\ saved' = 0

NewDraft ==
    /\ header' = "ok" /\ tasks' = <<>> /\ at' = <<>> /\ notes' = {} /\ revision' = 0 /\ saved' = 0
    /\ UNCHANGED <<file, layout>>

Reopen == file # <<>> /\ Load(file) /\ UNCHANGED <<file, layout>>

SavedMark(done) == IF done = "both" THEN revision ELSE saved

\* save: the definition, the layout, then mark_saved; a write that fails stops it.
Save(done) ==
    /\ file' = ToDefinition(header, tasks)
    /\ layout' = IF done = "both" THEN at ELSE layout
    /\ saved' = SavedMark(done)
    /\ UNCHANGED <<header, tasks, at, revision, notes>>

DraftInit ==
    /\ file \in Documents
    /\ layout = <<>>
    /\ header = ReadName(file)
    /\ tasks = ReadTasks(file)
    /\ at = Levels(tasks)
    /\ notes = ValidateDefinition(file)
    /\ revision = 0 /\ saved = 0 /\ made = 0

Call ==
    \/ \E name \in {"ok", "blank"} : name # header /\ SetHeader(name)
    \/ \E t \in Names, action \in {"ok", "empty"} : AddTask(t, action) \/ SetAction(t, action)
    \/ \E t \in Names : RemoveTask(t)
    \/ \E t, u \in Names : RenameTask(t, u) \/ Connect(t, u) \/ Disconnect(t, u)
    \/ \E t \in Names, r \in Names \union {Malformed} : SetArguments(t, {r})
    \/ \E t \in Names, field \in {"none", "ok", "value"} : SetField(t, field)
    \/ \E t, u, v \in Names : u # v /\ SetDependencies(t, <<u, v>>)
    \/ \E t \in Names, column \in 0..1 : SetPosition(t, column)
    \/ AutoLayout \/ NewDraft \/ Reopen
    \/ \E done \in {"definition", "both"} : Save(done)

DraftNext == made < MaxEdits /\ made' = made + 1 /\ Call

-----------------------------------------------------------------------------
\* Some order of the tasks puts every task after all it depends on.
Ordered(graph) ==
    \E rank \in [DOMAIN graph -> 0..Cardinality(DOMAIN graph)] :
        \A t \in DOMAIN graph : \A d \in ToSet(graph[t]) : d \in DOMAIN graph /\ rank[d] < rank[t]

\* A draft that started empty or from a document without problems never holds a dependency that is
\* unknown or closes a cycle, whatever sequence of edits, refused ones included, was made, and the
\* canvas then shows every task right of what it depends on when it is laid out.
DraftGraphSound ==
    LET graph == Graph(ToDefinition(header, tasks)) IN
    notes = {} =>
        /\ Ordered(graph)
        /\ TaskLevels(graph).levels = Levels(tasks)

\* validate_definition accepts exactly the documents whose tasks can be put in an order, whose
\* placeholders name tasks that have ended by then on every order, and whose fields are all good;
\* and task_levels can order exactly those graphs.
ValidationExact ==
    \A document \in {file, ToDefinition(header, tasks)} :
        LET graph == Graph(document)
            orders == {rank \in [DOMAIN graph -> 1..Cardinality(DOMAIN graph)] :
                          \A t \in DOMAIN graph : \A d \in ToSet(graph[t]) :
                              d \in DOMAIN graph => rank[d] < rank[t]}
            good(t) == LET spec == document.tasks[t] IN
                /\ spec.action = "ok" /\ spec.field \in {"none", "ok"}
                /\ Cardinality(ToSet(spec.deps)) = Len(spec.deps)
                /\ \A r \in spec.refs : r \in DOMAIN graph /\ \A rank \in orders : rank[r] < rank[t]
        IN  ValidateDefinition(document) = {} <=>
                /\ document.version /\ document.name = "ok"
                /\ document.tasks # <<>> /\ DOMAIN document.tasks \subseteq Names
                /\ \A t \in DOMAIN document.tasks : good(t)
                /\ Ordered(graph) /\ TaskLevels(graph).left = {}

\* A draft that is not marked as modified is what opening its file would show: the name, the tasks
\* and their places, unless the file had problems when it was read.
CleanMeansSaved ==
    ~Dirty /\ notes = {} /\ (revision > 0 \/ saved > 0) =>
        /\ header = ReadName(file) /\ tasks = ReadTasks(file)
        /\ at = Placed(Levels(tasks), layout)

\* Renaming a task, or making a further dependency, leaves a valid draft valid.
RenameKeepsValid ==
    (\E t, u \in Names : RenameTask(t, u) \/ Connect(t, u)) /\ ValidateDefinition(ToDefinition(header, tasks)) = {}
        => ValidateDefinition(ToDefinition(header', tasks')) = {}
=============================================================================
